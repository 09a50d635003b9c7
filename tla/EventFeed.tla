------------------------------ MODULE EventFeed ------------------------------
(***************************************************************************)
(* What the event loop of linx_apd promises to whoever writes rules,       *)
(* without ring, slot or poll: a lossy feed.  The rules are fixed before   *)
(* the first event; events are looked at in the order they were emitted,   *)
(* none twice, though some are passed over; and an event that is looked at *)
(* raises at most one alert, in the name of the first rule that accepts    *)
(* it, before the next one is looked at.                                   *)
(***************************************************************************)
EXTENDS Integers, Sequences

CONSTANTS Rules, Types, Hits, NULL

VARIABLES
    armed,          \* the rules are loaded
    rules,          \* sequence of records: a rule and whose condition it has
    emitted,        \* number of events emitted
    seen,           \* the event looked at last, or NULL
    raised          \* the alerts

vars == <<armed, rules, emitted, seen, raised>>

Event == [num : Nat, type : Types, big : BOOLEAN]

SeenNum == IF seen = NULL THEN 0 ELSE seen.num

LastAlert == IF raised = <<>> THEN 0 ELSE raised[Len(raised)].event.num

Accepts(k) == seen.type \in Hits[rules[k].match]

Init ==
    /\ armed = FALSE /\ rules = <<>>
    /\ emitted = 0 /\ seen = NULL /\ raised = <<>>

-------------------------------------------------------------------------------
AddRule ==
    /\ ~armed
    /\ \E r, m \in Rules : rules' = Append(rules, [rule |-> r, match |-> m])
    /\ UNCHANGED <<armed, emitted, seen, raised>>

Arm ==
    /\ ~armed /\ armed' = TRUE
    /\ UNCHANGED <<rules, emitted, seen, raised>>

Emit ==
    /\ armed
    /\ emitted' = emitted + 1
    /\ UNCHANGED <<armed, rules, seen, raised>>

Look ==
    /\ armed
    /\ seen' \in Event
    /\ SeenNum < seen'.num /\ seen'.num <= emitted
    /\ UNCHANGED <<armed, rules, emitted, raised>>

Raise(i) ==
    /\ armed /\ seen # NULL
    /\ LastAlert < seen.num
    /\ i \in DOMAIN rules /\ Accepts(i)
    /\ \A k \in 1 .. i - 1 : ~Accepts(k)
    /\ raised' = Append(raised, [rule |-> rules[i].rule, index |-> i, event |-> seen])
    /\ UNCHANGED <<armed, rules, emitted, seen>>

Next == AddRule \/ Arm \/ Emit \/ Look \/ \E i \in DOMAIN rules : Raise(i)

Spec == Init /\ [][Next]_vars
==============================================================================
