-------------------------------- MODULE Detect --------------------------------
(***************************************************************************)
(* The main thread of linx_apd from the loading of the rules on: the       *)
(* loader (linx_rule_engine_load.c, linx_rule_engine_set.c) and the event  *)
(* loop (linx_apd.c), which polls the eBPF ring (linx_ebpf_ringbuf.c),     *)
(* enriches the event (linx_event_rich.c) and matches the rules.           *)
(*                                                                         *)
(* A condition is what the loader distinguishes: it compiles, it has a     *)
(* tree but no matcher, or it has no tree; what it means is Condition's    *)
(* subject.  Memory never runs out here.                                   *)
(***************************************************************************)
EXTENDS Integers, Sequences

CONSTANTS
    Rules,
    Tree,           \* per rule: "matcher", "null" (a part of it does not
                    \* parse) or "none" (no tree at all, or no condition)
    Hits,           \* per rule whose condition compiles, the types it accepts
    Directories,    \* what the rules path may hold: sequences of files, a
                    \* file a sequence of rules or NULL (not readable as YAML)
    Types,          \* event types
    Params,         \* per type, for each parameter whether linx_event_rich
                    \* allocates it ("heap") or points into the event ("slot")
    MaxParams,
    RingSize,       \* events the eBPF ring holds
    MaxEvents,      \* bound on the events of a behaviour
    NULL

Event == [num : Nat, type : Types, big : BOOLEAN]

ASSUME DetectAssumption ==
    /\ Tree \in [Rules -> {"matcher", "null", "none"}]
    /\ Hits \in [Rules -> SUBSET Types]
    /\ \A d \in Directories : d \in Seq(Seq(Rules) \cup {NULL})
    /\ MaxParams \in Nat
    /\ Params \in [Types -> Seq({"heap", "slot"})]
    /\ \A t \in Types : Len(Params[t]) <= MaxParams
    /\ RingSize \in Nat /\ MaxEvents \in Nat
    /\ NULL \notin Rules /\ NULL \notin Seq(Rules) /\ NULL \notin Event

VARIABLES
    phase,      \* load; failed (main goes to out); poll, reading (inside
                \* ring_buffer__poll), rich, match; undefined
    dir,        \* what the rules path holds
    at,         \* the next file to load
    todo,       \* rules of the open file still to add, NULL between files
    match,      \* linx_rule_engine_add_rule_to_set's local, kept across rules
    ret,        \* what adding the last rule returned
    rule_set,   \* sequence of records: a rule and the rule whose condition
                \* its matcher was compiled from
    ring,       \* events in the eBPF ring, oldest first
    produced,   \* number of events that entered the ring
    slot,       \* g_ringbuf_data, NULL before the first event
    got,        \* whether this poll's callback took an event
    data,       \* per parameter, what evt.arg.data points to
    evt,        \* the event evt describes
    alerts      \* sequence of what was handed to linx_alert_send_async

loadVars == <<dir, at, todo, match, ret, rule_set>>
pollVars == <<ring, produced, slot, got>>
richVars == <<data, evt>>
vars == <<phase, loadVars, pollVars, richVars, alerts>>

Init ==
    /\ phase = "load"
    /\ dir \in Directories /\ at = 1
    /\ todo = NULL /\ match = NULL /\ ret = 0
    /\ rule_set = <<>>
    /\ ring = <<>> /\ produced = 0
    /\ slot = NULL /\ got = FALSE
    /\ data = [i \in 1..MaxParams |-> "null"]
    /\ evt = NULL
    /\ alerts = <<>>

-------------------------------------------------------------------------------
(***************************************************************************)
(* linx_rule_engine_load.  A regular file is a directory of one.           *)
(* Definitions named Bad... are faults: plausible slips in the definition  *)
(* that follows them.                                                      *)
(***************************************************************************)
OpenFile ==
    /\ phase = "load" /\ todo = NULL
    /\ at <= Len(dir) /\ dir[at] # NULL
    /\ todo' = dir[at]
    /\ at' = at + 1
    /\ match' = NULL
    /\ ret' = 0
    /\ UNCHANGED <<phase, dir, rule_set, pollVars, richVars, alerts>>

\* The first file that fails ends the loading.
OpenFails ==
    /\ phase = "load" /\ todo = NULL
    /\ at <= Len(dir) /\ dir[at] = NULL
    /\ phase' = "failed"
    /\ UNCHANGED <<loadVars, pollVars, richVars, alerts>>

BadCompiled(r) == IF match = NULL THEN r ELSE match

\* linx_compile_ast leaves the previous rule's matcher where there is no tree.
Compiled(r) ==
    CASE Tree[r] = "matcher" -> r
      [] Tree[r] = "null" -> NULL
      [] Tree[r] = "none" -> match

Added(r, m) ==
    IF m = NULL THEN rule_set ELSE Append(rule_set, [rule |-> r, match |-> m])

\* Only linx_rule_set_add's result survives the iteration.
AddRule ==
    /\ phase = "load" /\ todo # NULL /\ todo # <<>>
    /\ LET r == Head(todo) IN
          /\ match' = Compiled(r)
          /\ rule_set' = Added(r, Compiled(r))
          /\ ret' = IF Compiled(r) = NULL THEN -1 ELSE 0
    /\ todo' = Tail(todo)
    /\ UNCHANGED <<phase, dir, at, pollVars, richVars, alerts>>

FileDone ==
    /\ phase = "load" /\ todo = <<>>
    /\ phase' = IF ret = 0 THEN "load" ELSE "failed"
    /\ todo' = NULL
    /\ UNCHANGED <<dir, at, match, ret, rule_set, pollVars, richVars, alerts>>

\* linx_engine_init may fail.
LoadDone ==
    /\ phase = "load" /\ todo = NULL /\ at > Len(dir)
    /\ phase' \in {"poll", "failed"}
    /\ UNCHANGED <<loadVars, pollVars, richVars, alerts>>

-------------------------------------------------------------------------------
(***************************************************************************)
(* linx_engine_next.  ring_buffer__poll calls linx_handle_event for every  *)
(* event until the ring is empty, while the kernel goes on filling it; an  *)
(* event larger than the slot makes it return at once.                     *)
(***************************************************************************)
InLoop == phase \in {"poll", "reading", "rich", "match"}

Submit(type, big) ==
    /\ InLoop
    /\ produced < MaxEvents
    /\ Len(ring) < RingSize
    /\ produced' = produced + 1
    /\ ring' = Append(ring, [num |-> produced + 1, type |-> type, big |-> big])
    /\ UNCHANGED <<phase, loadVars, slot, got, richVars, alerts>>

PollBegin ==
    /\ phase = "poll"
    /\ phase' = "reading"
    /\ got' = FALSE
    /\ UNCHANGED <<loadVars, ring, produced, slot, richVars, alerts>>

HandleEvent ==
    /\ phase = "reading"
    /\ ring # <<>> /\ ~Head(ring).big
    /\ slot' = Head(ring)
    /\ ring' = Tail(ring)
    /\ got' = TRUE
    /\ UNCHANGED <<phase, loadVars, produced, richVars, alerts>>

BadHandleTooBig ==
    /\ phase = "reading"
    /\ ring # <<>> /\ Head(ring).big
    /\ phase' = "poll"
    /\ UNCHANGED <<loadVars, pollVars, richVars, alerts>>

\* What the callback took before in this poll is passed over.
HandleTooBig ==
    /\ phase = "reading"
    /\ ring # <<>> /\ Head(ring).big
    /\ ring' = Tail(ring)
    /\ phase' = "poll"
    /\ UNCHANGED <<loadVars, produced, slot, got, richVars, alerts>>

BadPolled == slot # NULL

\* *event is set only when the poll returned a positive count.
Polled == got

PollEnds ==
    /\ phase = "reading"
    /\ ring = <<>>
    /\ phase' = IF Polled THEN "rich" ELSE "poll"
    /\ UNCHANGED <<loadVars, pollVars, richVars, alerts>>

-------------------------------------------------------------------------------
(***************************************************************************)
(* linx_event_rich.  rich_event_clean frees what evt.arg.data holds at the *)
(* places where the NEW event has a user or a process id, whatever the     *)
(* event before left there; freeing a pointer into g_ringbuf_data is       *)
(* undefined.  Any other place is overwritten unfreed.                     *)
(***************************************************************************)
Freed(type) == {i \in DOMAIN Params[type] : Params[type][i] = "heap"}

Rich ==
    /\ phase = "rich"
    /\ \A i \in Freed(slot.type) : data[i] # "slot"
    /\ data' = [i \in 1..MaxParams |->
                   IF i \in DOMAIN Params[slot.type] THEN Params[slot.type][i]
                                                     ELSE data[i]]
    /\ evt' = slot
    /\ phase' = "match"
    /\ UNCHANGED <<loadVars, pollVars, alerts>>

RichUndefined ==
    /\ phase = "rich"
    /\ \E i \in Freed(slot.type) : data[i] = "slot"
    /\ phase' = "undefined"
    /\ UNCHANGED <<loadVars, pollVars, richVars, alerts>>

-------------------------------------------------------------------------------
(***************************************************************************)
(* linx_rule_set_match_rule: the first rule that matches raises the alert, *)
(* whose text is formatted from evt before it is queued.                   *)
(***************************************************************************)
Accepting == {i \in DOMAIN rule_set : evt.type \in Hits[rule_set[i].match]}

MatchRule ==
    /\ phase = "match"
    /\ \E i \in Accepting :
          /\ \A j \in Accepting : i <= j
          /\ alerts' = Append(alerts, [rule |-> rule_set[i].rule, index |-> i,
                                       event |-> evt])
    /\ phase' = "poll"
    /\ UNCHANGED <<loadVars, pollVars, richVars>>

MatchNothing ==
    /\ phase = "match"
    /\ Accepting = {}
    /\ phase' = "poll"
    /\ UNCHANGED <<loadVars, pollVars, richVars, alerts>>

-------------------------------------------------------------------------------
Load == OpenFile \/ OpenFails \/ AddRule \/ FileDone \/ LoadDone

Loop ==
    \/ PollBegin \/ HandleEvent \/ HandleTooBig \/ PollEnds
    \/ Rich \/ RichUndefined \/ MatchRule \/ MatchNothing

Kernel == \E type \in Types, big \in BOOLEAN : Submit(type, big)

Next == Load \/ Loop \/ Kernel

Spec == Init /\ [][Next]_vars

(***************************************************************************)
(* The main thread runs; the kernel need not produce anything.             *)
(***************************************************************************)
FairSpec == Spec /\ WF_vars(Load \/ Loop)

-------------------------------------------------------------------------------
(***************************************************************************)
(* Type invariant.                                                         *)
(***************************************************************************)
TypeOK ==
    /\ phase \in {"load", "failed", "poll", "reading", "rich", "match",
                  "undefined"}
    /\ dir \in Directories
    /\ at \in 1..(Len(dir) + 1)
    /\ todo \in Seq(Rules) \cup {NULL}
    /\ match \in Rules \cup {NULL}
    /\ ret \in {0, -1}
    /\ rule_set \in Seq([rule : Rules, match : Rules])
    /\ ring \in Seq(Event)
    /\ produced \in 0..MaxEvents
    /\ slot \in Event \cup {NULL}
    /\ got \in BOOLEAN
    /\ data \in [1..MaxParams -> {"null", "heap", "slot"}]
    /\ evt \in Event \cup {NULL}
    /\ alerts \in Seq([rule : Rules, index : Nat, event : Event])

(***************************************************************************)
(* Rules that do not parse cannot displace those that do: every rule whose *)
(* condition compiles, of every file that was loaded, is in the set with   *)
(* its own matcher, whatever the rules around it left in the loader's      *)
(* locals, and a rule with a part that does not parse is not in the set.   *)
(* Of a rule without any tree nothing is said: it may be in the set with   *)
(* the matcher of the rule before it, which is then destroyed twice.       *)
(***************************************************************************)
WellFormedKept ==
    todo = NULL =>
        \A f \in 1..(at - 1) : \A k \in DOMAIN dir[f] :
            Tree[dir[f][k]] = "matcher" =>
                \E i \in DOMAIN rule_set :
                    rule_set[i] = [rule |-> dir[f][k], match |-> dir[f][k]]

OwnMatcher(e) ==
    /\ Tree[e.rule] = "matcher" => e.match = e.rule
    /\ Tree[e.rule] # "null"

RulesKept ==
    /\ WellFormedKept
    /\ \A i \in DOMAIN rule_set : OwnMatcher(rule_set[i])

(***************************************************************************)
(* Alerts are raised in the order of the ring, at most one for an event,   *)
(* although the poll overwrites one slot; and each is raised by the first  *)
(* of the loaded rules that accepts its event.                             *)
(***************************************************************************)
AlertsInOrder ==
    /\ \A i, j \in DOMAIN alerts :
          i < j => alerts[i].event.num < alerts[j].event.num
    /\ \A i \in DOMAIN alerts :
          /\ alerts[i].index \in DOMAIN rule_set
          /\ \A k \in 1..alerts[i].index :
                alerts[i].event.type \in Hits[rule_set[k].match]
                    <=> k = alerts[i].index

(***************************************************************************)
(* The pipeline from the ring over the one slot to the alerts is a lossy   *)
(* feed: it passes events over and never goes back, and an alert is about  *)
(* the event looked at last and raised by the first of the rules that were *)
(* loaded before the loop began.                                           *)
(***************************************************************************)
Armed == phase \notin {"load", "failed"}

Feed == INSTANCE EventFeed WITH
    armed <- Armed, rules <- rule_set, emitted <- produced, seen <- evt,
    raised <- alerts

ImplementsFeed == Feed!Spec

(***************************************************************************)
(* The one slot of the poll is never stale where it is used: the event     *)
(* that linx_event_rich reads, and the one the rules see, is the last that *)
(* left the ring, so that every event the kernel produced after it is      *)
(* still in the ring, and it was not enriched before.                      *)
(***************************************************************************)
LastRead == produced - Len(ring)

EnrichedIsNewest ==
    /\ phase = "rich" =>
          /\ slot.num = LastRead
          /\ evt # NULL => evt.num < LastRead
    /\ phase = "match" => evt.num = LastRead

(***************************************************************************)
(* Every step of the loop brings the newest event nearer to enrichment, or *)
(* drops it with an event it could not take: how far it is counts what is  *)
(* before it in the ring and what the loop has to finish first.  Only the  *)
(* kernel, with a newer event, makes it more.                              *)
(***************************************************************************)
ToGo ==
    CASE ring # <<>> ->
            4 * Len(ring) + 2
              + (CASE phase = "rich" -> 4 [] phase = "match" -> 3
                   [] phase = "poll" -> 2 [] OTHER -> 1)
      [] ring = <<>> /\ phase = "reading" /\ got -> 2
      [] ring = <<>> /\ phase = "rich" -> 1
      [] OTHER -> 0

Nearer ==
    InLoop /\ ToGo > 0 /\ produced' = produced =>
        ToGo' < ToGo \/ phase' = "undefined"

LoopAdvances == [][Nearer]_vars

(***************************************************************************)
(* The newest event is never stranded: once the kernel falls silent, an    *)
(* event of the ring has been enriched, or one behind it has, or the loop  *)
(* ran into an event it could not take or into the undefined free.         *)
(***************************************************************************)
Passed(n) ==
    \/ evt # NULL /\ evt.num >= n
    \/ phase = "undefined"

NewestSeen ==
    \A n \in 1..MaxEvents :
        (\E i \in DOMAIN ring : ring[i].num = n /\ ~ring[i].big)
            ~> (Passed(n) \/ produced > n)

(***************************************************************************)
(* src/README.md:1430: the event loop is an endless loop of the main       *)
(* process.                                                                *)
(***************************************************************************)
LoopGoesOn == phase # "undefined"
===============================================================================
