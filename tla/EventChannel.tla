----------------------------- MODULE EventChannel -----------------------------
(***************************************************************************)
(* What the kernel module's ring promises its reader: a bounded first-in   *)
(* first-out channel.  Events are E bytes long and identified by their     *)
(* place in the stream of bytes, so the reader gets every accepted event   *)
(* once, whole and in order when last always equals what it has received.  *)
(* The promise ends when the channel is overrun; KmodRing's SpaceExact     *)
(* says what overruns it.                                                  *)
(***************************************************************************)
EXTENDS Integers

CONSTANTS
    E,              \* bytes per event
    Capacity        \* bytes the channel holds at most

VARIABLES
    sent,           \* bytes accepted
    received,       \* bytes the reader has taken
    last,           \* the stream position after the event taken last
    overran         \* an event was accepted without room for it

vars == <<sent, received, last, overran>>

Init == sent = 0 /\ received = 0 /\ last = 0 /\ overran = FALSE

Send ==
    /\ sent + E - received <= Capacity
    /\ sent' = sent + E
    /\ UNCHANGED <<received, last, overran>>

Receive ==
    /\ received + E <= sent
    /\ received' = received + E
    /\ last' = received + E
    /\ UNCHANGED <<sent, overran>>

\* The first overrun takes nothing and gives nothing; after it, anything goes.
Overrun ==
    /\ overran' = TRUE
    /\ overran \/ UNCHANGED <<sent, received, last>>

Next == \/ ~overran /\ (Send \/ Receive)
        \/ Overrun

Spec == Init /\ [][Next]_vars
===============================================================================
