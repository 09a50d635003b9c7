----------------------------- MODULE Reclamation -----------------------------
(***************************************************************************)
(* What the device promises about the memory of its consumers: deferred    *)
(* reclamation.  An object passes once through its stages; readers take    *)
(* references to listed objects only and keep them as long as they like;   *)
(* an object gives up its memory when it is off the list and nobody refers *)
(* to it any more.  No lock, no file and no grace period is mentioned.     *)
(***************************************************************************)
CONSTANTS Objs, CPUs

VARIABLES
    stage,          \* none, listed, unlinked, emptied or freed
    held            \* per reader, the objects it may still touch

vars == <<stage, held>>

Init ==
    /\ stage = [o \in Objs |-> "none"]
    /\ held = [c \in CPUs |-> {}]

Move(o, from, to) ==
    /\ stage[o] = from
    /\ stage' = [stage EXCEPT ![o] = to]
    /\ UNCHANGED held

List(o) == Move(o, "none", "listed")

Unlist(o) == Move(o, "listed", "unlinked")

Empty(o) ==
    /\ \A c \in CPUs : o \notin held[c]
    /\ Move(o, "unlinked", "emptied")

Free(o) == Move(o, "emptied", "freed")

Acquire(c) ==
    /\ held[c] = {}
    /\ held' = [held EXCEPT ![c] = {o \in Objs : stage[o] = "listed"}]
    /\ UNCHANGED stage

Drop(c, o) ==
    /\ o \in held[c]
    /\ held' = [held EXCEPT ![c] = @ \ {o}]
    /\ UNCHANGED stage

Next ==
    \/ \E o \in Objs : List(o) \/ Unlist(o) \/ Empty(o) \/ Free(o)
    \/ \E c \in CPUs : Acquire(c) \/ \E o \in Objs : Drop(c, o)

Spec == Init /\ [][Next]_vars
==============================================================================
