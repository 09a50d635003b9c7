---------------------------- MODULE ProcessLedger ----------------------------
(***************************************************************************)
(* What the process cache promises about what it says of a pid, without    *)
(* pool, queue or lock.  A record stems from a sighting of the running     *)
(* process, which may reach the ledger late; an exit is noted only of a    *)
(* process that is not running, is final, and is not moved forward in time *)
(* by a sighting that comes after it; any record may be forgotten.         *)
(***************************************************************************)
EXTENDS Integers

CONSTANTS Pids

VARIABLES
    running,        \* per pid: a process has it
    sighted,        \* per pid: sightings on their way to the ledger
    state,          \* per pid: none, alive or dead
    age             \* per pid: for how long it has been dead

vars == <<running, sighted, state, age>>

Init ==
    /\ running \in [Pids -> BOOLEAN]
    /\ sighted = [p \in Pids |-> 0]
    /\ state = [p \in Pids |-> "none"]
    /\ age = [p \in Pids |-> 0]

-------------------------------------------------------------------------------
StartOrExit(p) ==
    /\ running' = [running EXCEPT ![p] = ~@]
    /\ UNCHANGED <<sighted, state, age>>

Sight(p) ==
    /\ running[p]
    /\ sighted' = [sighted EXCEPT ![p] = @ + 1]
    /\ UNCHANGED <<running, state, age>>

Lose(p) ==
    /\ sighted[p] > 0
    /\ sighted' = [sighted EXCEPT ![p] = @ - 1]
    /\ UNCHANGED <<running, state, age>>

Record(p) ==
    /\ sighted[p] > 0
    /\ sighted' = [sighted EXCEPT ![p] = @ - 1]
    /\ state' = [state EXCEPT ![p] = IF @ = "dead" THEN "dead" ELSE "alive"]
    /\ UNCHANGED <<running, age>>

\* At one moment for all pids, as are the next two.
NoteExits ==
    /\ \A p \in Pids :
          \/ state'[p] = state[p]
          \/ state[p] = "alive" /\ ~running[p] /\ state'[p] = "dead"
    /\ UNCHANGED <<running, sighted, age>>

Forget ==
    /\ \A p \in Pids :
          \/ state'[p] = state[p] /\ age'[p] = age[p]
          \/ state'[p] = "none" /\ age'[p] = 0
    /\ UNCHANGED <<running, sighted>>

GrowOlder ==
    /\ \A p \in Pids :
          \/ age'[p] = age[p]
          \/ state[p] = "dead" /\ age'[p] = age[p] + 1
    /\ UNCHANGED <<running, sighted, state>>

Next ==
    \/ \E p \in Pids : StartOrExit(p) \/ Sight(p) \/ Lose(p) \/ Record(p)
    \/ NoteExits \/ Forget \/ GrowOlder

Spec == Init /\ [][Next]_vars
==============================================================================
