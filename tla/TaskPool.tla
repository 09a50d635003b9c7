------------------------------- MODULE TaskPool -------------------------------
(***************************************************************************)
(* What linx_thread promises to its callers, without threads, locks or     *)
(* condition variables: tasks are accepted while the pool is open, started *)
(* in the order they were accepted, run at most once each, and only tasks  *)
(* that were never started may be discarded, after the pool was closed and *)
(* when nothing runs any more.                                             *)
(***************************************************************************)
EXTENDS Sequences

CONSTANT Tasks      \* the submissions of one run of the pool

VARIABLES
    backlog,        \* accepted and not started, oldest first
    running,        \* tasks whose function is being executed
    finished,       \* tasks that ran to their end
    open            \* FALSE once a shutdown began

vars == <<backlog, running, finished, open>>

Pending == {backlog[i] : i \in DOMAIN backlog}

Init ==
    /\ backlog = <<>>
    /\ running = {}
    /\ finished = {}
    /\ open = TRUE

Submit(t) ==
    /\ open
    /\ t \notin Pending \cup running \cup finished
    /\ backlog' = Append(backlog, t)
    /\ UNCHANGED <<running, finished, open>>

Start ==
    /\ backlog # <<>>
    /\ Head(backlog) \notin running \cup finished
    /\ backlog' = Tail(backlog)
    /\ running' = running \cup {Head(backlog)}
    /\ UNCHANGED <<finished, open>>

Finish(t) ==
    /\ t \in running
    /\ running' = running \ {t}
    /\ finished' = finished \cup {t}
    /\ UNCHANGED <<backlog, open>>

Close ==
    /\ open
    /\ open' = FALSE
    /\ UNCHANGED <<backlog, running, finished>>

Discard ==
    /\ ~open
    /\ running = {}
    /\ backlog' = <<>>
    /\ UNCHANGED <<running, finished, open>>

Next ==
    \/ \E t \in Tasks : Submit(t) \/ Finish(t)
    \/ Start
    \/ Close
    \/ Discard

Spec == Init /\ [][Next]_vars
===============================================================================
