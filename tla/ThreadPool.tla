------------------------------ MODULE ThreadPool ------------------------------
(***************************************************************************)
(* The worker pool of src/userspace/linx_thread/linx_thread_pool.c.        *)
(*                                                                         *)
(* Every field of linx_thread_pool_t is read and written under pool->lock  *)
(* and every thread->state under that thread's state_mutex, so one action  *)
(* is one critical section; a thread's program counter pc records which    *)
(* section comes next.  pthread_cond_wait splits a section: the waiters of *)
(* pool->notify are the threads whose pc is "waiting", the waiter of       *)
(* thread->pause_cond has pc "paused".  A woken thread takes the mutex     *)
(* again and re-evaluates its while condition, which is where pc "fetch"   *)
(* and pc "top" start.                                                     *)
(*                                                                         *)
(* Calls that return -1 (NULL arguments, a closed pool, malloc failure)    *)
(* change nothing and are stuttering steps.                                *)
(***************************************************************************)
EXTENDS Integers, Sequences, FiniteSets, Functions

CONSTANTS
    N,              \* num_threads, after linx_thread_pool_create's defaulting
    Tasks,          \* submissions: each stands for one linx_task_t
    Looping,        \* tasks whose function returns only when told to stop
    UninitRuning,   \* what malloc may leave in task_runing: NULL or Wild
    ControlPhases,  \* phases in which pause/resume/terminate may be called
    NULL,           \* the null pointer
    Wild            \* a non-null pointer to no task

Threads == 0 .. N - 1

States == {"RUNNING", "PAUSED", "TERMINATING", "TERMINATED"}

PCs == {"unborn", "lookup", "starting", "top", "paused", "fetch", "waiting",
        "run", "finish", "exit", "leave", "done"}

Phases == {"creating", "cancelling", "failed", "ready", "marking", "joining",
           "freed"}

ASSUME PoolAssumption ==
    /\ N \in Nat \ {0}
    /\ Looping \subseteq Tasks
    /\ UninitRuning \subseteq {NULL, Wild}
    /\ ControlPhases \subseteq {"ready", "marking", "joining"}
    /\ NULL \notin Tasks \cup Threads \cup {Wild}
    /\ Wild \notin Tasks

VARIABLES
    phase,          \* how far the owner's create or destroy call has come
    idx,            \* the loop variable i (or j) of that call
    lock_owner,     \* a thread that died holding pool->lock, or NULL
    cancelled,      \* threads pthread_cancel was called on
    pc,             \* where each worker is
    state,          \* threads[i].state
    cur,            \* the worker's local variable task
    queue,          \* the list from task_queue_head to task_queue_tail
    queue_size,
    task_runing,
    shutdown,
    active_threads,
    should_stop,    \* per task, the int its function polls
    life            \* per task: new, queued, running, done (ran and freed)
                    \* or dropped (freed without having run)

ownerVars == <<phase, idx, cancelled>>
threadVars == <<pc, state, cur>>
queueVars == <<queue, queue_size>>
taskVars == <<should_stop, life>>
vars == <<ownerVars, lock_owner, threadVars, queueVars, task_runing, shutdown,
          active_threads, taskVars>>

(***************************************************************************)
(* pool->lock can be taken: no thread died with it.                        *)
(***************************************************************************)
LockFree == lock_owner = NULL

(***************************************************************************)
(* The caller may still use the pool: create returned it and destroy has   *)
(* not freed it.                                                           *)
(***************************************************************************)
Usable == phase \in {"ready", "marking", "joining"}

At(w, l) == pc[w] = l
Goto(w, l) == pc' = [pc EXCEPT ![w] = l]

Waiting == {w \in Threads : pc[w] = "waiting"}
Fetching == {w \in Threads : pc[w] = "fetch"}
Busy == {w \in Threads : pc[w] \in {"run", "finish"}}
Alive == {w \in Threads : pc[w] # "done"}

Queued == Range(queue)

(***************************************************************************)
(* Definitions named Bad... are faults: plausible slips in the definition  *)
(* that follows them, which the properties below must detect.              *)
(*                                                                         *)
(* pthread_cond_signal and pthread_cond_broadcast on pool->notify, and     *)
(* pthread_cond_signal on a thread's pause_cond.                           *)
(***************************************************************************)
BadSignalNotify == pc' = pc

SignalNotify ==
    IF Waiting = {} THEN pc' = pc ELSE \E w \in Waiting : Goto(w, "fetch")

BadBroadcastNotify ==
    IF Waiting = {} THEN pc' = pc ELSE \E w \in Waiting : Goto(w, "fetch")

BroadcastNotify ==
    pc' = [w \in Threads |-> IF w \in Waiting THEN "fetch" ELSE pc[w]]

SignalPause(w) ==
    pc' = [pc EXCEPT ![w] = IF @ = "paused" THEN "top" ELSE @]

-------------------------------------------------------------------------------
(***************************************************************************)
(* linx_thread_pool_create.  Init is the state after the allocations;      *)
(* task_runing is the one field it does not assign.                        *)
(***************************************************************************)
Init ==
    /\ phase = "creating"
    /\ idx = 0
    /\ lock_owner = NULL
    /\ cancelled = {}
    /\ pc = [w \in Threads |-> "unborn"]
    /\ state = [w \in Threads |-> "RUNNING"]
    /\ cur = [w \in Threads |-> NULL]
    /\ queue = <<>>
    /\ queue_size = 0
    /\ task_runing \in UninitRuning
    /\ shutdown = 0
    /\ active_threads = N
    /\ should_stop = [t \in Tasks |-> 0]
    /\ life = [t \in Tasks |-> "new"]

SpawnThread ==
    /\ phase = "creating"
    /\ Goto(idx, "lookup")
    /\ idx' = idx + 1
    /\ phase' = IF idx + 1 = N THEN "ready" ELSE "creating"
    /\ UNCHANGED <<cancelled, lock_owner, state, cur, queueVars, task_runing,
                   shutdown, active_threads, taskVars>>

BadSpawnFails ==
    /\ phase = "creating"
    /\ phase' = "ready"
    /\ UNCHANGED <<idx, cancelled, lock_owner, threadVars, queueVars,
                   task_runing, shutdown, active_threads, taskVars>>

\* pthread_create failed: cancel and join the threads created so far.
SpawnFails ==
    /\ phase = "creating"
    /\ phase' = "cancelling"
    /\ idx' = 0
    /\ UNCHANGED <<cancelled, lock_owner, threadVars, queueVars, task_runing,
                   shutdown, active_threads, taskVars>>

CancelThread ==
    /\ phase = "cancelling"
    /\ pc[idx] # "unborn"
    /\ idx \notin cancelled
    /\ cancelled' = cancelled \cup {idx}
    /\ UNCHANGED <<phase, idx, lock_owner, threadVars, queueVars, task_runing,
                   shutdown, active_threads, taskVars>>

JoinCancelled ==
    /\ phase = "cancelling"
    /\ idx \in cancelled
    /\ At(idx, "done")
    /\ idx' = idx + 1
    /\ UNCHANGED <<phase, cancelled, lock_owner, threadVars, queueVars,
                   task_runing, shutdown, active_threads, taskVars>>

CreateReturnsNull ==
    /\ phase = "cancelling"
    /\ At(idx, "unborn")
    /\ phase' = "failed"
    /\ UNCHANGED <<idx, cancelled, lock_owner, threadVars, queueVars,
                   task_runing, shutdown, active_threads, taskVars>>

-------------------------------------------------------------------------------
(***************************************************************************)
(* linx_thread_worker.                                                     *)
(***************************************************************************)
Lookup(w) ==
    /\ At(w, "lookup")
    /\ LockFree
    /\ Goto(w, "starting")
    /\ UNCHANGED <<ownerVars, lock_owner, state, cur, queueVars, task_runing,
                   shutdown, active_threads, taskVars>>

\* Unconditional: whatever state a caller has asked for meanwhile is lost.
SetRunning(w) ==
    /\ At(w, "starting")
    /\ Goto(w, "top")
    /\ state' = [state EXCEPT ![w] = "RUNNING"]
    /\ UNCHANGED <<ownerVars, lock_owner, cur, queueVars, task_runing, shutdown,
                   active_threads, taskVars>>

CheckState(w) ==
    /\ At(w, "top")
    /\ Goto(w, CASE state[w] = "PAUSED" -> "paused"
                 [] state[w] = "TERMINATING" -> "exit"
                 [] OTHER -> "fetch")
    /\ UNCHANGED <<ownerVars, lock_owner, state, cur, queueVars, task_runing,
                   shutdown, active_threads, taskVars>>

WaitForTask(w) ==
    /\ At(w, "fetch")
    /\ LockFree
    /\ queue_size = 0 /\ shutdown = 0
    /\ Goto(w, "waiting")
    /\ UNCHANGED <<ownerVars, lock_owner, state, cur, queueVars, task_runing,
                   shutdown, active_threads, taskVars>>

MustLeave == shutdown = 2 \/ (shutdown = 1 /\ queue_size = 0)

LeaveLoop(w) ==
    /\ At(w, "fetch")
    /\ LockFree
    /\ MustLeave
    /\ Goto(w, "exit")
    /\ UNCHANGED <<ownerVars, lock_owner, state, cur, queueVars, task_runing,
                   shutdown, active_threads, taskVars>>

BadUnlinkHead == UNCHANGED queue /\ queue_size' = queue_size - 1

UnlinkHead == queue' = Tail(queue) /\ queue_size' = queue_size - 1

\* The branch for a null head with queue_size # 0 is dead: see QueueCounted.
TakeTask(w) ==
    /\ At(w, "fetch")
    /\ LockFree
    /\ queue_size # 0 /\ ~MustLeave
    /\ queue # <<>>
    /\ cur' = [cur EXCEPT ![w] = Head(queue)]
    /\ UnlinkHead
    /\ task_runing' = Head(queue)
    /\ life' = [life EXCEPT ![Head(queue)] = "running"]
    /\ Goto(w, "run")
    /\ UNCHANGED <<ownerVars, lock_owner, state, shutdown, active_threads,
                   should_stop>>

\* The task function: a looping one polls *should_stop.
TaskReturns(w) ==
    /\ At(w, "run")
    /\ cur[w] \in Looping => should_stop[cur[w]] # 0
    /\ Goto(w, "finish")
    /\ UNCHANGED <<ownerVars, lock_owner, state, cur, queueVars, task_runing,
                   shutdown, active_threads, taskVars>>

BadClearRuning == UNCHANGED task_runing

ClearRuning == task_runing' = NULL

FreeTask(w) ==
    /\ At(w, "finish")
    /\ LockFree
    /\ ClearRuning
    /\ life' = [life EXCEPT ![cur[w]] = "done"]
    /\ cur' = [cur EXCEPT ![w] = NULL]
    /\ Goto(w, "top")
    /\ UNCHANGED <<ownerVars, lock_owner, state, queueVars, shutdown,
                   active_threads, should_stop>>

SetTerminated(w) ==
    /\ At(w, "exit")
    /\ state' = [state EXCEPT ![w] = "TERMINATED"]
    /\ Goto(w, "leave")
    /\ UNCHANGED <<ownerVars, lock_owner, cur, queueVars, task_runing, shutdown,
                   active_threads, taskVars>>

CountDown == active_threads' = active_threads - 1

DropActive(w) ==
    /\ At(w, "leave")
    /\ LockFree
    /\ CountDown
    /\ Goto(w, "done")
    /\ UNCHANGED <<ownerVars, lock_owner, state, cur, queueVars, task_runing,
                   shutdown, taskVars>>

\* pthread_cond_wait may return without a signal; a cancelled waiter ends
\* instead (Cancelled).
SpuriousWakeup(w) ==
    /\ pc[w] \in {"waiting", "paused"}
    /\ w \notin cancelled
    /\ Goto(w, IF At(w, "waiting") THEN "fetch" ELSE "top")
    /\ UNCHANGED <<ownerVars, lock_owner, state, cur, queueVars, task_runing,
                   shutdown, active_threads, taskVars>>

\* pthread_cond_wait is a cancellation point; it reacquires the mutex before
\* the thread ends, and nothing in the worker releases it.
Cancelled(w) ==
    /\ w \in cancelled
    /\ At(w, "waiting")
    /\ LockFree
    /\ lock_owner' = w
    /\ Goto(w, "done")
    /\ UNCHANGED <<ownerVars, state, cur, queueVars, task_runing, shutdown,
                   active_threads, taskVars>>

-------------------------------------------------------------------------------
(***************************************************************************)
(* Calls of the pool's users.                                              *)
(***************************************************************************)
BadLinkTail(t) == queue' = <<t>> \o queue /\ queue_size' = queue_size + 1

LinkTail(t) == queue' = Append(queue, t) /\ queue_size' = queue_size + 1

AddTask(t) ==
    /\ Usable
    /\ life[t] = "new"
    /\ LockFree
    /\ shutdown = 0
    /\ LinkTail(t)
    /\ should_stop' = [should_stop EXCEPT ![t] = 0]
    /\ life' = [life EXCEPT ![t] = "queued"]
    /\ SignalNotify
    /\ UNCHANGED <<ownerVars, lock_owner, state, cur, task_runing, shutdown,
                   active_threads>>

PauseThread(w) ==
    /\ phase \in ControlPhases
    /\ state[w] = "RUNNING"
    /\ state' = [state EXCEPT ![w] = "PAUSED"]
    /\ UNCHANGED <<ownerVars, lock_owner, pc, cur, queueVars, task_runing,
                   shutdown, active_threads, taskVars>>

ResumeThread(w) ==
    /\ phase \in ControlPhases
    /\ state[w] = "PAUSED"
    /\ state' = [state EXCEPT ![w] = "RUNNING"]
    /\ SignalPause(w)
    /\ UNCHANGED <<ownerVars, lock_owner, cur, queueVars, task_runing, shutdown,
                   active_threads, taskVars>>

TerminateThread(w) ==
    /\ phase \in ControlPhases
    /\ state[w] \in {"RUNNING", "PAUSED"}
    /\ state' = [state EXCEPT ![w] = "TERMINATING"]
    /\ SignalPause(w)
    /\ UNCHANGED <<ownerVars, lock_owner, cur, queueVars, task_runing, shutdown,
                   active_threads, taskVars>>

GetThreadState(w) == state[w]
GetQueueSize == queue_size
GetActiveThreads == N

-------------------------------------------------------------------------------
(***************************************************************************)
(* linx_thread_pool_destroy.  The store through an uninitialised           *)
(* task_runing hits no modelled state.                                     *)
(***************************************************************************)
Flagged(t) == t \in Queued \/ t = task_runing

DestroyBegin(graceful) ==
    /\ phase = "ready"
    /\ LockFree
    /\ shutdown = 0
    /\ shutdown' = IF graceful THEN 1 ELSE 2
    /\ should_stop' = [t \in Tasks |->
                          IF Flagged(t) THEN shutdown' ELSE should_stop[t]]
    /\ BroadcastNotify
    /\ phase' = "marking"
    /\ idx' = 0
    /\ UNCHANGED <<cancelled, lock_owner, state, cur, queueVars, task_runing,
                   active_threads, life>>

MarkThread ==
    /\ phase = "marking"
    /\ state' = [state EXCEPT ![idx] =
                    IF @ = "TERMINATED" THEN @ ELSE "TERMINATING"]
    /\ IF state[idx] = "PAUSED" THEN SignalPause(idx) ELSE pc' = pc
    /\ idx' = IF idx + 1 = N THEN 0 ELSE idx + 1
    /\ phase' = IF idx + 1 = N THEN "joining" ELSE "marking"
    /\ UNCHANGED <<cancelled, lock_owner, cur, queueVars, task_runing, shutdown,
                   active_threads, taskVars>>

Joined(w) == At(w, "done")

JoinThread ==
    /\ phase = "joining"
    /\ idx < N
    /\ Joined(idx)
    /\ idx' = idx + 1
    /\ UNCHANGED <<phase, cancelled, lock_owner, threadVars, queueVars,
                   task_runing, shutdown, active_threads, taskVars>>

FreePool ==
    /\ phase = "joining"
    /\ idx = N
    /\ phase' = "freed"
    /\ queue' = <<>>
    /\ life' = [t \in Tasks |-> IF t \in Queued THEN "dropped" ELSE life[t]]
    /\ UNCHANGED <<idx, cancelled, lock_owner, threadVars, queue_size,
                   task_runing, shutdown, active_threads, should_stop>>

-------------------------------------------------------------------------------
WorkerStep(w) ==
    \/ Lookup(w) \/ SetRunning(w) \/ CheckState(w) \/ WaitForTask(w)
    \/ LeaveLoop(w) \/ TakeTask(w) \/ TaskReturns(w) \/ FreeTask(w)
    \/ SetTerminated(w) \/ DropActive(w) \/ Cancelled(w)

CreateStep ==
    \/ SpawnThread \/ SpawnFails \/ CancelThread \/ JoinCancelled
    \/ CreateReturnsNull

DestroyStep == MarkThread \/ JoinThread \/ FreePool

ControlCall(w) == PauseThread(w) \/ ResumeThread(w) \/ TerminateThread(w)

Next ==
    \/ CreateStep
    \/ DestroyStep
    \/ \E graceful \in BOOLEAN : DestroyBegin(graceful)
    \/ \E t \in Tasks : AddTask(t)
    \/ \E w \in Threads : WorkerStep(w) \/ SpuriousWakeup(w) \/ ControlCall(w)

Spec == Init /\ [][Next]_vars

(***************************************************************************)
(* The kernel schedules every runnable thread, and pthread mutexes are not *)
(* held for ever by a live thread; callers are not obliged to call.        *)
(***************************************************************************)
Fairness ==
    /\ WF_vars(CreateStep)
    /\ WF_vars(DestroyStep)
    /\ \A w \in Threads : WF_vars(WorkerStep(w))

FairSpec == Spec /\ Fairness

-------------------------------------------------------------------------------
(***************************************************************************)
(* Type invariant: the ranges of the pool's and the threads' fields.       *)
(***************************************************************************)
TypeOK ==
    /\ phase \in Phases
    /\ idx \in 0 .. N
    /\ lock_owner \in Threads \cup {NULL}
    /\ cancelled \in SUBSET Threads
    /\ pc \in [Threads -> PCs]
    /\ state \in [Threads -> States]
    /\ cur \in [Threads -> Tasks \cup {NULL}]
    /\ queue \in Seq(Tasks)
    /\ queue_size \in Nat
    /\ task_runing \in Tasks \cup {NULL, Wild}
    /\ shutdown \in 0 .. 2
    /\ active_threads \in 0 .. N
    /\ should_stop \in [Tasks -> 0 .. 2]
    /\ life \in [Tasks -> {"new", "queued", "running", "done", "dropped"}]

(***************************************************************************)
(* queue_size is the length of the linked list whatever the interleaving   *)
(* of linx_thread_pool_add_task and the workers, so the worker's branch    *)
(* for a null head (lines 76-79) is dead; and the list holds each accepted *)
(* and unstarted task exactly once.                                        *)
(***************************************************************************)
QueueCounted ==
    phase # "freed" =>
        /\ queue_size = Len(queue)
        /\ \A t \in Tasks : t \in Queued <=> life[t] = "queued"
        /\ \A i, j \in DOMAIN queue : queue[i] = queue[j] => i = j

(***************************************************************************)
(* Two workers never execute the same linx_task_t, and a worker never      *)
(* executes one that was freed.                                            *)
(***************************************************************************)
ExclusiveExecution ==
    /\ \A w \in Busy : cur[w] \in Tasks /\ life[cur[w]] = "running"
    /\ \A v, w \in Busy : cur[v] = cur[w] => v = w

(***************************************************************************)
(* task_runing, which destroy writes through, is never left pointing to a  *)
(* freed task although all workers share the one field; and what create    *)
(* left in it uninitialised is there only as long as no task was taken, so *)
(* that one task is enough to make destroy safe.                           *)
(***************************************************************************)
RuningNotDangling ==
    /\ task_runing \in Tasks => \E w \in Busy : cur[w] = task_runing
    /\ task_runing = Wild =>
          \A t \in Tasks : life[t] \in {"new", "queued", "dropped"}

(***************************************************************************)
(* active_threads counts the workers that have not left, except where a    *)
(* failed create cancels them.                                             *)
(***************************************************************************)
ActiveCounted ==
    phase \notin {"cancelling", "failed"} =>
        active_threads = Cardinality(Alive)

(***************************************************************************)
(* No wakeup of pool->notify is lost: while a worker sleeps there, no      *)
(* shutdown has begun and for every queued task another worker is already  *)
(* on its way to the queue.                                                *)
(***************************************************************************)
NoLostWakeup ==
    Waiting # {} => shutdown = 0 /\ Len(queue) <= Cardinality(Fetching)

(***************************************************************************)
(* No wakeup of a pause_cond is lost: a worker sleeping there is still     *)
(* wanted paused, across resume, terminate and destroy.                    *)
(***************************************************************************)
NoLostResume == \A w \in Threads : At(w, "paused") => state[w] = "PAUSED"

(***************************************************************************)
(* Once destroy has swept the queue, every task still in it carries the    *)
(* stop flag: none slips in behind the sweep.                              *)
(***************************************************************************)
QueuedAreFlagged ==
    shutdown # 0 => \A t \in Queued : should_stop[t] = shutdown

(***************************************************************************)
(* The pool's memory and mutexes are gone only after every worker is.      *)
(***************************************************************************)
PoolOutlivesWorkers ==
    phase \in {"failed", "freed"} => \A w \in Threads : pc[w] \in {"unborn", "done"}

(***************************************************************************)
(* The owner's loops meet the threads where create and destroy expect      *)
(* them: threads come to life in index order, the joined ones are done,    *)
(* and only a failed create leaves pool->lock locked for ever, so no pool  *)
(* that was handed to a caller can.                                        *)
(***************************************************************************)
OwnerSound ==
    /\ phase \in {"creating", "marking"} => idx < N
    /\ phase = "creating" => \A w \in Threads : w < idx <=> pc[w] # "unborn"
    /\ phase \in {"cancelling", "joining"} =>
          \A w \in Threads : w < idx => At(w, "done")
    /\ phase = "cancelling" => idx < N /\ At(N - 1, "unborn")
    /\ phase \in {"ready", "marking", "joining", "freed"} =>
          \A w \in Threads : ~At(w, "unborn")
    /\ phase \in {"marking", "joining", "freed"} => shutdown # 0
    /\ \A v, w \in Threads : v < w /\ At(v, "unborn") => At(w, "unborn")
    /\ lock_owner # NULL \/ cancelled # {} => phase \in {"cancelling", "failed"}
    /\ phase \in {"creating", "cancelling", "failed"} =>
          shutdown = 0 /\ \A w \in Threads :
              state[w] = "RUNNING" /\ pc[w] \notin {"paused", "exit", "leave"}

(***************************************************************************)
(* The pool as a whole is consistent whatever workers, callers and owner   *)
(* interleave: the list, its count and the tasks' lives agree, no task is  *)
(* executed twice, active_threads counts the live workers, every queued    *)
(* task learns of a shutdown, and the owner's loops find the threads they  *)
(* expect.  No part is inductive by itself; ThreadPoolProofs proves that   *)
(* the conjunction is.                                                     *)
(***************************************************************************)
IInv ==
    /\ TypeOK
    /\ OwnerSound
    /\ QueueCounted
    /\ ExclusiveExecution
    /\ RuningNotDangling
    /\ ActiveCounted
    /\ NoLostWakeup
    /\ NoLostResume
    /\ QueuedAreFlagged
    /\ PoolOutlivesWorkers

(***************************************************************************)
(* The pool implements TaskPool: first-in first-out start, each task at    *)
(* most once, none accepted after a shutdown began and none discarded that *)
(* had started.                                                            *)
(***************************************************************************)
Abstract == INSTANCE TaskPool WITH
    backlog  <- queue,
    running  <- {cur[w] : w \in Busy},
    finished <- {t \in Tasks : life[t] = "done"},
    open     <- shutdown = 0

ImplementsTaskPool == Abstract!Spec

(***************************************************************************)
(* While destroy joins the workers none of them sleeps on a condition      *)
(* variable or waits for a lock that nobody will release, whatever the     *)
(* interleaving of its broadcast and its marks with workers that start,    *)
(* test their state or go to sleep.  A caller that pauses workers of a     *)
(* pool it destroys is outside of this: the runs and the theorem have      *)
(* ControlPhases without "marking" and "joining".                          *)
(***************************************************************************)
JoinUnblocked ==
    phase = "joining" =>
        LockFree /\ \A w \in Threads : pc[w] \notin {"unborn", "waiting", "paused"}

\* Why nobody sleeps on pause_cond then: the mark takes PAUSED away for good.
MarkedAwake ==
    \A w \in Threads :
        phase = "joining" \/ (phase = "marking" /\ w < idx) => state[w] # "PAUSED"

(***************************************************************************)
(* And no step of a worker is in vain then: it brings the worker nearer to *)
(* its end or takes a task off the queue, to which nothing is added, and   *)
(* no worker sets another one back.  With JoinUnblocked and tasks that end *)
(* this is why linx_thread_pool_destroy returns.                           *)
(***************************************************************************)
StepsLeft(l) ==
    CASE l = "run" -> 9 [] l = "finish" -> 8 [] l = "lookup" -> 7
      [] l = "starting" -> 6 [] l = "top" -> 5 [] l = "fetch" -> 4
      [] l = "exit" -> 3 [] l = "leave" -> 2 [] l = "done" -> 1 [] OTHER -> 0

Nearer(w) ==
    \/ Len(queue') < Len(queue)
    \/ queue' = queue /\ StepsLeft(pc'[w]) < StepsLeft(pc[w])

NotInVain ==
    phase = "joining" /\ phase' = "joining" =>
        /\ Len(queue') <= Len(queue)
        /\ \A w \in Threads : pc'[w] # pc[w] =>
              Nearer(w) /\ \A v \in Threads \ {w} : pc'[v] = pc[v]

JoinAdvances == [][NotInVain]_vars

(***************************************************************************)
(* linx_thread_pool_destroy returns.                                       *)
(***************************************************************************)
DestroyReturns == phase = "marking" ~> phase = "freed"

(***************************************************************************)
(* An accepted task is executed, or freed by a destroy, also where workers *)
(* were paused and resumed meanwhile: all that is asked is that from some  *)
(* time on every worker is wanted running or a destroy has begun.          *)
(***************************************************************************)
TaskServed ==
    <>[](shutdown # 0 \/ \A w \in Threads : state[w] = "RUNNING")
        => \A t \in Tasks : life[t] = "queued" ~> life[t] \in {"done", "dropped"}
===============================================================================
