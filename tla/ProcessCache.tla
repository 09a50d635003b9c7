----------------------------- MODULE ProcessCache -----------------------------
(***************************************************************************)
(* The process cache of                                                    *)
(* src/userspace/linx_process_cache/linx_process_cache.c, its two looping  *)
(* tasks and its update tasks, over the worker pool as TaskPool promises   *)
(* it: tasks start in the order they were queued, at most Workers of them  *)
(* at a time, and a closed pool may discard what has not started.          *)
(*                                                                         *)
(* Every access to the hash table is one critical section of the rwlock    *)
(* and one action here.  What is read from /proc is read before the lock   *)
(* is taken, so an update is two actions with the world moving in between. *)
(*                                                                         *)
(* Time is kept as the age of a recorded exit, now - exit_time, saturated  *)
(* just above Expire: no clock has to be bounded.                          *)
(***************************************************************************)
EXTENDS Integers, Sequences, FiniteSets, FiniteSetsExt, SequencesExt

CONSTANTS
    Pids,           \* the process identifiers the kernel hands out
    Workers,        \* LINX_PROCESS_CACHE_THREAD_NUM
    Expire,         \* LINX_PROCESS_CACHE_EXPIRE_TIME
    MaxQueue        \* bound: the pool's queue is unbounded in the code

ASSUME CacheAssumption ==
    /\ IsFiniteSet(Pids) /\ {"monitor", "cleaner"} \cap Pids = {}
    /\ Workers \in Nat
    /\ Expire \in Nat
    /\ MaxQueue \in Nat

VARIABLES
    proc,           \* per pid: a process with this pid exists
    execs,          \* per pid: an execve event of it awaits the event loop
    phase,          \* start, absent, up, stopping, down, or crashed
    queue,          \* the pool's queue: "monitor", "cleaner" or a pid
    monitor,        \* monitor_thread_func: idle, scan, mark
    cleaner,        \* cleaner_thread_func: idle, sweep
    reading,        \* per pid: workers between create_process_info and the lock
    table           \* hash_table: per pid, its linx_process_info_t or None

worldVars == <<proc, execs>>
poolVars == <<queue, monitor, cleaner, reading>>
vars == <<worldVars, phase, poolVars, table>>

Ages == 0 .. Expire + 1

(***************************************************************************)
(* The fields of linx_process_info_t that decide anything.  exit_time is   *)
(* only ever set together with is_alive = false, so an age is kept for     *)
(* dead entries and is 0 for living ones.                                  *)
(***************************************************************************)
Info == [alive : BOOLEAN, rich : BOOLEAN, age : Ages]

None == [alive |-> FALSE, rich |-> FALSE, age |-> -1]

Cached(p) == table[p] # None
Dead(p) == Cached(p) /\ ~table[p].alive

\* What create_process_info and rich_execve_exit make.
Fresh(isRich) == [alive |-> TRUE, rich |-> isRich, age |-> 0]

(***************************************************************************)
(* Workers of the pool that are inside a task.                             *)
(***************************************************************************)
Busy ==
    MapThenSumSet(LAMBDA p : reading[p], Pids)
        + Cardinality({t \in {monitor, cleaner} : t # "idle"})

(***************************************************************************)
(* Definitions named Bad... are faults: plausible slips in the definition  *)
(* that follows them, which the properties below must detect.              *)
(*                                                                         *)
(* update_process_task and linx_process_cache_update replace the entry of  *)
(* a pid; an exit already recorded for it is carried over.                 *)
(***************************************************************************)
BadMerged(old, new) == new

BadRestarted(old, new) ==
    IF old # None /\ ~old.alive
    THEN [new EXCEPT !.alive = FALSE] ELSE new

Merged(old, new) ==
    IF old # None /\ ~old.alive
    THEN [new EXCEPT !.alive = FALSE, !.age = old.age] ELSE new

Replace(p, new) == table' = [table EXCEPT ![p] = Merged(@, new)]

Expired(info) == info # None /\ ~info.alive /\ info.age > Expire

-------------------------------------------------------------------------------
(***************************************************************************)
(* The kernel: processes come and go and pids are reused.  An execve of a  *)
(* process reaches the event loop some time later, perhaps after its end.  *)
(***************************************************************************)
ProcessStarts(p) ==
    /\ ~proc[p]
    /\ proc' = [proc EXCEPT ![p] = TRUE]
    /\ UNCHANGED <<execs, phase, poolVars, table>>

ProcessExits(p) ==
    /\ proc[p]
    /\ proc' = [proc EXCEPT ![p] = FALSE]
    /\ UNCHANGED <<execs, phase, poolVars, table>>

ProcessExecs(p) ==
    /\ proc[p]
    /\ execs' = [execs EXCEPT ![p] = TRUE]
    /\ UNCHANGED <<proc, phase, poolVars, table>>

\* One unit of time(NULL) passes.
Tick ==
    /\ table' = [p \in Pids |->
                    IF Dead(p) /\ table[p].age <= Expire
                    THEN [table[p] EXCEPT !.age = @ + 1] ELSE table[p]]
    /\ UNCHANGED <<worldVars, phase, poolVars>>

-------------------------------------------------------------------------------
(***************************************************************************)
(* linx_process_cache_init, and its error paths: those that fail after the *)
(* pool exists destroy it again, and main goes on without a cache.         *)
(***************************************************************************)
Init ==
    /\ proc \in [Pids -> BOOLEAN]
    /\ execs = [p \in Pids |-> FALSE]
    /\ phase = "start"
    /\ queue = <<>>
    /\ monitor = "idle"
    /\ cleaner = "idle"
    /\ reading = [p \in Pids |-> 0]
    /\ table = [p \in Pids |-> None]

CacheInit ==
    /\ phase = "start"
    /\ phase' = "up"
    /\ queue' = <<"monitor", "cleaner">>
    /\ UNCHANGED <<worldVars, monitor, cleaner, reading, table>>

CacheInitFails ==
    /\ phase = "start"
    /\ phase' = "absent"
    /\ UNCHANGED <<worldVars, poolVars, table>>

-------------------------------------------------------------------------------
(***************************************************************************)
(* The pool's workers.  update_process_task leaves at once when it is told *)
(* to stop, and when create_process_info finds no such process.  While     *)
(* deinit runs, some tasks are told in time and some are not.              *)
(***************************************************************************)
BadRunning == phase \in {"up", "stopping"}

Running == phase = "up"

ToldToStop == IF Running THEN {FALSE} ELSE BOOLEAN

TakeTask ==
    /\ phase \in {"up", "stopping"}
    /\ queue # <<>>
    /\ Busy < Workers
    /\ queue' = Tail(queue)
    /\ LET t == Head(queue) IN
          /\ monitor' = IF t = "monitor" /\ Running THEN "scan" ELSE monitor
          /\ cleaner' = IF t = "cleaner" /\ Running THEN "sweep" ELSE cleaner
          /\ \E told \in ToldToStop :
                reading' = [p \in Pids |->
                               IF t = p /\ ~told /\ proc[p]
                               THEN reading[p] + 1 ELSE reading[p]]
    /\ UNCHANGED <<worldVars, phase, table>>

InsertUpdate(p) ==
    /\ reading[p] > 0
    /\ reading' = [reading EXCEPT ![p] = @ - 1]
    /\ Replace(p, Fresh(FALSE))
    /\ UNCHANGED <<worldVars, phase, queue, monitor, cleaner>>

(***************************************************************************)
(* monitor_thread_func: one update task per entry of /proc, then, under    *)
(* the lock, the entries whose process is gone are marked.  /proc is taken *)
(* as of one moment: what changes during the scan is seen by the tasks.    *)
(***************************************************************************)
Listed == {p \in Pids : proc[p]}

MonitorScan ==
    /\ monitor = "scan"
    /\ Running
    /\ Len(queue) + Cardinality(Listed) <= MaxQueue
    /\ queue' = queue \o SetToSeq(Listed)
    /\ monitor' = "mark"
    /\ UNCHANGED <<worldVars, phase, cleaner, reading, table>>

BadLoopOver == TRUE

LoopOver == ~Running

MonitorEnds ==
    /\ monitor = "scan"
    /\ LoopOver
    /\ monitor' = "idle"
    /\ UNCHANGED <<worldVars, phase, queue, cleaner, reading, table>>

MonitorMark ==
    /\ monitor = "mark"
    /\ table' = [p \in Pids |->
                    IF Cached(p) /\ table[p].alive /\ ~table[p].rich /\ ~proc[p]
                    THEN [table[p] EXCEPT !.alive = FALSE, !.age = 0]
                    ELSE table[p]]
    /\ monitor' = "scan"
    /\ UNCHANGED <<worldVars, phase, queue, cleaner, reading>>

(***************************************************************************)
(* cleaner_thread_func, from one sleep to the next.  rich_execve_exit      *)
(* leaves start_time 0, so an enriched entry is always past its time.      *)
(***************************************************************************)
BadSwept(info) == Expired(info)

Swept(info) == info.rich \/ Expired(info)

CleanerSweep ==
    /\ cleaner = "sweep"
    /\ table' = [p \in Pids |-> IF Swept(table[p]) THEN None ELSE table[p]]
    /\ cleaner' = IF Running THEN "sweep" ELSE "idle"
    /\ UNCHANGED <<worldVars, phase, queue, monitor, reading>>

-------------------------------------------------------------------------------
(***************************************************************************)
(* The event loop: rich_execve_exit hands linx_process_cache_update an     *)
(* entry of its own.  It does not test that there is a cache.              *)
(***************************************************************************)
RichUpdate(p) ==
    /\ execs[p]
    /\ phase \in {"up", "absent"}
    /\ execs' = [execs EXCEPT ![p] = FALSE]
    /\ IF phase = "up"
       THEN Replace(p, Fresh(TRUE)) /\ UNCHANGED phase
       ELSE phase' = "crashed" /\ UNCHANGED table
    /\ UNCHANGED <<proc, poolVars>>

(***************************************************************************)
(* The rest of the interface.  The lookups, linx_process_cache_get among   *)
(* them, change nothing.  The updates are bounded to an empty queue.       *)
(***************************************************************************)
UpdateAsync(p) ==
    /\ Running
    /\ queue = <<>>
    /\ queue' = <<p>>
    /\ UNCHANGED <<worldVars, phase, monitor, cleaner, reading, table>>

\* The caller goes through update_process_task itself; it is the thread that
\* calls deinit, and counts as one of the workers while it reads.
UpdateSync(p) ==
    /\ Running
    /\ queue = <<>>
    /\ proc[p] /\ reading[p] = 0
    /\ reading' = [reading EXCEPT ![p] = @ + 1]
    /\ UNCHANGED <<worldVars, phase, queue, monitor, cleaner, table>>

Delete(p) ==
    /\ Running
    /\ Cached(p)
    /\ table' = [table EXCEPT ![p] = None]
    /\ UNCHANGED <<worldVars, phase, poolVars>>

Cleanup ==
    /\ Running
    /\ table' = [p \in Pids |-> IF Expired(table[p]) THEN None ELSE table[p]]
    /\ UNCHANGED <<worldVars, phase, poolVars>>

-------------------------------------------------------------------------------
(***************************************************************************)
(* linx_process_cache_deinit: the loops are told to end, the pool is       *)
(* destroyed (its workers joined, what they did not start discarded), and  *)
(* then the entries and the cache itself are freed.                        *)
(***************************************************************************)
DeinitBegin ==
    /\ phase = "up"
    /\ phase' = "stopping"
    /\ UNCHANGED <<worldVars, poolVars, table>>

PoolJoined ==
    monitor = "idle" /\ cleaner = "idle" /\ \A p \in Pids : reading[p] = 0

DeinitEnd ==
    /\ phase = "stopping"
    /\ PoolJoined
    /\ phase' = "down"
    /\ queue' = <<>>
    /\ table' = [p \in Pids |-> None]
    /\ UNCHANGED <<worldVars, monitor, cleaner, reading>>

-------------------------------------------------------------------------------
World(p) == ProcessStarts(p) \/ ProcessExits(p) \/ ProcessExecs(p)

Call(p) == UpdateAsync(p) \/ UpdateSync(p) \/ Delete(p)

Monitor == MonitorScan \/ MonitorEnds \/ MonitorMark

Next ==
    \/ \E p \in Pids : World(p) \/ InsertUpdate(p) \/ RichUpdate(p) \/ Call(p)
    \/ Tick
    \/ CacheInit \/ CacheInitFails
    \/ TakeTask \/ Monitor \/ CleanerSweep
    \/ Cleanup
    \/ DeinitBegin \/ DeinitEnd

Spec == Init /\ [][Next]_vars

(***************************************************************************)
(* Time passes, the kernel runs every worker that has something to do, and *)
(* the event loop gets to every event.  Processes, callers and the one who *)
(* sends the signal do as they please.                                     *)
(***************************************************************************)
Fairness ==
    /\ WF_vars(Tick)
    /\ WF_vars(TakeTask)
    /\ WF_vars(Monitor)
    /\ WF_vars(CleanerSweep)
    /\ WF_vars(DeinitEnd)
    /\ \A p \in Pids : WF_vars(InsertUpdate(p)) /\ WF_vars(RichUpdate(p))

FairSpec == Spec /\ Fairness

-------------------------------------------------------------------------------
(***************************************************************************)
(* Type invariant: the ranges of the cache's fields and its tasks' states. *)
(***************************************************************************)
TypeOK ==
    /\ proc \in [Pids -> BOOLEAN]
    /\ execs \in [Pids -> BOOLEAN]
    /\ phase \in {"start", "up", "absent", "stopping", "down", "crashed"}
    /\ queue \in Seq(Pids \cup {"monitor", "cleaner"})
    /\ monitor \in {"idle", "scan", "mark"}
    /\ cleaner \in {"idle", "sweep"}
    /\ reading \in [Pids -> Nat]
    /\ table \in [Pids -> Info \cup {None}]
    /\ \A p \in Pids : table[p].alive => table[p].age = 0

(***************************************************************************)
(* A recorded exit is final: no update, however old what it read from      *)
(* /proc, turns a dead entry back to life or moves its exit_time forward;  *)
(* the entry first leaves the table.                                       *)
(***************************************************************************)
ExitKept ==
    [][\A p \in Pids : Dead(p) =>
          table'[p] = None \/ (~table'[p].alive /\ table'[p].age >= table[p].age)]_vars

(***************************************************************************)
(* Whatever order the monitor, the cleaner, late updates and the event     *)
(* loop come in, the cache is a ledger: it has no entry that does not come *)
(* of a look at the running process, each look makes at most one, an exit  *)
(* is noted only while the process is not there, and stays as it was noted *)
(* until the entry is removed.                                             *)
(***************************************************************************)
StateOf(info) == IF info = None THEN "none" ELSE IF info.alive THEN "alive" ELSE "dead"

InFlight(p) == reading[p] + (IF execs[p] THEN 1 ELSE 0)

Ledger == INSTANCE ProcessLedger WITH
    running <- proc,
    sighted <- [p \in Pids |-> InFlight(p)],
    state   <- [p \in Pids |-> StateOf(table[p])],
    age     <- [p \in Pids |-> IF table[p] = None THEN 0 ELSE table[p].age]

ImplementsLedger == Ledger!Spec

(***************************************************************************)
(* While the cache is up its two loops are there, each exactly once: on    *)
(* the queue, where the updates of a scan never overtake them, or running. *)
(***************************************************************************)
Queued(t) == {i \in 1 .. Len(queue) : queue[i] = t}

LoopsAlive ==
    phase = "up" =>
        /\ Cardinality(Queued("monitor")) = IF monitor = "idle" THEN 1 ELSE 0
        /\ Cardinality(Queued("cleaner")) = IF cleaner = "idle" THEN 1 ELSE 0

(***************************************************************************)
(* deinit's join comes nearer with every step of a worker: nothing is      *)
(* queued any more, no update begins but by taking one off the queue, and  *)
(* the loops only run out.                                                 *)
(***************************************************************************)
WindsDown ==
    phase = "stopping" =>
        /\ \/ Len(queue') < Len(queue)
           \/ queue' = queue /\ \A p \in Pids : reading'[p] <= reading[p]
        /\ \/ monitor' = monitor
           \/ <<monitor, monitor'>> \in {<<"mark", "scan">>, <<"scan", "idle">>}
        /\ cleaner' \in {cleaner, "idle"}

DeinitAdvances == [][WindsDown]_vars

(***************************************************************************)
(* The cleaner gets to every entry: the record of a process that is gone   *)
(* for good leaves the cache for good, although updates that read /proc    *)
(* before its end and execve events of it may still arrive.                *)
(***************************************************************************)
ExitedForgotten ==
    \A p \in Pids : <>[](phase = "up" /\ ~proc[p]) => <>[](table[p] = None)

(***************************************************************************)
(* A process that keeps running is recorded as alive again and again, also *)
(* when its pid is that of a process recorded dead, and although the two   *)
(* loops keep two workers of the pool that the updates need.               *)
(***************************************************************************)
RunningRecorded ==
    \A p \in Pids : <>[](phase = "up" /\ proc[p]) => []<>(table[p].alive)
===============================================================================
