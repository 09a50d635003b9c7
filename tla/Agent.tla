-------------------------------- MODULE Agent ---------------------------------
(***************************************************************************)
(* The life of the linx_apd process: main of linx_apd/linx_apd.c brings    *)
(* the components up one by one, the event loop uses them, and a signal    *)
(* runs linx_resource_cleanup inside whatever it interrupted.  The log     *)
(* thread of linx_log.c and the alert tasks of linx_alert.c run meanwhile, *)
(* over pools that behave as TaskPool says.                                *)
(*                                                                         *)
(* A signal is taken by the main thread.  One that arrives while its       *)
(* handler runs there nests in it when the numbers differ (sa_mask is      *)
(* empty) and is otherwise taken by a worker thread: no worker blocks it.  *)
(***************************************************************************)
EXTENDS Integers, Sequences, FiniteSets, FiniteSetsExt

CONSTANTS
    MaxSignals,     \* bound: signals taken, the one main raises included
    MaxLogs,        \* bound: messages logged before the event loop logs no more
    MaxAlerts,      \* bound: alerts main sends
    AlertWorkers    \* the pool size main passes to linx_alert_init

ASSUME AgentAssumption ==
    /\ MaxSignals \in Nat \ {0}
    /\ MaxLogs \in Nat
    /\ MaxAlerts \in Nat
    /\ AlertWorkers \in Nat \ {0}

(***************************************************************************)
(* linx_resource_cleanup_type_t.                                           *)
(***************************************************************************)
ARGS == 1
CONFIG == 2
LOG == 3
HASH_MAP == 4
PROCESS_CACHE == 5
MACHINE_STATUS == 6
EVENT_QUEUE == 7
EVENT_RICH == 8
ALERT == 9
RULE_ENGINE == 10
ENGINE == 11

Stages == ARGS .. ENGINE

\* The stages that own an instance on the heap, and those with a pool.
Owners == {ARGS, CONFIG, LOG, HASH_MAP, PROCESS_CACHE, ALERT, RULE_ENGINE}
Pools == {LOG, PROCESS_CACHE, ALERT}

\* Stages whose failure ends main; the others are passed over.
Fatal == {ARGS, CONFIG, LOG, ALERT, RULE_ENGINE, ENGINE}

\* Stages whose failure main logs, once there is a log.
Reported == {HASH_MAP, PROCESS_CACHE, MACHINE_STATUS, EVENT_QUEUE, ALERT,
             RULE_ENGINE, ENGINE}

\* Stages that bind their fields in the hash map and fail without it.
Binders == {PROCESS_CACHE, MACHINE_STATUS, EVENT_RICH}

VARIABLES
    main,           \* init, typed, parse, loop, or handler once a signal was taken
    stage,          \* the stage main is at
    type,           \* linx_resource_cleanup_type
    held,           \* the component whose lock main holds, or 0
    inst,           \* per owner: its global pointer is null, live, freed, or
                    \*   raw: live, and not all of what its deinit relies on set
    pool,           \* per pooled owner: none, open, closing, gone
    fault,          \* the first bad memory access: none; through a pointer of
                    \*   an owner that is null or freed; of an option that is
                    \*   unset; a double release inside the rule set
    handler,        \* per signal: where its handler is
    logged,         \* messages main has logged
    logQ,           \* linx_log's queue
    logger,         \* the log task: queued, pop, got, ended
    got,            \* what it popped: a sequence of at most one message
    written,        \* the log file
    alerts,         \* alerts main has sent
    alertQ,         \* the alert pool's queue
    sending,        \* alert tasks being executed
    cacheBusy       \* a task of the process cache is being executed

mainVars == <<main, stage, type, held>>
logVars == <<logged, logQ, logger, got, written>>
alertVars == <<alerts, alertQ, sending>>
memVars == <<inst, pool>>
vars == <<mainVars, memVars, fault, handler, logVars, alertVars, cacheBusy>>

Signals == 1 .. MaxSignals

Idle == [at |-> "idle", on |-> 0, num |-> "INT", owner |-> 0]
Exited == \E h \in Signals : handler[h].at = "exited"
Alive == ~Exited /\ fault = "none"

\* Only one handler has been started.
Once == \A h \in Signals \ {1} : handler[h].at = "idle"

\* An access through owner c's pointer by code that does not test it.
Touch(c) ==
    fault' = IF fault # "none" \/ inst[c] \in {"live", "raw"} THEN fault
             ELSE inst[c]

Init ==
    /\ main = "init"
    /\ stage = ARGS
    /\ type = 0
    /\ held = 0
    /\ inst = [c \in Owners |-> "null"]
    /\ pool = [c \in Pools |-> "none"]
    /\ fault = "none"
    /\ handler = [h \in Signals |-> Idle]
    /\ logged = 0
    /\ logQ = <<>>
    /\ logger = "queued"
    /\ got = <<>>
    /\ written = <<>>
    /\ alerts = 0
    /\ alertQ = <<>>
    /\ sending = {}
    /\ cacheBusy = FALSE

-------------------------------------------------------------------------------
(***************************************************************************)
(* linx_resource_cleanup: the switch enters at the stage reached last and  *)
(* falls through, so it releases the owners from there downwards.          *)
(*                                                                         *)
(* Definitions named Bad... are faults: plausible slips in the definition  *)
(* that follows them, which the properties below must detect.              *)
(***************************************************************************)
BadUpTo(t) == {c \in Owners : c < t}

UpTo(t) == {c \in Owners : c <= t}

BadEnterAt(rec, t) ==
    IF UpTo(t) = {} THEN [rec EXCEPT !.at = "exited", !.owner = 0]
    ELSE [rec EXCEPT !.at = "check", !.owner = Min(UpTo(t))]

EnterAt(rec, t) ==
    IF UpTo(t) = {} THEN [rec EXCEPT !.at = "exited", !.owner = 0]
    ELSE [rec EXCEPT !.at = "check", !.owner = Max(UpTo(t))]

Step(h, at) == handler' = [handler EXCEPT ![h].at = at]

NextOwner(h) ==
    handler' = [handler EXCEPT ![h] = EnterAt(@, @.owner - 1)]

\* A handler that another one interrupted on the same thread never resumes.
Runs(h, at) ==
    /\ Alive
    /\ handler[h].at = at
    /\ \A k \in Signals : k > h => handler[k].at = "idle" \/ handler[k].on # handler[h].on

\* Every deinit begins with a test of its global pointer.
Check(h) ==
    /\ Runs(h, "check")
    /\ LET c == handler[h].owner IN
          IF inst[c] = "null" THEN NextOwner(h)
          ELSE Step(h, IF c \in Pools THEN "stop" ELSE "free")
    /\ UNCHANGED <<mainVars, memVars, fault, logVars, alertVars, cacheBusy>>

(***************************************************************************)
(* linx_thread_pool_destroy(pool, 1) as called by linx_alert_deinit,       *)
(* linx_process_cache_deinit and linx_log_deinit: it returns at once from  *)
(* a pool that is already being destroyed, and joins the workers of one    *)
(* that is not.  linx_process_cache does not clear its thread_pool.        *)
(***************************************************************************)
Stop(h) ==
    /\ Runs(h, "stop")
    /\ LET c == handler[h].owner IN
          /\ IF c = PROCESS_CACHE /\ pool[c] = "gone" /\ fault = "none"
             THEN fault' = "freed" ELSE Touch(c)
          /\ pool' = [pool EXCEPT ![c] = IF @ = "open" THEN "closing" ELSE @]
          /\ Step(h, IF pool[c] = "open" THEN "join" ELSE "free")
    /\ UNCHANGED <<mainVars, inst, logVars, alertVars, cacheBusy>>

TasksDone(c) ==
    CASE c = LOG -> logger = "ended"
      [] c = ALERT -> sending = {}
      [] c = PROCESS_CACHE -> ~cacheBusy

BadJoinable(h, c) == TRUE

\* A thread that is inside a handler never ends; joining itself is refused.
Joinable(h, c) ==
    /\ TasksDone(c) \/ handler[h].on = c
    /\ \A k \in Signals \ {h} : handler[k].at = "idle" \/ handler[k].on # c

Join(h) ==
    /\ Runs(h, "join")
    /\ LET c == handler[h].owner IN
          /\ held # c
          /\ Joinable(h, c)
          /\ pool' = [pool EXCEPT ![c] = "gone"]
          /\ alertQ' = IF c = ALERT THEN <<>> ELSE alertQ
          /\ Touch(c)
    /\ Step(h, "free")
    /\ UNCHANGED <<mainVars, inst, logVars, alerts, sending, cacheBusy>>

(***************************************************************************)
(* What the instance holds is released, then the instance; linx_log_deinit *)
(* is the one that does not take its lock for it, and its queue goes with  *)
(* the messages still in it.  linx_arg_deinit frees the options whether or *)
(* not they were ever stored.  linx_rule_engine_match_destroy goes by a    *)
(* type that no compile function sets: it may destroy the left operand     *)
(* twice and the right one never, and what two rules share it destroys     *)
(* twice.  So what becomes of a raw instance is left open.                 *)
(***************************************************************************)
Spoiled(c) ==
    /\ inst[c] = "raw"
    /\ fault' = IF c = ARGS THEN "unset" ELSE "double"

Free(h) ==
    /\ Runs(h, "free")
    /\ LET c == handler[h].owner IN
          /\ held # c \/ c = LOG
          /\ Touch(c) \/ Spoiled(c)
          /\ inst' = [inst EXCEPT ![c] = "freed"]
          /\ logQ' = IF c = LOG THEN <<>> ELSE logQ
    /\ Step(h, "null")
    /\ UNCHANGED <<mainVars, pool, logged, logger, got, written, alertVars,
                   cacheBusy>>

SetNull(h) ==
    /\ Runs(h, "null")
    /\ inst' = [inst EXCEPT ![handler[h].owner] = "null"]
    /\ NextOwner(h)
    /\ UNCHANGED <<mainVars, pool, fault, logVars, alertVars, cacheBusy>>

(***************************************************************************)
(* linx_signal_handler starts: the first time in the main thread (on = 0), *)
(* later nested there, where only the signal being handled is blocked, or  *)
(* in a worker of some pool.                                               *)
(***************************************************************************)
Deliver(h, on, num) ==
    handler' = [handler EXCEPT ![h] = EnterAt([Idle EXCEPT !.on = on, !.num = num], type)]

SignalMain ==
    /\ Alive
    /\ main # "handler"
    /\ Deliver(1, 0, "INT")
    /\ main' = "handler"
    /\ UNCHANGED <<stage, type, held, memVars, fault, logVars, alertVars,
                   cacheBusy>>

HasWorker(c) == pool[c] \in {"open", "closing"} /\ (c = LOG => logger # "ended")

SignalAgain(h, on) ==
    /\ Alive
    /\ main = "handler"
    /\ handler[h].at = "idle"
    /\ IF handler[1].num = "USR1" THEN on = 0 ELSE on \in Pools /\ HasWorker(on)
    /\ Deliver(h, on, "INT")
    /\ UNCHANGED <<mainVars, memVars, fault, logVars, alertVars, cacheBusy>>

HandlerStep(h) == Check(h) \/ Stop(h) \/ Join(h) \/ Free(h) \/ SetNull(h)

-------------------------------------------------------------------------------
(***************************************************************************)
(* linx_log_queue_push, and the log task of linx_log_thread: it pops,      *)
(* looks at its stop flag, and writes what it popped.  A pool that closes  *)
(* may end its worker before it took the task at all.                      *)
(***************************************************************************)
Push == logQ' = Append(logQ, logged + 1) /\ logged' = logged + 1

\* The log thread runs unless a signal interrupted it.
LoggerRuns ==
    Alive /\ \A h \in Signals : handler[h].at = "idle" \/ handler[h].on # LOG

LogTaken ==
    /\ LoggerRuns
    /\ logger = "queued"
    /\ pool[LOG] \in {"open", "closing"}
    /\ logger' = "pop"
    /\ UNCHANGED <<mainVars, memVars, fault, handler, logged, logQ, got, written,
                   alertVars, cacheBusy>>

LogDiscarded ==
    /\ LoggerRuns
    /\ logger = "queued"
    /\ pool[LOG] = "closing"
    /\ logger' = "ended"
    /\ UNCHANGED <<mainVars, memVars, fault, handler, logged, logQ, got, written,
                   alertVars, cacheBusy>>

LogPop ==
    /\ LoggerRuns
    /\ logger = "pop"
    /\ held # LOG
    /\ Touch(LOG)
    /\ got' = IF logQ = <<>> THEN <<>> ELSE <<Head(logQ)>>
    /\ logQ' = IF logQ = <<>> THEN <<>> ELSE Tail(logQ)
    /\ logger' = "got"
    /\ UNCHANGED <<mainVars, memVars, handler, logged, written, alertVars,
                   cacheBusy>>

BadStopSeen == FALSE

StopSeen == pool[LOG] = "closing"

LogWrite ==
    /\ LoggerRuns
    /\ logger = "got"
    /\ IF got = <<>> THEN UNCHANGED fault ELSE Touch(LOG)
    /\ logger' = IF got = <<>> /\ StopSeen THEN "ended" ELSE "pop"
    /\ written' = written \o got
    /\ got' = <<>>
    /\ UNCHANGED <<mainVars, memVars, handler, logged, logQ, alertVars, cacheBusy>>

LogStep == LogTaken \/ LogDiscarded \/ LogPop \/ LogWrite

(***************************************************************************)
(* linx_alert_worker_task, which counts in the shared statistics what it   *)
(* sent, and the process cache's tasks, see ProcessCache.                  *)
(***************************************************************************)
AlertTaken ==
    /\ Alive
    /\ alertQ # <<>>
    /\ pool[ALERT] \in {"open", "closing"}
    /\ held # ALERT
    /\ Cardinality(sending) < AlertWorkers
    /\ sending' = sending \cup {Head(alertQ)}
    /\ alertQ' = Tail(alertQ)
    /\ UNCHANGED <<mainVars, memVars, fault, handler, logVars, alerts, cacheBusy>>

AlertSent(a) ==
    /\ Alive
    /\ a \in sending
    /\ Touch(ALERT)
    /\ sending' = sending \ {a}
    /\ UNCHANGED <<mainVars, memVars, handler, logVars, alerts, alertQ, cacheBusy>>

CacheTaskStarts ==
    /\ Alive
    /\ pool[PROCESS_CACHE] = "open"
    /\ ~cacheBusy
    /\ cacheBusy' = TRUE
    /\ UNCHANGED <<mainVars, memVars, fault, handler, logVars, alertVars>>

CacheTaskEnds ==
    /\ Alive
    /\ cacheBusy
    /\ held # PROCESS_CACHE
    /\ Touch(PROCESS_CACHE)
    /\ cacheBusy' = FALSE
    /\ UNCHANGED <<mainVars, memVars, handler, logVars, alertVars>>

-------------------------------------------------------------------------------
(***************************************************************************)
(* main: a stage's init, and *type = ... when it returned 0.               *)
(* linx_arg_init allocates the options and sets none of them; a rule set   *)
(* is sound only while no rule was added.                                  *)
(***************************************************************************)
Fresh(c) ==
    CASE c = ARGS -> {"raw"}
      [] c = RULE_ENGINE -> {"raw", "live"}
      [] OTHER -> {"live"}

InitSucceeds ==
    /\ Alive
    /\ main = "init"
    /\ stage \in Binders => inst[HASH_MAP] = "live"
    /\ main' = "typed"
    /\ \E new \in Fresh(stage) :
          inst' = [c \in Owners |-> IF c = stage THEN new ELSE inst[c]]
    /\ pool' = [c \in Pools |-> IF c = stage THEN "open" ELSE pool[c]]
    /\ UNCHANGED <<stage, type, held, fault, handler, logVars, alertVars,
                   cacheBusy>>

NextStage ==
    IF stage = ENGINE THEN main' = "loop" /\ UNCHANGED stage
    ELSE /\ main' = IF stage = ARGS THEN "parse" ELSE "init"
         /\ stage' = stage + 1

SetType ==
    /\ Alive
    /\ main = "typed"
    /\ type' = stage
    /\ NextStage
    /\ UNCHANGED <<held, memVars, fault, handler, logVars, alertVars, cacheBusy>>

\* argp_parse stores the options that are given, perhaps not both of them;
\* it ends the process itself over an argument it does not know.
ParseArgs ==
    /\ Alive
    /\ main = "parse"
    /\ main' = "init"
    /\ \E parsed \in {"raw", "live"} : inst' = [inst EXCEPT ![ARGS] = parsed]
    /\ UNCHANGED <<stage, type, held, pool, fault, handler, logVars, alertVars,
                   cacheBusy>>

\* linx_config_load and linx_rule_engine_load are given an option that may
\* never have been stored.
UnsetOption ==
    /\ Alive
    /\ main = "init"
    /\ stage \in {LOG, RULE_ENGINE}
    /\ inst[ARGS] = "raw"
    /\ fault' = "unset"
    /\ UNCHANGED <<mainVars, memVars, handler, logVars, alertVars, cacheBusy>>

Report ==
    IF stage \in Reported THEN Touch(LOG) /\ Push
    ELSE UNCHANGED <<fault, logQ, logged>>

\* goto out: raise(SIGUSR1).  A failed load may leave rules behind.
InitFailsFatally ==
    /\ Alive
    /\ main = "init"
    /\ stage \in Fatal
    /\ Report
    /\ \E left \in {"null"} \cup Fresh(RULE_ENGINE) :
          inst' = [c \in Owners |->
                      IF c = stage /\ c = RULE_ENGINE THEN left ELSE inst[c]]
    /\ Deliver(1, 0, "USR1")
    /\ main' = "handler"
    /\ UNCHANGED <<stage, type, held, pool, logger, got, written, alertVars,
                   cacheBusy>>

\* Passed over.  linx_event_queue_init cannot fail.
InitFails ==
    /\ Alive
    /\ main = "init"
    /\ stage \notin Fatal \cup {EVENT_QUEUE}
    /\ Report
    /\ NextStage
    /\ UNCHANGED <<type, held, memVars, handler, logger, got, written, alertVars,
                   cacheBusy>>

\* linx_config_load, which runs before linx_log_init, logs a syscall table
\* that cannot be read; linx_log does not test its instance.
ConfigLoadLogs ==
    /\ Alive
    /\ main = "init"
    /\ stage = LOG
    /\ Touch(LOG)
    /\ UNCHANGED <<mainVars, memVars, handler, logVars, alertVars, cacheBusy>>

(***************************************************************************)
(* The event loop takes the locks of the three pooled components in turn:  *)
(* to log, to look a process up, to send an alert.                         *)
(***************************************************************************)
TakeLock(c) ==
    /\ Alive
    /\ main = "loop"
    /\ held = 0
    /\ inst[c] = "live"
    /\ c = LOG => logged < MaxLogs
    /\ c = ALERT => alerts < MaxAlerts
    /\ held' = c
    /\ UNCHANGED <<main, stage, type, memVars, fault, handler, logVars, alertVars,
                   cacheBusy>>

LogAndUnlock ==
    /\ Alive
    /\ main = "loop"
    /\ held = LOG
    /\ held' = 0
    /\ Push
    /\ UNCHANGED <<main, stage, type, memVars, fault, handler, logger, got,
                   written, alertVars, cacheBusy>>

LookupAndUnlock ==
    /\ Alive
    /\ main = "loop"
    /\ held = PROCESS_CACHE
    /\ held' = 0
    /\ UNCHANGED <<main, stage, type, memVars, fault, handler, logVars, alertVars,
                   cacheBusy>>

SendAndUnlock ==
    /\ Alive
    /\ main = "loop"
    /\ held = ALERT
    /\ held' = 0
    /\ alerts' = alerts + 1
    /\ alertQ' = Append(alertQ, alerts + 1)
    /\ UNCHANGED <<main, stage, type, memVars, fault, handler, logVars, sending,
                   cacheBusy>>

-------------------------------------------------------------------------------
MainStep ==
    \/ InitSucceeds \/ SetType \/ InitFailsFatally \/ InitFails
    \/ ParseArgs \/ UnsetOption \/ ConfigLoadLogs
    \/ LogAndUnlock \/ LookupAndUnlock \/ SendAndUnlock
    \/ \E c \in Pools : TakeLock(c)

WorkerStep ==
    \/ LogStep
    \/ AlertTaken
    \/ \E a \in sending : AlertSent(a)
    \/ CacheTaskStarts \/ CacheTaskEnds

Next ==
    \/ MainStep
    \/ WorkerStep
    \/ SignalMain
    \/ \E h \in Signals : HandlerStep(h)
    \/ \E h \in Signals, on \in Pools \cup {0} : SignalAgain(h, on)

Spec == Init /\ [][Next]_vars

(***************************************************************************)
(* The kernel runs the threads; nobody has to send a signal, and the cache *)
(* need not start tasks.                                                   *)
(***************************************************************************)
Fairness ==
    /\ \A h \in Signals : WF_vars(HandlerStep(h))
    /\ WF_vars(LogStep)
    /\ WF_vars(AlertTaken)
    /\ WF_vars(\E a \in sending : AlertSent(a))
    /\ WF_vars(CacheTaskEnds)

FairSpec == Spec /\ Fairness

-------------------------------------------------------------------------------
(***************************************************************************)
(* Type invariant: the stages, the owners' pointers and the queues.        *)
(***************************************************************************)
TypeOK ==
    /\ main \in {"init", "typed", "parse", "loop", "handler"}
    /\ stage \in Stages
    /\ type \in 0 .. stage
    /\ held \in Pools \cup {0}
    /\ inst \in [Owners -> {"null", "raw", "live", "freed"}]
    /\ pool \in [Pools -> {"none", "open", "closing", "gone"}]
    /\ fault \in {"none", "null", "freed", "unset", "double"}
    /\ handler \in [Signals ->
          [at : {"idle", "check", "stop", "join", "free", "null", "exited"},
           on : Pools \cup {0}, num : {"INT", "USR1"}, owner : Owners \cup {0}]]
    /\ logged \in Nat
    /\ logQ \in Seq(Nat) /\ got \in Seq(Nat)
    /\ written \in Seq(Nat)
    /\ logger \in {"queued", "pop", "got", "ended"}
    /\ alerts \in 0 .. MaxAlerts
    /\ alertQ \in Seq(1 .. MaxAlerts)
    /\ sending \in SUBSET (1 .. MaxAlerts)
    /\ cacheBusy \in BOOLEAN

(***************************************************************************)
(* linx_resource_cleanup releases nothing that a thread still uses and     *)
(* nothing twice: no segmentation fault comes of ctrl + c.  (What freeing  *)
(* an option that was never stored does is left to what malloc returned.)  *)
(***************************************************************************)
CtrlCSafe == fault \notin {"freed", "double"}

(***************************************************************************)
(* Of a single signal, wherever in the start-up or the event loop it comes *)
(* and whatever the components' tasks are doing: no thread, and no deinit, *)
(* follows the global pointer of a component, or uses its pool, after the  *)
(* cleanup has freed it.  This is about the instances, whose users are     *)
(* other threads; inside the rule set one cleanup can release twice.       *)
(***************************************************************************)
UsersGoneFirst == Once => fault # "freed"

(***************************************************************************)
(* At exit every component up to the stage that main had recorded is       *)
(* released, also when one of the stages before it had failed.             *)
(***************************************************************************)
ReleasedAtExit ==
    Exited /\ Once => \A c \in Owners : c <= type => inst[c] = "null"

(***************************************************************************)
(* The cleanup goes down the stages: when it frees a component, what came  *)
(* up after it and is to be released is gone already, and no task of its   *)
(* pool, which would go on using it, is being executed.                    *)
(***************************************************************************)
FreesInOrder ==
    Once => \A c \in Owners : inst[c] # "freed" /\ inst'[c] = "freed" =>
        /\ \A d \in Owners : c < d /\ d <= type => inst[d] = "null"
        /\ c \in Pools => TasksDone(c)

ReleasedInOrder == [][FreesInOrder]_vars

(***************************************************************************)
(* linx_log_deinit waits for the log's task to be completed, and the task, *)
(* told to stop, first writes what the queue holds: at exit the log file   *)
(* has every message that main logged.                                     *)
(***************************************************************************)
LogFlushed == Once /\ Exited => Len(written) = logged

(***************************************************************************)
(* A pool that the cleanup joins runs dry: whatever the signals do, every  *)
(* step of the log thread and of the alert workers leaves them with less   *)
(* to do, and the cache starts nothing new.                                *)
(***************************************************************************)
LogLeft ==
    3 * Len(logQ) + 2 * Len(got)
      + (CASE logger = "queued" -> 3 [] logger = "pop" -> 2
           [] logger = "got" -> 1 [] logger = "ended" -> 0)

AlertLeft == 2 * Len(alertQ) + Cardinality(sending)

RunsDry ==
    /\ pool[LOG] = "closing" /\ logVars' # logVars => LogLeft' < LogLeft
    /\ pool[ALERT] = "closing" /\ alertVars' # alertVars => AlertLeft' < AlertLeft
    /\ pool[PROCESS_CACHE] = "closing" /\ cacheBusy' => cacheBusy

CleanupAdvances == [][RunsDry]_vars

(***************************************************************************)
(* A signal that hits main outside the components' locks ends the process: *)
(* the cleanup's joins wait for nothing that waits for main.  A fault in   *)
(* releasing a raw instance ends it too.                                   *)
(***************************************************************************)
CleanExit ==
    main = "handler" /\ held = 0
      ~> Exited \/ ~Once \/ fault \in {"unset", "double"}
===============================================================================
