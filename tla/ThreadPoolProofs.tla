--------------------------- MODULE ThreadPoolProofs ---------------------------
(***************************************************************************)
(* Proofs about the worker pool of linx_thread, for every number of        *)
(* workers and every set of tasks: IInv is inductive, hence an invariant.  *)
(* One lemma per conjunct, one step per action.                            *)
(***************************************************************************)
EXTENDS ThreadPool, FiniteSetTheorems, SequenceTheorems, TLAPS

(***************************************************************************)
(* Unlinking the head of the task list removes that task and no other.     *)
(***************************************************************************)
LEMMA TailElements ==
    ASSUME NEW S, NEW q \in Seq(S), q # <<>>,
           \A i, j \in DOMAIN q : q[i] = q[j] => i = j
    PROVE  /\ Tail(q) \in Seq(S)
           /\ Len(Tail(q)) = Len(q) - 1
           /\ Head(q) \in S
           /\ Head(q) \in Range(q)
           /\ Range(Tail(q)) = Range(q) \ {Head(q)}
           /\ \A i, j \in DOMAIN Tail(q) : Tail(q)[i] = Tail(q)[j] => i = j
<1>1. /\ Len(q) \in Nat \ {0}
      /\ DOMAIN q = 1 .. Len(q)
      /\ Head(q) = q[1]
  BY EmptySeq, LenProperties
<1>2. /\ Head(q) \in S
      /\ Tail(q) \in Seq(S)
      /\ Len(Tail(q)) = Len(q) - 1
      /\ \A i \in 1 .. Len(Tail(q)) : Tail(q)[i] = q[i + 1]
      /\ DOMAIN Tail(q) = 1 .. Len(q) - 1
  BY HeadTailProperties, LenProperties
<1>3. Range(Tail(q)) \subseteq Range(q) \ {Head(q)}
  BY <1>1, <1>2 DEF Range
<1>4. ASSUME NEW x \in Range(q), x # Head(q)
      PROVE  x \in Range(Tail(q))
  <2>1. PICK i \in 1 .. Len(q) : q[i] = x
    BY <1>1 DEF Range
  <2>2. i # 1
    BY <1>1, <1>4, <2>1
  <2>3. i - 1 \in 1 .. Len(q) - 1 /\ Tail(q)[i - 1] = x
    BY <1>1, <1>2, <2>1, <2>2
  <2> QED
    BY <1>2, <2>3 DEF Range
<1>5. \A i, j \in DOMAIN Tail(q) : Tail(q)[i] = Tail(q)[j] => i = j
  BY <1>1, <1>2
<1> QED
  BY <1>1, <1>2, <1>3, <1>4, <1>5 DEF Range

(***************************************************************************)
(* Linking a new task at the tail adds that task and no other.             *)
(***************************************************************************)
LEMMA AppendElements ==
    ASSUME NEW S, NEW q \in Seq(S), NEW x \in S, x \notin Range(q),
           \A i, j \in DOMAIN q : q[i] = q[j] => i = j
    PROVE  /\ Append(q, x) \in Seq(S)
           /\ Len(Append(q, x)) = Len(q) + 1
           /\ Range(Append(q, x)) = Range(q) \cup {x}
           /\ \A i, j \in DOMAIN Append(q, x) :
                 Append(q, x)[i] = Append(q, x)[j] => i = j
<1>1. Len(q) \in Nat /\ DOMAIN q = 1 .. Len(q)
  BY LenProperties
<1>2. /\ Append(q, x) \in Seq(S)
      /\ Len(Append(q, x)) = Len(q) + 1
      /\ \A i \in 1 .. Len(q) : Append(q, x)[i] = q[i]
      /\ Append(q, x)[Len(q) + 1] = x
      /\ DOMAIN Append(q, x) = 1 .. Len(q) + 1
  BY AppendProperties, LenProperties
<1>3. Range(Append(q, x)) = Range(q) \cup {x}
  BY <1>1, <1>2 DEF Range
<1>4. \A i \in 1 .. Len(q) : q[i] # x
  BY <1>1 DEF Range
<1>5. ASSUME NEW i \in 1 .. Len(q) + 1, NEW j \in 1 .. Len(q) + 1,
             Append(q, x)[i] = Append(q, x)[j]
      PROVE  i = j
  BY <1>1, <1>2, <1>4, <1>5
<1> QED
  BY <1>2, <1>3, <1>5

(***************************************************************************)
(* A sleeper on pause_cond stays wanted paused: the signal is sent in the  *)
(* critical section that changes the state.                                *)
(***************************************************************************)
LEMMA ResumeStep == IInv /\ [Next]_vars => NoLostResume'
<1> SUFFICES ASSUME IInv, [Next]_vars
             PROVE  NoLostResume'
  OBVIOUS
<1> USE PoolAssumption DEF Threads, IInv, TypeOK, PCs, States, Phases,
        NoLostResume, vars, ownerVars, threadVars, queueVars, taskVars, At,
        Goto, LockFree, Usable, SignalNotify, BroadcastNotify, SignalPause,
        Waiting, MustLeave, Joined
<1>1. CASE SpawnThread
  BY <1>1 DEF SpawnThread
<1>2. CASE SpawnFails
  BY <1>2 DEF SpawnFails
<1>3. CASE CancelThread
  BY <1>3 DEF CancelThread
<1>4. CASE JoinCancelled
  BY <1>4 DEF JoinCancelled
<1>5. CASE CreateReturnsNull
  BY <1>5 DEF CreateReturnsNull
<1>6. CASE MarkThread
  BY <1>6 DEF MarkThread
<1>7. CASE JoinThread
  BY <1>7 DEF JoinThread
<1>8. CASE FreePool
  BY <1>8 DEF FreePool
<1>9. ASSUME NEW g \in BOOLEAN, DestroyBegin(g) PROVE NoLostResume'
  BY <1>9 DEF DestroyBegin
<1>10. ASSUME NEW t \in Tasks, AddTask(t) PROVE NoLostResume'
  BY <1>10 DEF AddTask
<1>11. ASSUME NEW w \in Threads, Lookup(w) PROVE NoLostResume'
  BY <1>11 DEF Lookup
<1>12. ASSUME NEW w \in Threads, SetRunning(w) PROVE NoLostResume'
  BY <1>12 DEF SetRunning
<1>13. ASSUME NEW w \in Threads, CheckState(w) PROVE NoLostResume'
  BY <1>13 DEF CheckState
<1>14. ASSUME NEW w \in Threads, WaitForTask(w) PROVE NoLostResume'
  BY <1>14 DEF WaitForTask
<1>15. ASSUME NEW w \in Threads, LeaveLoop(w) PROVE NoLostResume'
  BY <1>15 DEF LeaveLoop
<1>16. ASSUME NEW w \in Threads, TakeTask(w) PROVE NoLostResume'
  BY <1>16 DEF TakeTask
<1>17. ASSUME NEW w \in Threads, TaskReturns(w) PROVE NoLostResume'
  BY <1>17 DEF TaskReturns
<1>18. ASSUME NEW w \in Threads, FreeTask(w) PROVE NoLostResume'
  BY <1>18 DEF FreeTask
<1>19. ASSUME NEW w \in Threads, SetTerminated(w) PROVE NoLostResume'
  BY <1>19 DEF SetTerminated
<1>20. ASSUME NEW w \in Threads, DropActive(w) PROVE NoLostResume'
  BY <1>20 DEF DropActive
<1>21. ASSUME NEW w \in Threads, Cancelled(w) PROVE NoLostResume'
  BY <1>21 DEF Cancelled
<1>22. ASSUME NEW w \in Threads, SpuriousWakeup(w) PROVE NoLostResume'
  BY <1>22 DEF SpuriousWakeup
<1>23. ASSUME NEW w \in Threads, PauseThread(w) PROVE NoLostResume'
  BY <1>23 DEF PauseThread
<1>24. ASSUME NEW w \in Threads, ResumeThread(w) PROVE NoLostResume'
  BY <1>24 DEF ResumeThread
<1>25. ASSUME NEW w \in Threads, TerminateThread(w) PROVE NoLostResume'
  BY <1>25 DEF TerminateThread
<1>26. CASE UNCHANGED vars
  BY <1>26 DEF vars
<1> QED
  BY <1>1, <1>2, <1>3, <1>4, <1>5, <1>6, <1>7, <1>8, <1>9, <1>10, <1>11,
     <1>12, <1>13, <1>14, <1>15, <1>16, <1>17, <1>18, <1>19, <1>20, <1>21,
     <1>22, <1>23, <1>24, <1>25, <1>26
     DEF Next, CreateStep, DestroyStep, WorkerStep, ControlCall

(***************************************************************************)
(* The owner's loops stay in step with the threads.                        *)
(***************************************************************************)
LEMMA OwnerStep == IInv /\ [Next]_vars => OwnerSound'
<1> SUFFICES ASSUME IInv, [Next]_vars
             PROVE  OwnerSound'
  OBVIOUS
<1> USE PoolAssumption DEF Threads, IInv, TypeOK, PCs, States, Phases,
        OwnerSound, NoLostResume, NoLostWakeup, PoolOutlivesWorkers, vars,
        ownerVars, threadVars, queueVars, taskVars, At, Goto, LockFree,
        Usable, SignalNotify, BroadcastNotify, SignalPause, Waiting,
        MustLeave, Joined
<1>1. CASE SpawnThread
  BY <1>1 DEF SpawnThread
<1>2. CASE SpawnFails
  BY <1>2 DEF SpawnFails
<1>3. CASE CancelThread
  BY <1>3 DEF CancelThread
<1>4. CASE JoinCancelled
  <2>1. idx \in Threads /\ idx < N /\ idx # N - 1 /\ idx' = idx + 1
    BY <1>4 DEF JoinCancelled
  <2>2. \A v \in Threads : v < idx + 1 => v < idx \/ v = idx
    BY <2>1
  <2> QED
    BY <1>4, <2>1, <2>2 DEF JoinCancelled
<1>5. CASE CreateReturnsNull
  BY <1>5 DEF CreateReturnsNull
<1>6. CASE MarkThread
  BY <1>6 DEF MarkThread
<1>7. CASE JoinThread
  BY <1>7 DEF JoinThread
<1>8. CASE FreePool
  BY <1>8 DEF FreePool
<1>9. ASSUME NEW g \in BOOLEAN, DestroyBegin(g) PROVE OwnerSound'
  BY <1>9 DEF DestroyBegin
<1>10. ASSUME NEW t \in Tasks, AddTask(t) PROVE OwnerSound'
  BY <1>10 DEF AddTask
<1>11. ASSUME NEW w \in Threads, Lookup(w) PROVE OwnerSound'
  BY <1>11 DEF Lookup
<1>12. ASSUME NEW w \in Threads, SetRunning(w) PROVE OwnerSound'
  BY <1>12 DEF SetRunning
<1>13. ASSUME NEW w \in Threads, CheckState(w) PROVE OwnerSound'
  BY <1>13 DEF CheckState
<1>14. ASSUME NEW w \in Threads, WaitForTask(w) PROVE OwnerSound'
  BY <1>14 DEF WaitForTask
<1>15. ASSUME NEW w \in Threads, LeaveLoop(w) PROVE OwnerSound'
  BY <1>15 DEF LeaveLoop
<1>16. ASSUME NEW w \in Threads, TakeTask(w) PROVE OwnerSound'
  BY <1>16 DEF TakeTask
<1>17. ASSUME NEW w \in Threads, TaskReturns(w) PROVE OwnerSound'
  BY <1>17 DEF TaskReturns
<1>18. ASSUME NEW w \in Threads, FreeTask(w) PROVE OwnerSound'
  BY <1>18 DEF FreeTask
<1>19. ASSUME NEW w \in Threads, SetTerminated(w) PROVE OwnerSound'
  BY <1>19 DEF SetTerminated
<1>20. ASSUME NEW w \in Threads, DropActive(w) PROVE OwnerSound'
  BY <1>20 DEF DropActive
<1>21. ASSUME NEW w \in Threads, Cancelled(w) PROVE OwnerSound'
  BY <1>21 DEF Cancelled
<1>22. ASSUME NEW w \in Threads, SpuriousWakeup(w) PROVE OwnerSound'
  <2>1. CASE At(w, "waiting")
    BY <1>22, <2>1 DEF SpuriousWakeup
  <2>2. CASE At(w, "paused")
    BY <1>22, <2>2 DEF SpuriousWakeup
  <2> QED
    BY <1>22, <2>1, <2>2 DEF SpuriousWakeup
<1>23. ASSUME NEW w \in Threads, PauseThread(w) PROVE OwnerSound'
  BY <1>23 DEF PauseThread
<1>24. ASSUME NEW w \in Threads, ResumeThread(w) PROVE OwnerSound'
  BY <1>24 DEF ResumeThread
<1>25. ASSUME NEW w \in Threads, TerminateThread(w) PROVE OwnerSound'
  BY <1>25 DEF TerminateThread
<1>26. CASE UNCHANGED vars
  BY <1>26 DEF vars
<1> QED
  BY <1>1, <1>2, <1>3, <1>4, <1>5, <1>6, <1>7, <1>8, <1>9, <1>10, <1>11,
     <1>12, <1>13, <1>14, <1>15, <1>16, <1>17, <1>18, <1>19, <1>20, <1>21,
     <1>22, <1>23, <1>24, <1>25, <1>26
     DEF Next, CreateStep, DestroyStep, WorkerStep, ControlCall

(***************************************************************************)
(* The pool is released only when no worker is left.                       *)
(***************************************************************************)
LEMMA OutliveStep == IInv /\ [Next]_vars => PoolOutlivesWorkers'
<1> SUFFICES ASSUME IInv, [Next]_vars
             PROVE  PoolOutlivesWorkers'
  OBVIOUS
<1> USE PoolAssumption DEF Threads, IInv, TypeOK, PCs, States, Phases,
        OwnerSound, PoolOutlivesWorkers, vars, ownerVars, threadVars,
        queueVars, taskVars, At, Goto, LockFree, Usable, SignalNotify,
        BroadcastNotify, SignalPause, Waiting, MustLeave, Joined
<1>1. CASE SpawnThread
  BY <1>1 DEF SpawnThread
<1>2. CASE SpawnFails
  BY <1>2 DEF SpawnFails
<1>3. CASE CancelThread
  BY <1>3 DEF CancelThread
<1>4. CASE JoinCancelled
  BY <1>4 DEF JoinCancelled
<1>5. CASE CreateReturnsNull
  BY <1>5 DEF CreateReturnsNull
<1>6. CASE MarkThread
  BY <1>6 DEF MarkThread
<1>7. CASE JoinThread
  BY <1>7 DEF JoinThread
<1>8. CASE FreePool
  BY <1>8 DEF FreePool
<1>9. ASSUME NEW g \in BOOLEAN, DestroyBegin(g) PROVE PoolOutlivesWorkers'
  BY <1>9 DEF DestroyBegin
<1>10. ASSUME NEW t \in Tasks, AddTask(t) PROVE PoolOutlivesWorkers'
  BY <1>10 DEF AddTask
<1>11. ASSUME NEW w \in Threads, Lookup(w) PROVE PoolOutlivesWorkers'
  BY <1>11 DEF Lookup
<1>12. ASSUME NEW w \in Threads, SetRunning(w) PROVE PoolOutlivesWorkers'
  BY <1>12 DEF SetRunning
<1>13. ASSUME NEW w \in Threads, CheckState(w) PROVE PoolOutlivesWorkers'
  BY <1>13 DEF CheckState
<1>14. ASSUME NEW w \in Threads, WaitForTask(w) PROVE PoolOutlivesWorkers'
  BY <1>14 DEF WaitForTask
<1>15. ASSUME NEW w \in Threads, LeaveLoop(w) PROVE PoolOutlivesWorkers'
  BY <1>15 DEF LeaveLoop
<1>16. ASSUME NEW w \in Threads, TakeTask(w) PROVE PoolOutlivesWorkers'
  BY <1>16 DEF TakeTask
<1>17. ASSUME NEW w \in Threads, TaskReturns(w) PROVE PoolOutlivesWorkers'
  BY <1>17 DEF TaskReturns
<1>18. ASSUME NEW w \in Threads, FreeTask(w) PROVE PoolOutlivesWorkers'
  BY <1>18 DEF FreeTask
<1>19. ASSUME NEW w \in Threads, SetTerminated(w) PROVE PoolOutlivesWorkers'
  BY <1>19 DEF SetTerminated
<1>20. ASSUME NEW w \in Threads, DropActive(w) PROVE PoolOutlivesWorkers'
  BY <1>20 DEF DropActive
<1>21. ASSUME NEW w \in Threads, Cancelled(w) PROVE PoolOutlivesWorkers'
  BY <1>21 DEF Cancelled
<1>22. ASSUME NEW w \in Threads, SpuriousWakeup(w) PROVE PoolOutlivesWorkers'
  BY <1>22 DEF SpuriousWakeup
<1>23. ASSUME NEW w \in Threads, PauseThread(w) PROVE PoolOutlivesWorkers'
  BY <1>23 DEF PauseThread
<1>24. ASSUME NEW w \in Threads, ResumeThread(w) PROVE PoolOutlivesWorkers'
  BY <1>24 DEF ResumeThread
<1>25. ASSUME NEW w \in Threads, TerminateThread(w) PROVE PoolOutlivesWorkers'
  BY <1>25 DEF TerminateThread
<1>26. CASE UNCHANGED vars
  BY <1>26 DEF vars
<1> QED
  BY <1>1, <1>2, <1>3, <1>4, <1>5, <1>6, <1>7, <1>8, <1>9, <1>10, <1>11,
     <1>12, <1>13, <1>14, <1>15, <1>16, <1>17, <1>18, <1>19, <1>20, <1>21,
     <1>22, <1>23, <1>24, <1>25, <1>26
     DEF Next, CreateStep, DestroyStep, WorkerStep, ControlCall

(***************************************************************************)
(* The list and its counter agree, and the list holds the queued tasks.    *)
(***************************************************************************)
LEMMA QueueStep == IInv /\ [Next]_vars => QueueCounted'
<1> SUFFICES ASSUME IInv, [Next]_vars
             PROVE  QueueCounted'
  OBVIOUS
<1> USE PoolAssumption DEF Threads, IInv, TypeOK, PCs, States, Phases,
        QueueCounted, ExclusiveExecution, PoolOutlivesWorkers, Busy, vars,
        ownerVars, threadVars, queueVars, taskVars, At, LockFree, Usable,
        Queued, UnlinkHead, LinkTail
<1>1. CASE SpawnThread
  BY <1>1 DEF SpawnThread
<1>2. CASE SpawnFails
  BY <1>2 DEF SpawnFails
<1>3. CASE CancelThread
  BY <1>3 DEF CancelThread
<1>4. CASE JoinCancelled
  BY <1>4 DEF JoinCancelled
<1>5. CASE CreateReturnsNull
  BY <1>5 DEF CreateReturnsNull
<1>6. CASE MarkThread
  BY <1>6 DEF MarkThread
<1>7. CASE JoinThread
  BY <1>7 DEF JoinThread
<1>8. CASE FreePool
  BY <1>8 DEF FreePool
<1>9. ASSUME NEW g \in BOOLEAN, DestroyBegin(g) PROVE QueueCounted'
  BY <1>9 DEF DestroyBegin
<1>10. ASSUME NEW t \in Tasks, AddTask(t) PROVE QueueCounted'
  <2>1. phase # "freed" /\ queue \in Seq(Tasks) /\ t \notin Range(queue)
    BY <1>10 DEF AddTask
  <2>2. \A i, j \in DOMAIN queue : queue[i] = queue[j] => i = j
    BY <2>1
  <2>3. /\ Len(Append(queue, t)) = Len(queue) + 1
        /\ Range(Append(queue, t)) = Range(queue) \cup {t}
        /\ \A i, j \in DOMAIN Append(queue, t) :
              Append(queue, t)[i] = Append(queue, t)[j] => i = j
    <3> HIDE DEF IInv, QueueCounted
    <3> QED
      BY <2>1, <2>2, AppendElements
  <2> QED
    BY <1>10, <2>1, <2>3 DEF AddTask
<1>11. ASSUME NEW w \in Threads, Lookup(w) PROVE QueueCounted'
  BY <1>11 DEF Lookup
<1>12. ASSUME NEW w \in Threads, SetRunning(w) PROVE QueueCounted'
  BY <1>12 DEF SetRunning
<1>13. ASSUME NEW w \in Threads, CheckState(w) PROVE QueueCounted'
  BY <1>13 DEF CheckState
<1>14. ASSUME NEW w \in Threads, WaitForTask(w) PROVE QueueCounted'
  BY <1>14 DEF WaitForTask
<1>15. ASSUME NEW w \in Threads, LeaveLoop(w) PROVE QueueCounted'
  BY <1>15 DEF LeaveLoop
<1>16. ASSUME NEW w \in Threads, TakeTask(w) PROVE QueueCounted'
  <2>1. phase # "freed" /\ queue \in Seq(Tasks) /\ queue # <<>>
    BY <1>16 DEF TakeTask, PoolOutlivesWorkers
  <2>2. /\ Head(queue) \in Tasks
        /\ Head(queue) \in Range(queue)
        /\ life[Head(queue)] = "queued"
        /\ Tail(queue) \in Seq(Tasks)
        /\ Len(Tail(queue)) = Len(queue) - 1
        /\ Range(Tail(queue)) = Range(queue) \ {Head(queue)}
        /\ \A i, j \in DOMAIN Tail(queue) :
              Tail(queue)[i] = Tail(queue)[j] => i = j
    BY <2>1, TailElements DEF QueueCounted
  <2> QED
    BY <1>16, <2>1, <2>2 DEF TakeTask
<1>17. ASSUME NEW w \in Threads, TaskReturns(w) PROVE QueueCounted'
  BY <1>17 DEF TaskReturns
<1>18. ASSUME NEW w \in Threads, FreeTask(w) PROVE QueueCounted'
  BY <1>18 DEF FreeTask
<1>19. ASSUME NEW w \in Threads, SetTerminated(w) PROVE QueueCounted'
  BY <1>19 DEF SetTerminated
<1>20. ASSUME NEW w \in Threads, DropActive(w) PROVE QueueCounted'
  BY <1>20 DEF DropActive
<1>21. ASSUME NEW w \in Threads, Cancelled(w) PROVE QueueCounted'
  BY <1>21 DEF Cancelled
<1>22. ASSUME NEW w \in Threads, SpuriousWakeup(w) PROVE QueueCounted'
  BY <1>22 DEF SpuriousWakeup
<1>23. ASSUME NEW w \in Threads, PauseThread(w) PROVE QueueCounted'
  BY <1>23 DEF PauseThread
<1>24. ASSUME NEW w \in Threads, ResumeThread(w) PROVE QueueCounted'
  BY <1>24 DEF ResumeThread
<1>25. ASSUME NEW w \in Threads, TerminateThread(w) PROVE QueueCounted'
  BY <1>25 DEF TerminateThread
<1>26. CASE UNCHANGED vars
  BY <1>26 DEF vars
<1> QED
  BY <1>1, <1>2, <1>3, <1>4, <1>5, <1>6, <1>7, <1>8, <1>9, <1>10, <1>11,
     <1>12, <1>13, <1>14, <1>15, <1>16, <1>17, <1>18, <1>19, <1>20, <1>21,
     <1>22, <1>23, <1>24, <1>25, <1>26
     DEF Next, CreateStep, DestroyStep, WorkerStep, ControlCall

(***************************************************************************)
(* No task is executed twice at a time or after it was freed.              *)
(***************************************************************************)
LEMMA ExecutionStep == IInv /\ [Next]_vars => ExclusiveExecution'
<1> SUFFICES ASSUME IInv, [Next]_vars
             PROVE  ExclusiveExecution'
  OBVIOUS
<1> USE PoolAssumption DEF Threads, IInv, TypeOK, PCs, States, Phases,
        QueueCounted, ExclusiveExecution, PoolOutlivesWorkers, OwnerSound,
        Busy, vars, ownerVars, threadVars, queueVars, taskVars, At, Goto,
        LockFree, Usable, SignalNotify, BroadcastNotify, SignalPause, Waiting,
        MustLeave, Joined, UnlinkHead, LinkTail, Queued, Flagged, ClearRuning
<1>1. CASE SpawnThread
  BY <1>1 DEF SpawnThread
<1>2. CASE SpawnFails
  BY <1>2 DEF SpawnFails
<1>3. CASE CancelThread
  BY <1>3 DEF CancelThread
<1>4. CASE JoinCancelled
  BY <1>4 DEF JoinCancelled
<1>5. CASE CreateReturnsNull
  BY <1>5 DEF CreateReturnsNull
<1>6. CASE MarkThread
  BY <1>6 DEF MarkThread
<1>7. CASE JoinThread
  BY <1>7 DEF JoinThread
<1>8. CASE FreePool
  BY <1>8 DEF FreePool
<1>9. ASSUME NEW g \in BOOLEAN, DestroyBegin(g) PROVE ExclusiveExecution'
  BY <1>9 DEF DestroyBegin
<1>10. ASSUME NEW t \in Tasks, AddTask(t) PROVE ExclusiveExecution'
  BY <1>10 DEF AddTask
<1>11. ASSUME NEW w \in Threads, Lookup(w) PROVE ExclusiveExecution'
  BY <1>11 DEF Lookup
<1>12. ASSUME NEW w \in Threads, SetRunning(w) PROVE ExclusiveExecution'
  BY <1>12 DEF SetRunning
<1>13. ASSUME NEW w \in Threads, CheckState(w) PROVE ExclusiveExecution'
  BY <1>13 DEF CheckState
<1>14. ASSUME NEW w \in Threads, WaitForTask(w) PROVE ExclusiveExecution'
  BY <1>14 DEF WaitForTask
<1>15. ASSUME NEW w \in Threads, LeaveLoop(w) PROVE ExclusiveExecution'
  BY <1>15 DEF LeaveLoop
<1>16. ASSUME NEW w \in Threads, TakeTask(w) PROVE ExclusiveExecution'
  <2>1. phase # "freed" /\ queue \in Seq(Tasks) /\ queue # <<>>
    BY <1>16 DEF TakeTask, PoolOutlivesWorkers
  <2>2. /\ Head(queue) \in Tasks
        /\ Head(queue) \in Range(queue)
        /\ life[Head(queue)] = "queued"
        /\ Tail(queue) \in Seq(Tasks)
        /\ Len(Tail(queue)) = Len(queue) - 1
        /\ Range(Tail(queue)) = Range(queue) \ {Head(queue)}
        /\ \A i, j \in DOMAIN Tail(queue) :
              Tail(queue)[i] = Tail(queue)[j] => i = j
    BY <2>1, TailElements DEF QueueCounted
  <2>3. PICK h \in Tasks :
            /\ life[h] = "queued"
            /\ cur' = [cur EXCEPT ![w] = h]
            /\ life' = [life EXCEPT ![h] = "running"]
            /\ pc' = [pc EXCEPT ![w] = "run"]
    BY <1>16, <2>2 DEF TakeTask
  <2>4. \A v \in Threads : v # w => (v \in Busy <=> v \in Busy')
    BY <2>3
  <2>5. \A v \in Busy : cur[v] # h
    BY <2>3
  <2>6. \A v \in Busy' : cur'[v] \in Tasks /\ life'[cur'[v]] = "running"
    BY <2>3, <2>4, <2>5
  <2>7. \A u, v \in Busy' : cur'[u] = cur'[v] => u = v
    BY <2>3, <2>4, <2>5
  <2> QED
    BY <2>6, <2>7
<1>17. ASSUME NEW w \in Threads, TaskReturns(w) PROVE ExclusiveExecution'
  BY <1>17 DEF TaskReturns
<1>18. ASSUME NEW w \in Threads, FreeTask(w) PROVE ExclusiveExecution'
  BY <1>18 DEF FreeTask
<1>19. ASSUME NEW w \in Threads, SetTerminated(w) PROVE ExclusiveExecution'
  BY <1>19 DEF SetTerminated
<1>20. ASSUME NEW w \in Threads, DropActive(w) PROVE ExclusiveExecution'
  BY <1>20 DEF DropActive
<1>21. ASSUME NEW w \in Threads, Cancelled(w) PROVE ExclusiveExecution'
  BY <1>21 DEF Cancelled
<1>22. ASSUME NEW w \in Threads, SpuriousWakeup(w) PROVE ExclusiveExecution'
  BY <1>22 DEF SpuriousWakeup
<1>23. ASSUME NEW w \in Threads, PauseThread(w) PROVE ExclusiveExecution'
  BY <1>23 DEF PauseThread
<1>24. ASSUME NEW w \in Threads, ResumeThread(w) PROVE ExclusiveExecution'
  BY <1>24 DEF ResumeThread
<1>25. ASSUME NEW w \in Threads, TerminateThread(w) PROVE ExclusiveExecution'
  BY <1>25 DEF TerminateThread
<1>26. CASE UNCHANGED vars
  BY <1>26 DEF vars
<1> QED
  BY <1>1, <1>2, <1>3, <1>4, <1>5, <1>6, <1>7, <1>8, <1>9, <1>10, <1>11,
     <1>12, <1>13, <1>14, <1>15, <1>16, <1>17, <1>18, <1>19, <1>20, <1>21,
     <1>22, <1>23, <1>24, <1>25, <1>26
     DEF Next, CreateStep, DestroyStep, WorkerStep, ControlCall

(***************************************************************************)
(* task_runing points to a task that some worker still executes, or to     *)
(* nothing that was ever a task if none was taken yet.                     *)
(***************************************************************************)
LEMMA RuningStep == IInv /\ [Next]_vars => RuningNotDangling'
<1> SUFFICES ASSUME IInv, [Next]_vars
             PROVE  RuningNotDangling'
  OBVIOUS
<1> USE PoolAssumption DEF Threads, IInv, TypeOK, PCs, States, Phases,
        RuningNotDangling, QueueCounted, ExclusiveExecution, OwnerSound, Busy,
        vars, ownerVars, threadVars, queueVars, taskVars, At, Goto, LockFree,
        Usable, SignalNotify, BroadcastNotify, SignalPause, Waiting,
        MustLeave, Joined, UnlinkHead, LinkTail, Queued, Flagged, ClearRuning
<1>1. CASE SpawnThread
  BY <1>1 DEF SpawnThread
<1>2. CASE SpawnFails
  BY <1>2 DEF SpawnFails
<1>3. CASE CancelThread
  BY <1>3 DEF CancelThread
<1>4. CASE JoinCancelled
  BY <1>4 DEF JoinCancelled
<1>5. CASE CreateReturnsNull
  BY <1>5 DEF CreateReturnsNull
<1>6. CASE MarkThread
  BY <1>6 DEF MarkThread
<1>7. CASE JoinThread
  BY <1>7 DEF JoinThread
<1>8. CASE FreePool
  BY <1>8 DEF FreePool
<1>9. ASSUME NEW g \in BOOLEAN, DestroyBegin(g) PROVE RuningNotDangling'
  BY <1>9 DEF DestroyBegin
<1>10. ASSUME NEW t \in Tasks, AddTask(t) PROVE RuningNotDangling'
  BY <1>10 DEF AddTask
<1>11. ASSUME NEW w \in Threads, Lookup(w) PROVE RuningNotDangling'
  BY <1>11 DEF Lookup
<1>12. ASSUME NEW w \in Threads, SetRunning(w) PROVE RuningNotDangling'
  BY <1>12 DEF SetRunning
<1>13. ASSUME NEW w \in Threads, CheckState(w) PROVE RuningNotDangling'
  BY <1>13 DEF CheckState
<1>14. ASSUME NEW w \in Threads, WaitForTask(w) PROVE RuningNotDangling'
  BY <1>14 DEF WaitForTask
<1>15. ASSUME NEW w \in Threads, LeaveLoop(w) PROVE RuningNotDangling'
  BY <1>15 DEF LeaveLoop
<1>16. ASSUME NEW w \in Threads, TakeTask(w) PROVE RuningNotDangling'
  BY <1>16 DEF TakeTask
<1>17. ASSUME NEW w \in Threads, TaskReturns(w) PROVE RuningNotDangling'
  BY <1>17 DEF TaskReturns
<1>18. ASSUME NEW w \in Threads, FreeTask(w) PROVE RuningNotDangling'
  BY <1>18 DEF FreeTask
<1>19. ASSUME NEW w \in Threads, SetTerminated(w) PROVE RuningNotDangling'
  BY <1>19 DEF SetTerminated
<1>20. ASSUME NEW w \in Threads, DropActive(w) PROVE RuningNotDangling'
  BY <1>20 DEF DropActive
<1>21. ASSUME NEW w \in Threads, Cancelled(w) PROVE RuningNotDangling'
  BY <1>21 DEF Cancelled
<1>22. ASSUME NEW w \in Threads, SpuriousWakeup(w) PROVE RuningNotDangling'
  BY <1>22 DEF SpuriousWakeup
<1>23. ASSUME NEW w \in Threads, PauseThread(w) PROVE RuningNotDangling'
  BY <1>23 DEF PauseThread
<1>24. ASSUME NEW w \in Threads, ResumeThread(w) PROVE RuningNotDangling'
  BY <1>24 DEF ResumeThread
<1>25. ASSUME NEW w \in Threads, TerminateThread(w) PROVE RuningNotDangling'
  BY <1>25 DEF TerminateThread
<1>26. CASE UNCHANGED vars
  BY <1>26 DEF vars
<1> QED
  BY <1>1, <1>2, <1>3, <1>4, <1>5, <1>6, <1>7, <1>8, <1>9, <1>10, <1>11,
     <1>12, <1>13, <1>14, <1>15, <1>16, <1>17, <1>18, <1>19, <1>20, <1>21,
     <1>22, <1>23, <1>24, <1>25, <1>26
     DEF Next, CreateStep, DestroyStep, WorkerStep, ControlCall

(***************************************************************************)
(* No queued task escapes destroy's sweep.                                 *)
(***************************************************************************)
LEMMA FlagStep == IInv /\ [Next]_vars => QueuedAreFlagged'
<1> SUFFICES ASSUME IInv, [Next]_vars
             PROVE  QueuedAreFlagged'
  OBVIOUS
<1> USE PoolAssumption DEF Threads, IInv, TypeOK, PCs, States, Phases,
        QueuedAreFlagged, QueueCounted, OwnerSound, vars, ownerVars,
        threadVars, queueVars, taskVars, At, LockFree, Usable, UnlinkHead,
        LinkTail, Queued, Flagged, ClearRuning
<1>1. CASE SpawnThread
  BY <1>1 DEF SpawnThread
<1>2. CASE SpawnFails
  BY <1>2 DEF SpawnFails
<1>3. CASE CancelThread
  BY <1>3 DEF CancelThread
<1>4. CASE JoinCancelled
  BY <1>4 DEF JoinCancelled
<1>5. CASE CreateReturnsNull
  BY <1>5 DEF CreateReturnsNull
<1>6. CASE MarkThread
  BY <1>6 DEF MarkThread
<1>7. CASE JoinThread
  BY <1>7 DEF JoinThread
<1>8. CASE FreePool
  <2>1. Range(<<>>) = {}
    BY DEF Range
  <2> QED
    BY <1>8, <2>1 DEF FreePool
<1>9. ASSUME NEW g \in BOOLEAN, DestroyBegin(g) PROVE QueuedAreFlagged'
  <2>1. Range(queue) \subseteq Tasks
    BY DEF Range
  <2> QED
    BY <1>9, <2>1 DEF DestroyBegin
<1>10. ASSUME NEW t \in Tasks, AddTask(t) PROVE QueuedAreFlagged'
  BY <1>10 DEF AddTask
<1>11. ASSUME NEW w \in Threads, Lookup(w) PROVE QueuedAreFlagged'
  BY <1>11 DEF Lookup
<1>12. ASSUME NEW w \in Threads, SetRunning(w) PROVE QueuedAreFlagged'
  BY <1>12 DEF SetRunning
<1>13. ASSUME NEW w \in Threads, CheckState(w) PROVE QueuedAreFlagged'
  BY <1>13 DEF CheckState
<1>14. ASSUME NEW w \in Threads, WaitForTask(w) PROVE QueuedAreFlagged'
  BY <1>14 DEF WaitForTask
<1>15. ASSUME NEW w \in Threads, LeaveLoop(w) PROVE QueuedAreFlagged'
  BY <1>15 DEF LeaveLoop
<1>16. ASSUME NEW w \in Threads, TakeTask(w) PROVE QueuedAreFlagged'
  <2>1. phase # "freed" /\ queue \in Seq(Tasks) /\ queue # <<>>
    BY <1>16 DEF TakeTask, PoolOutlivesWorkers
  <2>2. /\ Head(queue) \in Tasks
        /\ Head(queue) \in Range(queue)
        /\ life[Head(queue)] = "queued"
        /\ Tail(queue) \in Seq(Tasks)
        /\ Len(Tail(queue)) = Len(queue) - 1
        /\ Range(Tail(queue)) = Range(queue) \ {Head(queue)}
        /\ \A i, j \in DOMAIN Tail(queue) :
              Tail(queue)[i] = Tail(queue)[j] => i = j
    BY <2>1, TailElements DEF QueueCounted
  <2> QED
    BY <1>16, <2>1, <2>2 DEF TakeTask
<1>17. ASSUME NEW w \in Threads, TaskReturns(w) PROVE QueuedAreFlagged'
  BY <1>17 DEF TaskReturns
<1>18. ASSUME NEW w \in Threads, FreeTask(w) PROVE QueuedAreFlagged'
  BY <1>18 DEF FreeTask
<1>19. ASSUME NEW w \in Threads, SetTerminated(w) PROVE QueuedAreFlagged'
  BY <1>19 DEF SetTerminated
<1>20. ASSUME NEW w \in Threads, DropActive(w) PROVE QueuedAreFlagged'
  BY <1>20 DEF DropActive
<1>21. ASSUME NEW w \in Threads, Cancelled(w) PROVE QueuedAreFlagged'
  BY <1>21 DEF Cancelled
<1>22. ASSUME NEW w \in Threads, SpuriousWakeup(w) PROVE QueuedAreFlagged'
  BY <1>22 DEF SpuriousWakeup
<1>23. ASSUME NEW w \in Threads, PauseThread(w) PROVE QueuedAreFlagged'
  BY <1>23 DEF PauseThread
<1>24. ASSUME NEW w \in Threads, ResumeThread(w) PROVE QueuedAreFlagged'
  BY <1>24 DEF ResumeThread
<1>25. ASSUME NEW w \in Threads, TerminateThread(w) PROVE QueuedAreFlagged'
  BY <1>25 DEF TerminateThread
<1>26. CASE UNCHANGED vars
  BY <1>26 DEF vars
<1> QED
  BY <1>1, <1>2, <1>3, <1>4, <1>5, <1>6, <1>7, <1>8, <1>9, <1>10, <1>11,
     <1>12, <1>13, <1>14, <1>15, <1>16, <1>17, <1>18, <1>19, <1>20, <1>21,
     <1>22, <1>23, <1>24, <1>25, <1>26
     DEF Next, CreateStep, DestroyStep, WorkerStep, ControlCall

(***************************************************************************)
(* The sets of threads that the counting invariants measure are finite.    *)
(***************************************************************************)
LEMMA ThreadSetsFinite ==
    /\ IsFiniteSet(Threads)
    /\ IsFiniteSet(Alive) /\ Cardinality(Alive) \in Nat
    /\ IsFiniteSet(Fetching) /\ Cardinality(Fetching) \in Nat
<1>1. IsFiniteSet(Threads)
  BY PoolAssumption, FS_Interval DEF Threads
<1>2. Alive \subseteq Threads /\ Fetching \subseteq Threads
  BY DEF Alive, Fetching
<1> QED
  BY <1>1, <1>2, FS_Subset, FS_CardinalityType

(***************************************************************************)
(* active_threads is right when create has filled it in.                   *)
(***************************************************************************)
LEMMA InitiallyAllAlive == Init => Cardinality(Alive) = N
<1> SUFFICES ASSUME Init
             PROVE  Cardinality(Alive) = N
  OBVIOUS
<1>1. Alive = Threads
  BY DEF Init, Alive
<1>2. Cardinality(0 .. N - 1) = N
  BY PoolAssumption, FS_Interval
<1> QED
  BY <1>1, <1>2 DEF Threads

(***************************************************************************)
(* A step that ends no worker keeps the count of workers.                  *)
(***************************************************************************)
LEMMA SameAlive ==
    ASSUME \A w \in Threads : pc'[w] = "done" <=> pc[w] = "done"
    PROVE  Alive' = Alive
  BY DEF Alive, Threads

(***************************************************************************)
(* A step that sends nobody to sleep on notify and calls nobody back from  *)
(* the queue cannot lose a wakeup.                                         *)
(***************************************************************************)
LEMMA NobodyFallsAsleep ==
    ASSUME NoLostWakeup, TypeOK,
           \A w \in Threads : pc'[w] = "waiting" => pc[w] = "waiting",
           \A w \in Threads : pc[w] = "fetch" => pc'[w] = "fetch",
           shutdown' = shutdown, queue' = queue
    PROVE  NoLostWakeup'
<1>1. Waiting' \subseteq Waiting /\ Fetching \subseteq Fetching'
  BY DEF Waiting, Fetching, Threads
<1>2. Fetching' \subseteq Threads
  BY DEF Fetching, Threads
<1>3. IsFiniteSet(Fetching')
  BY <1>2, ThreadSetsFinite, FS_Subset
<1>4. /\ Cardinality(Fetching) \in Nat
      /\ Cardinality(Fetching') \in Nat
      /\ Cardinality(Fetching) <= Cardinality(Fetching')
  BY <1>1, <1>3, FS_Subset, FS_CardinalityType
<1>5. Len(queue) \in Nat
  BY LenProperties DEF TypeOK
<1> QED
  BY <1>1, <1>4, <1>5 DEF NoLostWakeup

(***************************************************************************)
(* active_threads follows the number of workers.                           *)
(***************************************************************************)
LEMMA ActiveStep == IInv /\ [Next]_vars => ActiveCounted'
<1> SUFFICES ASSUME IInv, [Next]_vars
             PROVE  ActiveCounted'
  OBVIOUS
<1> USE PoolAssumption DEF Threads, IInv, TypeOK, PCs, States, Phases,
        ActiveCounted, OwnerSound, vars, ownerVars, threadVars, queueVars,
        taskVars, At, Goto, LockFree, Usable, SignalNotify, BroadcastNotify,
        SignalPause, Waiting, MustLeave, Joined
<1>1. CASE SpawnThread
  BY <1>1, SameAlive DEF SpawnThread
<1>2. CASE SpawnFails
  BY <1>2, SameAlive DEF SpawnFails
<1>3. CASE CancelThread
  BY <1>3, SameAlive DEF CancelThread
<1>4. CASE JoinCancelled
  BY <1>4, SameAlive DEF JoinCancelled
<1>5. CASE CreateReturnsNull
  BY <1>5, SameAlive DEF CreateReturnsNull
<1>6. CASE MarkThread
  BY <1>6, SameAlive DEF MarkThread
<1>7. CASE JoinThread
  BY <1>7, SameAlive DEF JoinThread
<1>8. CASE FreePool
  BY <1>8, SameAlive DEF FreePool
<1>9. ASSUME NEW g \in BOOLEAN, DestroyBegin(g) PROVE ActiveCounted'
  BY <1>9, SameAlive DEF DestroyBegin
<1>10. ASSUME NEW t \in Tasks, AddTask(t) PROVE ActiveCounted'
  BY <1>10, SameAlive DEF AddTask
<1>11. ASSUME NEW w \in Threads, Lookup(w) PROVE ActiveCounted'
  BY <1>11, SameAlive DEF Lookup
<1>12. ASSUME NEW w \in Threads, SetRunning(w) PROVE ActiveCounted'
  BY <1>12, SameAlive DEF SetRunning
<1>13. ASSUME NEW w \in Threads, CheckState(w) PROVE ActiveCounted'
  BY <1>13, SameAlive DEF CheckState
<1>14. ASSUME NEW w \in Threads, WaitForTask(w) PROVE ActiveCounted'
  BY <1>14, SameAlive DEF WaitForTask
<1>15. ASSUME NEW w \in Threads, LeaveLoop(w) PROVE ActiveCounted'
  BY <1>15, SameAlive DEF LeaveLoop
<1>16. ASSUME NEW w \in Threads, TakeTask(w) PROVE ActiveCounted'
  BY <1>16, SameAlive DEF TakeTask
<1>17. ASSUME NEW w \in Threads, TaskReturns(w) PROVE ActiveCounted'
  BY <1>17, SameAlive DEF TaskReturns
<1>18. ASSUME NEW w \in Threads, FreeTask(w) PROVE ActiveCounted'
  BY <1>18, SameAlive DEF FreeTask
<1>19. ASSUME NEW w \in Threads, SetTerminated(w) PROVE ActiveCounted'
  BY <1>19, SameAlive DEF SetTerminated
<1>20. ASSUME NEW w \in Threads, DropActive(w) PROVE ActiveCounted'
  <2>1. w \in Alive /\ Alive' = Alive \ {w}
    BY <1>20 DEF DropActive, Alive
  <2>2. Cardinality(Alive') = Cardinality(Alive) - 1
    BY <2>1, ThreadSetsFinite, FS_RemoveElement
  <2> QED
    BY <1>20, <2>2 DEF DropActive, CountDown
<1>21. ASSUME NEW w \in Threads, Cancelled(w) PROVE ActiveCounted'
  BY <1>21 DEF Cancelled
<1>22. ASSUME NEW w \in Threads, SpuriousWakeup(w) PROVE ActiveCounted'
  BY <1>22, SameAlive DEF SpuriousWakeup
<1>23. ASSUME NEW w \in Threads, PauseThread(w) PROVE ActiveCounted'
  BY <1>23, SameAlive DEF PauseThread
<1>24. ASSUME NEW w \in Threads, ResumeThread(w) PROVE ActiveCounted'
  BY <1>24, SameAlive DEF ResumeThread
<1>25. ASSUME NEW w \in Threads, TerminateThread(w) PROVE ActiveCounted'
  BY <1>25, SameAlive DEF TerminateThread
<1>26. CASE UNCHANGED vars
  BY <1>26, SameAlive DEF vars
<1> QED
  BY <1>1, <1>2, <1>3, <1>4, <1>5, <1>6, <1>7, <1>8, <1>9, <1>10, <1>11,
     <1>12, <1>13, <1>14, <1>15, <1>16, <1>17, <1>18, <1>19, <1>20, <1>21,
     <1>22, <1>23, <1>24, <1>25, <1>26
     DEF Next, CreateStep, DestroyStep, WorkerStep, ControlCall

(***************************************************************************)
(* No wakeup is lost: add_task signals one sleeper per task, a worker goes *)
(* to sleep only on an empty queue, and destroy wakes them all.            *)
(***************************************************************************)
LEMMA WakeupStep == IInv /\ [Next]_vars => NoLostWakeup'
<1> SUFFICES ASSUME IInv, [Next]_vars
             PROVE  NoLostWakeup'
  OBVIOUS
<1> USE PoolAssumption DEF Threads, IInv, TypeOK, PCs, States, Phases,
        OwnerSound, vars, ownerVars, threadVars, queueVars, taskVars, At,
        Goto, LockFree, Usable, SignalPause, Joined
<1>1. CASE SpawnThread
  BY <1>1, NobodyFallsAsleep DEF SpawnThread
<1>2. CASE SpawnFails
  BY <1>2, NobodyFallsAsleep DEF SpawnFails
<1>3. CASE CancelThread
  BY <1>3, NobodyFallsAsleep DEF CancelThread
<1>4. CASE JoinCancelled
  BY <1>4, NobodyFallsAsleep DEF JoinCancelled
<1>5. CASE CreateReturnsNull
  BY <1>5, NobodyFallsAsleep DEF CreateReturnsNull
<1>6. CASE MarkThread
  BY <1>6, NobodyFallsAsleep DEF MarkThread
<1>7. CASE JoinThread
  BY <1>7, NobodyFallsAsleep DEF JoinThread
<1>8. CASE FreePool
  <2>1. \A v \in Threads : pc[v] = "done"
    BY <1>8 DEF FreePool
  <2>2. Waiting' = {}
    BY <1>8, <2>1 DEF FreePool, Waiting
  <2> QED
    BY <2>2 DEF NoLostWakeup
<1>9. ASSUME NEW g \in BOOLEAN, DestroyBegin(g) PROVE NoLostWakeup'
  <2>1. Waiting' = {}
    BY <1>9 DEF DestroyBegin, BroadcastNotify, Waiting
  <2> QED
    BY <2>1 DEF NoLostWakeup
<1>10. ASSUME NEW t \in Tasks, AddTask(t) PROVE NoLostWakeup'
  <2>1. Len(queue') = Len(queue) + 1 /\ Len(queue) \in Nat
    BY <1>10, AppendProperties, LenProperties DEF AddTask, LinkTail
  <2>2. CASE Waiting = {}
    <3>1. Waiting' = {}
      BY <1>10, <2>2 DEF AddTask, SignalNotify, Waiting
    <3> QED
      BY <3>1 DEF NoLostWakeup
  <2>3. CASE Waiting # {}
    <3>1. PICK v \in Waiting : pc' = [pc EXCEPT ![v] = "fetch"]
      BY <1>10, <2>3 DEF AddTask, SignalNotify
    <3>2. v \notin Fetching /\ Fetching' = Fetching \cup {v}
      BY <3>1 DEF Waiting, Fetching
    <3>3. Cardinality(Fetching') = Cardinality(Fetching) + 1
      BY <3>2, ThreadSetsFinite, FS_AddElement
    <3>4. shutdown = 0 /\ shutdown' = 0 /\ Len(queue) <= Cardinality(Fetching)
      BY <1>10, <2>3 DEF AddTask, NoLostWakeup
    <3> QED
      BY <2>1, <3>3, <3>4, ThreadSetsFinite DEF NoLostWakeup
  <2> QED
    BY <2>2, <2>3
<1>11. ASSUME NEW w \in Threads, Lookup(w) PROVE NoLostWakeup'
  BY <1>11, NobodyFallsAsleep DEF Lookup
<1>12. ASSUME NEW w \in Threads, SetRunning(w) PROVE NoLostWakeup'
  BY <1>12, NobodyFallsAsleep DEF SetRunning
<1>13. ASSUME NEW w \in Threads, CheckState(w) PROVE NoLostWakeup'
  BY <1>13, NobodyFallsAsleep DEF CheckState
<1>14. ASSUME NEW w \in Threads, WaitForTask(w) PROVE NoLostWakeup'
  <2>1. phase # "freed"
    BY <1>14 DEF WaitForTask, PoolOutlivesWorkers
  <2>2. Len(queue') = 0 /\ shutdown' = 0
    BY <1>14, <2>1 DEF WaitForTask, QueueCounted
  <2>3. Fetching' \subseteq Threads
    BY DEF Fetching
  <2>4. Cardinality(Fetching') \in Nat
    BY <2>3, ThreadSetsFinite, FS_Subset, FS_CardinalityType
  <2> QED
    BY <2>2, <2>4 DEF NoLostWakeup
<1>15. ASSUME NEW w \in Threads, LeaveLoop(w) PROVE NoLostWakeup'
  <2>1. Waiting = {}
    BY <1>15 DEF LeaveLoop, MustLeave, NoLostWakeup
  <2>2. Waiting' = {}
    BY <1>15, <2>1 DEF LeaveLoop, Waiting
  <2> QED
    BY <2>2 DEF NoLostWakeup
<1>16. ASSUME NEW w \in Threads, TakeTask(w) PROVE NoLostWakeup'
  <2>1. Len(queue') = Len(queue) - 1 /\ Len(queue) \in Nat
    BY <1>16, HeadTailProperties, LenProperties DEF TakeTask, UnlinkHead
  <2>2. w \in Fetching /\ Fetching' = Fetching \ {w} /\ Waiting' = Waiting
    BY <1>16 DEF TakeTask, Fetching, Waiting
  <2>3. Cardinality(Fetching') = Cardinality(Fetching) - 1
    BY <2>2, ThreadSetsFinite, FS_RemoveElement
  <2>4. shutdown' = shutdown
    BY <1>16 DEF TakeTask
  <2> QED
    BY <2>1, <2>2, <2>3, <2>4, ThreadSetsFinite DEF NoLostWakeup
<1>17. ASSUME NEW w \in Threads, TaskReturns(w) PROVE NoLostWakeup'
  BY <1>17, NobodyFallsAsleep DEF TaskReturns
<1>18. ASSUME NEW w \in Threads, FreeTask(w) PROVE NoLostWakeup'
  BY <1>18, NobodyFallsAsleep DEF FreeTask
<1>19. ASSUME NEW w \in Threads, SetTerminated(w) PROVE NoLostWakeup'
  BY <1>19, NobodyFallsAsleep DEF SetTerminated
<1>20. ASSUME NEW w \in Threads, DropActive(w) PROVE NoLostWakeup'
  BY <1>20, NobodyFallsAsleep DEF DropActive
<1>21. ASSUME NEW w \in Threads, Cancelled(w) PROVE NoLostWakeup'
  BY <1>21, NobodyFallsAsleep DEF Cancelled
<1>22. ASSUME NEW w \in Threads, SpuriousWakeup(w) PROVE NoLostWakeup'
  BY <1>22, NobodyFallsAsleep DEF SpuriousWakeup
<1>23. ASSUME NEW w \in Threads, PauseThread(w) PROVE NoLostWakeup'
  BY <1>23, NobodyFallsAsleep DEF PauseThread
<1>24. ASSUME NEW w \in Threads, ResumeThread(w) PROVE NoLostWakeup'
  BY <1>24, NobodyFallsAsleep DEF ResumeThread
<1>25. ASSUME NEW w \in Threads, TerminateThread(w) PROVE NoLostWakeup'
  BY <1>25, NobodyFallsAsleep DEF TerminateThread
<1>26. CASE UNCHANGED vars
  BY <1>26, NobodyFallsAsleep DEF vars
<1> QED
  BY <1>1, <1>2, <1>3, <1>4, <1>5, <1>6, <1>7, <1>8, <1>9, <1>10, <1>11,
     <1>12, <1>13, <1>14, <1>15, <1>16, <1>17, <1>18, <1>19, <1>20, <1>21,
     <1>22, <1>23, <1>24, <1>25, <1>26
     DEF Next, CreateStep, DestroyStep, WorkerStep, ControlCall

(***************************************************************************)
(* Type correctness; that active_threads does not go below zero needs the  *)
(* counting invariant.                                                     *)
(***************************************************************************)
LEMMA TypeStep == IInv /\ [Next]_vars => TypeOK'
<1> SUFFICES ASSUME IInv, [Next]_vars
             PROVE  TypeOK'
  OBVIOUS
<1> USE PoolAssumption DEF Threads, IInv, TypeOK, PCs, States, Phases,
        OwnerSound, vars, ownerVars, threadVars, queueVars, taskVars, At,
        Goto, LockFree, Usable, SignalNotify, BroadcastNotify, SignalPause,
        Waiting, MustLeave, Joined, UnlinkHead, LinkTail, Queued, Flagged,
        ClearRuning
<1>1. CASE SpawnThread
  BY <1>1 DEF SpawnThread
<1>2. CASE SpawnFails
  BY <1>2 DEF SpawnFails
<1>3. CASE CancelThread
  BY <1>3 DEF CancelThread
<1>4. CASE JoinCancelled
  BY <1>4 DEF JoinCancelled
<1>5. CASE CreateReturnsNull
  BY <1>5 DEF CreateReturnsNull
<1>6. CASE MarkThread
  BY <1>6 DEF MarkThread
<1>7. CASE JoinThread
  BY <1>7 DEF JoinThread
<1>8. CASE FreePool
  BY <1>8 DEF FreePool
<1>9. ASSUME NEW g \in BOOLEAN, DestroyBegin(g) PROVE TypeOK'
  BY <1>9 DEF DestroyBegin
<1>10. ASSUME NEW t \in Tasks, AddTask(t) PROVE TypeOK'
  BY <1>10 DEF AddTask
<1>11. ASSUME NEW w \in Threads, Lookup(w) PROVE TypeOK'
  BY <1>11 DEF Lookup
<1>12. ASSUME NEW w \in Threads, SetRunning(w) PROVE TypeOK'
  BY <1>12 DEF SetRunning
<1>13. ASSUME NEW w \in Threads, CheckState(w) PROVE TypeOK'
  BY <1>13 DEF CheckState
<1>14. ASSUME NEW w \in Threads, WaitForTask(w) PROVE TypeOK'
  BY <1>14 DEF WaitForTask
<1>15. ASSUME NEW w \in Threads, LeaveLoop(w) PROVE TypeOK'
  BY <1>15 DEF LeaveLoop
<1>16. ASSUME NEW w \in Threads, TakeTask(w) PROVE TypeOK'
  BY <1>16 DEF TakeTask
<1>17. ASSUME NEW w \in Threads, TaskReturns(w) PROVE TypeOK'
  BY <1>17 DEF TaskReturns
<1>18. ASSUME NEW w \in Threads, FreeTask(w) PROVE TypeOK'
  BY <1>18 DEF FreeTask
<1>19. ASSUME NEW w \in Threads, SetTerminated(w) PROVE TypeOK'
  BY <1>19 DEF SetTerminated
<1>20. ASSUME NEW w \in Threads, DropActive(w) PROVE TypeOK'
  <2>1. phase \notin {"cancelling", "failed"} /\ w \in Alive
    BY <1>20 DEF DropActive, Alive
  <2>2. Cardinality(Alive) # 0
    BY <2>1, ThreadSetsFinite, FS_EmptySet
  <2>3. active_threads - 1 \in 0 .. N
    BY <2>1, <2>2, ThreadSetsFinite DEF ActiveCounted
  <2> QED
    BY <1>20, <2>3 DEF DropActive, CountDown
<1>21. ASSUME NEW w \in Threads, Cancelled(w) PROVE TypeOK'
  BY <1>21 DEF Cancelled
<1>22. ASSUME NEW w \in Threads, SpuriousWakeup(w) PROVE TypeOK'
  BY <1>22 DEF SpuriousWakeup
<1>23. ASSUME NEW w \in Threads, PauseThread(w) PROVE TypeOK'
  BY <1>23 DEF PauseThread
<1>24. ASSUME NEW w \in Threads, ResumeThread(w) PROVE TypeOK'
  BY <1>24 DEF ResumeThread
<1>25. ASSUME NEW w \in Threads, TerminateThread(w) PROVE TypeOK'
  BY <1>25 DEF TerminateThread
<1>26. CASE UNCHANGED vars
  BY <1>26 DEF vars
<1> QED
  BY <1>1, <1>2, <1>3, <1>4, <1>5, <1>6, <1>7, <1>8, <1>9, <1>10, <1>11,
     <1>12, <1>13, <1>14, <1>15, <1>16, <1>17, <1>18, <1>19, <1>20, <1>21,
     <1>22, <1>23, <1>24, <1>25, <1>26
     DEF Next, CreateStep, DestroyStep, WorkerStep, ControlCall

(***************************************************************************)
(* A freshly allocated pool satisfies the invariant.                       *)
(***************************************************************************)
LEMMA InitInv == Init => IInv
<1> SUFFICES ASSUME Init
             PROVE  IInv
  OBVIOUS
<1> USE PoolAssumption DEF Threads, Init
<1>1. TypeOK
  BY DEF TypeOK, PCs, States, Phases
<1>2. OwnerSound
  BY DEF OwnerSound, At
<1>3. Queued = {} /\ Busy = {} /\ Waiting = {}
  BY DEF Queued, Range, Busy, Waiting
<1>4. QueueCounted /\ ExclusiveExecution /\ QueuedAreFlagged /\ NoLostWakeup
  BY <1>3 DEF QueueCounted, ExclusiveExecution, QueuedAreFlagged, NoLostWakeup
<1>5. RuningNotDangling
  BY DEF RuningNotDangling
<1>6. ActiveCounted
  BY InitiallyAllAlive DEF ActiveCounted
<1>7. NoLostResume /\ PoolOutlivesWorkers
  BY DEF NoLostResume, PoolOutlivesWorkers, At
<1> QED
  BY <1>1, <1>2, <1>4, <1>5, <1>6, <1>7 DEF IInv

(***************************************************************************)
(* Every step of the pool, its workers and its callers preserves IInv.     *)
(***************************************************************************)
LEMMA StepInv == IInv /\ [Next]_vars => IInv'
  BY TypeStep, OwnerStep, QueueStep, ExecutionStep, RuningStep, ActiveStep,
     WakeupStep, ResumeStep, FlagStep, OutliveStep
     DEF IInv

(***************************************************************************)
(* For every number of workers and every set of tasks, however workers,    *)
(* callers, pauses, a failing create and a destroy interleave, the pool    *)
(* keeps all of IInv.                                                      *)
(***************************************************************************)
THEOREM PoolInvariant == Spec => []IInv
<1>1. IInv /\ [Next]_vars => IInv'
  BY StepInv
<1> QED
  BY InitInv, <1>1, PTL DEF Spec

(* The fields of the pool keep their ranges; in particular active_threads
   never goes negative. *)
THEOREM TypeCorrect == Spec => []TypeOK
<1>1. IInv => TypeOK
  BY DEF IInv
<1> QED
  BY PoolInvariant, <1>1, PTL

(* No linx_task_t is executed by two workers at a time or after its free. *)
THEOREM NoDoubleExecution == Spec => []ExclusiveExecution
<1>1. IInv => ExclusiveExecution
  BY DEF IInv
<1> QED
  BY PoolInvariant, <1>1, PTL

(* The pointer that destroy writes through is never a freed task. *)
THEOREM RuningSafe == Spec => []RuningNotDangling
<1>1. IInv => RuningNotDangling
  BY DEF IInv
<1> QED
  BY PoolInvariant, <1>1, PTL

(* No signal or broadcast of pool->notify is lost. *)
THEOREM WakeupsKept == Spec => []NoLostWakeup
<1>1. IInv => NoLostWakeup
  BY DEF IInv
<1> QED
  BY PoolInvariant, <1>1, PTL

(* No worker can touch the pool after it was released. *)
THEOREM ReleasedLast == Spec => []PoolOutlivesWorkers
<1>1. IInv => PoolOutlivesWorkers
  BY DEF IInv
<1> QED
  BY PoolInvariant, <1>1, PTL

(* queue_size is the length of the task list, which holds each task at most
   once and just those that were accepted and not yet taken. *)
THEOREM QueueTrue == Spec => []QueueCounted
<1>1. IInv => QueueCounted
  BY DEF IInv
<1> QED
  BY PoolInvariant, <1>1, PTL

(* active_threads is the number of workers that have not left; it reaches 0
   only with the last of them. *)
THEOREM ActiveTrue == Spec => []ActiveCounted
<1>1. IInv => ActiveCounted
  BY DEF IInv
<1> QED
  BY PoolInvariant, <1>1, PTL

(* No resume or terminate is lost between the test of PAUSED and the wait. *)
THEOREM ResumesKept == Spec => []NoLostResume
<1>1. IInv => NoLostResume
  BY DEF IInv
<1> QED
  BY PoolInvariant, <1>1, PTL

(* Destroy leaves no queued task without its stop flag. *)
THEOREM FlagsComplete == Spec => []QueuedAreFlagged
<1>1. IInv => QueuedAreFlagged
  BY DEF IInv
<1> QED
  BY PoolInvariant, <1>1, PTL

(* Threads come to life in index order, the joined ones are done, and a pool
   that was handed to a caller never has its lock abandoned. *)
THEOREM OwnerConsistent == Spec => []OwnerSound
<1>1. IInv => OwnerSound
  BY DEF IInv
<1> QED
  BY PoolInvariant, <1>1, PTL

-------------------------------------------------------------------------------

(***************************************************************************)
(* Destroy's mark is final: no worker it has passed is wanted paused.      *)
(***************************************************************************)
LEMMA MarkedStep ==
    ASSUME ControlPhases \subseteq {"ready"}
    PROVE  IInv /\ MarkedAwake /\ [Next]_vars => MarkedAwake'
<1> SUFFICES ASSUME IInv, MarkedAwake, [Next]_vars
             PROVE  MarkedAwake'
  OBVIOUS
<1> USE PoolAssumption DEF Threads, IInv, TypeOK, PCs, States, Phases,
        OwnerSound, MarkedAwake, vars, ownerVars, threadVars, queueVars, taskVars, At,
        Goto, LockFree, Usable, SignalNotify, BroadcastNotify, SignalPause,
        Waiting, MustLeave, Joined
<1>1. CASE SpawnThread
  BY <1>1 DEF SpawnThread
<1>2. CASE SpawnFails
  BY <1>2 DEF SpawnFails
<1>3. CASE CancelThread
  BY <1>3 DEF CancelThread
<1>4. CASE JoinCancelled
  BY <1>4 DEF JoinCancelled
<1>5. CASE CreateReturnsNull
  BY <1>5 DEF CreateReturnsNull
<1>6. CASE MarkThread
  BY <1>6 DEF MarkThread
<1>7. CASE JoinThread
  BY <1>7 DEF JoinThread
<1>8. CASE FreePool
  BY <1>8 DEF FreePool
<1>9. ASSUME NEW g \in BOOLEAN, DestroyBegin(g) PROVE MarkedAwake'
  BY <1>9 DEF DestroyBegin
<1>10. ASSUME NEW t \in Tasks, AddTask(t) PROVE MarkedAwake'
  BY <1>10 DEF AddTask
<1>11. ASSUME NEW w \in Threads, Lookup(w) PROVE MarkedAwake'
  BY <1>11 DEF Lookup
<1>12. ASSUME NEW w \in Threads, SetRunning(w) PROVE MarkedAwake'
  BY <1>12 DEF SetRunning
<1>13. ASSUME NEW w \in Threads, CheckState(w) PROVE MarkedAwake'
  BY <1>13 DEF CheckState
<1>14. ASSUME NEW w \in Threads, WaitForTask(w) PROVE MarkedAwake'
  BY <1>14 DEF WaitForTask
<1>15. ASSUME NEW w \in Threads, LeaveLoop(w) PROVE MarkedAwake'
  BY <1>15 DEF LeaveLoop
<1>16. ASSUME NEW w \in Threads, TakeTask(w) PROVE MarkedAwake'
  BY <1>16 DEF TakeTask
<1>17. ASSUME NEW w \in Threads, TaskReturns(w) PROVE MarkedAwake'
  BY <1>17 DEF TaskReturns
<1>18. ASSUME NEW w \in Threads, FreeTask(w) PROVE MarkedAwake'
  BY <1>18 DEF FreeTask
<1>19. ASSUME NEW w \in Threads, SetTerminated(w) PROVE MarkedAwake'
  BY <1>19 DEF SetTerminated
<1>20. ASSUME NEW w \in Threads, DropActive(w) PROVE MarkedAwake'
  BY <1>20 DEF DropActive
<1>21. ASSUME NEW w \in Threads, Cancelled(w) PROVE MarkedAwake'
  BY <1>21 DEF Cancelled
<1>22. ASSUME NEW w \in Threads, SpuriousWakeup(w) PROVE MarkedAwake'
  BY <1>22 DEF SpuriousWakeup
<1>23. ASSUME NEW w \in Threads, PauseThread(w) PROVE MarkedAwake'
  BY <1>23 DEF PauseThread
<1>24. ASSUME NEW w \in Threads, ResumeThread(w) PROVE MarkedAwake'
  BY <1>24 DEF ResumeThread
<1>25. ASSUME NEW w \in Threads, TerminateThread(w) PROVE MarkedAwake'
  BY <1>25 DEF TerminateThread
<1>26. CASE UNCHANGED vars
  BY <1>26 DEF vars
<1> QED
  BY <1>1, <1>2, <1>3, <1>4, <1>5, <1>6, <1>7, <1>8, <1>9, <1>10, <1>11,
     <1>12, <1>13, <1>14, <1>15, <1>16, <1>17, <1>18, <1>19, <1>20, <1>21,
     <1>22, <1>23, <1>24, <1>25, <1>26
     DEF Next, CreateStep, DestroyStep, WorkerStep, ControlCall

(***************************************************************************)
(* No worker sleeps while destroy joins, if nobody pauses workers of a     *)
(* pool that is being destroyed: the broadcast and the marks reach all of  *)
(* them, those that were on their way to sleep included.                   *)
(***************************************************************************)
THEOREM JoinNeverBlocked ==
    ASSUME ControlPhases \subseteq {"ready"}
    PROVE  Spec => []JoinUnblocked
<1>1. Init => MarkedAwake
  BY DEF Init, MarkedAwake
<1>2. IInv /\ MarkedAwake /\ [Next]_vars => MarkedAwake'
  BY MarkedStep
<1>3. IInv /\ MarkedAwake => JoinUnblocked
  BY DEF IInv, MarkedAwake, JoinUnblocked, OwnerSound, NoLostWakeup,
         NoLostResume, LockFree, Waiting, At
<1> QED
  BY PoolInvariant, <1>1, <1>2, <1>3, PTL DEF Spec

(***************************************************************************)
(* While destroy joins, the worker that moves is the only one, and it      *)
(* comes nearer to its end or shortens the queue.                          *)
(***************************************************************************)
LEMMA AdvanceStep ==
    ASSUME ControlPhases \subseteq {"ready"}
    PROVE  IInv /\ JoinUnblocked /\ [Next]_vars => NotInVain
<1> SUFFICES ASSUME IInv, JoinUnblocked, [Next]_vars
             PROVE  NotInVain
  OBVIOUS
<1> USE PoolAssumption DEF Threads, IInv, TypeOK, PCs, States, Phases,
        OwnerSound, JoinUnblocked, NotInVain, Nearer,
        StepsLeft, vars, ownerVars, threadVars, queueVars, taskVars, At,
        Goto, LockFree, Usable, SignalNotify, BroadcastNotify, SignalPause,
        Waiting, MustLeave, Joined
<1>1. CASE SpawnThread
  BY <1>1 DEF SpawnThread
<1>2. CASE SpawnFails
  BY <1>2 DEF SpawnFails
<1>3. CASE CancelThread
  BY <1>3 DEF CancelThread
<1>4. CASE JoinCancelled
  BY <1>4 DEF JoinCancelled
<1>5. CASE CreateReturnsNull
  BY <1>5 DEF CreateReturnsNull
<1>6. CASE MarkThread
  BY <1>6 DEF MarkThread
<1>7. CASE JoinThread
  BY <1>7 DEF JoinThread
<1>8. CASE FreePool
  BY <1>8 DEF FreePool
<1>9. ASSUME NEW g \in BOOLEAN, DestroyBegin(g) PROVE NotInVain
  BY <1>9 DEF DestroyBegin
<1>10. ASSUME NEW t \in Tasks, AddTask(t) PROVE NotInVain
  BY <1>10 DEF AddTask
<1>11. ASSUME NEW w \in Threads, Lookup(w) PROVE NotInVain
  BY <1>11 DEF Lookup
<1>12. ASSUME NEW w \in Threads, SetRunning(w) PROVE NotInVain
  BY <1>12 DEF SetRunning
<1>13. ASSUME NEW w \in Threads, CheckState(w) PROVE NotInVain
  BY <1>13 DEF CheckState
<1>14. ASSUME NEW w \in Threads, WaitForTask(w) PROVE NotInVain
  BY <1>14 DEF WaitForTask
<1>15. ASSUME NEW w \in Threads, LeaveLoop(w) PROVE NotInVain
  BY <1>15 DEF LeaveLoop
<1>16. ASSUME NEW w \in Threads, TakeTask(w) PROVE NotInVain
  <2>1. phase # "freed" /\ queue # <<>>
    BY <1>16 DEF TakeTask, PoolOutlivesWorkers
  <2>2. Len(Tail(queue)) < Len(queue) /\ Len(Tail(queue)) <= Len(queue)
    <3>1. queue \in Seq(Tasks)
      OBVIOUS
    <3> HIDE DEF IInv, TypeOK
    <3> QED
      BY <2>1, <3>1, HeadTailProperties, LenProperties
  <2>3. queue' = Tail(queue) /\ pc' = [pc EXCEPT ![w] = "run"]
    BY <1>16 DEF TakeTask, UnlinkHead
  <2>4. Len(queue') < Len(queue) /\ Len(queue') <= Len(queue)
    BY <2>2, <2>3, Zenon
  <2>5. \A v \in Threads : pc'[v] # pc[v] => v = w
    BY <2>3
  <2>6. \A v \in Threads : Nearer(v)
    BY <2>4
  <2> HIDE DEF IInv, TypeOK, OwnerSound, JoinUnblocked, Nearer
  <2> QED
    BY <2>4, <2>5, <2>6
<1>17. ASSUME NEW w \in Threads, TaskReturns(w) PROVE NotInVain
  BY <1>17 DEF TaskReturns
<1>18. ASSUME NEW w \in Threads, FreeTask(w) PROVE NotInVain
  BY <1>18 DEF FreeTask
<1>19. ASSUME NEW w \in Threads, SetTerminated(w) PROVE NotInVain
  BY <1>19 DEF SetTerminated
<1>20. ASSUME NEW w \in Threads, DropActive(w) PROVE NotInVain
  BY <1>20 DEF DropActive
<1>21. ASSUME NEW w \in Threads, Cancelled(w) PROVE NotInVain
  BY <1>21 DEF Cancelled
<1>22. ASSUME NEW w \in Threads, SpuriousWakeup(w) PROVE NotInVain
  BY <1>22 DEF SpuriousWakeup
<1>23. ASSUME NEW w \in Threads, PauseThread(w) PROVE NotInVain
  BY <1>23 DEF PauseThread
<1>24. ASSUME NEW w \in Threads, ResumeThread(w) PROVE NotInVain
  BY <1>24 DEF ResumeThread
<1>25. ASSUME NEW w \in Threads, TerminateThread(w) PROVE NotInVain
  BY <1>25 DEF TerminateThread
<1>26. CASE UNCHANGED vars
  BY <1>26 DEF vars
<1> QED
  BY <1>1, <1>2, <1>3, <1>4, <1>5, <1>6, <1>7, <1>8, <1>9, <1>10, <1>11,
     <1>12, <1>13, <1>14, <1>15, <1>16, <1>17, <1>18, <1>19, <1>20, <1>21,
     <1>22, <1>23, <1>24, <1>25, <1>26
     DEF Next, CreateStep, DestroyStep, WorkerStep, ControlCall

(***************************************************************************)
(* While destroy joins, every step of a worker is progress: with nobody    *)
(* asleep (JoinNeverBlocked) the joins end once the tasks do.              *)
(***************************************************************************)
THEOREM JoinProgress ==
    ASSUME ControlPhases \subseteq {"ready"}
    PROVE  Spec => JoinAdvances
<1>1. IInv /\ JoinUnblocked /\ [Next]_vars => NotInVain
  BY AdvanceStep
<1> QED
  BY PoolInvariant, JoinNeverBlocked, <1>1, PTL DEF Spec, JoinAdvances

-------------------------------------------------------------------------------
(***************************************************************************)
(* The pool implements TaskPool: every step of ThreadPool is a step of     *)
(* TaskPool or leaves its variables alone.                                 *)
(***************************************************************************)
\* A step of TaskPool, or none, under the mapping of ThreadPool!Abstract.
AbstractStep == [Abstract!Next]_(Abstract!vars)

(***************************************************************************)
(* A step that starts and ends no task, and leaves the queue and shutdown  *)
(* alone, is invisible to TaskPool.                                        *)
(***************************************************************************)
LEMMA Invisible ==
    ASSUME \A w \in Threads : pc[w] \in {"run", "finish"}
                                  <=> pc'[w] \in {"run", "finish"},
           UNCHANGED <<queue, cur, life, shutdown>>
    PROVE  AbstractStep
<1>1. Busy' = Busy
  BY DEF Busy, Threads
<1>2. {cur[w] : w \in Busy}' = {cur[w] : w \in Busy}
  BY <1>1
<1>3. {t \in Tasks : life[t] = "done"}' = {t \in Tasks : life[t] = "done"}
  OBVIOUS
<1>4. (shutdown = 0)' = (shutdown = 0)
  OBVIOUS
<1> QED
  BY <1>2, <1>3, <1>4 DEF AbstractStep, Abstract!vars

(***************************************************************************)
(* Every step of the pool is a step of TaskPool or invisible to it.        *)
(***************************************************************************)
LEMMA AbstractSim == IInv /\ [Next]_vars => AbstractStep
<1> SUFFICES ASSUME IInv, [Next]_vars
             PROVE  AbstractStep
  OBVIOUS
<1> USE PoolAssumption DEF Threads, IInv, TypeOK, PCs, States, Phases,
        OwnerSound, vars, ownerVars, threadVars, queueVars, taskVars, At,
        Goto, LockFree, Usable, SignalNotify, BroadcastNotify, SignalPause,
        Waiting, MustLeave, Joined
<1>1. CASE SpawnThread
  BY <1>1, Invisible DEF SpawnThread
<1>2. CASE SpawnFails
  BY <1>2, Invisible DEF SpawnFails
<1>3. CASE CancelThread
  BY <1>3, Invisible DEF CancelThread
<1>4. CASE JoinCancelled
  BY <1>4, Invisible DEF JoinCancelled
<1>5. CASE CreateReturnsNull
  BY <1>5, Invisible DEF CreateReturnsNull
<1>6. CASE MarkThread
  BY <1>6, Invisible DEF MarkThread
<1>7. CASE JoinThread
  BY <1>7, Invisible DEF JoinThread
<1>8. CASE FreePool
  <2>1. Busy = {} /\ Busy' = {} /\ UNCHANGED cur
    BY <1>8 DEF FreePool, Busy
  <2>2. {cur[w] : w \in Busy} = {} /\ {cur[w] : w \in Busy}' = {}
    BY <2>1
  <2>3. {t \in Tasks : life[t] = "done"}' = {t \in Tasks : life[t] = "done"}
    BY <1>8 DEF FreePool, Queued, IInv, QueueCounted
  <2>4. shutdown # 0 /\ shutdown' = shutdown /\ queue' = <<>>
    BY <1>8 DEF FreePool
  <2>5. Abstract!Discard
    BY <2>2, <2>3, <2>4 DEF Abstract!Discard
  <2> QED
    BY <2>5 DEF AbstractStep, Abstract!Next
<1>9. ASSUME NEW g \in BOOLEAN, DestroyBegin(g) PROVE AbstractStep
  <2>1. Busy' = Busy /\ UNCHANGED <<cur, life, queue>>
    BY <1>9 DEF DestroyBegin, Busy
  <2>2. {cur[w] : w \in Busy}' = {cur[w] : w \in Busy}
    BY <2>1
  <2>3. {t \in Tasks : life[t] = "done"}' = {t \in Tasks : life[t] = "done"}
    BY <2>1
  <2>4. shutdown = 0 /\ shutdown' # 0
    BY <1>9 DEF DestroyBegin
  <2>5. Abstract!Close
    BY <2>1, <2>2, <2>3, <2>4 DEF Abstract!Close
  <2> QED
    BY <2>5 DEF AbstractStep, Abstract!Next
<1>10. ASSUME NEW t \in Tasks, AddTask(t) PROVE AbstractStep
  <2>1. Busy' = Busy /\ UNCHANGED <<cur, shutdown>>
    BY <1>10 DEF AddTask, Busy
  <2>2. {cur[w] : w \in Busy}' = {cur[w] : w \in Busy}
    BY <2>1
  <2>3. life[t] = "new" /\ life' = [life EXCEPT ![t] = "queued"]
    BY <1>10 DEF AddTask
  <2>4. {x \in Tasks : life[x] = "done"}' = {x \in Tasks : life[x] = "done"}
    BY <2>3
  <2>5. t \notin {cur[w] : w \in Busy}
    BY <2>3 DEF ExclusiveExecution
  <2>6. t \notin Range(queue)
    BY <1>10, <2>3 DEF AddTask, QueueCounted, Queued
  <2>7. shutdown = 0 /\ queue' = Append(queue, t)
    BY <1>10 DEF AddTask, LinkTail
  <2>8. Abstract!Submit(t)
    BY <2>1, <2>2, <2>3, <2>4, <2>5, <2>6, <2>7
       DEF Abstract!Submit, Abstract!Pending, Range
  <2> QED
    BY <2>8 DEF AbstractStep, Abstract!Next
<1>11. ASSUME NEW w \in Threads, Lookup(w) PROVE AbstractStep
  BY <1>11, Invisible DEF Lookup
<1>12. ASSUME NEW w \in Threads, SetRunning(w) PROVE AbstractStep
  BY <1>12, Invisible DEF SetRunning
<1>13. ASSUME NEW w \in Threads, CheckState(w) PROVE AbstractStep
  BY <1>13, Invisible DEF CheckState
<1>14. ASSUME NEW w \in Threads, WaitForTask(w) PROVE AbstractStep
  BY <1>14, Invisible DEF WaitForTask
<1>15. ASSUME NEW w \in Threads, LeaveLoop(w) PROVE AbstractStep
  BY <1>15, Invisible DEF LeaveLoop
<1>16. ASSUME NEW w \in Threads, TakeTask(w) PROVE AbstractStep
  <2>1. phase # "freed" /\ queue # <<>>
    BY <1>16 DEF TakeTask, PoolOutlivesWorkers
  <2>2. Head(queue) \in Tasks /\ Head(queue) \in Range(queue)
    BY <2>1, TailElements DEF QueueCounted
  <2>3. life[Head(queue)] = "queued"
    BY <2>1, <2>2 DEF QueueCounted, Queued
  <2>4. PICK h \in Tasks :
            /\ h = Head(queue)
            /\ life[h] = "queued"
            /\ cur' = [cur EXCEPT ![w] = h]
            /\ life' = [life EXCEPT ![h] = "running"]
            /\ pc' = [pc EXCEPT ![w] = "run"]
            /\ queue' = Tail(queue)
            /\ shutdown' = shutdown
    BY <1>16, <2>2, <2>3 DEF TakeTask, UnlinkHead
  <2>5. w \notin Busy /\ Busy' = Busy \cup {w}
    BY <1>16, <2>4 DEF TakeTask, Busy
  <2>6. {cur[v] : v \in Busy}' = {cur[v] : v \in Busy} \cup {h}
    BY <2>4, <2>5 DEF Busy
  <2>7. h \notin {cur[v] : v \in Busy}
    <3>1. \A v \in Busy : life[cur[v]] = "running"
      BY DEF ExclusiveExecution
    <3> HIDE DEF IInv
    <3> QED
      BY <2>4, <3>1
  <2>8. {x \in Tasks : life[x] = "done"}' = {x \in Tasks : life[x] = "done"}
    BY <2>4
  <2>9. Abstract!Start
    BY <2>1, <2>4, <2>6, <2>7, <2>8 DEF Abstract!Start
  <2> QED
    BY <2>9 DEF AbstractStep, Abstract!Next
<1>17. ASSUME NEW w \in Threads, TaskReturns(w) PROVE AbstractStep
  BY <1>17, Invisible DEF TaskReturns
<1>18. ASSUME NEW w \in Threads, FreeTask(w) PROVE AbstractStep
  <2>1. w \in Busy /\ Busy' = Busy \ {w}
    BY <1>18 DEF FreeTask, Busy
  <2>2. PICK h \in Tasks :
            /\ h = cur[w]
            /\ cur' = [cur EXCEPT ![w] = NULL]
            /\ life' = [life EXCEPT ![h] = "done"]
            /\ queue' = queue
            /\ shutdown' = shutdown
    BY <1>18, <2>1 DEF FreeTask, ExclusiveExecution
  <2>3. \A v \in Busy : v # w => cur[v] # h
    BY <2>1, <2>2 DEF ExclusiveExecution
  <2>4. {cur[v] : v \in Busy}' = {cur[v] : v \in Busy} \ {h}
    <3>1. \A v \in Busy' : v \in Busy /\ cur'[v] = cur[v] /\ cur[v] # h
      BY <2>1, <2>2, <2>3 DEF Busy
    <3>2. \A v \in Busy : cur[v] # h => v \in Busy' /\ cur'[v] = cur[v]
      BY <2>1, <2>2 DEF Busy
    <3> HIDE DEF IInv
    <3> QED
      BY <3>1, <3>2
  <2>5. {x \in Tasks : life[x] = "done"}'
          = {x \in Tasks : life[x] = "done"} \cup {h}
    BY <2>2
  <2>6. h \in {cur[v] : v \in Busy}
    BY <2>1, <2>2
  <2>7. Abstract!Finish(h)
    BY <2>2, <2>4, <2>5, <2>6 DEF Abstract!Finish
  <2> QED
    BY <2>7 DEF AbstractStep, Abstract!Next
<1>19. ASSUME NEW w \in Threads, SetTerminated(w) PROVE AbstractStep
  BY <1>19, Invisible DEF SetTerminated
<1>20. ASSUME NEW w \in Threads, DropActive(w) PROVE AbstractStep
  BY <1>20, Invisible DEF DropActive
<1>21. ASSUME NEW w \in Threads, Cancelled(w) PROVE AbstractStep
  BY <1>21, Invisible DEF Cancelled
<1>22. ASSUME NEW w \in Threads, SpuriousWakeup(w) PROVE AbstractStep
  BY <1>22, Invisible DEF SpuriousWakeup
<1>23. ASSUME NEW w \in Threads, PauseThread(w) PROVE AbstractStep
  BY <1>23, Invisible DEF PauseThread
<1>24. ASSUME NEW w \in Threads, ResumeThread(w) PROVE AbstractStep
  BY <1>24, Invisible DEF ResumeThread
<1>25. ASSUME NEW w \in Threads, TerminateThread(w) PROVE AbstractStep
  BY <1>25, Invisible DEF TerminateThread
<1>26. CASE UNCHANGED vars
  BY <1>26, Invisible DEF vars
<1> QED
  BY <1>1, <1>2, <1>3, <1>4, <1>5, <1>6, <1>7, <1>8, <1>9, <1>10, <1>11,
     <1>12, <1>13, <1>14, <1>15, <1>16, <1>17, <1>18, <1>19, <1>20, <1>21,
     <1>22, <1>23, <1>24, <1>25, <1>26
     DEF Next, CreateStep, DestroyStep, WorkerStep, ControlCall

(***************************************************************************)
(* A freshly created pool maps to the initial state of TaskPool.           *)
(***************************************************************************)
LEMMA AbstractInit == Init => Abstract!Init
<1> SUFFICES ASSUME Init
             PROVE  Abstract!Init
  OBVIOUS
<1>1. Busy = {}
  BY DEF Init, Busy
<1>2. {cur[w] : w \in Busy} = {}
  BY <1>1
<1>3. {t \in Tasks : life[t] = "done"} = {}
  BY DEF Init
<1> QED
  BY <1>2, <1>3 DEF Init, Abstract!Init

(***************************************************************************)
(* Whatever the number of workers, callers see first-in first-out start,   *)
(* at most one execution of each task, no acceptance after shutdown and no *)
(* loss of a task that was started.                                        *)
(***************************************************************************)
THEOREM PoolImplementsTaskPool == Spec => ImplementsTaskPool
<1>1. IInv /\ [Next]_vars => [Abstract!Next]_(Abstract!vars)
  BY AbstractSim DEF AbstractStep
<1> QED
  BY PoolInvariant, AbstractInit, <1>1, PTL
     DEF Spec, ImplementsTaskPool, Abstract!Spec
===============================================================================
