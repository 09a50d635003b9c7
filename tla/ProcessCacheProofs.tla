-------------------------- MODULE ProcessCacheProofs --------------------------
(***************************************************************************)
(* The safety of the process cache, for any set of processes, any number   *)
(* of workers and any time of expiry.                                      *)
(***************************************************************************)
EXTENDS ProcessCache, FiniteSetTheorems, TLAPS

(***************************************************************************)
(* A scan of /proc queues pids.                                            *)
(***************************************************************************)
LEMMA ScanType == SetToSeq(Listed) \in Seq(Pids)
<1>1. IsFiniteSet(Listed)
  BY CacheAssumption, FS_Subset DEF Listed
<1>2. Cardinality(Listed) \in Nat /\ ExistsBijection(1 .. Cardinality(Listed), Listed)
  BY <1>1, FS_CardinalityType
<1>3. PICK f \in Bijection(1 .. Cardinality(Listed), Listed) : TRUE
  BY <1>2 DEF ExistsBijection
<1>4. f \in [1 .. Cardinality(Listed) -> Listed] /\ IsInjective(f)
  BY <1>3 DEF Bijection, Injection, IsInjective
<1>5. SetToSeq(Listed) \in [1 .. Cardinality(Listed) -> Listed]
  BY <1>4 DEF SetToSeq
<1>6. Listed \subseteq Pids
  BY DEF Listed
<1> QED
  BY <1>2, <1>5, <1>6

(***************************************************************************)
(* What a table entry is.                                                  *)
(***************************************************************************)
Entry(info) == info \in Info \cup {None} /\ (info.alive => info.age = 0)

(***************************************************************************)
(* An update carries a recorded exit over and is an entry again.           *)
(***************************************************************************)
LEMMA MergedEntry ==
    ASSUME NEW old, Entry(old), NEW rich \in BOOLEAN
    PROVE  /\ Entry(Merged(old, Fresh(rich)))
           /\ old # None /\ ~old.alive =>
                 /\ ~Merged(old, Fresh(rich)).alive
                 /\ Merged(old, Fresh(rich)).age = old.age
<1>1. CASE old # None /\ ~old.alive
  <2>1. old.age \in Ages
    BY <1>1 DEF Entry, Info
  <2>2. Merged(old, Fresh(rich)) = [alive |-> FALSE, rich |-> rich, age |->
    old.age]
    BY <1>1 DEF Merged, Fresh
  <2> QED
    BY <2>1, <2>2 DEF Entry, Info
<1>2. CASE ~(old # None /\ ~old.alive)
  <2>1. Merged(old, Fresh(rich)) = [alive |-> TRUE, rich |-> rich, age |-> 0]
    BY <1>2 DEF Merged, Fresh
  <2>2. 0 \in Ages
    BY CacheAssumption DEF Ages
  <2> QED
    BY <1>2, <2>1, <2>2 DEF Entry, Info
<1> QED
  BY <1>1, <1>2

(***************************************************************************)
(* One unit of time leaves an entry an entry.                              *)
(***************************************************************************)
LEMMA OlderEntry ==
    ASSUME NEW info, Entry(info), info # None, ~info.alive, info.age <= Expire
    PROVE  Entry([info EXCEPT !.age = @ + 1])
<1>1. /\ info.age \in Ages /\ info.age + 1 \in Ages
      /\ info.rich \in BOOLEAN /\ info.alive \in BOOLEAN
  BY CacheAssumption DEF Entry, Info, Ages
<1>2. [info EXCEPT !.age = @ + 1]
         = [alive |-> info.alive, rich |-> info.rich, age |-> info.age + 1]
  <2>1. info \in Info /\ info.alive = FALSE
    BY DEF Entry, Info
  <2>2. ASSUME NEW x
        PROVE  [info EXCEPT !.age = x]
                  = [alive |-> info.alive, rich |-> info.rich, age |-> x]
    BY <2>1 DEF Info
  <2> QED
    BY <2>2
<1> QED
  BY <1>1, <1>2 DEF Entry, Info

(***************************************************************************)
(* Every action keeps the types; the merge of an update with a recorded    *)
(* exit keeps an age for dead entries only.                                *)
(***************************************************************************)
LEMMA TypeStep == TypeOK /\ [Next]_vars => TypeOK'
<1> SUFFICES ASSUME TypeOK, [Next]_vars PROVE TypeOK'
  OBVIOUS
<1> USE CacheAssumption DEF TypeOK, Info, None, Ages
<1>1. ASSUME NEW p \in Pids, ProcessStarts(p)
      PROVE  TypeOK'
  BY <1>1 DEF ProcessStarts, worldVars, poolVars
<1>2. ASSUME NEW p \in Pids, ProcessExits(p)
      PROVE  TypeOK'
  BY <1>2 DEF ProcessExits, worldVars, poolVars
<1>3. ASSUME NEW p \in Pids, ProcessExecs(p)
      PROVE  TypeOK'
  BY <1>3 DEF ProcessExecs, worldVars, poolVars
<1>4. ASSUME NEW p \in Pids, InsertUpdate(p)
      PROVE  TypeOK'
  <2>1. Entry(table[p]) /\ Entry(Merged(table[p], Fresh(FALSE)))
    BY MergedEntry DEF Entry
  <2>2. table' \in [Pids -> Info \cup {None}]
        /\ \A q \in Pids : table'[q].alive => table'[q].age = 0
    BY <1>4, <2>1 DEF InsertUpdate, Replace, Entry
  <2>3. reading' \in [Pids -> Nat]
    BY <1>4 DEF InsertUpdate
  <2> QED
    BY <1>4, <2>2, <2>3 DEF InsertUpdate, worldVars, poolVars
<1>5. ASSUME NEW p \in Pids, RichUpdate(p)
      PROVE  TypeOK'
  <2>1. Entry(table[p]) /\ Entry(Merged(table[p], Fresh(TRUE)))
    BY MergedEntry DEF Entry
  <2>2. table' \in [Pids -> Info \cup {None}]
        /\ \A q \in Pids : table'[q].alive => table'[q].age = 0
    BY <1>5, <2>1 DEF RichUpdate, Replace, Entry
  <2> QED
    BY <1>5, <2>2 DEF RichUpdate, worldVars, poolVars
<1>6. ASSUME NEW p \in Pids, UpdateAsync(p)
      PROVE  TypeOK'
  BY <1>6 DEF UpdateAsync, Running, worldVars, poolVars
<1>7. ASSUME NEW p \in Pids, UpdateSync(p)
      PROVE  TypeOK'
  BY <1>7 DEF UpdateSync, Running, worldVars, poolVars
<1>8. ASSUME NEW p \in Pids, Delete(p)
      PROVE  TypeOK'
  BY <1>8 DEF Delete, Running, worldVars, poolVars
<1>9. CASE Tick
  <2>1. ASSUME NEW p \in Pids
        PROVE  Entry(table'[p])
    <3>1. Entry(table[p])
      BY DEF Entry
    <3>2. CASE Dead(p) /\ table[p].age <= Expire
      BY <1>9, <3>1, <3>2, OlderEntry DEF Tick, Dead, Cached
    <3>3. CASE ~(Dead(p) /\ table[p].age <= Expire)
      BY <1>9, <3>1, <3>3 DEF Tick
    <3> QED
      BY <3>2, <3>3
  <2>2. table' \in [Pids -> Info \cup {None}]
        /\ \A p \in Pids : table'[p].alive => table'[p].age = 0
    BY <1>9, <2>1 DEF Tick, Entry
  <2> QED
    BY <1>9, <2>2 DEF Tick, worldVars, poolVars
<1>10. CASE CacheInit
  BY <1>10 DEF CacheInit, worldVars, poolVars
<1>11. CASE CacheInitFails
  BY <1>11 DEF CacheInitFails, worldVars, poolVars
<1>12. CASE TakeTask
  BY <1>12 DEF TakeTask, Running, worldVars, poolVars
<1>13. CASE MonitorScan
  <2>1. queue \in Seq(Pids \cup {"monitor", "cleaner"})
    BY DEF TypeOK
  <2>2. SetToSeq(Listed) \in Seq(Pids \cup {"monitor", "cleaner"})
    BY ScanType
  <2>3. queue' \in Seq(Pids \cup {"monitor", "cleaner"})
    BY <1>13, <2>1, <2>2 DEF MonitorScan
  <2> QED
    BY <1>13, <2>3 DEF MonitorScan, worldVars, poolVars
<1>14. CASE MonitorEnds
  BY <1>14 DEF MonitorEnds, Running, worldVars, poolVars
<1>15. CASE MonitorMark
  BY <1>15 DEF MonitorMark, Cached, worldVars, poolVars
<1>16. CASE CleanerSweep
  BY <1>16 DEF CleanerSweep, Running, Swept, Expired, worldVars, poolVars
<1>17. CASE Cleanup
  BY <1>17 DEF Cleanup, Running, Expired, worldVars, poolVars
<1>18. CASE DeinitBegin
  BY <1>18 DEF DeinitBegin, worldVars, poolVars
<1>19. CASE DeinitEnd
  BY <1>19 DEF DeinitEnd, PoolJoined, worldVars, poolVars
<1>20. CASE UNCHANGED vars
  BY <1>20 DEF vars, worldVars, poolVars
<1> QED
  BY <1>1, <1>2, <1>3, <1>4, <1>5, <1>6, <1>7, <1>8, <1>9, <1>10, <1>11, <1>12,
     <1>13, <1>14, <1>15, <1>16, <1>17, <1>18, <1>19, <1>20
     DEF Next, World, Call, Monitor

(***************************************************************************)
(* An entry that is alive has no exit time, and every field keeps its      *)
(* range, however updates, loops, calls and deinit interleave.             *)
(***************************************************************************)
THEOREM CacheTypes == Spec => []TypeOK
<1>1. Init => TypeOK
  BY CacheAssumption DEF Init, TypeOK, Info, None, Ages
<1> QED
  BY <1>1, TypeStep, PTL DEF Spec

(***************************************************************************)
(* What a step may do to an entry that records an exit.                    *)
(***************************************************************************)
ExitStays ==
    \A p \in Pids : Dead(p) =>
        table'[p] = None \/ (~table'[p].alive /\ table'[p].age >= table[p].age)

(***************************************************************************)
(* No action undoes a recorded exit.                                       *)
(***************************************************************************)
LEMMA ExitStep == TypeOK /\ [Next]_vars => ExitStays
<1> SUFFICES ASSUME TypeOK, [Next]_vars PROVE ExitStays
  OBVIOUS
<1> USE CacheAssumption DEF TypeOK, ExitStays, Dead, Cached, Info,
    None, Ages
<1>1. ASSUME NEW p \in Pids, ProcessStarts(p)
      PROVE  ExitStays
  BY <1>1 DEF ProcessStarts, worldVars, poolVars
<1>2. ASSUME NEW p \in Pids, ProcessExits(p)
      PROVE  ExitStays
  BY <1>2 DEF ProcessExits, worldVars, poolVars
<1>3. ASSUME NEW p \in Pids, ProcessExecs(p)
      PROVE  ExitStays
  BY <1>3 DEF ProcessExecs, worldVars, poolVars
<1>4. ASSUME NEW p \in Pids, InsertUpdate(p)
      PROVE  ExitStays
  <2>1. Entry(table[p])
    BY DEF Entry
  <2>2. Dead(p) => /\ ~Merged(table[p], Fresh(FALSE)).alive
                   /\ Merged(table[p], Fresh(FALSE)).age = table[p].age
    BY <2>1, MergedEntry
  <2>3. ASSUME NEW q \in Pids, Dead(q)
        PROVE  /\ ~table'[q].alive /\ table'[q].age = table[q].age
    BY <1>4, <2>2, <2>3 DEF InsertUpdate, Replace
  <2>4. \A q \in Pids : Dead(q) => table[q].age \in Int
    BY DEF Dead
  <2> QED
    BY <2>3, <2>4
<1>5. ASSUME NEW p \in Pids, RichUpdate(p)
      PROVE  ExitStays
  <2>1. Entry(table[p])
    BY DEF Entry
  <2>2. Dead(p) => /\ ~Merged(table[p], Fresh(TRUE)).alive
                   /\ Merged(table[p], Fresh(TRUE)).age = table[p].age
    BY <2>1, MergedEntry
  <2>3. ASSUME NEW q \in Pids, Dead(q)
        PROVE  /\ ~table'[q].alive /\ table'[q].age = table[q].age
    BY <1>5, <2>2, <2>3 DEF RichUpdate, Replace
  <2>4. \A q \in Pids : Dead(q) => table[q].age \in Int
    BY DEF Dead
  <2> QED
    BY <2>3, <2>4
<1>6. ASSUME NEW p \in Pids, UpdateAsync(p)
      PROVE  ExitStays
  BY <1>6 DEF UpdateAsync, Running, worldVars, poolVars
<1>7. ASSUME NEW p \in Pids, UpdateSync(p)
      PROVE  ExitStays
  BY <1>7 DEF UpdateSync, Running, worldVars, poolVars
<1>8. ASSUME NEW p \in Pids, Delete(p)
      PROVE  ExitStays
  BY <1>8 DEF Delete, Running, worldVars, poolVars
<1>9. CASE Tick
  BY <1>9 DEF Tick, Dead, Cached, worldVars, poolVars
<1>10. CASE CacheInit
  BY <1>10 DEF CacheInit, worldVars, poolVars
<1>11. CASE CacheInitFails
  BY <1>11 DEF CacheInitFails, worldVars, poolVars
<1>12. CASE TakeTask
  BY <1>12 DEF TakeTask, Running, worldVars, poolVars
<1>13. CASE MonitorScan
  BY <1>13 DEF MonitorScan, Running, worldVars, poolVars
<1>14. CASE MonitorEnds
  BY <1>14 DEF MonitorEnds, Running, worldVars, poolVars
<1>15. CASE MonitorMark
  <2>1. ASSUME NEW p \in Pids, Dead(p)
        PROVE  table'[p] = table[p]
    <3>1. ~table[p].alive
      BY <2>1
    <3> QED
      BY <1>15, <3>1 DEF MonitorMark
  <2>2. \A p \in Pids : Dead(p) => ~table[p].alive /\ table[p].age \in Int
    OBVIOUS
  <2> QED
    BY <2>1, <2>2
<1>16. CASE CleanerSweep
  BY <1>16 DEF CleanerSweep, Running, Swept, Expired, worldVars, poolVars
<1>17. CASE Cleanup
  BY <1>17 DEF Cleanup, Running, Expired, worldVars, poolVars
<1>18. CASE DeinitBegin
  BY <1>18 DEF DeinitBegin, worldVars, poolVars
<1>19. CASE DeinitEnd
  BY <1>19 DEF DeinitEnd, PoolJoined, worldVars, poolVars
<1>20. CASE UNCHANGED vars
  BY <1>20 DEF vars, worldVars, poolVars
<1> QED
  BY <1>1, <1>2, <1>3, <1>4, <1>5, <1>6, <1>7, <1>8, <1>9, <1>10, <1>11, <1>12,
     <1>13, <1>14, <1>15, <1>16, <1>17, <1>18, <1>19, <1>20
     DEF Next, World, Call, Monitor

(***************************************************************************)
(* A recorded exit stays recorded until the entry leaves the table,        *)
(* whatever an update read from /proc before it.                           *)
(***************************************************************************)
THEOREM ExitsFinal == Spec => ExitKept
<1>1. TypeOK /\ [Next]_vars => [ExitStays]_vars
  BY ExitStep
<1> QED
  BY <1>1, CacheTypes, PTL DEF Spec, ExitKept, ExitStays

(***************************************************************************)
(* Where a loop is on the queue: nowhere, or at one place.                 *)
(***************************************************************************)
Once(t, idle) ==
    IF idle THEN \E i \in 1 .. Len(queue) : Queued(t) = {i} ELSE Queued(t) = {}

LoopsInv ==
    /\ phase = "start" => monitor = "idle" /\ cleaner = "idle"
    /\ phase = "up" => /\ Once("monitor", monitor = "idle")
                       /\ Once("cleaner", cleaner = "idle")

(***************************************************************************)
(* Taking the head moves every other task one place forward.               *)
(***************************************************************************)
LEMMA QueuedTail ==
    ASSUME TypeOK, queue # <<>>, queue' = Tail(queue), NEW t, NEW idle \in BOOLEAN,
           Once(t, idle)
    PROVE  /\ Head(queue) = t => idle /\ Once(t, FALSE)'
           /\ Head(queue) # t => Once(t, idle)'
<1>1. /\ Len(queue) \in Nat \ {0} /\ Len(queue') = Len(queue) - 1
      /\ Head(queue) = queue[1]
      /\ \A i \in 1 .. Len(queue) - 1 : queue'[i] = queue[i + 1]
  BY DEF TypeOK
<1>2. \A i \in 1 .. Len(queue') : i \in Queued(t)' <=> i + 1 \in Queued(t)
  BY <1>1 DEF Queued
<1>3. CASE Head(queue) = t
  <2>1. 1 \in Queued(t)
    BY <1>1, <1>3 DEF Queued
  <2>2. idle /\ Queued(t) = {1}
    BY <2>1 DEF Once
  <2>3. Queued(t)' = {}
    BY <1>1, <1>2, <2>2 DEF Queued
  <2> QED
    BY <1>3, <2>2, <2>3 DEF Once
<1>4. CASE Head(queue) # t
  <2>1. CASE idle
    <3>1. PICK i \in 1 .. Len(queue) : Queued(t) = {i}
      BY <2>1 DEF Once
    <3>2. i # 1
      BY <1>1, <1>4, <3>1 DEF Queued
    <3>3. i - 1 \in 1 .. Len(queue') /\ (i - 1) + 1 = i
      BY <1>1, <3>2
    <3>4. i - 1 \in Queued(t)'
      BY <1>2, <3>1, <3>3
    <3>5. \A j \in Queued(t)' : j = i - 1
      <4> SUFFICES ASSUME NEW j \in Queued(t)' PROVE j = i - 1
        OBVIOUS
      <4>1. j \in 1 .. Len(queue')
        BY DEF Queued
      <4>2. j + 1 = i
        BY <1>2, <3>1, <4>1
      <4> QED
        BY <1>1, <4>1, <4>2
    <3>6. Queued(t)' = {i - 1}
      BY <3>4, <3>5
    <3> QED
      BY <1>4, <2>1, <3>3, <3>6 DEF Once
  <2>2. CASE ~idle
    <3>1. Queued(t)' = {}
      BY <1>2, <2>2 DEF Once, Queued
    <3> QED
      BY <1>4, <2>2, <3>1 DEF Once
  <2> QED
    BY <2>1, <2>2
<1> QED
  BY <1>3, <1>4

(***************************************************************************)
(* Updates join the queue behind the loops and are none of them.           *)
(***************************************************************************)
LEMMA QueuedAppend ==
    ASSUME TypeOK, NEW s \in Seq(Pids), queue' = queue \o s,
           NEW t \in {"monitor", "cleaner"}, NEW idle \in BOOLEAN, Once(t, idle)
    PROVE  Once(t, idle)'
<1>1. /\ queue \in Seq(Pids \cup {"monitor", "cleaner"}) /\ s \in Seq(Pids)
      /\ Len(queue) \in Nat /\ Len(s) \in Nat
  BY DEF TypeOK
<1>2. /\ Len(queue') = Len(queue) + Len(s)
      /\ \A i \in 1 .. Len(queue') :
            queue'[i] = IF i <= Len(queue) THEN queue[i] ELSE s[i - Len(queue)]
  BY <1>1
<1>3. \A j \in 1 .. Len(s) : s[j] # t
  BY <1>1, CacheAssumption
<1>4. \A i \in 1 .. Len(queue') : queue'[i] = t <=> i <= Len(queue) /\ queue[i] = t
  <2> SUFFICES ASSUME NEW i \in 1 .. Len(queue')
               PROVE  queue'[i] = t <=> i <= Len(queue) /\ queue[i] = t
    OBVIOUS
  <2>1. CASE i <= Len(queue)
    BY <1>2, <2>1
  <2>2. CASE ~(i <= Len(queue))
    <3>1. i - Len(queue) \in 1 .. Len(s)
      BY <1>1, <1>2, <2>2
    <3> QED
      BY <1>2, <1>3, <2>2, <3>1
  <2> QED
    BY <2>1, <2>2
<1>5. Queued(t)' = Queued(t)
  BY <1>1, <1>2, <1>4 DEF Queued
<1>6. 1 .. Len(queue) \subseteq 1 .. Len(queue')
  BY <1>1, <1>2
<1> QED
  BY <1>5, <1>6 DEF Once

LEMMA LoopsStep == TypeOK /\ LoopsInv /\ [Next]_vars => LoopsInv'
<1> SUFFICES ASSUME TypeOK, LoopsInv, [Next]_vars PROVE LoopsInv'
  OBVIOUS
<1> USE DEF LoopsInv, worldVars, poolVars
<1>1. TypeOK
  BY DEF TypeOK
<1>2. ASSUME queue' = queue
      PROVE  \A t, b : Once(t, b)' <=> Once(t, b)
  BY <1>2 DEF Once, Queued
<1>3. CASE CacheInit
  <2>1. /\ phase' = "up" /\ queue' = <<"monitor", "cleaner">>
        /\ monitor' = "idle" /\ cleaner' = "idle"
    BY <1>3 DEF CacheInit
  <2>2. /\ Len(queue') = 2 /\ queue'[1] = "monitor" /\ queue'[2] = "cleaner"
    BY <2>1
  <2>3. /\ Queued("monitor")' = {1} /\ Queued("cleaner")' = {2}
    BY <2>2 DEF Queued
  <2> QED
    BY <2>1, <2>2, <2>3 DEF Once
<1>4. CASE TakeTask
  <2>1. CASE Running
    <3>1. /\ phase = "up" /\ phase' = "up" /\ queue # <<>> /\ queue' = Tail(queue)
          /\ monitor' = IF Head(queue) = "monitor" THEN "scan" ELSE monitor
          /\ cleaner' = IF Head(queue) = "cleaner" THEN "sweep" ELSE cleaner
      BY <1>4, <2>1 DEF TakeTask, Running
    <3>2. Once("monitor", monitor = "idle") /\ Once("cleaner", cleaner = "idle")
      BY <3>1
    <3>3. Once("monitor", monitor = "idle")'
      <4>1. CASE Head(queue) = "monitor"
        <5>1. Once("monitor", FALSE)' /\ monitor' = "scan"
          BY <1>1, <3>1, <3>2, <4>1, QueuedTail
        <5> QED
          BY <5>1 DEF Once
      <4>2. CASE Head(queue) # "monitor"
        <5>1. monitor' = monitor
          BY <3>1, <4>2
        <5>2. ASSUME NEW b \in BOOLEAN, Once("monitor", b) PROVE Once("monitor", b)'
          BY <1>1, <3>1, <4>2, <5>2, QueuedTail
        <5>3. (monitor = "idle") \in BOOLEAN
          OBVIOUS
        <5> QED
          BY <3>2, <5>1, <5>2, <5>3 DEF Once
      <4> QED
        BY <4>1, <4>2
    <3>4. Once("cleaner", cleaner = "idle")'
      <4>1. CASE Head(queue) = "cleaner"
        <5>1. Once("cleaner", FALSE)' /\ cleaner' = "sweep"
          BY <1>1, <3>1, <3>2, <4>1, QueuedTail
        <5> QED
          BY <5>1 DEF Once
      <4>2. CASE Head(queue) # "cleaner"
        <5>1. cleaner' = cleaner
          BY <3>1, <4>2
        <5>2. ASSUME NEW b \in BOOLEAN, Once("cleaner", b) PROVE Once("cleaner", b)'
          BY <1>1, <3>1, <4>2, <5>2, QueuedTail
        <5> QED
          BY <3>2, <5>1, <5>2 DEF Once
      <4> QED
        BY <4>1, <4>2
    <3> QED
      BY <3>1, <3>3, <3>4
  <2>2. CASE ~Running
    BY <1>4, <2>2 DEF TakeTask, Running
  <2> QED
    BY <2>1, <2>2
<1>5. CASE MonitorScan
  <2>1. /\ phase = "up" /\ phase' = "up" /\ queue' = queue \o SetToSeq(Listed)
        /\ (monitor = "idle") = FALSE /\ (monitor' = "idle") = FALSE
        /\ cleaner' = cleaner
    BY <1>5 DEF MonitorScan, Running
  <2>2. ASSUME NEW t \in {"monitor", "cleaner"}, NEW b \in BOOLEAN, Once(t, b)
        PROVE  Once(t, b)'
    BY <1>1, <2>1, <2>2, ScanType, QueuedAppend
  <2>3. Once("monitor", FALSE)' /\ Once("cleaner", cleaner = "idle")'
    BY <2>1, <2>2 DEF Once
  <2> QED
    BY <2>1, <2>3 DEF Once
<1>6. ASSUME NEW p \in Pids, UpdateAsync(p)
      PROVE  LoopsInv'
  <2>1. /\ phase = "up" /\ phase' = "up" /\ queue = <<>> /\ queue' = <<p>>
        /\ monitor' = monitor /\ cleaner' = cleaner
    BY <1>6 DEF UpdateAsync, Running
  <2>2. queue' = queue \o <<p>> /\ <<p>> \in Seq(Pids)
    BY <2>1
  <2>3. ASSUME NEW t \in {"monitor", "cleaner"}, NEW b \in BOOLEAN, Once(t, b)
        PROVE  Once(t, b)'
    BY <1>1, <2>2, <2>3, QueuedAppend
  <2> QED
    BY <2>1, <2>3 DEF Once
<1>7. CASE MonitorEnds \/ DeinitBegin \/ DeinitEnd \/ CacheInitFails
  BY <1>1, <1>7 DEF MonitorEnds, LoopOver, Running, DeinitBegin, DeinitEnd,
     CacheInitFails, TypeOK
<1>8. CASE MonitorMark
  <2>1. /\ monitor = "mark" /\ monitor' = "scan"
        /\ UNCHANGED <<phase, queue, cleaner>>
    BY <1>8 DEF MonitorMark
  <2> QED
    BY <1>2, <2>1 DEF Once
<1>9. CASE CleanerSweep
  <2>1. /\ cleaner = "sweep" /\ phase = "up" => cleaner' = "sweep"
        /\ cleaner = "sweep" /\ UNCHANGED <<phase, queue, monitor>>
    BY <1>9 DEF CleanerSweep, Running
  <2> QED
    BY <1>2, <2>1 DEF Once
<1>10. ASSUME \/ \E p \in Pids : \/ World(p) \/ InsertUpdate(p) \/ RichUpdate(p)
                                 \/ UpdateSync(p) \/ Delete(p)
              \/ Tick \/ Cleanup \/ UNCHANGED vars
       PROVE  LoopsInv'
  <2>1. /\ UNCHANGED <<queue, monitor, cleaner>>
        /\ phase' = phase \/ phase' = "crashed"
    BY <1>10 DEF World, ProcessStarts, ProcessExits, ProcessExecs, InsertUpdate,
       RichUpdate, UpdateSync, Delete, Tick, Cleanup, vars
  <2> QED
    BY <1>2, <2>1 DEF Once
<1> HIDE DEF LoopsInv
<1> QED
  BY <1>3, <1>4, <1>5, <1>6, <1>7, <1>8, <1>9, <1>10 DEF Next, Call, Monitor

(***************************************************************************)
(* monitor_thread_func and cleaner_thread_func are never lost and never    *)
(* doubled between init and deinit, whatever is queued around them.        *)
(***************************************************************************)
THEOREM LoopsNeverLost == Spec => []LoopsAlive
<1>1. Init => LoopsInv
  BY DEF Init, LoopsInv
<1>2. TypeOK /\ LoopsInv /\ [Next]_vars => LoopsInv'
  BY LoopsStep
<1>3. LoopsInv => LoopsAlive
  <2>1. ASSUME NEW t, NEW idle \in BOOLEAN, Once(t, idle)
        PROVE  Cardinality(Queued(t)) = IF idle THEN 1 ELSE 0
    <3>1. CASE idle
      <4>1. PICK i \in 1 .. Len(queue) : Queued(t) = {i}
        BY <2>1, <3>1 DEF Once
      <4> QED
        BY <3>1, <4>1, FS_Singleton
    <3>2. CASE ~idle
      <4>1. Queued(t) = {}
        BY <2>1, <3>2 DEF Once
      <4> QED
        BY <3>2, <4>1, FS_EmptySet
    <3> QED
      BY <3>1, <3>2
  <2> QED
    BY <2>1 DEF LoopsInv, LoopsAlive
<1> QED
  BY <1>1, <1>2, <1>3, CacheTypes, PTL DEF Spec

(***************************************************************************)
(* What a step may do once deinit has begun.                               *)
(***************************************************************************)
LEMMA WindsDownStep == TypeOK /\ [Next]_vars => WindsDown
<1> SUFFICES ASSUME TypeOK, [Next]_vars, phase = "stopping" PROVE WindsDown
  BY DEF WindsDown
<1>1. TypeOK
  BY DEF TypeOK
<1>2. \A p \in Pids : reading[p] \in Nat
  BY <1>1 DEF TypeOK
<1> USE DEF WindsDown, worldVars, poolVars
<1>3. CASE TakeTask
  <2>1. queue # <<>> /\ queue' = Tail(queue) /\ monitor' = monitor /\ cleaner' = cleaner
    BY <1>3 DEF TakeTask, Running
  <2>2. Len(queue') < Len(queue)
    BY <1>1, <2>1 DEF TypeOK
  <2> QED
    BY <2>1, <2>2
<1>4. ASSUME NEW p \in Pids, InsertUpdate(p)
      PROVE  WindsDown
  <2>1. /\ reading' = [reading EXCEPT ![p] = reading[p] - 1]
        /\ UNCHANGED <<queue, monitor, cleaner>>
    BY <1>4 DEF InsertUpdate
  <2>2. \A q \in Pids : reading'[q] <= reading[q]
    BY <1>1, <1>2, <2>1 DEF TypeOK
  <2> QED
    BY <2>1, <2>2
<1>5. CASE DeinitEnd
  <2>1. /\ queue' = <<>> /\ UNCHANGED <<monitor, cleaner, reading>>
        /\ queue = <<>> \/ Len(queue) > 0
    BY <1>1, <1>5 DEF DeinitEnd, TypeOK
  <2>2. Len(queue') = 0 /\ \A q \in Pids : reading'[q] <= reading[q]
    BY <1>2, <2>1
  <2> QED
    BY <2>1, <2>2
<1>6. CASE MonitorEnds \/ MonitorMark \/ CleanerSweep
  <2>1. /\ UNCHANGED <<queue, reading>>
        /\ \/ monitor' = monitor
           \/ <<monitor, monitor'>> \in {<<"mark", "scan">>, <<"scan", "idle">>}
        /\ cleaner' \in {cleaner, "idle"}
    BY <1>6 DEF MonitorEnds, MonitorMark, CleanerSweep, Running
  <2> QED
    BY <1>2, <2>1
<1>7. ASSUME \/ \E p \in Pids : World(p)
             \/ Tick \/ UNCHANGED vars
      PROVE  WindsDown
  <2>1. UNCHANGED <<queue, monitor, cleaner, reading>>
    BY <1>7 DEF World, ProcessStarts, ProcessExits, ProcessExecs, Tick, vars
  <2> QED
    BY <1>2, <2>1
<1>8. ASSUME \/ \E p \in Pids : RichUpdate(p) \/ Call(p)
             \/ CacheInit \/ CacheInitFails \/ MonitorScan \/ Cleanup
             \/ DeinitBegin
      PROVE  FALSE
  BY <1>8 DEF RichUpdate, Call, UpdateAsync, UpdateSync, Delete, CacheInit,
     CacheInitFails, MonitorScan, Cleanup, DeinitBegin, Running
<1> HIDE DEF WindsDown
<1> QED
  BY <1>3, <1>4, <1>5, <1>6, <1>7, <1>8 DEF Next, Monitor

(***************************************************************************)
(* Once deinit has begun every step of a worker brings the join nearer.    *)
(***************************************************************************)
THEOREM DeinitProgress == Spec => DeinitAdvances
<1>1. TypeOK /\ [Next]_vars => [WindsDown]_vars
  BY WindsDownStep
<1> QED
  BY <1>1, CacheTypes, PTL DEF Spec, DeinitAdvances

(***************************************************************************)
(* The ledger's view of the cache.                                         *)
(***************************************************************************)
AgeOf(info) == IF info = None THEN 0 ELSE info.age

Sightings == [p \in Pids |-> InFlight(p)]
States == [p \in Pids |-> StateOf(table[p])]
DeadFor == [p \in Pids |-> AgeOf(table[p])]

LEMMA LedgerFrame ==
    /\ UNCHANGED <<execs, reading>> => UNCHANGED Sightings
    /\ UNCHANGED table => UNCHANGED <<States, DeadFor>>
  BY DEF Sightings, InFlight, States, DeadFor

(***************************************************************************)
(* A sighting sets out or arrives.                                         *)
(***************************************************************************)
LEMMA SightingsAt ==
    ASSUME TypeOK, NEW p \in Pids,
           reading' = [reading EXCEPT ![p] = reading'[p]],
           execs' = [execs EXCEPT ![p] = execs'[p]]
    PROVE  /\ Sightings' = [Sightings EXCEPT ![p] = InFlight(p)']
           /\ Sightings[p] = InFlight(p)
<1>1. reading \in [Pids -> Nat] /\ execs \in [Pids -> BOOLEAN]
  BY DEF TypeOK
<1>2. \A q \in Pids : q # p => reading'[q] = reading[q] /\ execs'[q] = execs[q]
  BY <1>1
<1>3. \A q \in Pids : q # p => InFlight(q)' = InFlight(q)
  BY <1>2 DEF InFlight
<1> QED
  BY <1>3 DEF Sightings

(***************************************************************************)
(* An update, of the monitor's scan or of the event loop, records what was *)
(* sighted; a dead entry stays dead and as old as it was.                  *)
(***************************************************************************)
LEMMA ReplaceRecords ==
    ASSUME TypeOK, NEW p \in Pids, NEW rich \in BOOLEAN, Replace(p, Fresh(rich))
    PROVE  /\ States' = [States EXCEPT ![p] = IF @ = "dead" THEN "dead" ELSE "alive"]
           /\ UNCHANGED DeadFor
<1> DEFINE new == Merged(table[p], Fresh(rich))
<1>1. table \in [Pids -> Info \cup {None}] /\ table' = [table EXCEPT ![p] = new]
  BY DEF TypeOK, Replace
<1>2. Entry(table[p])
  BY DEF TypeOK, Entry
<1>3. new.age # -1 /\ (new.age # -1 => new # None)
  <2>1. table[p] # None => table[p].age \in Nat
    BY <1>2, CacheAssumption DEF Entry, Info, Ages
  <2>2. (table[p] # None /\ ~table[p].alive => new.age = table[p].age)
        /\ (~(table[p] # None /\ ~table[p].alive) => new.age = 0)
    BY DEF Merged, Fresh
  <2>3. new.age # -1
    BY <2>1, <2>2
  <2> HIDE DEF new
  <2> QED
    BY <2>3 DEF None
<1>4. CASE table[p] # None /\ ~table[p].alive
  <2>1. ~new.alive /\ new.age = table[p].age
    BY <1>2, <1>4, MergedEntry
  <2> HIDE DEF new
  <2> QED
    BY <1>1, <1>3, <1>4, <2>1 DEF States, DeadFor, StateOf, AgeOf
<1>5. CASE ~(table[p] # None /\ ~table[p].alive)
  <2>1. new.alive /\ new.age = 0
    BY <1>5 DEF Merged, Fresh
  <2>2. AgeOf(table[p]) = 0
    BY <1>2, <1>5 DEF Entry, AgeOf
  <2> HIDE DEF new
  <2> QED
    BY <1>1, <1>3, <1>5, <2>1, <2>2 DEF States, DeadFor, StateOf, AgeOf
<1> QED
  BY <1>4, <1>5

(***************************************************************************)
(* Every step of the cache, its tasks and the processes it watches is a    *)
(* step of the ledger or changes nothing the ledger speaks of.             *)
(***************************************************************************)
LEMMA LedgerStep ==
    ASSUME TypeOK, [Next]_vars
    PROVE  [Ledger!Next]_(Ledger!vars)
<1>0. TypeOK
  BY DEF TypeOK
<1>1. ASSUME NEW p \in Pids, ProcessStarts(p) \/ ProcessExits(p)
      PROVE  Ledger!StartOrExit(p)
  <2>1. proc' = [proc EXCEPT ![p] = ~proc[p]]
    BY <1>0, <1>1 DEF ProcessStarts, ProcessExits, TypeOK
  <2>2. UNCHANGED <<execs, reading, table>>
    BY <1>1 DEF ProcessStarts, ProcessExits, poolVars
  <2> QED
    BY <2>1, <2>2, LedgerFrame DEF Ledger!StartOrExit, Sightings, States,
       DeadFor, AgeOf
<1>2. ASSUME NEW p \in Pids, ProcessExecs(p)
      PROVE  Ledger!Sight(p) \/ UNCHANGED Ledger!vars
  <2>1. UNCHANGED <<proc, reading, table>> /\ proc[p]
        /\ execs' = [execs EXCEPT ![p] = TRUE]
    BY <1>2 DEF ProcessExecs, poolVars
  <2>2. CASE execs[p]
    <3>1. UNCHANGED execs
      BY <1>0, <2>1, <2>2 DEF TypeOK
    <3> QED
      BY <2>1, <3>1, LedgerFrame DEF Ledger!vars, Sightings, States, DeadFor,
         AgeOf
  <2>3. CASE ~execs[p]
    <3>0. InFlight(p)' = InFlight(p) + 1
      BY <1>0, <2>1, <2>3 DEF TypeOK, InFlight
    <3>1. Sightings' = [Sightings EXCEPT ![p] = @ + 1]
      <4>1. /\ reading' = [reading EXCEPT ![p] = reading'[p]]
            /\ execs' = [execs EXCEPT ![p] = execs'[p]]
        BY <1>0, <2>1 DEF TypeOK
      <4> QED
        BY <1>0, <3>0, <4>1, SightingsAt
    <3> QED
      BY <2>1, <3>1, LedgerFrame DEF Ledger!Sight, Sightings, States, DeadFor,
         AgeOf
  <2> QED
    BY <2>2, <2>3
<1>3. ASSUME NEW p \in Pids, InsertUpdate(p)
      PROVE  Ledger!Record(p)
  <2>1. /\ UNCHANGED <<proc, execs>> /\ reading[p] > 0
        /\ reading' = [reading EXCEPT ![p] = @ - 1]
    BY <1>3 DEF InsertUpdate, worldVars
  <2>2. /\ States' = [States EXCEPT ![p] = IF @ = "dead" THEN "dead" ELSE "alive"]
        /\ UNCHANGED DeadFor
    BY <1>0, <1>3, ReplaceRecords DEF InsertUpdate
  <2>3. InFlight(p) \in Nat \ {0} /\ InFlight(p)' = InFlight(p) - 1
    BY <1>0, <2>1 DEF TypeOK, InFlight
  <2>4. Sightings[p] > 0 /\ Sightings' = [Sightings EXCEPT ![p] = @ - 1]
    <3>1. /\ reading' = [reading EXCEPT ![p] = reading'[p]]
          /\ execs' = [execs EXCEPT ![p] = execs'[p]]
      BY <1>0, <2>1 DEF TypeOK
    <3> QED
      BY <1>0, <2>3, <3>1, SightingsAt
  <2> QED
    BY <2>1, <2>2, <2>4 DEF Ledger!Record, Sightings, States, DeadFor, AgeOf
<1>4. ASSUME NEW p \in Pids, RichUpdate(p)
      PROVE  Ledger!Record(p) \/ Ledger!Lose(p)
  <2>1. /\ UNCHANGED <<proc, reading>> /\ execs[p]
        /\ execs' = [execs EXCEPT ![p] = FALSE]
    BY <1>4 DEF RichUpdate, poolVars
  <2>2. Sightings[p] > 0 /\ Sightings' = [Sightings EXCEPT ![p] = @ - 1]
    <3>1. InFlight(p) \in Nat \ {0} /\ InFlight(p)' = InFlight(p) - 1
      BY <1>0, <2>1 DEF TypeOK, InFlight
    <3>2. /\ reading' = [reading EXCEPT ![p] = reading'[p]]
          /\ execs' = [execs EXCEPT ![p] = execs'[p]]
      BY <1>0, <2>1 DEF TypeOK
    <3> QED
      BY <1>0, <3>1, <3>2, SightingsAt
  <2>3. CASE phase = "up"
    <3>1. /\ States' = [States EXCEPT ![p] =
                           IF @ = "dead" THEN "dead" ELSE "alive"]
          /\ UNCHANGED DeadFor
      BY <1>0, <1>4, <2>3, ReplaceRecords DEF RichUpdate
    <3> QED
      BY <2>1, <2>2, <3>1 DEF Ledger!Record, Sightings, States, DeadFor, AgeOf
  <2>4. CASE phase # "up"
    <3>1. UNCHANGED table
      BY <1>4, <2>4 DEF RichUpdate
    <3> QED
      BY <2>1, <2>2, <3>1, LedgerFrame DEF Ledger!Lose, Sightings, States,
         DeadFor, AgeOf
  <2> QED
    BY <2>3, <2>4
<1>5. ASSUME NEW p \in Pids, UpdateSync(p)
      PROVE  Ledger!Sight(p)
  <2>1. /\ UNCHANGED <<proc, execs, table>> /\ proc[p]
        /\ reading' = [reading EXCEPT ![p] = @ + 1]
    BY <1>5 DEF UpdateSync, worldVars
  <2>2. Sightings' = [Sightings EXCEPT ![p] = @ + 1]
    <3>1. InFlight(p)' = InFlight(p) + 1
      BY <1>0, <2>1 DEF TypeOK, InFlight
    <3>2. /\ reading' = [reading EXCEPT ![p] = reading'[p]]
          /\ execs' = [execs EXCEPT ![p] = execs'[p]]
      BY <1>0, <2>1 DEF TypeOK
    <3> QED
      BY <1>0, <3>1, <3>2, SightingsAt
  <2> QED
    BY <2>1, <2>2, LedgerFrame DEF Ledger!Sight, Sightings, States, DeadFor,
       AgeOf
<1>6. CASE TakeTask
  <2>1. UNCHANGED <<proc, execs, table>>
    BY <1>6 DEF TakeTask, worldVars
  <2>2. PICK told \in BOOLEAN :
           reading' = [p \in Pids |-> IF Head(queue) = p /\ ~told /\ proc[p]
                                      THEN reading[p] + 1 ELSE reading[p]]
    BY <1>6 DEF TakeTask, ToldToStop
  <2>3. CASE \E p \in Pids : Head(queue) = p /\ ~told /\ proc[p]
    <3>1. PICK p \in Pids : Head(queue) = p /\ ~told /\ proc[p]
      BY <2>3
    <3>2. reading' = [reading EXCEPT ![p] = @ + 1]
      BY <1>0, <2>2, <3>1 DEF TypeOK
    <3>3. Sightings' = [Sightings EXCEPT ![p] = @ + 1]
      <4>1. InFlight(p)' = InFlight(p) + 1
        BY <1>0, <2>1, <3>2 DEF TypeOK, InFlight
      <4>2. /\ reading' = [reading EXCEPT ![p] = reading'[p]]
            /\ execs' = [execs EXCEPT ![p] = execs'[p]]
        BY <1>0, <2>1, <3>2 DEF TypeOK
      <4> QED
        BY <1>0, <4>1, <4>2, SightingsAt
    <3>4. Ledger!Sight(p)
      BY <2>1, <3>1, <3>3, LedgerFrame DEF Ledger!Sight, Sightings, States,
         DeadFor, AgeOf
    <3> QED
      BY <3>4 DEF Ledger!Next
  <2>4. CASE ~\E p \in Pids : Head(queue) = p /\ ~told /\ proc[p]
    <3>1. UNCHANGED reading
      BY <1>0, <2>2, <2>4 DEF TypeOK
    <3> QED
      BY <2>1, <3>1, LedgerFrame DEF Ledger!vars, Sightings, States, DeadFor,
         AgeOf
  <2> QED
    BY <2>3, <2>4
<1>7. CASE MonitorMark
  <2>1. UNCHANGED <<proc, execs, reading>>
    BY <1>7 DEF MonitorMark, worldVars
  <2>2. ASSUME NEW p \in Pids
        PROVE  /\ AgeOf(table'[p]) = AgeOf(table[p])
               /\ \/ StateOf(table'[p]) = StateOf(table[p])
                  \/ /\ StateOf(table[p]) = "alive" /\ ~proc[p]
                     /\ StateOf(table'[p]) = "dead"
    <3> DEFINE gone == /\ Cached(p) /\ table[p].alive /\ ~table[p].rich
                       /\ ~proc[p]
    <3>1. CASE ~gone
      <4>1. table'[p] = table[p]
        BY <1>7, <3>1 DEF MonitorMark
      <4> QED
        BY <4>1
    <3>2. CASE gone
      <4>1. /\ table'[p] = [table[p] EXCEPT !.alive = FALSE, !.age = 0]
            /\ table[p] \in Info /\ table[p].age = 0 /\ table[p] # None
        BY <1>0, <1>7, <3>2 DEF MonitorMark, TypeOK, Cached
      <4>2. table'[p] = [alive |-> FALSE, rich |-> table[p].rich, age |-> 0]
        BY <4>1 DEF Info
      <4>3. table'[p] # None /\ table'[p].alive = FALSE /\ table'[p].age = 0
        BY <4>2 DEF None
      <4> QED
        BY <3>2, <4>1, <4>3 DEF StateOf, AgeOf
    <3> QED
      BY <3>1, <3>2
  <2>3. UNCHANGED DeadFor
    BY <2>2 DEF DeadFor
  <2>4. Ledger!NoteExits
    BY <2>1, <2>2, <2>3, LedgerFrame DEF Ledger!NoteExits, Sightings, DeadFor,
       AgeOf
  <2> QED
    BY <2>4 DEF Ledger!Next
<1>8. ASSUME \/ CleanerSweep \/ Cleanup \/ DeinitEnd
             \/ \E p \in Pids : Delete(p)
      PROVE  Ledger!Forget
  <2>1. UNCHANGED <<proc, execs, reading>>
    BY <1>8 DEF CleanerSweep, Cleanup, DeinitEnd, Delete, worldVars, poolVars
  <2>2. \A p \in Pids : table'[p] = table[p] \/ table'[p] = None
    BY <1>0, <1>8 DEF CleanerSweep, Cleanup, DeinitEnd, Delete, TypeOK
  <2>3. \A p \in Pids :
           \/ StateOf(table'[p]) = StateOf(table[p])
              /\ AgeOf(table'[p]) = AgeOf(table[p])
           \/ StateOf(table'[p]) = "none" /\ AgeOf(table'[p]) = 0
    BY <2>2 DEF StateOf, AgeOf
  <2> QED
    BY <2>1, <2>3, LedgerFrame DEF Ledger!Forget, Sightings, AgeOf
<1>9. CASE Tick
  <2>1. UNCHANGED <<proc, execs, reading>>
    BY <1>9 DEF Tick, worldVars, poolVars
  <2>2. ASSUME NEW p \in Pids
        PROVE  /\ StateOf(table'[p]) = StateOf(table[p])
               /\ \/ AgeOf(table'[p]) = AgeOf(table[p])
                  \/ /\ StateOf(table[p]) = "dead"
                     /\ AgeOf(table'[p]) = AgeOf(table[p]) + 1
    <3>1. CASE ~(Dead(p) /\ table[p].age <= Expire)
      <4>1. table'[p] = table[p]
        BY <1>9, <3>1 DEF Tick
      <4> QED
        BY <4>1
    <3>2. CASE Dead(p) /\ table[p].age <= Expire
      <4>1. /\ table'[p] = [table[p] EXCEPT !.age = table[p].age + 1]
            /\ table[p] \in Info /\ table[p] # None /\ ~table[p].alive
        BY <1>0, <1>9, <3>2 DEF Tick, TypeOK, Dead, Cached
      <4>2. table[p].age \in Nat
        BY <4>1, CacheAssumption DEF Info, Ages
      <4>3. /\ table'[p].age = table[p].age + 1
            /\ table'[p].alive = table[p].alive
        BY <4>1 DEF Info
      <4>4. table'[p] # None
        BY <4>2, <4>3 DEF None
      <4> QED
        BY <4>1, <4>3, <4>4 DEF StateOf, AgeOf
    <3> QED
      BY <3>1, <3>2
  <2>3. UNCHANGED States
    BY <2>2 DEF States
  <2>4. Ledger!GrowOlder
    BY <2>1, <2>2, <2>3, LedgerFrame DEF Ledger!GrowOlder, Sightings, States,
       AgeOf
  <2> QED
    BY <2>4 DEF Ledger!Next
<1>10. ASSUME \/ CacheInit \/ CacheInitFails \/ MonitorScan \/ MonitorEnds
              \/ DeinitBegin \/ UNCHANGED vars
              \/ \E p \in Pids : UpdateAsync(p)
       PROVE  UNCHANGED Ledger!vars
  <2>1. UNCHANGED <<proc, execs, reading, table>>
    BY <1>10 DEF CacheInit, CacheInitFails, MonitorScan, MonitorEnds,
       DeinitBegin, UpdateAsync, vars, worldVars, poolVars
  <2> QED
    BY <2>1, LedgerFrame DEF Ledger!vars, Sightings, States, DeadFor, AgeOf
<1> QED
  BY <1>1, <1>2, <1>3, <1>4, <1>5, <1>6, <1>7, <1>8, <1>9, <1>10
     DEF Next, World, Call, Monitor, Ledger!Next

(***************************************************************************)
(* The cache implements the ledger: nothing is recorded of a pid that was  *)
(* not seen running, an exit is noted only while it is not, and an update  *)
(* that comes late neither revives the entry nor makes it younger.         *)
(***************************************************************************)
THEOREM CacheImplementsLedger == Spec => ImplementsLedger
<1>1. Init => Ledger!Init
  BY DEF Init, Ledger!Init, InFlight, StateOf
<1> QED
  BY <1>1, LedgerStep, CacheTypes, PTL
     DEF Spec, ImplementsLedger, Ledger!Spec
===============================================================================
