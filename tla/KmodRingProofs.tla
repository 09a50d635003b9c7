---------------------------- MODULE KmodRingProofs ----------------------------
(***************************************************************************)
(* Proofs about the ring buffer of the kernel module, for every number of  *)
(* CPUs, every buffer size and every event size that does not divide twice *)
(* the buffer (32768 and 496 in the code).  GateInv is inductive whatever  *)
(* the reader stores into tail.                                            *)
(***************************************************************************)
EXTENDS KmodRing, FiniteSetTheorems, TLAPS

(***************************************************************************)
(* The ranges of the constants.                                            *)
(***************************************************************************)
LEMMA Constants ==
    /\ Size \in Nat \ {0} /\ E \in Nat \ {0} /\ E < Size
    /\ Word \in Nat /\ Word > 2 * (Size + E)
    /\ TornLens \subseteq 0 .. Word - 1
BY RingAssumption

(***************************************************************************)
(* Facts about the set preempt_count counts.                               *)
(***************************************************************************)
LEMMA EnteredFinite == IsFiniteSet(Entered) /\ Cardinality(Entered) \in Nat
<1>1. Entered \subseteq CPUs
  BY DEF Entered
<1> QED
  BY <1>1, RingAssumption, FS_Subset, FS_CardinalityType

LEMMA SameEntered == Entered' = Entered => Cardinality(Entered') = Cardinality(Entered)
OBVIOUS

LEMMA CountPositive ==
    ASSUME PreemptCounted, NEW c \in Entered
    PROVE  preempt_count - 1 \in Nat
<1>1. Cardinality(Entered) # 0
  BY EnteredFinite, FS_EmptySet
<1> QED
  BY <1>1, EnteredFinite DEF PreemptCounted

(***************************************************************************)
(* Copying at most E bytes from the slack keeps the buffer a buffer.       *)
(***************************************************************************)
LEMMA SpillType ==
    ASSUME buffer \in [0 .. Size + E - 1 -> Nat], NEW n \in 0 .. E - 1
    PROVE  Spill(n) \in [0 .. Size + E - 1 -> Nat]
<1>1. \A i \in 0 .. Size + E - 1 :
         (IF i < n THEN buffer[Size + i] ELSE buffer[i]) \in Nat
  BY Constants
<1> QED
  BY <1>1 DEF Spill

(***************************************************************************)
(* Types and bounds.                                                       *)
(***************************************************************************)
LEMMA TypeStep == GateInv /\ [Next]_vars => TypeOK' /\ Bounded'
<1> SUFFICES ASSUME GateInv, [Next]_vars
             PROVE  TypeOK' /\ Bounded'
  OBVIOUS
<1> USE Constants DEF GateInv, TypeOK, Bounded, PCs, ReaderPCs, Holding, vars,
        kernelVars, readerVars, Goto
<1>1. ASSUME NEW c \in CPUs, Enter(c) PROVE TypeOK' /\ Bounded'
  BY <1>1 DEF Enter
<1>2. ASSUME NEW c \in CPUs, GiveUp(c) PROVE TypeOK' /\ Bounded'
  <2>1. preempt_count' \in Nat
    BY <1>2, CountPositive DEF GiveUp, Entered
  <2> QED
    BY <1>2, <2>1 DEF GiveUp
<1>3. ASSUME NEW c \in CPUs, CompareTail(c) PROVE TypeOK' /\ Bounded'
  BY <1>3 DEF CompareTail
<1>4. ASSUME NEW c \in CPUs, MeasureFree(c) PROVE TypeOK' /\ Bounded'
  BY <1>4 DEF MeasureFree, FreeSpace, U32
<1>5. ASSUME NEW c \in CPUs, Fits(c) PROVE TypeOK' /\ Bounded'
  BY <1>5 DEF Fits
<1>6. ASSUME NEW c \in CPUs, DropFull(c) PROVE TypeOK' /\ Bounded'
  <2>1. preempt_count' \in Nat
    BY <1>6, CountPositive DEF DropFull, Entered
  <2> QED
    BY <1>6, <2>1 DEF DropFull
<1>7. ASSUME NEW c \in CPUs, LoadDrops(c) PROVE TypeOK' /\ Bounded'
  BY <1>7 DEF LoadDrops
<1>8. ASSUME NEW c \in CPUs, StoreDrops(c) PROVE TypeOK' /\ Bounded'
  <2>1. drops[c] \in Nat
    OBVIOUS
  <2> QED
    BY <1>8, <2>1 DEF StoreDrops, CountDrop
<1>9. ASSUME NEW c \in CPUs, FillEvent(c) PROVE TypeOK' /\ Bounded'
  BY <1>9 DEF FillEvent
<1>10. ASSUME NEW c \in CPUs, WrapNext(c) PROVE TypeOK' /\ Bounded'
  <2>1. pc[c] = "wrap" /\ next[c] \in 0 .. Size + E - 1
    BY <1>10 DEF WrapNext
  <2>2. /\ buffer' \in [0 .. Size + E - 1 -> Nat]
        /\ next' \in [CPUs -> 0 .. Size + E]
        /\ next'[c] <= Size - 1
        /\ \A d \in CPUs \ {c} : next'[d] = next[d]
    <3>1. CASE next[c] >= Size
      <4>1. next[c] - Size \in 0 .. E - 1
        BY <2>1, <3>1
      <4>2. buffer' = Spill(next[c] - Size)
        BY <1>10, <3>1 DEF WrapNext
      <4>3. next' = [next EXCEPT ![c] = next[c] - Size]
        BY <1>10, <3>1 DEF WrapNext
      <4>4. buffer' \in [0 .. Size + E - 1 -> Nat]
        BY <4>1, <4>2, SpillType
      <4>5. next[c] - Size \in 0 .. Size + E /\ next[c] - Size <= Size - 1
        BY <4>1
      <4> QED
        BY <4>3, <4>4, <4>5
    <3>2. CASE ~(next[c] >= Size)
      <4>1. buffer' = buffer /\ next' = next
        BY <1>10, <3>2 DEF WrapNext
      <4> QED
        BY <2>1, <3>2, <4>1
    <3> QED
      BY <3>1, <3>2
  <2>3. pc' = [pc EXCEPT ![c] = "publish"]
    BY <1>10 DEF WrapNext
  <2>4. UNCHANGED <<head, n_evts, n_drop_evts, preempt_count, ahead, glimpse,
                    free_space, drops, written, overran, calls, tail, reader,
                    rd, len, last>>
    BY <1>10 DEF WrapNext
  <2> QED
    BY <2>2, <2>3, <2>4
<1>11. ASSUME NEW c \in CPUs, Publish(c) PROVE TypeOK' /\ Bounded'
  BY <1>11 DEF Publish, MoveHead
<1>12. ASSUME NEW c \in CPUs, Leave(c) PROVE TypeOK' /\ Bounded'
  <2>1. preempt_count' \in Nat
    BY <1>12, CountPositive DEF Leave, Entered, ReleaseCount
  <2> QED
    BY <1>12, <2>1 DEF Leave
<1>13. CASE PollHead
  BY <1>13 DEF PollHead
<1>14. CASE ReadEvent
  <2>1. last' \in Int /\ len' \in 0 .. Word - 1
    <3>1. Place(rd) \in 0 .. Size - 1
      BY DEF Place
    <3>2. Mapped(rd) \in Nat
      BY <3>1 DEF Mapped
    <3>3. EventLen \subseteq 0 .. Word - 1
      BY DEF EventLen
    <3> QED
      BY <1>14, <3>2, <3>3 DEF ReadEvent
  <2> QED
    BY <1>14, <2>1 DEF ReadEvent
<1>15. CASE ReadOutside
  BY <1>15 DEF ReadOutside
<1>16. CASE AddTail
  BY <1>16 DEF AddTail, U32
<1>17. CASE SubtractSize
  BY <1>17 DEF SubtractSize, Wrapped
<1>18. CASE NextEvent
  BY <1>18 DEF NextEvent
<1>19. CASE UNCHANGED vars
  BY <1>19 DEF vars
<1>20. CASE ReadNothing
  BY <1>20 DEF ReadNothing
<1> QED
  BY <1>1, <1>2, <1>3, <1>4, <1>5, <1>6, <1>7, <1>8, <1>9, <1>10, <1>11,
     <1>12, <1>13, <1>14, <1>15, <1>16, <1>17, <1>18, <1>19, <1>20
     DEF Next, Record, ReaderStep

(***************************************************************************)
(* preempt_count changes with the set of CPUs it counts.                   *)
(***************************************************************************)
LEMMA CountStep == GateInv /\ [Next]_vars => PreemptCounted'
<1> SUFFICES ASSUME GateInv, [Next]_vars
             PROVE  PreemptCounted'
  OBVIOUS
<1> USE Constants DEF GateInv, TypeOK, Holding, PreemptCounted, vars,
        kernelVars, readerVars, Goto
<1>1. ASSUME NEW c \in CPUs, Enter(c) PROVE PreemptCounted'
  <2>1. c \notin Entered /\ Entered' = Entered \cup {c}
    BY <1>1 DEF Enter, Entered, MayEnter
  <2>2. Cardinality(Entered') = Cardinality(Entered) + 1
    BY <2>1, EnteredFinite, FS_AddElement
  <2> QED
    BY <1>1, <2>2 DEF Enter
<1>2. ASSUME NEW c \in CPUs, GiveUp(c) PROVE PreemptCounted'
  <2>1. c \in Entered /\ Entered' = Entered \ {c}
    BY <1>2 DEF GiveUp, Entered
  <2>2. Cardinality(Entered') = Cardinality(Entered) - 1
    BY <2>1, EnteredFinite, FS_RemoveElement
  <2> QED
    BY <1>2, <2>2 DEF GiveUp
<1>3. ASSUME NEW c \in CPUs, CompareTail(c) PROVE PreemptCounted'
  BY <1>3, SameEntered DEF CompareTail, Entered
<1>4. ASSUME NEW c \in CPUs, MeasureFree(c) PROVE PreemptCounted'
  BY <1>4, SameEntered DEF MeasureFree, Entered
<1>5. ASSUME NEW c \in CPUs, Fits(c) PROVE PreemptCounted'
  BY <1>5, SameEntered DEF Fits, Entered
<1>6. ASSUME NEW c \in CPUs, DropFull(c) PROVE PreemptCounted'
  <2>1. c \in Entered /\ Entered' = Entered \ {c}
    BY <1>6 DEF DropFull, Entered
  <2>2. Cardinality(Entered') = Cardinality(Entered) - 1
    BY <2>1, EnteredFinite, FS_RemoveElement
  <2> QED
    BY <1>6, <2>2 DEF DropFull
<1>7. ASSUME NEW c \in CPUs, LoadDrops(c) PROVE PreemptCounted'
  BY <1>7, SameEntered DEF LoadDrops, Entered
<1>8. ASSUME NEW c \in CPUs, StoreDrops(c) PROVE PreemptCounted'
  BY <1>8, SameEntered DEF StoreDrops, Entered
<1>9. ASSUME NEW c \in CPUs, FillEvent(c) PROVE PreemptCounted'
  BY <1>9, SameEntered DEF FillEvent, Entered
<1>10. ASSUME NEW c \in CPUs, WrapNext(c) PROVE PreemptCounted'
  BY <1>10, SameEntered DEF WrapNext, Entered
<1>11. ASSUME NEW c \in CPUs, Publish(c) PROVE PreemptCounted'
  BY <1>11, SameEntered DEF Publish, Entered
<1>12. ASSUME NEW c \in CPUs, Leave(c) PROVE PreemptCounted'
  <2>1. c \in Entered /\ Entered' = Entered \ {c}
    BY <1>12 DEF Leave, Entered
  <2>2. Cardinality(Entered') = Cardinality(Entered) - 1
    BY <2>1, EnteredFinite, FS_RemoveElement
  <2> QED
    BY <1>12, <2>2 DEF Leave, ReleaseCount
<1>13. CASE PollHead
  BY <1>13, SameEntered DEF PollHead, Entered
<1>14. CASE ReadEvent
  BY <1>14, SameEntered DEF ReadEvent, Entered
<1>15. CASE ReadOutside
  BY <1>15, SameEntered DEF ReadOutside, Entered
<1>16. CASE AddTail
  BY <1>16, SameEntered DEF AddTail, Entered
<1>17. CASE SubtractSize
  BY <1>17, SameEntered DEF SubtractSize, Entered
<1>18. CASE NextEvent
  BY <1>18, SameEntered DEF NextEvent, Entered
<1>19. CASE UNCHANGED vars
  BY <1>19, SameEntered DEF vars, Entered
<1>20. CASE ReadNothing
  BY <1>20, SameEntered DEF ReadNothing, Entered
<1> QED
  BY <1>1, <1>2, <1>3, <1>4, <1>5, <1>6, <1>7, <1>8, <1>9, <1>10, <1>11,
     <1>12, <1>13, <1>14, <1>15, <1>16, <1>17, <1>18, <1>19, <1>20
     DEF Next, Record, ReaderStep

(***************************************************************************)
(* Only a CPU that finds nobody else counted becomes the writer.           *)
(***************************************************************************)
LEMMA WriterStep == GateInv /\ [Next]_vars => OneWriter'
<1> SUFFICES ASSUME GateInv, [Next]_vars
             PROVE  OneWriter'
  OBVIOUS
<1> USE DEF GateInv, TypeOK, Holding, OneWriter, vars, kernelVars, readerVars,
        Goto
<1>1. ASSUME NEW c \in CPUs, Enter(c) PROVE OneWriter'
  <2>1. CASE MayEnter
    <3>1. Entered = {}
      BY <2>1, EnteredFinite, FS_EmptySet DEF MayEnter, PreemptCounted
    <3> QED
      BY <1>1, <3>1 DEF Enter, Entered
  <2>2. CASE ~MayEnter
    BY <1>1, <2>2 DEF Enter
  <2> QED
    BY <2>1, <2>2
<1>2. ASSUME NEW c \in CPUs, GiveUp(c) PROVE OneWriter'
  BY <1>2 DEF GiveUp
<1>3. ASSUME NEW c \in CPUs, CompareTail(c) PROVE OneWriter'
  BY <1>3 DEF CompareTail
<1>4. ASSUME NEW c \in CPUs, MeasureFree(c) PROVE OneWriter'
  BY <1>4 DEF MeasureFree
<1>5. ASSUME NEW c \in CPUs, Fits(c) PROVE OneWriter'
  BY <1>5 DEF Fits
<1>6. ASSUME NEW c \in CPUs, DropFull(c) PROVE OneWriter'
  BY <1>6 DEF DropFull
<1>7. ASSUME NEW c \in CPUs, LoadDrops(c) PROVE OneWriter'
  BY <1>7 DEF LoadDrops
<1>8. ASSUME NEW c \in CPUs, StoreDrops(c) PROVE OneWriter'
  BY <1>8 DEF StoreDrops
<1>9. ASSUME NEW c \in CPUs, FillEvent(c) PROVE OneWriter'
  BY <1>9 DEF FillEvent
<1>10. ASSUME NEW c \in CPUs, WrapNext(c) PROVE OneWriter'
  BY <1>10 DEF WrapNext
<1>11. ASSUME NEW c \in CPUs, Publish(c) PROVE OneWriter'
  BY <1>11 DEF Publish
<1>12. ASSUME NEW c \in CPUs, Leave(c) PROVE OneWriter'
  BY <1>12 DEF Leave
<1>13. CASE PollHead
  BY <1>13 DEF PollHead
<1>14. CASE ReadEvent
  BY <1>14 DEF ReadEvent
<1>15. CASE ReadOutside
  BY <1>15 DEF ReadOutside
<1>16. CASE AddTail
  BY <1>16 DEF AddTail
<1>17. CASE SubtractSize
  BY <1>17 DEF SubtractSize
<1>18. CASE NextEvent
  BY <1>18 DEF NextEvent
<1>19. CASE UNCHANGED vars
  BY <1>19 DEF vars
<1>20. CASE ReadNothing
  BY <1>20 DEF ReadNothing
<1> QED
  BY <1>1, <1>2, <1>3, <1>4, <1>5, <1>6, <1>7, <1>8, <1>9, <1>10, <1>11,
     <1>12, <1>13, <1>14, <1>15, <1>16, <1>17, <1>18, <1>19, <1>20
     DEF Next, Record, ReaderStep

(***************************************************************************)
(* The gate is open and nobody is inside when the ring was set up.         *)
(***************************************************************************)
LEMMA GateInit == Init => GateInv
<1> SUFFICES ASSUME Init
             PROVE  GateInv
  OBVIOUS
<1>1. Entered = {}
  BY DEF Init, Entered, Holding
<1>2. PreemptCounted
  BY <1>1, FS_EmptySet DEF Init, PreemptCounted
<1>3. TypeOK /\ Bounded /\ OneWriter
  <2>1. 0 \in 0 .. Size - 1 /\ 0 \in 0 .. Word - 1 /\ 0 \in 0 .. Size + E
    BY Constants
  <2>2. ahead \in [CPUs -> BOOLEAN] /\ glimpse \in [CPUs -> BOOLEAN]
        /\ overran \in BOOLEAN
    BY DEF Init
  <2> QED
    BY <2>1, <2>2, RingAssumption DEF Init, TypeOK, Bounded, OneWriter, PCs,
       ReaderPCs, Holding
<1> QED
  BY <1>2, <1>3 DEF GateInv

(***************************************************************************)
(* The gate works whatever the reader stores into tail.                    *)
(***************************************************************************)
THEOREM GateCorrect == Spec => []GateInv
<1>1. Init => GateInv
  BY GateInit
<1>2. GateInv /\ [Next]_vars => GateInv'
  BY TypeStep, CountStep, WriterStep DEF GateInv
<1> QED
  BY <1>1, <1>2, PTL DEF Spec

(***************************************************************************)
(* preempt_count admits one CPU at a time into linx_record_event.          *)
(***************************************************************************)
THEOREM WritersExcluded == Spec => []OneWriter
<1>1. GateInv => OneWriter
  BY DEF GateInv
<1> QED
  BY <1>1, GateCorrect, PTL

(***************************************************************************)
(* preempt_count is the number of CPUs inside linx_record_event's gate.    *)
(***************************************************************************)
THEOREM CountReturns == Spec => []PreemptCounted
<1>1. GateInv => PreemptCounted
  BY DEF GateInv
<1> QED
  BY <1>1, GateCorrect, PTL

(***************************************************************************)
(* head stays inside the buffer and the event in the making inside its     *)
(* slack, whatever the CPUs and the reader interleave, overrun or not.     *)
(***************************************************************************)
THEOREM RingTypes == Spec => []TypeOK
<1>1. GateInv => TypeOK
  BY DEF GateInv
<1> QED
  BY <1>1, GateCorrect, PTL

(***************************************************************************)
(* A call that is counted, or turned away uncounted, leaves the set of     *)
(* uncounted calls; one that only moves on inside it changes no counter.   *)
(***************************************************************************)
LEMMA UncountedFinite == IsFiniteSet(Uncounted) /\ Cardinality(Uncounted) \in Nat
<1>1. Uncounted \subseteq CPUs
  BY DEF Uncounted
<1> QED
  BY <1>1, RingAssumption, FS_Subset, FS_CardinalityType

LEMMA UncountedMoves ==
    ASSUME TypeOK, NEW c \in CPUs, NEW l \in PCs, Goto(c, l),
           pc[c] \notin {"idle", "leave"}
    PROVE  /\ l \in {"idle", "leave"} =>
                  Cardinality(Uncounted') = Cardinality(Uncounted) - 1
           /\ l \notin {"idle", "leave"} =>
                  Cardinality(Uncounted') = Cardinality(Uncounted)
<1>1. CASE l \in {"idle", "leave"}
  <2>1. c \in Uncounted /\ Uncounted' = Uncounted \ {c}
    BY <1>1 DEF Uncounted, Goto, TypeOK
  <2> QED
    BY <1>1, <2>1, UncountedFinite, FS_RemoveElement
<1>2. CASE l \notin {"idle", "leave"}
  <2>1. Uncounted' = Uncounted
    BY <1>2 DEF Uncounted, Goto, TypeOK
  <2> QED
    BY <1>2, <2>1
<1> QED
  BY <1>1, <1>2

LEMMA CountersStep == GateInv /\ CountersInv /\ [Next]_vars => CountersInv'
<1> SUFFICES ASSUME GateInv, CountersInv, [Next]_vars
             PROVE  CountersInv'
  OBVIOUS
<1> DEFINE U == Cardinality(Uncounted)
<1>1. /\ U \in Nat /\ calls \in Nat /\ n_evts \in Nat /\ n_drop_evts \in Nat
      /\ drops \in [CPUs -> Nat] /\ pc \in [CPUs -> PCs] /\ TypeOK
  BY UncountedFinite DEF GateInv, TypeOK
<1>2. /\ n_evts + n_drop_evts + U <= calls
      /\ \A c \in CPUs : pc[c] = "store_drops" => n_evts + drops[c] + U <= calls
  BY DEF CountersInv
<1>3. ASSUME NEW c \in CPUs, NEW l \in PCs, Goto(c, l),
             pc[c] \notin {"idle", "leave"}
      PROVE  U' = IF l \in {"idle", "leave"} THEN U - 1 ELSE U
  BY <1>1, <1>3, UncountedMoves
<1> HIDE DEF U
<1> USE <1>1, <1>2 DEF PCs, Goto, kernelVars, readerVars
<1>4. ASSUME NEW c \in CPUs, Enter(c) PROVE CountersInv'
  <2>1. c \notin Uncounted /\ Uncounted' = Uncounted \cup {c}
    BY <1>4 DEF Enter, Uncounted
  <2>2. U' = U + 1
    BY <2>1, UncountedFinite, FS_AddElement DEF U
  <2>3. UNCHANGED <<n_evts, n_drop_evts, drops>> /\ calls' = calls + 1
        /\ \A d \in CPUs : pc'[d] = "store_drops" => pc[d] = "store_drops"
    BY <1>4 DEF Enter
  <2> QED
    BY <2>2, <2>3 DEF CountersInv, U
<1>5. ASSUME NEW c \in CPUs, Publish(c) PROVE CountersInv'
  <2>1. U' = U - 1
    BY <1>3, <1>5 DEF Publish
  <2>2. UNCHANGED <<calls, n_drop_evts, drops>> /\ n_evts' = n_evts + 1
        /\ \A d \in CPUs : pc'[d] = "store_drops" => pc[d] = "store_drops"
    BY <1>5 DEF Publish
  <2> QED
    BY <2>1, <2>2 DEF CountersInv, U
<1>6. ASSUME NEW c \in CPUs, LoadDrops(c) PROVE CountersInv'
  <2>1. U' = U
    BY <1>3, <1>6 DEF LoadDrops
  <2>2. UNCHANGED <<calls, n_evts, n_drop_evts>>
        /\ drops' = [drops EXCEPT ![c] = n_drop_evts]
        /\ \A d \in CPUs \ {c} : pc'[d] = pc[d]
    BY <1>6 DEF LoadDrops
  <2> QED
    BY <2>1, <2>2 DEF CountersInv, U
<1>7. ASSUME NEW c \in CPUs, StoreDrops(c) PROVE CountersInv'
  <2>1. U' = U - 1
    BY <1>3, <1>7 DEF StoreDrops
  <2>2. UNCHANGED <<calls, n_evts, drops>> /\ n_drop_evts' = drops[c] + 1
        /\ pc[c] = "store_drops"
        /\ \A d \in CPUs : pc'[d] = "store_drops" => pc[d] = "store_drops"
    BY <1>7 DEF StoreDrops, CountDrop
  <2> QED
    BY <2>1, <2>2 DEF CountersInv, U
<1>8. ASSUME NEW c \in CPUs,
             \/ GiveUp(c) \/ CompareTail(c) \/ MeasureFree(c) \/ Fits(c)
             \/ DropFull(c) \/ FillEvent(c) \/ WrapNext(c)
      PROVE  CountersInv'
  <2>1. U' <= U /\ U' \in Int
    BY <1>3, <1>8 DEF GiveUp, CompareTail, MeasureFree, Fits, DropFull,
       FillEvent, WrapNext
  <2>2. UNCHANGED <<calls, n_evts, n_drop_evts, drops>>
        /\ \A d \in CPUs : pc'[d] = "store_drops" => pc[d] = "store_drops"
    BY <1>8 DEF GiveUp, CompareTail, MeasureFree, Fits, DropFull, FillEvent,
       WrapNext
  <2> QED
    BY <2>1, <2>2 DEF CountersInv, U
<1>9. ASSUME NEW c \in CPUs, Leave(c) PROVE CountersInv'
  <2>1. Uncounted' = Uncounted
    BY <1>9 DEF Leave, Uncounted
  <2>2. UNCHANGED <<calls, n_evts, n_drop_evts, drops>>
        /\ \A d \in CPUs : pc'[d] = "store_drops" => pc[d] = "store_drops"
    BY <1>9 DEF Leave
  <2> QED
    BY <2>1, <2>2 DEF CountersInv, U
<1>10. ASSUME ReaderStep \/ UNCHANGED vars PROVE CountersInv'
  <2>1. UNCHANGED kernelVars
    BY <1>10 DEF ReaderStep, PollHead, ReadEvent, ReadNothing, ReadOutside,
       AddTail, SubtractSize, NextEvent, vars
  <2>2. Uncounted' = Uncounted
    BY <2>1 DEF Uncounted
  <2> QED
    BY <2>1, <2>2 DEF CountersInv, U
<1> QED
  BY <1>4, <1>5, <1>6, <1>7, <1>8, <1>9, <1>10 DEF Next, Record

(***************************************************************************)
(* For every number of CPUs, n_evts and n_drop_evts together never exceed  *)
(* the probe hits, although n_drop_evts++ runs outside the gate.           *)
(***************************************************************************)
THEOREM CountersNeverInvent == Spec => []CountersSound
<1>1. Init => CountersInv
  <2> SUFFICES ASSUME Init
               PROVE  CountersInv
    OBVIOUS
  <2>1. Uncounted = {}
    BY DEF Init, Uncounted
  <2> QED
    BY <2>1, FS_EmptySet DEF Init, CountersInv
<1>2. GateInv /\ CountersInv /\ [Next]_vars => CountersInv'
  BY CountersStep
<1>3. GateInv /\ CountersInv => CountersSound
  BY UncountedFinite DEF GateInv, TypeOK, CountersInv, CountersSound
<1> QED
  BY <1>1, <1>2, <1>3, GateCorrect, PTL DEF Spec
===============================================================================
