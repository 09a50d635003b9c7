---------------------------- MODULE KmodRingSafety ----------------------------
(***************************************************************************)
(* Up to the first overrun the ring overwrites no unread byte and          *)
(* implements EventChannel, and SpaceExact says what the first overrun is: *)
(* a CPU met the gap between the reader's two stores of tail.  For every   *)
(* number of CPUs and every buffer and event size.                         *)
(***************************************************************************)
EXTENDS KmodRingProofs

(***************************************************************************)
(* Multiples of the event size.                                            *)
(***************************************************************************)
LEMMA MultipleAdd == ASSUME NEW n \in Nat, Multiple(n) PROVE Multiple(n + E)
<1>1. PICK k \in 0 .. n : n = k * E
  BY DEF Multiple
<1>2. (k + 1) * E = k * E + E
  BY <1>1, Constants
<1>3. k + 1 \in 0 .. n + E
  BY Constants
<1> QED
  BY <1>1, <1>2, <1>3 DEF Multiple

LEMMA MultipleGap ==
    ASSUME NEW m \in Nat, NEW n \in Nat, Multiple(m), Multiple(n), m < n
    PROVE  m + E <= n
<1>1. PICK k \in 0 .. n : n = k * E
  BY DEF Multiple
<1>2. PICK j \in 0 .. m : m = j * E
  BY DEF Multiple
<1>3. \A a, b \in Nat : a * b \in Nat
  OBVIOUS
<1>4. CASE k <= j
  <2>1. (j - k) * E \in Nat
    BY <1>3, <1>4, Constants
  <2>2. (j - k) * E = j * E - k * E
    BY Constants
  <2> QED
    BY <1>1, <1>2, <2>1, <2>2, Constants
<1>5. CASE k > j
  <2>1. (k - j - 1) * E \in Nat
    BY <1>3, <1>5, Constants
  <2>2. (k - j - 1) * E = k * E - j * E - E
    BY Constants
  <2> QED
    BY <1>1, <1>2, <2>1, <2>2, Constants
<1> QED
  BY <1>4, <1>5

LEMMA NotTwoLaps == ~Multiple(2 * Size)
<1> SUFFICES ASSUME Multiple(2 * Size)
             PROVE  FALSE
  OBVIOUS
<1>1. PICK k \in 0 .. 2 * Size : 2 * Size = k * E
  BY DEF Multiple
<1>2. (k * E) % E = 0
  BY Constants
<1> QED
  BY <1>1, <1>2, RingAssumption

LEMMA NotOneLap == ~Multiple(Size)
<1> SUFFICES ASSUME Multiple(Size)
             PROVE  FALSE
  OBVIOUS
<1>1. PICK k \in 0 .. Size : Size = k * E
  BY DEF Multiple
<1>2. (2 * k) * E = 2 * (k * E)
  BY Constants
<1> QED
  BY <1>1, <1>2, NotTwoLaps, Constants DEF Multiple

(***************************************************************************)
(* Places in the buffer, over the three laps a position can be in.         *)
(***************************************************************************)
LEMMA PlaceIs ==
    ASSUME NEW i \in 0 .. 3 * Size - 1
    PROVE  Place(i) = IF i < Size THEN i
                      ELSE IF i < 2 * Size THEN i - Size ELSE i - 2 * Size
<1>1. CASE i < Size
  BY <1>1, Constants DEF Place
<1>2. CASE i >= Size /\ i < 2 * Size
  BY <1>2, Constants DEF Place
<1>3. CASE i >= 2 * Size
  BY <1>3, Constants DEF Place
<1> QED
  BY <1>1, <1>2, <1>3, Constants

LEMMA PlaceRange ==
    ASSUME NEW i \in 0 .. 3 * Size - 1 PROVE Place(i) \in 0 .. Size - 1
BY PlaceIs, Constants

LEMMA PlaceAhead ==
    ASSUME NEW i \in Nat, NEW k \in 0 .. Size - 1, i + k < 3 * Size
    PROVE  Place(i + k) = IF Place(i) + k < Size THEN Place(i) + k
                          ELSE Place(i) + k - Size
<1>1. i \in 0 .. 3 * Size - 1 /\ i + k \in 0 .. 3 * Size - 1
  BY Constants
<1> QED
  BY <1>1, PlaceIs, Constants

(***************************************************************************)
(* head and tail, seen from the positions they stand for.                  *)
(***************************************************************************)
LEMMA Distance ==
    ASSUME TypeOK, ReaderOnTrack, WriterOnTrack
    PROVE  LET T == Place(Released)
           IN  /\ Released \in Nat /\ Released < 2 * Size /\ written < 3 * Size
               /\ T \in 0 .. Size - 1
               /\ tail = T \/ (reader = "subtract" /\ tail = T + Size)
               /\ written - Released = IF T <= head THEN head - T
                                       ELSE Size - T + head
<1> DEFINE T == Place(Released)
<1>1. Released \in Nat /\ Released < 2 * Size
  BY Constants DEF TypeOK, ReaderOnTrack, Released
<1>2. written \in Nat /\ written - Released \in 0 .. Size - 1
  BY DEF WriterOnTrack, TypeOK
<1>3. Place(Released + (written - Released)) = head
  <2>1. Released + (written - Released) = written
    BY <1>1, <1>2
  <2> QED
    BY <2>1 DEF WriterOnTrack
<1>4. written < 3 * Size
  BY <1>1, <1>2, Constants
<1>5. T \in 0 .. Size - 1
  <2>1. Released \in 0 .. 3 * Size - 1
    BY <1>1, Constants
  <2> QED
    BY <2>1, PlaceRange
<1>6. tail = T \/ (reader = "subtract" /\ tail = T + Size)
  BY DEF ReaderOnTrack
<1> HIDE DEF T
<1>7. head = IF T + (written - Released) < Size
             THEN T + (written - Released)
             ELSE T + (written - Released) - Size
  <2> DEFINE k == written - Released
  <2>1. k \in 0 .. Size - 1 /\ Released + k < 3 * Size
    BY <1>1, <1>2, <1>4
  <2> HIDE DEF k
  <2>3. Place(Released + k) = IF T + k < Size THEN T + k ELSE T + k - Size
    BY <1>1, <2>1, PlaceAhead DEF T
  <2> QED
    BY <1>3, <2>3 DEF k
<1>8. written - Released = IF T <= head THEN head - T ELSE Size - T + head
  BY <1>1, <1>2, <1>5, <1>7, Constants
<1> QED
  BY <1>1, <1>4, <1>5, <1>6, <1>8 DEF T

(***************************************************************************)
(* An overrun is never forgotten.                                          *)
(***************************************************************************)
LEMMA OverranStays == [Next]_vars /\ ~overran' => ~overran
<1> USE DEF kernelVars, readerVars
<1>1. ASSUME overran, NEW c \in CPUs, Enter(c) \/ Record(c) PROVE overran'
  BY <1>1 DEF Enter, Record, GiveUp, CompareTail, MeasureFree, Fits, DropFull,
     LoadDrops, StoreDrops, FillEvent, WrapNext, Publish, Leave
<1>2. ASSUME overran, ReaderStep PROVE overran'
  BY <1>2 DEF ReaderStep, PollHead, ReadEvent, ReadNothing, ReadOutside,
     AddTail, SubtractSize, NextEvent
<1> QED
  BY <1>1, <1>2 DEF Next, vars

(***************************************************************************)
(* Until then the reader finds a whole event and its length.               *)
(***************************************************************************)
LEMMA EventThere ==
    ASSUME RingInv, ~overran, reader = "read"
    PROVE  Mapped(rd) = rd + 1 /\ Whole /\ EventLen = {E}
<1>1. rd \in Nat /\ written \in Nat /\ rd + E <= written /\ Released = rd
  BY DEF RingInv, Sound, ReaderOnTrack, GateInv, TypeOK, Released
<1>2. \A i \in 0 .. E - 1 : Mapped(rd + i) = rd + i + 1
  <2> SUFFICES ASSUME NEW i \in 0 .. E - 1
               PROVE  Mapped(rd + i) = rd + i + 1
    OBVIOUS
  <2>1. rd + i \in Released .. written - 1
    BY <1>1, Constants
  <2> QED
    BY <2>1 DEF RingInv, Sound, UnreadIntact
<1>3. Mapped(rd) = rd + 1
  <2>1. 0 \in 0 .. E - 1 /\ rd + 0 = rd
    BY <1>1, Constants
  <2> QED
    BY <1>1, <1>2, <2>1
<1>4. Whole
  BY <1>1, <1>2, <1>3, Constants DEF Whole
<1> QED
  BY <1>1, <1>3, <1>4 DEF EventLen

(***************************************************************************)
(* head and tail follow the stream positions they stand for: a step of the *)
(* writer is one event further and was checked for room, a step of the     *)
(* reader is one event further and never ends exactly at the end of the    *)
(* buffer.                                                                 *)
(***************************************************************************)
LEMMA TrackStep == RingInv /\ ~overran' /\ [Next]_vars => ReaderOnTrack' /\ WriterOnTrack'
<1> SUFFICES ASSUME RingInv, ~overran', [Next]_vars, ~overran
             PROVE  ReaderOnTrack' /\ WriterOnTrack'
  BY OverranStays
<1> USE Constants DEF RingInv, Sound, ReaderOnTrack, WriterOnTrack, Released, kernelVars,
        readerVars
<1>1. ASSUME NEW c \in CPUs, Enter(c) PROVE ReaderOnTrack' /\ WriterOnTrack'
  BY <1>1 DEF Enter
<1>2. ASSUME NEW c \in CPUs, GiveUp(c) PROVE ReaderOnTrack' /\ WriterOnTrack'
  BY <1>2 DEF GiveUp
<1>3. ASSUME NEW c \in CPUs, CompareTail(c) PROVE ReaderOnTrack' /\ WriterOnTrack'
  BY <1>3 DEF CompareTail
<1>4. ASSUME NEW c \in CPUs, MeasureFree(c) PROVE ReaderOnTrack' /\ WriterOnTrack'
  BY <1>4 DEF MeasureFree
<1>5. ASSUME NEW c \in CPUs, Fits(c) PROVE ReaderOnTrack' /\ WriterOnTrack'
  BY <1>5 DEF Fits
<1>6. ASSUME NEW c \in CPUs, DropFull(c) PROVE ReaderOnTrack' /\ WriterOnTrack'
  BY <1>6 DEF DropFull
<1>7. ASSUME NEW c \in CPUs, LoadDrops(c) PROVE ReaderOnTrack' /\ WriterOnTrack'
  BY <1>7 DEF LoadDrops
<1>8. ASSUME NEW c \in CPUs, StoreDrops(c) PROVE ReaderOnTrack' /\ WriterOnTrack'
  BY <1>8 DEF StoreDrops
<1>9. ASSUME NEW c \in CPUs, FillEvent(c) PROVE ReaderOnTrack' /\ WriterOnTrack'
  BY <1>9 DEF FillEvent
<1>10. ASSUME NEW c \in CPUs, WrapNext(c) PROVE ReaderOnTrack' /\ WriterOnTrack'
  BY <1>10 DEF WrapNext
<1>11. ASSUME NEW c \in CPUs, Publish(c) PROVE ReaderOnTrack' /\ WriterOnTrack'
  <2>1. head' = Place(written + E) /\ written' = written + E
    BY <1>11 DEF Publish, MoveHead, Staged
  <2>2. Room
    BY <1>11 DEF Publish, RoomChecked
  <2>3. written \in Nat /\ Multiple(written + E)
    BY MultipleAdd DEF GateInv, TypeOK
  <2>4. rd \in Nat /\ len \in Nat /\ UNCHANGED <<tail, rd, len, reader>>
    BY <1>11 DEF Publish, GateInv, TypeOK
  <2> QED
    BY <2>1, <2>2, <2>3, <2>4 DEF Room
<1>12. ASSUME NEW c \in CPUs, Leave(c) PROVE ReaderOnTrack' /\ WriterOnTrack'
  BY <1>12 DEF Leave
<1>13. CASE PollHead
  <2>1. rd \in Nat /\ written \in Nat
    BY DEF GateInv, TypeOK
  <2>2. Released = rd /\ written # rd
    BY <1>13, <2>1 DEF PollHead
  <2>3. rd < written
    BY <2>1, <2>2
  <2>4. rd + E <= written
    BY <2>1, <2>3, MultipleGap
  <2> QED
    BY <1>13, <2>1, <2>4 DEF PollHead
<1>14. CASE ReadEvent
  <2>1. rd \in Nat
    BY DEF GateInv, TypeOK
  <2>2. rd + E # 2 * Size
    BY <2>1, MultipleAdd, NotTwoLaps
  <2>3. rd + E < 2 * Size
    BY <1>14, <2>1, <2>2 DEF ReadEvent, InMapping
  <2>4. len' = E
    BY <1>14, EventThere DEF ReadEvent
  <2> QED
    BY <1>14, <2>3, <2>4 DEF ReadEvent
<1>15. CASE ReadOutside
  BY <1>15 DEF ReadOutside
<1>16. CASE AddTail
  <2>1. rd \in Nat /\ written \in Nat /\ Released = rd /\ rd + E < 2 * Size
        /\ rd + E <= written /\ len = E
    BY <1>16 DEF AddTail, GateInv, TypeOK
  <2>2. tail = Place(rd) /\ tail \in 0 .. Size - 1
    <3>1. rd \in 0 .. 3 * Size - 1 /\ reader # "subtract"
      BY <1>16, <2>1 DEF AddTail
    <3> QED
      BY <2>1, <3>1, PlaceRange
  <2>3. reader' = "subtract" /\ UNCHANGED <<rd, len, head, written>>
        /\ tail' = tail + E
    BY <1>16, <2>1, <2>2 DEF AddTail, U32
  <2>4. Place(rd + E) = IF tail + E < Size THEN tail + E ELSE tail + E - Size
    <3>1. E \in 0 .. Size - 1 /\ rd + E < 3 * Size
      BY <2>1
    <3> QED
      BY <2>1, <2>2, <3>1, PlaceAhead
  <2>5. tail + E # Size
    <3>1. Multiple(rd + E) /\ rd + E # Size /\ rd + E # 2 * Size
      BY <2>1, MultipleAdd, NotOneLap, NotTwoLaps
    <3>2. rd \in 0 .. 3 * Size - 1
      BY <2>1
    <3> QED
      BY <2>1, <2>2, <3>1, <3>2, PlaceIs
  <2>6. Released' = rd + E
    BY <2>1, <2>3
  <2>7. tail' = Place(rd + E) \/ tail' = Place(rd + E) + Size
    BY <2>2, <2>3, <2>4
  <2> QED
    BY <2>1, <2>2, <2>3, <2>5, <2>6, <2>7
<1>17. CASE SubtractSize
  <2>1. reader = "subtract" /\ reader' = "bump" /\ tail' = Wrapped(tail)
        /\ UNCHANGED <<rd, len, head, written>> /\ Released' = Released
    BY <1>17 DEF SubtractSize
  <2>2. /\ Place(Released) \in 0 .. Size - 1
        /\ tail = Place(Released) \/ tail = Place(Released) + Size
    BY Distance DEF GateInv
  <2>3. tail' = Place(Released) /\ tail' # Size
    BY <2>1, <2>2 DEF Wrapped
  <2> QED
    BY <2>1, <2>3
<1>18. CASE NextEvent
  <2>1. rd \in Nat /\ Multiple(rd + E) /\ len = E
    BY <1>18, MultipleAdd DEF NextEvent, GateInv, TypeOK
  <2> QED
    BY <1>18, <2>1 DEF NextEvent
<1>19. CASE UNCHANGED vars
  BY <1>19 DEF vars
<1>20. CASE ReadNothing
  BY <1>20 DEF ReadNothing
<1> QED
  BY <1>1, <1>2, <1>3, <1>4, <1>5, <1>6, <1>7, <1>8, <1>9, <1>10, <1>11,
     <1>12, <1>13, <1>14, <1>15, <1>16, <1>17, <1>18, <1>19, <1>20
     DEF Next, Record, ReaderStep

(***************************************************************************)
(* The reader only ever makes room: once it has given back one more event  *)
(* there is room for another.                                              *)
(***************************************************************************)
LEMMA RoomKept == RingInv /\ ~overran /\ ReaderStep =>
    /\ Room => Room'
    /\ AddTail => Room'
<1> SUFFICES ASSUME RingInv, ~overran, ReaderStep
             PROVE  (Room => Room') /\ (AddTail => Room')
  OBVIOUS
<1> USE Constants DEF Room, Released, kernelVars
<1>1. rd \in Nat /\ written \in Nat /\ len \in Nat
  BY DEF RingInv, GateInv, TypeOK
<1>2. CASE AddTail
  BY <1>1, <1>2 DEF AddTail, RingInv, Sound, ReaderOnTrack, WriterOnTrack
<1>3. CASE SubtractSize
  BY <1>3 DEF SubtractSize, AddTail
<1>4. CASE PollHead \/ ReadEvent \/ ReadNothing \/ ReadOutside \/ NextEvent
  BY <1>1, <1>4 DEF PollHead, ReadEvent, ReadNothing, ReadOutside, NextEvent,
     AddTail
<1> QED
  BY <1>2, <1>3, <1>4 DEF ReaderStep

(***************************************************************************)
(* What a CPU has learnt of tail stays good enough: the reader can only    *)
(* move tail away from head, and where it wraps around meanwhile, it has   *)
(* given back an event's worth of room, unless the CPU compared amid the   *)
(* two stores.                                                             *)
(***************************************************************************)
LEMMA MeasuredStep == RingInv /\ ~overran' /\ [Next]_vars => Measured' /\ RoomChecked'
<1> SUFFICES ASSUME RingInv, ~overran', [Next]_vars, ~overran
             PROVE  Measured' /\ RoomChecked'
  BY OverranStays
<1> USE Constants DEF RingInv, Sound, Measured, RoomChecked, kernelVars, readerVars,
        Goto
<1>1. ASSUME NEW c \in CPUs, Enter(c) PROVE Measured' /\ RoomChecked'
  BY <1>1 DEF Enter, Room, Released, GateInv, TypeOK
<1>2. ASSUME NEW c \in CPUs, GiveUp(c) PROVE Measured' /\ RoomChecked'
  BY <1>2 DEF GiveUp, Room, Released, GateInv, TypeOK
<1>3. ASSUME NEW c \in CPUs, CompareTail(c) PROVE Measured' /\ RoomChecked'
  <2>1. UNCHANGED <<head, tail, free_space, written, rd, reader>>
        /\ pc' = [pc EXCEPT ![c] = "measure"] /\ Room' = Room
    BY <1>3 DEF CompareTail, Room, Released
  <2>2. /\ (ahead'[c] <=> tail > head) /\ (glimpse'[c] <=> tail > Size)
        /\ \A d \in CPUs \ {c} : ahead'[d] = ahead[d] /\ glimpse'[d] = glimpse[d]
    BY <1>3 DEF CompareTail, GateInv, TypeOK
  <2>3. /\ IF ahead'[c] THEN (tail > head /\ tail <= Size) \/ Room \/ glimpse'[c]
                          ELSE tail <= head
        /\ glimpse'[c] => ahead'[c]
    BY <2>2 DEF GateInv, TypeOK
  <2> QED
    BY <2>1, <2>2, <2>3 DEF GateInv, TypeOK
<1>4. ASSUME NEW c \in CPUs, MeasureFree(c) PROVE Measured' /\ RoomChecked'
  <2>1. free_space'[c] = FreeSpace(c) /\ pc' = [pc EXCEPT ![c] = "check"]
        /\ \A d \in CPUs \ {c} : free_space'[d] = free_space[d]
    BY <1>4 DEF MeasureFree, GateInv, TypeOK
  <2>2. UNCHANGED <<head, tail, ahead, glimpse, written, rd, reader>> /\ Room' = Room
    BY <1>4 DEF MeasureFree, Room, Released
  <2>3. FreeSpace(c) >= E => Room
    BY <1>4 DEF MeasureFree
  <2> QED
    BY <2>1, <2>2, <2>3 DEF GateInv, TypeOK
<1>5. ASSUME NEW c \in CPUs, Fits(c) PROVE Measured' /\ RoomChecked'
  BY <1>5 DEF Fits, Room, Released, GateInv, TypeOK
<1>6. ASSUME NEW c \in CPUs, DropFull(c) PROVE Measured' /\ RoomChecked'
  BY <1>6 DEF DropFull, Room, Released, GateInv, TypeOK
<1>7. ASSUME NEW c \in CPUs, LoadDrops(c) PROVE Measured' /\ RoomChecked'
  BY <1>7 DEF LoadDrops, Room, Released, GateInv, TypeOK
<1>8. ASSUME NEW c \in CPUs, StoreDrops(c) PROVE Measured' /\ RoomChecked'
  BY <1>8 DEF StoreDrops, Room, Released, GateInv, TypeOK
<1>9. ASSUME NEW c \in CPUs, FillEvent(c) PROVE Measured' /\ RoomChecked'
  BY <1>9 DEF FillEvent, Room, Released, GateInv, TypeOK
<1>10. ASSUME NEW c \in CPUs, WrapNext(c) PROVE Measured' /\ RoomChecked'
  BY <1>10 DEF WrapNext, Room, Released, GateInv, TypeOK
<1>11. ASSUME NEW c \in CPUs, Publish(c) PROVE Measured' /\ RoomChecked'
  <2>1. \A d \in CPUs : d # c => pc[d] \notin Holding
    BY <1>11 DEF Publish, GateInv, OneWriter, Holding
  <2>2. pc' = [pc EXCEPT ![c] = "leave"] /\ pc \in [CPUs -> PCs]
    BY <1>11 DEF Publish, GateInv, TypeOK
  <2>3. \A d \in CPUs : pc'[d] \notin {"measure", "check", "fill", "wrap", "publish"}
    BY <2>1, <2>2 DEF Holding
  <2> QED
    BY <2>3
<1>12. ASSUME NEW c \in CPUs, Leave(c) PROVE Measured' /\ RoomChecked'
  BY <1>12 DEF Leave, Room, Released, GateInv, TypeOK
<1>13. CASE PollHead
  <2>1. UNCHANGED <<pc, ahead, glimpse, free_space, head, tail>> /\ (Room => Room')
    BY <1>13, RoomKept DEF PollHead, ReaderStep
  <2> QED
    BY <2>1
<1>14. CASE ReadEvent
  <2>1. UNCHANGED <<pc, ahead, glimpse, free_space, head, tail>> /\ (Room => Room')
    BY <1>14, RoomKept DEF ReadEvent, ReaderStep
  <2> QED
    BY <2>1
<1>15. CASE ReadOutside
  <2>1. UNCHANGED <<pc, ahead, glimpse, free_space, head, tail>> /\ (Room => Room')
    BY <1>15, RoomKept DEF ReadOutside, ReaderStep
  <2> QED
    BY <2>1
<1>16. CASE AddTail
  <2>1. UNCHANGED <<pc, ahead, glimpse, free_space, head>> /\ Room'
    BY <1>16, RoomKept DEF AddTail, ReaderStep
  <2>2. tail <= head => tail' <= head
    <3>1. SUFFICES ASSUME tail <= head PROVE tail' <= head
      OBVIOUS
    <3>2. rd + E <= written /\ Released = rd /\ len = E /\ reader # "subtract"
      BY <1>16 DEF AddTail, ReaderOnTrack, Released, GateInv, TypeOK
    <3>3. written - Released = head - tail
      BY <3>1, <3>2, Distance DEF GateInv
    <3>4. head \in 0 .. Size - 1 /\ tail \in 0 .. Word - 1 /\ rd \in Nat
          /\ written \in Nat
      BY DEF GateInv, TypeOK
    <3>5. tail + E <= head
      BY <3>2, <3>3, <3>4
    <3> QED
      BY <1>16, <3>2, <3>4, <3>5 DEF AddTail, U32
  <2> QED
    BY <2>1, <2>2
<1>17. CASE SubtractSize
  <2>1. UNCHANGED <<pc, ahead, glimpse, free_space, head>> /\ (Room => Room')
    BY <1>17, RoomKept DEF SubtractSize, ReaderStep
  <2>2. head \in 0 .. Size - 1 /\ tail \in 0 .. Word - 1
    BY DEF GateInv, TypeOK
  <2>3. tail <= Size => tail' = tail
    BY <1>17, <2>2 DEF SubtractSize, Wrapped
  <2> QED
    BY <2>1, <2>2, <2>3
<1>18. CASE NextEvent
  <2>1. UNCHANGED <<pc, ahead, glimpse, free_space, head, tail>> /\ (Room => Room')
    BY <1>18, RoomKept DEF NextEvent, ReaderStep
  <2> QED
    BY <2>1
<1>19. CASE UNCHANGED vars
  BY <1>19 DEF vars, Room, Released
<1>20. CASE ReadNothing
  <2>1. UNCHANGED <<pc, ahead, glimpse, free_space, head, tail>> /\ (Room => Room')
    BY <1>20, RoomKept DEF ReadNothing, ReaderStep
  <2> QED
    BY <2>1
<1> QED
  BY <1>1, <1>2, <1>3, <1>4, <1>5, <1>6, <1>7, <1>8, <1>9, <1>10, <1>11,
     <1>12, <1>13, <1>14, <1>15, <1>16, <1>17, <1>18, <1>19, <1>20
     DEF Next, Record, ReaderStep

(***************************************************************************)
(* The event in the making lies where its positions belong, the part that  *)
(* spilled into the slack included.                                        *)
(***************************************************************************)
LEMMA StagedStep == RingInv /\ ~overran' /\ [Next]_vars => Staged'
<1> SUFFICES ASSUME RingInv, ~overran', [Next]_vars, ~overran
             PROVE  Staged'
  BY OverranStays
<1> USE DEF RingInv, Sound, Staged, Mapped, kernelVars, readerVars, Goto
<1>1. ASSUME NEW c \in CPUs, Enter(c) PROVE Staged'
  BY <1>1 DEF Enter, GateInv, TypeOK
<1>2. ASSUME NEW c \in CPUs, GiveUp(c) PROVE Staged'
  BY <1>2 DEF GiveUp, GateInv, TypeOK
<1>3. ASSUME NEW c \in CPUs, CompareTail(c) PROVE Staged'
  BY <1>3 DEF CompareTail, GateInv, TypeOK
<1>4. ASSUME NEW c \in CPUs, MeasureFree(c) PROVE Staged'
  BY <1>4 DEF MeasureFree, GateInv, TypeOK
<1>5. ASSUME NEW c \in CPUs, Fits(c) PROVE Staged'
  BY <1>5 DEF Fits, GateInv, TypeOK
<1>6. ASSUME NEW c \in CPUs, DropFull(c) PROVE Staged'
  BY <1>6 DEF DropFull, GateInv, TypeOK
<1>7. ASSUME NEW c \in CPUs, LoadDrops(c) PROVE Staged'
  BY <1>7 DEF LoadDrops, GateInv, TypeOK
<1>8. ASSUME NEW c \in CPUs, StoreDrops(c) PROVE Staged'
  BY <1>8 DEF StoreDrops, GateInv, TypeOK
<1>9. ASSUME NEW c \in CPUs, FillEvent(c) PROVE Staged'
  <2>1. \A d \in CPUs : d # c => pc[d] \notin Holding
    BY <1>9 DEF FillEvent, GateInv, OneWriter, Holding
  <2>2. next'[c] = head + E /\ pc' = [pc EXCEPT ![c] = "wrap"] /\ head' = head
        /\ written' = written
    BY <1>9 DEF FillEvent, GateInv, TypeOK
  <2>3. \A j \in 0 .. E - 1 : buffer'[head + j] = written + j + 1
    <3> SUFFICES ASSUME NEW j \in 0 .. E - 1
                 PROVE  buffer'[head + j] = written + j + 1
      OBVIOUS
    <3>1. head + j \in 0 .. Size + E - 1 /\ head + j \in head .. head + E - 1
          /\ (head + j) - head = j
      BY Constants DEF GateInv, TypeOK
    <3>2. DOMAIN buffer = 0 .. Size + E - 1
      BY DEF GateInv, TypeOK
    <3> QED
      BY <1>9, <3>1, <3>2 DEF FillEvent
  <2> QED
    BY <2>1, <2>2, <2>3 DEF GateInv, TypeOK, Holding
<1>10. ASSUME NEW c \in CPUs, WrapNext(c) PROVE Staged'
  <2>1. \A d \in CPUs : d # c => pc[d] \notin Holding
    BY <1>10 DEF WrapNext, GateInv, OneWriter, Holding
  <2>2. pc' = [pc EXCEPT ![c] = "publish"] /\ written' = written
    BY <1>10 DEF WrapNext
  <2>3. /\ next[c] = head + E /\ pc[c] = "wrap"
        /\ \A j \in 0 .. E - 1 : buffer[head + j] = written + j + 1
    BY <1>10 DEF WrapNext
  <2>4. /\ written \in Nat /\ written + E < 3 * Size
        /\ head = Place(written) /\ head \in 0 .. Size - 1
        /\ DOMAIN buffer = 0 .. Size + E - 1
    <3>1. Room
      BY <2>3 DEF RoomChecked
    <3>2. Released \in Nat /\ Released < 2 * Size
      BY Distance DEF GateInv
    <3>3. written \in Nat /\ head \in 0 .. Size - 1
          /\ DOMAIN buffer = 0 .. Size + E - 1
      BY DEF GateInv, TypeOK
    <3>4. written + E < 3 * Size
      BY <3>1, <3>2, <3>3, Constants DEF Room
    <3> QED
      BY <3>3, <3>4 DEF WriterOnTrack
  <2>5. \A j \in 0 .. E : Place(written + j) = IF head + j < Size THEN head + j
                                               ELSE head + j - Size
    <3> SUFFICES ASSUME NEW j \in 0 .. E
                 PROVE  Place(written + j) = IF head + j < Size THEN head + j
                                             ELSE head + j - Size
      OBVIOUS
    <3>1. j \in 0 .. Size - 1 /\ written + j < 3 * Size
      BY <2>4, Constants
    <3> QED
      BY <2>4, <3>1, PlaceAhead
  <2>6. next'[c] = Place(written + E)
    <3>1. Place(written + E) = IF head + E < Size THEN head + E
                               ELSE head + E - Size
      BY <2>5, Constants
    <3>2. head + E \in Nat
      BY <2>4, Constants
    <3> QED
      BY <1>10, <2>3, <3>1, <3>2, Constants DEF WrapNext, GateInv, TypeOK
  <2>7. \A j \in 0 .. E - 1 : buffer'[Place(written + j)] = written + j + 1
    <3> SUFFICES ASSUME NEW j \in 0 .. E - 1
                 PROVE  buffer'[Place(written + j)] = written + j + 1
      OBVIOUS
    <3>1. Place(written + j) = IF head + j < Size THEN head + j
                               ELSE head + j - Size
      BY <2>5, Constants
    <3>2. buffer[head + j] = written + j + 1
      BY <2>3
    <3>3. CASE head + E >= Size
      <4>1. \A i \in DOMAIN buffer :
               buffer'[i] = IF i < head + E - Size THEN buffer[Size + i]
                            ELSE buffer[i]
        <5>1. next[c] >= Size
          BY <2>3, <3>3
        <5>2. buffer' = Spill(next[c] - Size)
          BY <1>10, <5>1 DEF WrapNext
        <5>3. next[c] = head + E
          BY <2>3
        <5> QED
          BY <2>4, <5>2, <5>3, Constants DEF Spill
      <4>2. CASE head + j < Size
        <5>1. head + j \in DOMAIN buffer /\ ~(head + j < head + E - Size)
          BY <2>4, <4>2, Constants
        <5> QED
          BY <3>1, <3>2, <4>1, <4>2, <5>1
      <4>3. CASE ~(head + j < Size)
        <5>1. /\ head + j - Size \in DOMAIN buffer
              /\ head + j - Size < head + E - Size
              /\ Size + (head + j - Size) = head + j
          BY <2>4, <4>3, Constants
        <5> QED
          BY <3>1, <3>2, <4>1, <4>3, <5>1
      <4> QED
        BY <4>2, <4>3
    <3>4. CASE ~(head + E >= Size)
      <4>1. buffer' = buffer
        BY <1>10, <2>3, <3>4 DEF WrapNext
      <4>2. head + j < Size
        BY <2>4, <3>4, Constants
      <4> QED
        BY <3>1, <3>2, <4>1, <4>2
    <3> QED
      BY <3>3, <3>4
  <2> QED
    BY <2>1, <2>2, <2>6, <2>7 DEF GateInv, TypeOK, Holding
<1>11. ASSUME NEW c \in CPUs, Publish(c) PROVE Staged'
  <2>1. \A d \in CPUs : d # c => pc[d] \notin Holding
    BY <1>11 DEF Publish, GateInv, OneWriter, Holding
  <2>2. \A d \in CPUs : pc'[d] \notin {"wrap", "publish"}
    BY <1>11, <2>1 DEF Publish, GateInv, TypeOK, Holding
  <2> QED
    BY <2>2
<1>12. ASSUME NEW c \in CPUs, Leave(c) PROVE Staged'
  BY <1>12 DEF Leave, GateInv, TypeOK
<1>13. CASE PollHead
  BY <1>13 DEF PollHead
<1>14. CASE ReadEvent
  BY <1>14 DEF ReadEvent
<1>15. CASE ReadOutside
  BY <1>15 DEF ReadOutside
<1>16. CASE AddTail
  BY <1>16 DEF AddTail
<1>17. CASE SubtractSize
  BY <1>17 DEF SubtractSize
<1>18. CASE NextEvent
  BY <1>18 DEF NextEvent
<1>19. CASE UNCHANGED vars
  BY <1>19 DEF vars
<1>20. CASE ReadNothing
  BY <1>20 DEF ReadNothing
<1> QED
  BY <1>1, <1>2, <1>3, <1>4, <1>5, <1>6, <1>7, <1>8, <1>9, <1>10, <1>11,
     <1>12, <1>13, <1>14, <1>15, <1>16, <1>17, <1>18, <1>19, <1>20
     DEF Next, Record, ReaderStep

(***************************************************************************)
(* An event with room for it ends before the oldest unread byte: none of   *)
(* its places, nor those it spills to, is an unread one.                   *)
(***************************************************************************)
LEMMA FarAway ==
    ASSUME RingInv, ~overran, Room, NEW i \in Released .. written - 1
    PROVE  /\ Place(i) \in 0 .. Size - 1
           /\ Place(i) \notin head .. head + E - 1
           /\ ~(Place(i) < head + E - Size)
           /\ i \in Nat
<1>1. /\ Released \in Nat /\ written \in Nat /\ written < 3 * Size
      /\ head = Place(written) /\ head \in 0 .. Size - 1
  BY Distance DEF RingInv, Sound, GateInv, TypeOK, WriterOnTrack
<1> DEFINE k == written - i
<1>2. k \in 1 .. Size - 1 - E /\ i \in Nat /\ i + k = written
      /\ i \in 0 .. 3 * Size - 1
  BY <1>1, Constants DEF Room
<1> HIDE DEF k
<1>3. Place(i) \in 0 .. Size - 1
  BY <1>2, PlaceRange
<1>4. k \in 0 .. Size - 1 /\ i + k < 3 * Size
  BY <1>1, <1>2, Constants
<1>5. head = IF Place(i) + k < Size THEN Place(i) + k ELSE Place(i) + k - Size
  BY <1>1, <1>2, <1>4, PlaceAhead
<1> QED
  BY <1>1, <1>2, <1>3, <1>5, Constants

(***************************************************************************)
(* The unread bytes stay where they are.                                   *)
(***************************************************************************)
LEMMA UnreadStep == RingInv /\ ~overran' /\ [Next]_vars => UnreadIntact'
<1> SUFFICES ASSUME RingInv, ~overran', [Next]_vars, ~overran
             PROVE  UnreadIntact'
  BY OverranStays
<1> USE Constants DEF RingInv, Sound, UnreadIntact, Mapped, kernelVars, readerVars
<1>1. ASSUME NEW c \in CPUs, Enter(c) PROVE UnreadIntact'
  BY <1>1 DEF Enter, Released
<1>2. ASSUME NEW c \in CPUs, GiveUp(c) PROVE UnreadIntact'
  BY <1>2 DEF GiveUp, Released
<1>3. ASSUME NEW c \in CPUs, CompareTail(c) PROVE UnreadIntact'
  BY <1>3 DEF CompareTail, Released
<1>4. ASSUME NEW c \in CPUs, MeasureFree(c) PROVE UnreadIntact'
  BY <1>4 DEF MeasureFree, Released
<1>5. ASSUME NEW c \in CPUs, Fits(c) PROVE UnreadIntact'
  BY <1>5 DEF Fits, Released
<1>6. ASSUME NEW c \in CPUs, DropFull(c) PROVE UnreadIntact'
  BY <1>6 DEF DropFull, Released
<1>7. ASSUME NEW c \in CPUs, LoadDrops(c) PROVE UnreadIntact'
  BY <1>7 DEF LoadDrops, Released
<1>8. ASSUME NEW c \in CPUs, StoreDrops(c) PROVE UnreadIntact'
  BY <1>8 DEF StoreDrops, Released
<1>9. ASSUME NEW c \in CPUs, FillEvent(c) PROVE UnreadIntact'
  <2>1. Room /\ written \in Nat /\ Released \in Nat
    BY <1>9, Distance DEF FillEvent, RoomChecked, GateInv, TypeOK
  <2>2. UNCHANGED <<written, rd, reader>> /\ Released' = Released
    BY <1>9 DEF FillEvent, Released
  <2>3. \A i \in Released .. written - 1 : buffer'[Place(i)] = buffer[Place(i)]
    <3> SUFFICES ASSUME NEW i \in Released .. written - 1
                 PROVE  buffer'[Place(i)] = buffer[Place(i)]
      OBVIOUS
    <3>1. Place(i) \in 0 .. Size - 1 /\ Place(i) \notin head .. head + E - 1
      BY <2>1, FarAway
    <3>2. Place(i) \in DOMAIN buffer
      BY <3>1 DEF GateInv, TypeOK
    <3> QED
      BY <1>9, <3>1, <3>2 DEF FillEvent
  <2> QED
    BY <2>2, <2>3
<1>10. ASSUME NEW c \in CPUs, WrapNext(c) PROVE UnreadIntact'
  <2>1. Room /\ written \in Nat /\ Released \in Nat
    BY <1>10, Distance DEF WrapNext, RoomChecked, GateInv, TypeOK
  <2>2. UNCHANGED <<written, rd, reader>> /\ Released' = Released
    BY <1>10 DEF WrapNext, Released
  <2>3. \A i \in Released .. written - 1 : buffer'[Place(i)] = buffer[Place(i)]
    <3> SUFFICES ASSUME NEW i \in Released .. written - 1
                 PROVE  buffer'[Place(i)] = buffer[Place(i)]
      OBVIOUS
    <3>1. Place(i) \in 0 .. Size - 1 /\ ~(Place(i) < head + E - Size)
      BY <2>1, FarAway
    <3>2. Place(i) \in DOMAIN buffer
      BY <3>1 DEF GateInv, TypeOK
    <3>3. next[c] = head + E
      BY <1>10 DEF WrapNext, Staged
    <3>4. \/ \A j \in DOMAIN buffer :
                buffer'[j] = IF j < head + E - Size THEN buffer[Size + j]
                             ELSE buffer[j]
          \/ buffer' = buffer
      <4>1. head \in 0 .. Size - 1 /\ DOMAIN buffer = 0 .. Size + E - 1
        BY DEF GateInv, TypeOK
      <4>2. CASE buffer' = Spill(next[c] - Size)
        BY <3>3, <4>1, <4>2 DEF Spill
      <4>3. CASE buffer' = buffer
        BY <4>3
      <4> QED
        BY <1>10, <4>2, <4>3 DEF WrapNext
    <3> QED
      BY <3>1, <3>2, <3>4
  <2> QED
    BY <2>2, <2>3
<1>11. ASSUME NEW c \in CPUs, Publish(c) PROVE UnreadIntact'
  <2>1. written' = written + E /\ UNCHANGED <<buffer, rd, reader>>
        /\ Released' = Released
    BY <1>11 DEF Publish, Released
  <2>2. \A j \in 0 .. E - 1 : buffer[Place(written + j)] = written + j + 1
    BY <1>11 DEF Publish, Staged
  <2>3. written \in Nat /\ Released \in Nat
    BY Distance DEF GateInv, TypeOK
  <2>4. ASSUME NEW i \in Released .. written' - 1
        PROVE  buffer[Place(i)] = i + 1
    <3>1. CASE i < written
      BY <2>3, <3>1
    <3>2. CASE i >= written
      <4>1. i - written \in 0 .. E - 1 /\ written + (i - written) = i
        BY <2>1, <2>3, <3>2
      <4> QED
        BY <2>2, <2>3, <4>1
    <3> QED
      BY <2>3, <3>1, <3>2
  <2> QED
    BY <2>1, <2>4
<1>12. ASSUME NEW c \in CPUs, Leave(c) PROVE UnreadIntact'
  BY <1>12 DEF Leave, Released
<1>13. CASE PollHead
  <2>1. UNCHANGED <<buffer, written>> /\ rd \in Nat /\ written \in Nat
    BY <1>13 DEF PollHead, GateInv, TypeOK
  <2>2. Released' \in {Released, Released + E} /\ Released \in Nat
    BY <1>13, <2>1, Distance DEF PollHead, Released, GateInv,
       ReaderOnTrack
  <2>3. \A i \in Released' .. written - 1 : i \in Released .. written - 1
    BY <2>1, <2>2
  <2> QED
    BY <2>1, <2>3
<1>14. CASE ReadEvent
  <2>1. UNCHANGED <<buffer, written>> /\ rd \in Nat /\ written \in Nat
    BY <1>14 DEF ReadEvent, GateInv, TypeOK
  <2>2. Released' \in {Released, Released + E} /\ Released \in Nat
    BY <1>14, <2>1, Distance DEF ReadEvent, Released, GateInv,
       ReaderOnTrack
  <2>3. \A i \in Released' .. written - 1 : i \in Released .. written - 1
    BY <2>1, <2>2
  <2> QED
    BY <2>1, <2>3
<1>15. CASE ReadOutside
  <2>1. UNCHANGED <<buffer, written>> /\ rd \in Nat /\ written \in Nat
    BY <1>15 DEF ReadOutside, GateInv, TypeOK
  <2>2. Released' \in {Released, Released + E} /\ Released \in Nat
    BY <1>15, <2>1, Distance DEF ReadOutside, Released, GateInv,
       ReaderOnTrack
  <2>3. \A i \in Released' .. written - 1 : i \in Released .. written - 1
    BY <2>1, <2>2
  <2> QED
    BY <2>1, <2>3
<1>16. CASE AddTail
  <2>1. UNCHANGED <<buffer, written>> /\ rd \in Nat /\ written \in Nat
    BY <1>16 DEF AddTail, GateInv, TypeOK
  <2>2. Released' \in {Released, Released + E} /\ Released \in Nat
    BY <1>16, <2>1, Distance DEF AddTail, Released, GateInv,
       ReaderOnTrack
  <2>3. \A i \in Released' .. written - 1 : i \in Released .. written - 1
    BY <2>1, <2>2
  <2> QED
    BY <2>1, <2>3
<1>17. CASE SubtractSize
  BY <1>17 DEF SubtractSize, Released
<1>18. CASE NextEvent
  <2>1. UNCHANGED <<buffer, written>> /\ rd \in Nat /\ written \in Nat
    BY <1>18 DEF NextEvent, GateInv, TypeOK
  <2>2. Released' \in {Released, Released + E} /\ Released \in Nat
    BY <1>18, <2>1, Distance DEF NextEvent, Released, GateInv,
       ReaderOnTrack
  <2>3. \A i \in Released' .. written - 1 : i \in Released .. written - 1
    BY <2>1, <2>2
  <2> QED
    BY <2>1, <2>3
<1>19. CASE UNCHANGED vars
  BY <1>19 DEF vars, Released
<1>20. CASE ReadNothing
  BY <1>20 DEF ReadNothing, Released
<1> QED
  BY <1>1, <1>2, <1>3, <1>4, <1>5, <1>6, <1>7, <1>8, <1>9, <1>10, <1>11,
     <1>12, <1>13, <1>14, <1>15, <1>16, <1>17, <1>18, <1>19, <1>20
     DEF Next, Record, ReaderStep

(***************************************************************************)
(* RingInv is inductive: the ring is sound until it is overrun.            *)
(***************************************************************************)
THEOREM RingCorrect == Spec => []RingInv
<1>1. Init => RingInv
  <2> SUFFICES ASSUME Init
               PROVE  RingInv
    OBVIOUS
  <2>1. GateInv
    BY GateInit
  <2>2. Multiple(0) /\ Place(0) = 0
    <3>1. 0 = 0 * E /\ 0 \in 0 .. 0 /\ 0 \in 0 .. 3 * Size - 1
      BY Constants
    <3> QED
      BY <3>1, PlaceIs, Constants DEF Multiple
  <2>3. ReaderOnTrack /\ WriterOnTrack
    BY <2>2, Constants DEF Init, ReaderOnTrack, WriterOnTrack, Released
  <2>4. Measured /\ Staged /\ RoomChecked
    BY DEF Init, Measured, Staged, RoomChecked
  <2>5. UnreadIntact
    BY DEF Init, UnreadIntact, Released
  <2> QED
    BY <2>1, <2>3, <2>4, <2>5 DEF RingInv, Sound
<1>2. RingInv /\ [Next]_vars => RingInv'
  <2>1. RingInv /\ [Next]_vars => GateInv'
    BY TypeStep, CountStep, WriterStep DEF GateInv, RingInv
  <2>2. RingInv /\ [Next]_vars /\ ~overran' => Sound'
    BY TrackStep, MeasuredStep, StagedStep, UnreadStep DEF Sound
  <2> QED
    BY <2>1, <2>2 DEF RingInv
<1> QED
  BY <1>1, <1>2, PTL DEF Spec

(***************************************************************************)
(* An event that passed linx_record_event's space check fits into the      *)
(* bytes the reader has given back.                                        *)
(***************************************************************************)
THEOREM RoomSafe == Spec => []RoomChecked
<1>1. RingInv => RoomChecked
  BY DEF RingInv, Sound, RoomChecked
<1> QED
  BY <1>1, RingCorrect, PTL

(***************************************************************************)
(* No byte that linx_kmod_next has not given back is ever overwritten.     *)
(***************************************************************************)
THEOREM UnreadSafe == Spec => []UnreadIntact
<1>1. RingInv => UnreadIntact
  BY DEF RingInv, Sound, UnreadIntact
<1> QED
  BY <1>1, RingCorrect, PTL

(***************************************************************************)
(* Between the test tail > head and the subtraction the reader can only    *)
(* give back bytes.  Where it wrapped around meanwhile, the difference is  *)
(* negative, and as a uint32_t exceeds E: rightly, for there is room,      *)
(* unless the test was made amid the reader's two stores.  Where the       *)
(* subtraction is, tail counts Size bytes too many if the writer is past   *)
(* the end of the buffer already.                                          *)
(***************************************************************************)
LEMMA FreeSpaceExact ==
    ASSUME RingInv, ~overran, NEW c \in CPUs, pc[c] = "measure"
    PROVE  FreeSpace(c) >= E <=> Room \/ Misled(c)
<1> DEFINE T == Place(Released)
<1>1. /\ T \in 0 .. Size - 1 /\ Released \in Nat /\ written \in Nat
      /\ head \in 0 .. Size - 1
      /\ tail = T \/ tail = T + Size
      /\ written - Released = IF T <= head THEN head - T ELSE Size - T + head
  BY Distance DEF RingInv, Sound, GateInv, TypeOK
<1> HIDE DEF T
<1>2. /\ IF ahead[c] THEN (tail > head /\ tail <= Size) \/ Room \/ glimpse[c]
                     ELSE tail <= head
      /\ glimpse[c] => ahead[c]
  BY DEF RingInv, Sound, Measured
<1>3. Room <=> (IF T <= head THEN head - T ELSE Size - T + head) + E <= Size - 1
  BY <1>1, Constants DEF Room
<1>4. CASE ahead[c] /\ tail > head
  <2>1. FreeSpace(c) = tail - head - 1
    BY <1>1, <1>4, Constants DEF FreeSpace, U32
  <2>2. Misled(c) <=> tail - Size > head
    BY <1>1, <1>4, Constants DEF Misled
  <2> QED
    BY <1>1, <1>3, <1>4, <2>1, <2>2, Constants
<1>5. CASE ahead[c] /\ ~(tail > head)
  <2>1. Room \/ Misled(c)
    BY <1>1, <1>2, <1>5, Constants DEF Misled
  <2>2. FreeSpace(c) = tail - head - 1 + Word
    BY <1>1, <1>5, Constants DEF FreeSpace, U32
  <2> QED
    BY <1>1, <2>1, <2>2, Constants
<1>6. CASE ~ahead[c]
  <2>1. tail = T /\ T <= head /\ ~glimpse[c]
    BY <1>1, <1>2, <1>6, Constants
  <2>2. ~Misled(c)
    BY <1>1, <2>1, Constants DEF Misled
  <2>3. FreeSpace(c) = Size + T - head - 1
    BY <1>1, <1>6, <2>1, Constants DEF FreeSpace, U32
  <2> QED
    BY <1>1, <1>3, <2>1, <2>2, <2>3, Constants
<1> QED
  BY <1>4, <1>5, <1>6

(***************************************************************************)
(* Only MeasureFree takes a CPU from the measurement to the check.         *)
(***************************************************************************)
LEMMA MeasuredRightStep == RingInv /\ [Next]_vars => MeasuredRight
<1> SUFFICES ASSUME RingInv, [Next]_vars, NEW c \in CPUs,
                    ~overran, pc[c] = "measure", pc'[c] = "check"
             PROVE  free_space'[c] >= E <=> Room \/ Misled(c)
  BY DEF MeasuredRight
<1>1. MeasureFree(c)
  <2> USE DEF kernelVars, readerVars, Goto, RingInv, Sound, GateInv, TypeOK
  <2>1. ASSUME NEW d \in CPUs, Enter(d) PROVE FALSE
    BY <2>1 DEF Enter
  <2>2. ASSUME NEW d \in CPUs, Record(d), ~MeasureFree(d) PROVE FALSE
    BY <2>2 DEF Record, GiveUp, CompareTail, Fits, DropFull, LoadDrops,
       StoreDrops, FillEvent, WrapNext, Publish, Leave
  <2>3. ASSUME NEW d \in CPUs, d # c, MeasureFree(d) PROVE FALSE
    BY <2>3 DEF MeasureFree
  <2>4. CASE ReaderStep \/ UNCHANGED vars
    BY <2>4 DEF ReaderStep, PollHead, ReadEvent, ReadNothing, ReadOutside,
       AddTail, SubtractSize, NextEvent, vars
  <2> QED
    BY <2>1, <2>2, <2>3, <2>4 DEF Next
<1>2. free_space'[c] = FreeSpace(c)
  BY <1>1 DEF MeasureFree, RingInv, Sound, GateInv, TypeOK
<1> QED
  BY <1>2, FreeSpaceExact

(***************************************************************************)
(* linx_record_event drops an event only when it does not fit, and lets    *)
(* one pass that does not only when it met the reader amid its two stores. *)
(***************************************************************************)
THEOREM SpaceCheckExact == Spec => SpaceExact
<1>1. RingInv /\ [Next]_vars => [MeasuredRight]_vars
  BY MeasuredRightStep
<1> QED
  BY <1>1, RingCorrect, PTL DEF Spec, SpaceExact

(***************************************************************************)
(* linx_kmod_next's poll sees every event there is, and none there is not. *)
(***************************************************************************)
THEOREM PollComplete == Spec => []PollSeesAll
<1>1. RingInv => PollSeesAll
  <2> SUFFICES ASSUME RingInv, ~overran, reader = "poll"
               PROVE  head = tail <=> written = Released
    BY DEF PollSeesAll
  <2> DEFINE T == Place(Released)
  <2>1. /\ head \in 0 .. Size - 1 /\ written \in Nat /\ Released \in Nat
        /\ T \in 0 .. Size - 1 /\ tail = T
        /\ written - Released = IF T <= head THEN head - T ELSE Size - T + head
    BY Distance DEF RingInv, Sound, GateInv, TypeOK
  <2> HIDE DEF T
  <2> QED
    BY <2>1, Constants
<1> QED
  BY <1>1, RingCorrect, PTL

(***************************************************************************)
(* Every step of the ring is a step of the channel: publishing head sends  *)
(* an event, logging an event receives it, and nothing else shows.         *)
(***************************************************************************)
LEMMA ChannelStep == RingInv /\ [Next]_vars => [Channel!Next]_(Channel!vars)
<1> SUFFICES ASSUME RingInv, [Next]_vars
             PROVE  [Channel!Next]_(Channel!vars)
  OBVIOUS
<1>1. ASSUME ~overran, NEW c \in CPUs, Publish(c) PROVE Channel!Send
  <2>1. Room /\ written' = written + E
        /\ UNCHANGED <<rd, reader, len, last, overran>>
    BY <1>1 DEF Publish, RingInv, Sound, RoomChecked, readerVars
  <2>2. Received >= Released /\ Received \in Nat /\ Released \in Nat
        /\ written \in Nat
    BY Constants DEF Received, Released, RingInv, GateInv, TypeOK
  <2>3. written + E - Received <= Size - 1
    BY <2>1, <2>2, Constants DEF Room
  <2>4. Received' = Received
    BY <2>1 DEF Received
  <2> QED
    BY <2>1, <2>3, <2>4 DEF Channel!Send
<1>2. ASSUME ~overran, ReadEvent PROVE Channel!Receive
  <2>1. /\ reader = "read" /\ reader' = "add" /\ UNCHANGED <<rd, written, overran>>
        /\ last' = IF Whole THEN Mapped(rd) + E - 1 ELSE -1
        /\ len' \in EventLen
    BY <1>2 DEF ReadEvent, kernelVars
  <2>2. rd \in Nat /\ written \in Nat /\ rd + E <= written /\ Released = rd
    BY <1>2, <2>1 DEF RingInv, Sound, ReaderOnTrack, GateInv, TypeOK, Released
  <2>3. Mapped(rd) = rd + 1 /\ Whole /\ len' = E
    BY <1>2, <2>1, EventThere
  <2>4. last' = rd + E
    BY <2>1, <2>2, <2>3, Constants
  <2>5. Received = rd /\ Received' = rd + E
    BY <2>1, <2>2, <2>3 DEF Received
  <2> QED
    BY <2>1, <2>2, <2>4, <2>5 DEF Channel!Receive
<1>3. ASSUME NEW c \in CPUs, MeasureFree(c), overran'
      PROVE  UNCHANGED <<written, Received, last>>
  BY <1>3 DEF MeasureFree, Received, readerVars
<1>4. ASSUME ~overran, ~overran', ~ReadEvent, \A c \in CPUs : ~Publish(c)
      PROVE  UNCHANGED <<written, Received, last, overran>>
  <2>1. overran' = overran
    BY <1>4, TypeStep DEF RingInv, GateInv, TypeOK
  <2> USE <1>4, Constants DEF Received, kernelVars, readerVars
  <2>2. CASE \E c \in CPUs : Enter(c) \/ Record(c)
    BY <2>1, <2>2 DEF Enter, Record, GiveUp, CompareTail, MeasureFree, Fits,
       DropFull, LoadDrops, StoreDrops, FillEvent, WrapNext, Leave
  <2>3. CASE ReaderStep
    BY <2>1, <2>3 DEF ReaderStep, PollHead, ReadNothing, ReadOutside, AddTail,
       SubtractSize, NextEvent, RingInv, GateInv, TypeOK
  <2>4. CASE UNCHANGED vars
    BY <2>1, <2>4 DEF vars
  <2> QED
    BY <2>2, <2>3, <2>4 DEF Next
<1>5. CASE overran'
  <2>1. overran' = TRUE
    BY <1>5, TypeStep DEF RingInv, TypeOK
  <2>2. CASE overran
    BY <2>1, <2>2 DEF Channel!Next, Channel!Overrun
  <2>3. CASE ~overran
    <3>1. \E c \in CPUs : MeasureFree(c)
      BY <1>5, <2>3 DEF Next, Enter, Record, GiveUp, CompareTail, Fits,
         DropFull, LoadDrops, StoreDrops, FillEvent, WrapNext, Publish, Leave,
         ReaderStep, PollHead, ReadEvent, ReadNothing, ReadOutside, AddTail,
         SubtractSize, NextEvent, kernelVars, vars
    <3> QED
      BY <1>3, <1>5, <2>1, <3>1 DEF Channel!Next, Channel!Overrun
  <2> QED
    BY <2>2, <2>3
<1>6. CASE ~overran'
  <2>1. ~overran
    BY <1>6, OverranStays
  <2> QED
    BY <1>1, <1>2, <1>4, <1>6, <2>1 DEF Channel!Next, Channel!vars
<1> QED
  BY <1>5, <1>6

(***************************************************************************)
(* The ring with its unlocked head and tail implements the channel: until  *)
(* the first overrun whole events, each once, in order, and never more     *)
(* than Size - 1 bytes of them.                                            *)
(***************************************************************************)
THEOREM RingImplementsChannel == Spec => ImplementsChannel
<1>1. Init => Channel!Init
  BY DEF Init, Channel!Init, Received
<1>2. RingInv /\ [Next]_vars => [Channel!Next]_(Channel!vars)
  BY ChannelStep
<1> QED
  BY <1>1, <1>2, RingCorrect, PTL DEF Spec, ImplementsChannel, Channel!Spec
===============================================================================
