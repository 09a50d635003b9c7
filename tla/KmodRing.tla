------------------------------- MODULE KmodRing -------------------------------
(***************************************************************************)
(* The ring buffer between the kernel module and its reader:               *)
(* linx_record_event of src/kernel/kmod/kernel/sysmon_main.c, run by every *)
(* CPU that meets a probe, and linx_kmod_next of                           *)
(* src/kernel/kmod/user/linx_devset.c, which maps head, tail and the       *)
(* buffer and takes no lock.  An action is the code between two accesses   *)
(* to memory the other side writes.  The reader is the one user/Makefile   *)
(* builds (gcc -g, no -O): it stores tail twice for an event that reaches  *)
(* the end of the buffer, and between the stores tail lies beyond it.      *)
(*                                                                         *)
(* Events are headers only (args_enable and fds_enabel can never be set:   *)
(* their ioctls return first), so all have E bytes.  A cell of the buffer  *)
(* holds 0 or one plus the position its byte has in the stream of all      *)
(* recorded bytes: that tells whole, torn, stale and repeated events apart *)
(* without modelling their contents.                                       *)
(***************************************************************************)
EXTENDS Integers, FiniteSets

CONSTANTS
    CPUs,           \* the tasks that run the probes
    Size,           \* BUFFER_SIZE, ring->size
    E,              \* sizeof(struct event_header)
    Word,           \* 2^32, the modulus of uint32_t
    TornLens,       \* what evt->len may read where no whole event lies
    MaxCalls        \* bound on the probe hits of one run

ASSUME RingAssumption ==
    /\ IsFiniteSet(CPUs)
    /\ Size \in Nat \ {0} /\ E \in Nat \ {0} /\ MaxCalls \in Nat
    /\ E < Size
    /\ (2 * Size) % E # 0
    /\ Word \in Nat /\ Word > 2 * (Size + E)
    /\ TornLens \subseteq 0 .. Word - 1

VARIABLES
    head, tail,             \* ring_info, mapped by the reader
    n_evts, n_drop_evts,
    preempt_count,
    buffer,                 \* ring->buffer with the slack behind it
    pc,                     \* where each CPU is in linx_record_event
    ahead,                  \* its test tail > head
    glimpse,                \* history: it tested amid the two stores of tail
    free_space,
    next,
    drops,                  \* n_drop_evts as loaded for the increment
    reader,                 \* where linx_kmod_next is
    rd,                     \* msg_next_event - msg_buffer
    len,                    \* event_size, read from the event
    last,                   \* stream position after the event logged last
    written,                \* bytes recorded so far
    overran,                \* history: an event without room passed the check
    calls                   \* probe hits so far

kernelVars == <<head, n_evts, n_drop_evts, preempt_count, buffer, pc, ahead,
                glimpse, free_space, next, drops, written, overran, calls>>
readerVars == <<tail, reader, rd, len, last>>
vars == <<kernelVars, readerVars>>

PCs == {"idle", "contended", "compare", "measure", "check", "fill", "wrap",
        "publish", "leave", "load_drops", "store_drops"}

ReaderPCs == {"poll", "read", "add", "subtract", "bump", "outside"}

\* The CPUs between a successful atomic_inc_return and their atomic_dec.
Holding == {"compare", "measure", "check", "fill", "wrap", "publish", "leave"}

Goto(c, l) == pc' = [pc EXCEPT ![c] = l]

\* A fault: plausible slips are named Bad... and precede what they corrupt.
BadU32(n) == IF n < 0 THEN 0 ELSE n % Word

\* Arithmetic on uint32_t values wraps around.
U32(n) == IF n < 0 THEN n + Word ELSE IF n >= Word THEN n - Word ELSE n

-------------------------------------------------------------------------------
\* linx_init_ringbuffer and the reader's linx_kmod_init.
Init ==
    /\ head = 0 /\ tail = 0 /\ n_evts = 0 /\ n_drop_evts = 0
    /\ preempt_count = 0
    /\ buffer = [i \in 0 .. Size + E - 1 |-> 0]
    /\ pc = [c \in CPUs |-> "idle"]
    /\ ahead = [c \in CPUs |-> FALSE] /\ glimpse = [c \in CPUs |-> FALSE]
    /\ free_space = [c \in CPUs |-> 0]
    /\ next = [c \in CPUs |-> 0]
    /\ drops = [c \in CPUs |-> 0]
    /\ reader = "poll" /\ rd = 0 /\ len = 0 /\ last = 0
    /\ written = 0 /\ overran = FALSE /\ calls = 0

-------------------------------------------------------------------------------
(***************************************************************************)
(* linx_record_event.                                                      *)
(***************************************************************************)
MayEnter == preempt_count = 0

Enter(c) ==
    /\ pc[c] = "idle"
    /\ calls < MaxCalls
    /\ calls' = calls + 1
    /\ preempt_count' = preempt_count + 1
    /\ Goto(c, IF MayEnter THEN "compare" ELSE "contended")
    /\ UNCHANGED <<head, n_evts, n_drop_evts, buffer, ahead, glimpse,
                   free_space, next, drops, written, overran, readerVars>>

GiveUp(c) ==
    /\ pc[c] = "contended"
    /\ preempt_count' = preempt_count - 1
    /\ Goto(c, "idle")
    /\ UNCHANGED <<head, n_evts, n_drop_evts, buffer, ahead, glimpse,
                   free_space, next, drops, written, overran, calls,
                   readerVars>>

CompareTail(c) ==
    /\ pc[c] = "compare"
    /\ ahead' = [ahead EXCEPT ![c] = tail > head]
    /\ glimpse' = [glimpse EXCEPT ![c] = tail > Size]
    /\ Goto(c, "measure")
    /\ UNCHANGED <<head, n_evts, n_drop_evts, preempt_count, buffer,
                   free_space, next, drops, written, overran, calls,
                   readerVars>>

FreeSpace(c) ==
    IF ahead[c] THEN U32(tail - head - 1) ELSE U32(Size + tail - head - 1)

\* The bytes the reader has given back through tail.
Released == rd + (IF reader \in {"subtract", "bump"} THEN len ELSE 0)

Room == written + E - Released <= Size - 1

\* tail is loaded a second time: the reader may have moved it meanwhile.
MeasureFree(c) ==
    /\ pc[c] = "measure"
    /\ free_space' = [free_space EXCEPT ![c] = FreeSpace(c)]
    /\ overran' = (overran \/ (FreeSpace(c) >= E /\ ~Room))
    /\ Goto(c, "check")
    /\ UNCHANGED <<head, n_evts, n_drop_evts, preempt_count, buffer, ahead,
                   glimpse, next, drops, written, calls, readerVars>>

Fits(c) ==
    /\ pc[c] = "check"
    /\ free_space[c] >= E
    /\ Goto(c, "fill")
    /\ UNCHANGED <<head, n_evts, n_drop_evts, preempt_count, buffer, ahead,
                   glimpse, free_space, next, drops, written, overran, calls,
                   readerVars>>

\* preempt_count is released before the drop is counted.
DropFull(c) ==
    /\ pc[c] = "check"
    /\ free_space[c] < E
    /\ preempt_count' = preempt_count - 1
    /\ Goto(c, "load_drops")
    /\ UNCHANGED <<head, n_evts, n_drop_evts, buffer, ahead, glimpse,
                   free_space, next, drops, written, overran, calls,
                   readerVars>>

LoadDrops(c) ==
    /\ pc[c] = "load_drops"
    /\ drops' = [drops EXCEPT ![c] = n_drop_evts]
    /\ Goto(c, "store_drops")
    /\ UNCHANGED <<head, n_evts, n_drop_evts, preempt_count, buffer, ahead,
                   glimpse, free_space, next, written, overran, calls,
                   readerVars>>

BadCountDrop(c) == n_drop_evts' = n_drop_evts + drops[c] + 1

CountDrop(c) == n_drop_evts' = drops[c] + 1

StoreDrops(c) ==
    /\ pc[c] = "store_drops"
    /\ CountDrop(c)
    /\ Goto(c, "idle")
    /\ UNCHANGED <<head, n_evts, preempt_count, buffer, ahead, glimpse,
                   free_space, next, drops, written, overran, calls,
                   readerVars>>

\* memcpy of the header to head, where need be into the slack.
FillEvent(c) ==
    /\ pc[c] = "fill"
    /\ buffer' = [i \in DOMAIN buffer |->
                     IF i \in head .. head + E - 1
                     THEN written + (i - head) + 1
                     ELSE buffer[i]]
    /\ next' = [next EXCEPT ![c] = head + E]
    /\ Goto(c, "wrap")
    /\ UNCHANGED <<head, n_evts, n_drop_evts, preempt_count, ahead, glimpse,
                   free_space, drops, written, overran, calls, readerVars>>

BadSpill(n) == buffer

\* What lies in the slack is copied to the start of the buffer.
Spill(n) ==
    [i \in DOMAIN buffer |-> IF i < n THEN buffer[Size + i] ELSE buffer[i]]

WrapNext(c) ==
    /\ pc[c] = "wrap"
    /\ IF next[c] >= Size
       THEN /\ buffer' = Spill(next[c] - Size)
            /\ next' = [next EXCEPT ![c] = @ - Size]
       ELSE UNCHANGED <<buffer, next>>
    /\ Goto(c, "publish")
    /\ UNCHANGED <<head, n_evts, n_drop_evts, preempt_count, ahead, glimpse,
                   free_space, drops, written, overran, calls, readerVars>>

BadMoveHead(c) == head' = head

MoveHead(c) == head' = next[c]

Publish(c) ==
    /\ pc[c] = "publish"
    /\ n_evts' = n_evts + 1
    /\ MoveHead(c)
    /\ written' = written + E
    /\ Goto(c, "leave")
    /\ UNCHANGED <<n_drop_evts, preempt_count, buffer, ahead, glimpse,
                   free_space, next, drops, overran, calls, readerVars>>

BadReleaseCount == preempt_count' = preempt_count

ReleaseCount == preempt_count' = preempt_count - 1

Leave(c) ==
    /\ pc[c] = "leave"
    /\ ReleaseCount
    /\ Goto(c, "idle")
    /\ UNCHANGED <<head, n_evts, n_drop_evts, buffer, ahead, glimpse,
                   free_space, next, drops, written, overran, calls,
                   readerVars>>

-------------------------------------------------------------------------------
(***************************************************************************)
(* linx_kmod_next.                                                         *)
(***************************************************************************)
\* The buffer is mapped twice in a row, without its slack.
Place(i) == i % Size

Mapped(i) == buffer[Place(i)]

InMapping == rd + E <= 2 * Size

\* The event's bytes follow one another in the stream.
Whole == \A i \in 0 .. E - 1 : Mapped(rd + i) = Mapped(rd) + i

PollHead ==
    /\ reader = "poll"
    /\ head # tail
    /\ reader' = "read"
    /\ UNCHANGED <<tail, rd, len, last, kernelVars>>

\* evt->len: the kernel sets it to E; memory without a whole event holds
\* bytes of several events, or the zeros of vmalloc and memset.
EventLen == IF Mapped(rd) # 0 /\ Whole THEN {E} ELSE TornLens

\* linx_logs_write and linx_log_print; -1 stands for a torn event.
ReadEvent ==
    /\ reader = "read"
    /\ InMapping
    /\ len' \in EventLen \ {0}
    /\ last' = IF Whole THEN Mapped(rd) + E - 1 ELSE -1
    /\ reader' = "add"
    /\ UNCHANGED <<tail, rd, kernelVars>>

\* The early return for evt->len = 0; main's loop polls again.
ReadNothing ==
    /\ reader = "read"
    /\ InMapping
    /\ 0 \in EventLen
    /\ reader' = "poll"
    /\ UNCHANGED <<tail, rd, len, last, kernelVars>>

ReadOutside ==
    /\ reader = "read"
    /\ ~InMapping
    /\ reader' = "outside"
    /\ UNCHANGED <<tail, rd, len, last, kernelVars>>

BadWrapped(n) == n

Wrapped(n) == IF n > Size THEN n - Size ELSE n

\* The first store; the probes may load tail before the second.
AddTail ==
    /\ reader = "add"
    /\ tail' = U32(tail + len)
    /\ reader' = "subtract"
    /\ UNCHANGED <<rd, len, last, kernelVars>>

SubtractSize ==
    /\ reader = "subtract"
    /\ tail' = Wrapped(tail)
    /\ reader' = "bump"
    /\ UNCHANGED <<rd, len, last, kernelVars>>

NextEvent ==
    /\ reader = "bump"
    /\ rd' = rd + len
    /\ reader' = "poll"
    /\ UNCHANGED <<tail, len, last, kernelVars>>

-------------------------------------------------------------------------------
Record(c) ==
    \/ GiveUp(c) \/ CompareTail(c) \/ MeasureFree(c) \/ Fits(c) \/ DropFull(c)
    \/ LoadDrops(c) \/ StoreDrops(c) \/ FillEvent(c) \/ WrapNext(c)
    \/ Publish(c) \/ Leave(c)

ReaderStep ==
    \/ PollHead \/ ReadEvent \/ ReadNothing \/ ReadOutside \/ AddTail
    \/ SubtractSize \/ NextEvent

Next ==
    \/ \E c \in CPUs : Enter(c) \/ Record(c)
    \/ ReaderStep

Spec == Init /\ [][Next]_vars

(***************************************************************************)
(* A probe that began runs to its end, and the reader's loop polls for     *)
(* ever; nobody is obliged to make system calls.                           *)
(***************************************************************************)
FairSpec ==
    Spec /\ WF_vars(ReaderStep) /\ \A c \in CPUs : WF_vars(Record(c))

-------------------------------------------------------------------------------
(***************************************************************************)
(* Type invariant: head stays inside the buffer, whatever tail holds.      *)
(***************************************************************************)
TypeOK ==
    /\ head \in 0 .. Size - 1
    /\ tail \in 0 .. Word - 1
    /\ n_evts \in Nat /\ n_drop_evts \in Nat /\ preempt_count \in Nat
    /\ buffer \in [0 .. Size + E - 1 -> Nat]
    /\ pc \in [CPUs -> PCs]
    /\ ahead \in [CPUs -> BOOLEAN] /\ glimpse \in [CPUs -> BOOLEAN]
    /\ free_space \in [CPUs -> 0 .. Word - 1]
    /\ next \in [CPUs -> 0 .. Size + E]
    /\ drops \in [CPUs -> Nat]
    /\ reader \in ReaderPCs
    /\ rd \in Nat /\ len \in 0 .. Word - 1 /\ last \in Int
    /\ written \in Nat /\ overran \in BOOLEAN /\ calls \in Nat

(***************************************************************************)
(* preempt_count is the number of CPUs between their increment and their   *)
(* decrement, so it returns to 0 and the ring opens again.                 *)
(***************************************************************************)
Entered == {c \in CPUs : pc[c] \in Holding \cup {"contended"}}

PreemptCounted == preempt_count = Cardinality(Entered)

(***************************************************************************)
(* preempt_count lets at most one CPU write the ring at a time, although   *)
(* CPUs that are turned away raise it too.                                 *)
(***************************************************************************)
OneWriter ==
    \A c, d \in CPUs : pc[c] \in Holding /\ pc[d] \in Holding => c = d

(***************************************************************************)
(* Until the first overrun, an event that passed the space check fits into *)
(* the bytes the reader has given back, although tail is loaded twice and  *)
(* moves in between.                                                       *)
(***************************************************************************)
RoomChecked ==
    overran \/ \A c \in CPUs : pc[c] \in {"fill", "wrap", "publish"} => Room

(***************************************************************************)
(* Until the first overrun, the bytes published and not yet given back are *)
(* those the CPUs wrote, at the places where the reader will look: nothing *)
(* overwrites them.                                                        *)
(***************************************************************************)
UnreadIntact ==
    overran \/ \A i \in Released .. written - 1 : Mapped(i) = i + 1

(***************************************************************************)
(* When the space check errs: the reader is between its two stores of tail *)
(* and the writer has gone round the end of the buffer meanwhile, or the   *)
(* CPU compared between the stores and subtracts after the second one.     *)
(***************************************************************************)
Misled(c) == tail - Size > head \/ (glimpse[c] /\ tail <= head)

(***************************************************************************)
(* The space check lets an event pass exactly when there is room for it in *)
(* the bytes given back or the CPU met the gap between the reader's two    *)
(* stores in one of the two ways of Misled: it refuses no event that fits, *)
(* and no other order of its two loads and the reader's stores, also where *)
(* the subtraction wraps around, overruns the ring.                        *)
(***************************************************************************)
MeasuredRight ==
    \A c \in CPUs :
        ~overran /\ pc[c] = "measure" /\ pc'[c] = "check" =>
            (free_space'[c] >= E <=> Room \/ Misled(c))

SpaceExact == [][MeasuredRight]_vars

(***************************************************************************)
(* Until the first overrun, head = tail, the only thing linx_kmod_next     *)
(* tests, means that all was read: a full ring never looks like an empty   *)
(* one, nor the other way.                                                 *)
(***************************************************************************)
PollSeesAll ==
    overran \/ (reader = "poll" => (head = tail <=> written = Released))

(***************************************************************************)
(* The statistics never report more events than there were probe hits:     *)
(* increments of n_drop_evts outside the gate overwrite one another, so    *)
(* they lose counts, but no interleaving makes counts up.                  *)
(***************************************************************************)
CountersSound == n_evts + n_drop_evts <= calls

\* The calls not yet counted in n_evts or n_drop_evts, and what a CPU is
\* about to store into n_drop_evts.
Uncounted == {c \in CPUs : pc[c] \notin {"idle", "leave"}}

CountersInv ==
    /\ n_evts + n_drop_evts + Cardinality(Uncounted) <= calls
    /\ \A c \in CPUs :
          pc[c] = "store_drops" =>
              n_evts + drops[c] + Cardinality(Uncounted) <= calls

(***************************************************************************)
(* What else makes these inductive.  GateInv holds for ever, the rest      *)
(* until the first overrun.                                                *)
(***************************************************************************)
Bounded ==
    /\ \A c \in CPUs : pc[c] = "wrap" => next[c] <= Size + E - 1
    /\ \A c \in CPUs : pc[c] = "publish" => next[c] <= Size - 1

(***************************************************************************)
(* The gate of linx_record_event: preempt_count counts the CPUs between    *)
(* atomic_inc_return and atomic_dec, so that it comes back to 0, at most   *)
(* one of them writes, and next and head stay inside the buffer and its    *)
(* slack at each step, whatever the reader stores into tail.               *)
(***************************************************************************)
GateInv == TypeOK /\ Bounded /\ PreemptCounted /\ OneWriter

Multiple(n) == \E k \in 0 .. n : n = k * E

ReaderOnTrack ==
    /\ Multiple(rd)
    /\ rd < 2 * Size
    /\ reader \in {"add", "subtract", "bump"} => len = E /\ rd + E < 2 * Size
    /\ \/ tail = Place(Released)
       \/ reader = "subtract" /\ tail = Place(Released) + Size
    /\ tail # Size
    /\ reader \in {"read", "add"} => rd + E <= written

WriterOnTrack ==
    /\ Multiple(written)
    /\ head = Place(written)
    /\ written - Released \in 0 .. Size - 1

\* What a CPU has learnt of tail stays good enough while the reader moves on.
Measured ==
    \A c \in CPUs :
        /\ pc[c] = "measure" =>
              /\ IF ahead[c] THEN \/ tail > head /\ tail <= Size
                                 \/ Room \/ glimpse[c]
                             ELSE tail <= head
              /\ glimpse[c] => ahead[c]
        /\ pc[c] = "check" /\ free_space[c] >= E => Room

\* The event being written, before and after its end was wrapped around.
Staged ==
    \A c \in CPUs :
        /\ pc[c] = "wrap" =>
              /\ next[c] = head + E
              /\ \A j \in 0 .. E - 1 : buffer[head + j] = written + j + 1
        /\ pc[c] = "publish" =>
              /\ next[c] = Place(written + E)
              /\ \A j \in 0 .. E - 1 : Mapped(written + j) = written + j + 1

Sound ==
    /\ ReaderOnTrack /\ WriterOnTrack
    /\ Measured /\ Staged
    /\ RoomChecked /\ UnreadIntact

RingInv == GateInv /\ (overran \/ Sound)

(***************************************************************************)
(* Until the first overrun the ring implements EventChannel with room for  *)
(* Size - 1 bytes.                                                         *)
(***************************************************************************)
Received == rd + (IF reader \in {"add", "subtract", "bump"} THEN len ELSE 0)

Channel == INSTANCE EventChannel WITH
    Capacity <- Size - 1,
    sent     <- written,
    received <- Received

ImplementsChannel == Channel!Spec

(***************************************************************************)
(* Under fair scheduling and as long as the ring is not overrun, the       *)
(* reader logs every recorded event that begins and ends in its mapping of *)
(* twice the buffer.  (The one after, and all that follow, it never logs:  *)
(* its pointer is not wrapped around and leaves the mapping.)              *)
(***************************************************************************)
AllDelivered ==
    \A n \in 1 .. MaxCalls :
        n * E <= 2 * Size => (written >= n * E ~> last >= n * E \/ overran)
===============================================================================
