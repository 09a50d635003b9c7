--------------------------- MODULE KmodDeviceProofs ---------------------------
(***************************************************************************)
(* The safety of the device's life cycle, for any number of processes,     *)
(* files, consumers and CPUs.                                              *)
(***************************************************************************)
EXTENDS KmodDevice, FiniteSetTheorems, TLAPS

(***************************************************************************)
(* Where its owner's release is determines the state of a consumer, and    *)
(* the file that waits in synchronize_rcu holds g_consumer_mutex.          *)
(***************************************************************************)
StatusOf(s) ==
    CASE s \in {"open", "put"} -> "listed"
      [] s = "sync1" -> "unlinked"
      [] s = "sync2" -> "emptied"
      [] OTHER -> "none"

Owned ==
    /\ \A f \in Files :
          /\ fstate[f] = "closed" => private_data[f] = NULL
          /\ fstate[f] \in {"sync1", "sync2"} =>
                mutex = f /\ private_data[f] # NULL
          /\ private_data[f] # NULL =>
                status[private_data[f]] = StatusOf(fstate[f])
    /\ \A f, g \in Files :
          private_data[f] = private_data[g] /\ private_data[f] # NULL => f = g
    /\ \A o \in Objs :
          status[o] \in {"listed", "unlinked", "emptied"} =>
              \E f \in Files : private_data[f] = o

RingsOpen == \A o \in Objs : ring_open[o] <=> status[o] = "listed"

MapsLive == \A f \in Files : mapped[f] # {} => private_data[f] \in Listed

(***************************************************************************)
(* A walk that may still come to an unlinked consumer began before the     *)
(* unlinking, so that synchronize_rcu waits for it.                        *)
(***************************************************************************)
WalksAwaited ==
    \A c \in CPUs : \A o \in todo[c] :
        /\ c \in inside
        /\ \/ status[o] = "listed"
           \/ status[o] = "unlinked" /\ c \in grace

DevInv ==
    TypeOK /\ Owned /\ RingsOpen /\ MapsLive /\ WalksAwaited /\ OneConsumer

(***************************************************************************)
(* Every field keeps its type; a section that ends leaves the grace period. *)
(***************************************************************************)
LEMMA TypeStep == DevInv /\ [Next]_vars => TypeOK'
<1> SUFFICES ASSUME DevInv, [Next]_vars PROVE TypeOK'
  OBVIOUS
<1> USE DeviceAssumption DEF DevInv, TypeOK, Readers
<1>1. ASSUME NEW p \in Procs, NEW f \in Files, NEW o \in Objs, OpenNew(p, f, o)
      PROVE  TypeOK'
  BY <1>1 DEF OpenNew, FindConsumer, fileVars, consumerVars, probeVars
<1>2. ASSUME NEW p \in Procs, NEW f \in Files, OpenWithoutRing(p, f)
      PROVE  TypeOK'
  BY <1>2 DEF OpenWithoutRing, fileVars, consumerVars, probeVars
<1>3. ASSUME NEW f \in Files, NEW nr \in Syscalls, IoctlSyscall(f, nr)
      PROVE  TypeOK'
  BY <1>3 DEF IoctlSyscall, CanIoctl, fileVars, consumerVars, probeVars
<1>4. ASSUME NEW f \in Files, NEW tp \in TPs, IoctlTracepoint(f, tp)
      PROVE  TypeOK'
  BY <1>4 DEF IoctlTracepoint, CanIoctl, fileVars, consumerVars, probeVars
<1>5. ASSUME NEW f \in Files, IoctlDropping(f)
      PROVE  TypeOK'
  BY <1>5 DEF IoctlDropping, CanIoctl, fileVars, consumerVars, probeVars
<1>6. ASSUME NEW f \in Files, IoctlProtected(f)
      PROVE  TypeOK'
  BY <1>6 DEF IoctlProtected, CanIoctl, fileVars, consumerVars, probeVars
<1>7. ASSUME NEW f \in Files, NEW r \in Regions, Mmap(f, r)
      PROVE  TypeOK'
  BY <1>7 DEF Mmap, fileVars, consumerVars, probeVars
<1>8. ASSUME NEW f \in Files, NEW r \in Regions, Munmap(f, r)
      PROVE  TypeOK'
  BY <1>8 DEF Munmap, fileVars, consumerVars, probeVars
<1>9. ASSUME NEW f \in Files, CloseFd(f)
      PROVE  TypeOK'
  BY <1>9 DEF CloseFd, fileVars, consumerVars, probeVars
<1>10. ASSUME NEW f \in Files, ReleaseNothing(f)
      PROVE  TypeOK'
  BY <1>10 DEF ReleaseNothing, fileVars, consumerVars, probeVars
<1>11. ASSUME NEW f \in Files, ReleaseUnlink(f)
      PROVE  TypeOK'
  BY <1>11 DEF ReleaseUnlink, Unlink, Awaited, Readers, fileVars, consumerVars,
     probeVars
<1>12. ASSUME NEW f \in Files, ReleaseRing(f)
      PROVE  TypeOK'
  BY <1>12 DEF ReleaseRing, Awaited, Readers, fileVars, consumerVars, probeVars
<1>13. ASSUME NEW f \in Files, ReleaseConsumer(f)
      PROVE  TypeOK'
  BY <1>13 DEF ReleaseConsumer, Unlock, fileVars, consumerVars, probeVars
<1>14. ASSUME NEW c \in CPUs, NEW nr \in Syscalls, ProbeHit(c, nr)
      PROVE  TypeOK'
  BY <1>14 DEF ProbeHit, GetCmdline, Readers, fileVars, consumerVars,
     probeVars, Listed
<1>15. ASSUME NEW c \in CPUs, NEW o \in Objs, ProbeRecord(c, o)
      PROVE  TypeOK'
  BY <1>15 DEF ProbeRecord, fileVars, consumerVars, probeVars
<1>16. ASSUME NEW c \in CPUs, ProbeDone(c)
      PROVE  TypeOK'
  BY <1>16 DEF ProbeDone, Passed, Readers, fileVars, consumerVars, probeVars
<1>17. CASE UNCHANGED vars
  BY <1>17 DEF vars, fileVars, consumerVars, probeVars
<1> QED
  BY <1>1, <1>2, <1>3, <1>4, <1>5, <1>6, <1>7, <1>8, <1>9, <1>10, <1>11, <1>12,
     <1>13, <1>14, <1>15, <1>16, <1>17
     DEF Next, Open, Ioctl, Release, Probe

(***************************************************************************)
(* A live consumer keeps its one file, and only the holder of the mutex    *)
(* takes it through the stages of release.                                 *)
(***************************************************************************)
LEMMA OwnedStep == DevInv /\ [Next]_vars => Owned'
<1> SUFFICES ASSUME DevInv, [Next]_vars PROVE Owned'
  OBVIOUS
<1> USE DeviceAssumption DEF DevInv, TypeOK, Owned, StatusOf
<1>1. ASSUME NEW p \in Procs, NEW f \in Files, NEW o \in Objs, OpenNew(p, f, o)
      PROVE  Owned'
  BY <1>1 DEF OpenNew, FindConsumer, fileVars, consumerVars, probeVars
<1>2. ASSUME NEW p \in Procs, NEW f \in Files, OpenWithoutRing(p, f)
      PROVE  Owned'
  BY <1>2 DEF OpenWithoutRing, fileVars, consumerVars, probeVars
<1>3. ASSUME NEW f \in Files, NEW nr \in Syscalls, IoctlSyscall(f, nr)
      PROVE  Owned'
  BY <1>3 DEF IoctlSyscall, CanIoctl, fileVars, consumerVars, probeVars
<1>4. ASSUME NEW f \in Files, NEW tp \in TPs, IoctlTracepoint(f, tp)
      PROVE  Owned'
  BY <1>4 DEF IoctlTracepoint, CanIoctl, fileVars, consumerVars, probeVars
<1>5. ASSUME NEW f \in Files, IoctlDropping(f)
      PROVE  Owned'
  BY <1>5 DEF IoctlDropping, CanIoctl, fileVars, consumerVars, probeVars
<1>6. ASSUME NEW f \in Files, IoctlProtected(f)
      PROVE  Owned'
  BY <1>6 DEF IoctlProtected, CanIoctl, fileVars, consumerVars, probeVars
<1>7. ASSUME NEW f \in Files, NEW r \in Regions, Mmap(f, r)
      PROVE  Owned'
  BY <1>7 DEF Mmap, fileVars, consumerVars, probeVars
<1>8. ASSUME NEW f \in Files, NEW r \in Regions, Munmap(f, r)
      PROVE  Owned'
  BY <1>8 DEF Munmap, fileVars, consumerVars, probeVars
<1>9. ASSUME NEW f \in Files, CloseFd(f)
      PROVE  Owned'
  BY <1>9 DEF CloseFd, fileVars, consumerVars, probeVars
<1>10. ASSUME NEW f \in Files, ReleaseNothing(f)
      PROVE  Owned'
  BY <1>10 DEF ReleaseNothing, fileVars, consumerVars, probeVars
<1>11. ASSUME NEW f \in Files, ReleaseUnlink(f)
      PROVE  Owned'
  BY <1>11 DEF ReleaseUnlink, Unlink, Awaited, Readers, fileVars, consumerVars,
     probeVars
<1>12. ASSUME NEW f \in Files, ReleaseRing(f)
      PROVE  Owned'
  BY <1>12 DEF ReleaseRing, Awaited, Readers, fileVars, consumerVars, probeVars
<1>13. ASSUME NEW f \in Files, ReleaseConsumer(f)
      PROVE  Owned'
  BY <1>13 DEF ReleaseConsumer, Unlock, fileVars, consumerVars, probeVars
<1>14. ASSUME NEW c \in CPUs, NEW nr \in Syscalls, ProbeHit(c, nr)
      PROVE  Owned'
  BY <1>14 DEF ProbeHit, GetCmdline, Readers, fileVars, consumerVars, probeVars
<1>15. ASSUME NEW c \in CPUs, NEW o \in Objs, ProbeRecord(c, o)
      PROVE  Owned'
  BY <1>15 DEF ProbeRecord, fileVars, consumerVars, probeVars
<1>16. ASSUME NEW c \in CPUs, ProbeDone(c)
      PROVE  Owned'
  BY <1>16 DEF ProbeDone, Passed, Readers, fileVars, consumerVars, probeVars
<1>17. CASE UNCHANGED vars
  BY <1>17 DEF vars, fileVars, consumerVars, probeVars
<1> QED
  BY <1>1, <1>2, <1>3, <1>4, <1>5, <1>6, <1>7, <1>8, <1>9, <1>10, <1>11, <1>12,
     <1>13, <1>14, <1>15, <1>16, <1>17
     DEF Next, Open, Ioctl, Release, Probe

(***************************************************************************)
(* ring->open says whether the consumer is on the list.                    *)
(***************************************************************************)
LEMMA RingStep == DevInv /\ [Next]_vars => RingsOpen'
<1> SUFFICES ASSUME DevInv, [Next]_vars PROVE RingsOpen'
  OBVIOUS
<1> USE DeviceAssumption DEF DevInv, TypeOK, Owned, StatusOf, RingsOpen
<1>1. ASSUME NEW p \in Procs, NEW f \in Files, NEW o \in Objs, OpenNew(p, f, o)
      PROVE  RingsOpen'
  BY <1>1 DEF OpenNew, FindConsumer, fileVars, consumerVars, probeVars
<1>2. ASSUME NEW p \in Procs, NEW f \in Files, OpenWithoutRing(p, f)
      PROVE  RingsOpen'
  BY <1>2 DEF OpenWithoutRing, fileVars, consumerVars, probeVars
<1>3. ASSUME NEW f \in Files, NEW nr \in Syscalls, IoctlSyscall(f, nr)
      PROVE  RingsOpen'
  BY <1>3 DEF IoctlSyscall, CanIoctl, fileVars, consumerVars, probeVars
<1>4. ASSUME NEW f \in Files, NEW tp \in TPs, IoctlTracepoint(f, tp)
      PROVE  RingsOpen'
  BY <1>4 DEF IoctlTracepoint, CanIoctl, fileVars, consumerVars, probeVars
<1>5. ASSUME NEW f \in Files, IoctlDropping(f)
      PROVE  RingsOpen'
  BY <1>5 DEF IoctlDropping, CanIoctl, fileVars, consumerVars, probeVars
<1>6. ASSUME NEW f \in Files, IoctlProtected(f)
      PROVE  RingsOpen'
  BY <1>6 DEF IoctlProtected, CanIoctl, fileVars, consumerVars, probeVars
<1>7. ASSUME NEW f \in Files, NEW r \in Regions, Mmap(f, r)
      PROVE  RingsOpen'
  BY <1>7 DEF Mmap, fileVars, consumerVars, probeVars
<1>8. ASSUME NEW f \in Files, NEW r \in Regions, Munmap(f, r)
      PROVE  RingsOpen'
  BY <1>8 DEF Munmap, fileVars, consumerVars, probeVars
<1>9. ASSUME NEW f \in Files, CloseFd(f)
      PROVE  RingsOpen'
  BY <1>9 DEF CloseFd, fileVars, consumerVars, probeVars
<1>10. ASSUME NEW f \in Files, ReleaseNothing(f)
      PROVE  RingsOpen'
  BY <1>10 DEF ReleaseNothing, fileVars, consumerVars, probeVars
<1>11. ASSUME NEW f \in Files, ReleaseUnlink(f)
      PROVE  RingsOpen'
  BY <1>11 DEF ReleaseUnlink, Unlink, Awaited, Readers, fileVars, consumerVars,
     probeVars
<1>12. ASSUME NEW f \in Files, ReleaseRing(f)
      PROVE  RingsOpen'
  BY <1>12 DEF ReleaseRing, Awaited, Readers, fileVars, consumerVars, probeVars
<1>13. ASSUME NEW f \in Files, ReleaseConsumer(f)
      PROVE  RingsOpen'
  BY <1>13 DEF ReleaseConsumer, Unlock, fileVars, consumerVars, probeVars
<1>14. ASSUME NEW c \in CPUs, NEW nr \in Syscalls, ProbeHit(c, nr)
      PROVE  RingsOpen'
  BY <1>14 DEF ProbeHit, GetCmdline, Readers, fileVars, consumerVars, probeVars
<1>15. ASSUME NEW c \in CPUs, NEW o \in Objs, ProbeRecord(c, o)
      PROVE  RingsOpen'
  BY <1>15 DEF ProbeRecord, fileVars, consumerVars, probeVars
<1>16. ASSUME NEW c \in CPUs, ProbeDone(c)
      PROVE  RingsOpen'
  BY <1>16 DEF ProbeDone, Passed, Readers, fileVars, consumerVars, probeVars
<1>17. CASE UNCHANGED vars
  BY <1>17 DEF vars, fileVars, consumerVars, probeVars
<1> QED
  BY <1>1, <1>2, <1>3, <1>4, <1>5, <1>6, <1>7, <1>8, <1>9, <1>10, <1>11, <1>12,
     <1>13, <1>14, <1>15, <1>16, <1>17
     DEF Next, Open, Ioctl, Release, Probe

(***************************************************************************)
(* Mapped memory belongs to a listed consumer.                             *)
(***************************************************************************)
LEMMA MapStep == DevInv /\ [Next]_vars => MapsLive'
<1> SUFFICES ASSUME DevInv, [Next]_vars PROVE MapsLive'
  OBVIOUS
<1> USE DeviceAssumption DEF DevInv, TypeOK, Owned, StatusOf, MapsLive, Listed
<1>1. ASSUME NEW p \in Procs, NEW f \in Files, NEW o \in Objs, OpenNew(p, f, o)
      PROVE  MapsLive'
  BY <1>1 DEF OpenNew, FindConsumer, fileVars, consumerVars, probeVars
<1>2. ASSUME NEW p \in Procs, NEW f \in Files, OpenWithoutRing(p, f)
      PROVE  MapsLive'
  BY <1>2 DEF OpenWithoutRing, fileVars, consumerVars, probeVars
<1>3. ASSUME NEW f \in Files, NEW nr \in Syscalls, IoctlSyscall(f, nr)
      PROVE  MapsLive'
  BY <1>3 DEF IoctlSyscall, CanIoctl, fileVars, consumerVars, probeVars
<1>4. ASSUME NEW f \in Files, NEW tp \in TPs, IoctlTracepoint(f, tp)
      PROVE  MapsLive'
  BY <1>4 DEF IoctlTracepoint, CanIoctl, fileVars, consumerVars, probeVars
<1>5. ASSUME NEW f \in Files, IoctlDropping(f)
      PROVE  MapsLive'
  BY <1>5 DEF IoctlDropping, CanIoctl, fileVars, consumerVars, probeVars
<1>6. ASSUME NEW f \in Files, IoctlProtected(f)
      PROVE  MapsLive'
  BY <1>6 DEF IoctlProtected, CanIoctl, fileVars, consumerVars, probeVars
<1>7. ASSUME NEW f \in Files, NEW r \in Regions, Mmap(f, r)
      PROVE  MapsLive'
  BY <1>7 DEF Mmap, fileVars, consumerVars, probeVars
<1>8. ASSUME NEW f \in Files, NEW r \in Regions, Munmap(f, r)
      PROVE  MapsLive'
  BY <1>8 DEF Munmap, fileVars, consumerVars, probeVars
<1>9. ASSUME NEW f \in Files, CloseFd(f)
      PROVE  MapsLive'
  BY <1>9 DEF CloseFd, fileVars, consumerVars, probeVars
<1>10. ASSUME NEW f \in Files, ReleaseNothing(f)
      PROVE  MapsLive'
  BY <1>10 DEF ReleaseNothing, fileVars, consumerVars, probeVars
<1>11. ASSUME NEW f \in Files, ReleaseUnlink(f)
      PROVE  MapsLive'
  BY <1>11 DEF ReleaseUnlink, Unlink, Awaited, Readers, fileVars, consumerVars,
     probeVars
<1>12. ASSUME NEW f \in Files, ReleaseRing(f)
      PROVE  MapsLive'
  BY <1>12 DEF ReleaseRing, Awaited, Readers, fileVars, consumerVars, probeVars
<1>13. ASSUME NEW f \in Files, ReleaseConsumer(f)
      PROVE  MapsLive'
  BY <1>13 DEF ReleaseConsumer, Unlock, fileVars, consumerVars, probeVars
<1>14. ASSUME NEW c \in CPUs, NEW nr \in Syscalls, ProbeHit(c, nr)
      PROVE  MapsLive'
  BY <1>14 DEF ProbeHit, GetCmdline, Readers, fileVars, consumerVars, probeVars
<1>15. ASSUME NEW c \in CPUs, NEW o \in Objs, ProbeRecord(c, o)
      PROVE  MapsLive'
  BY <1>15 DEF ProbeRecord, fileVars, consumerVars, probeVars
<1>16. ASSUME NEW c \in CPUs, ProbeDone(c)
      PROVE  MapsLive'
  BY <1>16 DEF ProbeDone, Passed, Readers, fileVars, consumerVars, probeVars
<1>17. CASE UNCHANGED vars
  BY <1>17 DEF vars, fileVars, consumerVars, probeVars
<1> QED
  BY <1>1, <1>2, <1>3, <1>4, <1>5, <1>6, <1>7, <1>8, <1>9, <1>10, <1>11, <1>12,
     <1>13, <1>14, <1>15, <1>16, <1>17
     DEF Next, Open, Ioctl, Release, Probe

(***************************************************************************)
(* The ring is freed only when the grace period after the unlinking is     *)
(* over, and no later walk meets an unlinked consumer.                     *)
(***************************************************************************)
LEMMA WalkStep == DevInv /\ [Next]_vars => WalksAwaited'
<1> SUFFICES ASSUME DevInv, [Next]_vars PROVE WalksAwaited'
  OBVIOUS
<1> USE DeviceAssumption DEF DevInv, TypeOK, Owned, StatusOf, WalksAwaited,
    Listed
<1>1. ASSUME NEW p \in Procs, NEW f \in Files, NEW o \in Objs, OpenNew(p, f, o)
      PROVE  WalksAwaited'
  BY <1>1 DEF OpenNew, FindConsumer, fileVars, consumerVars, probeVars
<1>2. ASSUME NEW p \in Procs, NEW f \in Files, OpenWithoutRing(p, f)
      PROVE  WalksAwaited'
  BY <1>2 DEF OpenWithoutRing, fileVars, consumerVars, probeVars
<1>3. ASSUME NEW f \in Files, NEW nr \in Syscalls, IoctlSyscall(f, nr)
      PROVE  WalksAwaited'
  BY <1>3 DEF IoctlSyscall, CanIoctl, fileVars, consumerVars, probeVars
<1>4. ASSUME NEW f \in Files, NEW tp \in TPs, IoctlTracepoint(f, tp)
      PROVE  WalksAwaited'
  BY <1>4 DEF IoctlTracepoint, CanIoctl, fileVars, consumerVars, probeVars
<1>5. ASSUME NEW f \in Files, IoctlDropping(f)
      PROVE  WalksAwaited'
  BY <1>5 DEF IoctlDropping, CanIoctl, fileVars, consumerVars, probeVars
<1>6. ASSUME NEW f \in Files, IoctlProtected(f)
      PROVE  WalksAwaited'
  BY <1>6 DEF IoctlProtected, CanIoctl, fileVars, consumerVars, probeVars
<1>7. ASSUME NEW f \in Files, NEW r \in Regions, Mmap(f, r)
      PROVE  WalksAwaited'
  BY <1>7 DEF Mmap, fileVars, consumerVars, probeVars
<1>8. ASSUME NEW f \in Files, NEW r \in Regions, Munmap(f, r)
      PROVE  WalksAwaited'
  BY <1>8 DEF Munmap, fileVars, consumerVars, probeVars
<1>9. ASSUME NEW f \in Files, CloseFd(f)
      PROVE  WalksAwaited'
  BY <1>9 DEF CloseFd, fileVars, consumerVars, probeVars
<1>10. ASSUME NEW f \in Files, ReleaseNothing(f)
      PROVE  WalksAwaited'
  BY <1>10 DEF ReleaseNothing, fileVars, consumerVars, probeVars
<1>11. ASSUME NEW f \in Files, ReleaseUnlink(f)
      PROVE  WalksAwaited'
  BY <1>11 DEF ReleaseUnlink, Unlink, Awaited, Readers, fileVars, consumerVars,
     probeVars
<1>12. ASSUME NEW f \in Files, ReleaseRing(f)
      PROVE  WalksAwaited'
  BY <1>12 DEF ReleaseRing, Awaited, Readers, fileVars, consumerVars, probeVars
<1>13. ASSUME NEW f \in Files, ReleaseConsumer(f)
      PROVE  WalksAwaited'
  BY <1>13 DEF ReleaseConsumer, Unlock, fileVars, consumerVars, probeVars
<1>14. ASSUME NEW c \in CPUs, NEW nr \in Syscalls, ProbeHit(c, nr)
      PROVE  WalksAwaited'
  BY <1>14 DEF ProbeHit, GetCmdline, Readers, fileVars, consumerVars, probeVars
<1>15. ASSUME NEW c \in CPUs, NEW o \in Objs, ProbeRecord(c, o)
      PROVE  WalksAwaited'
  BY <1>15 DEF ProbeRecord, fileVars, consumerVars, probeVars
<1>16. ASSUME NEW c \in CPUs, ProbeDone(c)
      PROVE  WalksAwaited'
  BY <1>16 DEF ProbeDone, Passed, Readers, fileVars, consumerVars, probeVars
<1>17. CASE UNCHANGED vars
  BY <1>17 DEF vars, fileVars, consumerVars, probeVars
<1> QED
  BY <1>1, <1>2, <1>3, <1>4, <1>5, <1>6, <1>7, <1>8, <1>9, <1>10, <1>11, <1>12,
     <1>13, <1>14, <1>15, <1>16, <1>17
     DEF Next, Open, Ioctl, Release, Probe

(***************************************************************************)
(* open looks the process up in the list before it adds a consumer.        *)
(***************************************************************************)
LEMMA ConsumerStep == DevInv /\ [Next]_vars => OneConsumer'
<1> SUFFICES ASSUME DevInv, [Next]_vars PROVE OneConsumer'
  OBVIOUS
<1> USE DeviceAssumption DEF DevInv, TypeOK, Owned, StatusOf, OneConsumer,
    Listed
<1>1. ASSUME NEW p \in Procs, NEW f \in Files, NEW o \in Objs, OpenNew(p, f, o)
      PROVE  OneConsumer'
  BY <1>1 DEF OpenNew, FindConsumer, fileVars, consumerVars, probeVars
<1>2. ASSUME NEW p \in Procs, NEW f \in Files, OpenWithoutRing(p, f)
      PROVE  OneConsumer'
  BY <1>2 DEF OpenWithoutRing, fileVars, consumerVars, probeVars
<1>3. ASSUME NEW f \in Files, NEW nr \in Syscalls, IoctlSyscall(f, nr)
      PROVE  OneConsumer'
  BY <1>3 DEF IoctlSyscall, CanIoctl, fileVars, consumerVars, probeVars
<1>4. ASSUME NEW f \in Files, NEW tp \in TPs, IoctlTracepoint(f, tp)
      PROVE  OneConsumer'
  BY <1>4 DEF IoctlTracepoint, CanIoctl, fileVars, consumerVars, probeVars
<1>5. ASSUME NEW f \in Files, IoctlDropping(f)
      PROVE  OneConsumer'
  BY <1>5 DEF IoctlDropping, CanIoctl, fileVars, consumerVars, probeVars
<1>6. ASSUME NEW f \in Files, IoctlProtected(f)
      PROVE  OneConsumer'
  BY <1>6 DEF IoctlProtected, CanIoctl, fileVars, consumerVars, probeVars
<1>7. ASSUME NEW f \in Files, NEW r \in Regions, Mmap(f, r)
      PROVE  OneConsumer'
  BY <1>7 DEF Mmap, fileVars, consumerVars, probeVars
<1>8. ASSUME NEW f \in Files, NEW r \in Regions, Munmap(f, r)
      PROVE  OneConsumer'
  BY <1>8 DEF Munmap, fileVars, consumerVars, probeVars
<1>9. ASSUME NEW f \in Files, CloseFd(f)
      PROVE  OneConsumer'
  BY <1>9 DEF CloseFd, fileVars, consumerVars, probeVars
<1>10. ASSUME NEW f \in Files, ReleaseNothing(f)
      PROVE  OneConsumer'
  BY <1>10 DEF ReleaseNothing, fileVars, consumerVars, probeVars
<1>11. ASSUME NEW f \in Files, ReleaseUnlink(f)
      PROVE  OneConsumer'
  BY <1>11 DEF ReleaseUnlink, Unlink, Awaited, Readers, fileVars, consumerVars,
     probeVars
<1>12. ASSUME NEW f \in Files, ReleaseRing(f)
      PROVE  OneConsumer'
  BY <1>12 DEF ReleaseRing, Awaited, Readers, fileVars, consumerVars, probeVars
<1>13. ASSUME NEW f \in Files, ReleaseConsumer(f)
      PROVE  OneConsumer'
  BY <1>13 DEF ReleaseConsumer, Unlock, fileVars, consumerVars, probeVars
<1>14. ASSUME NEW c \in CPUs, NEW nr \in Syscalls, ProbeHit(c, nr)
      PROVE  OneConsumer'
  BY <1>14 DEF ProbeHit, GetCmdline, Readers, fileVars, consumerVars, probeVars
<1>15. ASSUME NEW c \in CPUs, NEW o \in Objs, ProbeRecord(c, o)
      PROVE  OneConsumer'
  BY <1>15 DEF ProbeRecord, fileVars, consumerVars, probeVars
<1>16. ASSUME NEW c \in CPUs, ProbeDone(c)
      PROVE  OneConsumer'
  BY <1>16 DEF ProbeDone, Passed, Readers, fileVars, consumerVars, probeVars
<1>17. CASE UNCHANGED vars
  BY <1>17 DEF vars, fileVars, consumerVars, probeVars
<1> QED
  BY <1>1, <1>2, <1>3, <1>4, <1>5, <1>6, <1>7, <1>8, <1>9, <1>10, <1>11, <1>12,
     <1>13, <1>14, <1>15, <1>16, <1>17
     DEF Next, Open, Ioctl, Release, Probe

LEMMA DevInit == Init => DevInv
  BY DeviceAssumption
     DEF Init, DevInv, TypeOK, Owned, RingsOpen, MapsLive, WalksAwaited,
         OneConsumer, Listed, Readers, StatusOf

(***************************************************************************)
(* The invariant is inductive: open, ioctl, mmap, release and the probes   *)
(* of any number of CPUs keep it.                                          *)
(***************************************************************************)
THEOREM DeviceInvariant == Spec => []DevInv
<1>1. DevInv /\ [Next]_vars => DevInv'
  BY TypeStep, OwnedStep, RingStep, MapStep, WalkStep, ConsumerStep DEF DevInv
<1> QED
  BY DevInit, <1>1, PTL DEF Spec

(* The fields of files and consumers stay in range; a grace period waits for
   readers only. *)

THEOREM DeviceTypes == Spec => []TypeOK
<1>1. DevInv => TypeOK
  BY DEF DevInv
<1> QED
  BY <1>1, DeviceInvariant, PTL

(* A probe never touches the ring of a consumer that release has freed. *)
THEOREM ProbesSafe == Spec => []NoUseAfterFree
<1>1. DevInv => NoUseAfterFree
  BY DEF DevInv, WalksAwaited, NoUseAfterFree
<1> QED
  BY <1>1, DeviceInvariant, PTL

(* A process has at most one consumer on the list. *)
THEOREM ConsumersUnique == Spec => []OneConsumer
<1>1. DevInv => OneConsumer
  BY DEF DevInv
<1> QED
  BY <1>1, DeviceInvariant, PTL

(***************************************************************************)
(* Each listed consumer has exactly one file, and mappings are of listed   *)
(* consumers.                                                              *)
(***************************************************************************)
THEOREM FilesCorrespond == Spec => []FilesOwn
<1>1. ASSUME DevInv, NEW o \in Listed
      PROVE  Cardinality({f \in Files : private_data[f] = o}) = 1
  <2>1. o \in Objs /\ status[o] = "listed"
    BY DEF Listed
  <2>2. PICK f \in Files : private_data[f] = o
    BY <1>1, <2>1 DEF DevInv, Owned
  <2>3. o # NULL
    BY <2>1, DeviceAssumption
  <2>4. {g \in Files : private_data[g] = o} = {f}
    BY <1>1, <2>2, <2>3 DEF DevInv, Owned
  <2> QED
    BY <2>4, FS_Singleton
<1>2. DevInv => FilesOwn
  BY <1>1 DEF DevInv, RingsOpen, MapsLive, FilesOwn
<1> QED
  BY <1>2, DeviceInvariant, PTL

(***************************************************************************)
(* Every step of the device is a step of Reclamation or invisible to it:   *)
(* a ring is emptied only after a grace period, when no walk holds it.     *)
(***************************************************************************)
LEMMA ReclamationStep == DevInv /\ [Next]_vars => [Memory!Next]_(Memory!vars)
<1> SUFFICES ASSUME DevInv, [Next]_vars PROVE [Memory!Next]_(Memory!vars)
  OBVIOUS
<1>1. ASSUME NEW p \in Procs, NEW f \in Files, NEW o \in Objs, OpenNew(p, f, o)
      PROVE  Memory!List(o)
  BY <1>1 DEF OpenNew, probeVars, Memory!List, Memory!Move
<1>2. ASSUME NEW f \in Files, ReleaseUnlink(f)
      PROVE  private_data[f] \in Objs /\ Memory!Unlist(private_data[f])
  <2>1. private_data[f] \in Objs /\ status[private_data[f]] = "listed"
    BY <1>2 DEF ReleaseUnlink, DevInv, TypeOK, Owned, StatusOf
  <2> QED
    BY <1>2, <2>1 DEF ReleaseUnlink, Unlink, probeVars, Memory!Unlist, Memory!Move
<1>3. ASSUME NEW f \in Files, ReleaseRing(f)
      PROVE  private_data[f] \in Objs /\ Memory!Empty(private_data[f])
  <2>1. private_data[f] \in Objs /\ status[private_data[f]] = "unlinked"
    BY <1>3 DEF ReleaseRing, DevInv, TypeOK, Owned, StatusOf
  <2>2. \A c \in CPUs : private_data[f] \notin todo[c]
    BY <1>3, <2>1 DEF ReleaseRing, DevInv, WalksAwaited
  <2> QED
    BY <1>3, <2>1, <2>2 DEF ReleaseRing, probeVars, Memory!Empty, Memory!Move
<1>4. ASSUME NEW f \in Files, ReleaseConsumer(f)
      PROVE  private_data[f] \in Objs /\ Memory!Free(private_data[f])
  <2>1. private_data[f] \in Objs /\ status[private_data[f]] = "emptied"
    BY <1>4 DEF ReleaseConsumer, DevInv, TypeOK, Owned, StatusOf
  <2> QED
    BY <1>4, <2>1 DEF ReleaseConsumer, probeVars, Memory!Free, Memory!Move
<1>5. ASSUME NEW c \in CPUs, NEW nr \in Syscalls, ProbeHit(c, nr)
      PROVE  Memory!Acquire(c)
  <2>1. todo[c] = {}
    BY <1>5 DEF ProbeHit, DevInv, WalksAwaited
  <2> QED
    BY <1>5, <2>1 DEF ProbeHit, consumerVars, Listed, Memory!Acquire
<1>6. ASSUME NEW c \in CPUs, NEW o \in Objs, ProbeRecord(c, o)
      PROVE  Memory!Drop(c, o)
  BY <1>6 DEF ProbeRecord, consumerVars, Memory!Drop
<1>7. ASSUME \/ \E p \in Procs, f \in Files : OpenWithoutRing(p, f)
             \/ \E f \in Files : Ioctl(f) \/ CloseFd(f) \/ ReleaseNothing(f)
             \/ \E f \in Files, r \in Regions : Mmap(f, r) \/ Munmap(f, r)
             \/ \E c \in CPUs : ProbeDone(c)
             \/ UNCHANGED vars
      PROVE  UNCHANGED <<status, todo>>
  BY <1>7 DEF OpenWithoutRing, Ioctl, IoctlSyscall, IoctlTracepoint,
     IoctlDropping, IoctlProtected, CloseFd, ReleaseNothing, Mmap, Munmap,
     ProbeDone, vars, consumerVars, probeVars
<1> QED
  BY <1>1, <1>2, <1>3, <1>4, <1>5, <1>6, <1>7
     DEF Next, Open, Release, Probe, Memory!Next, Memory!vars

(***************************************************************************)
(* The device with its mutex, its list walked under rcu_read_lock and its  *)
(* two grace periods implements deferred reclamation.                      *)
(***************************************************************************)
THEOREM DeviceImplementsReclamation == Spec => ImplementsReclamation
<1>1. Init => Memory!Init
  BY DEF Init, Memory!Init
<1>2. DevInv /\ [Next]_vars => [Memory!Next]_(Memory!vars)
  BY ReclamationStep
<1> QED
  BY <1>1, <1>2, DeviceInvariant, PTL DEF Spec, ImplementsReclamation, Memory!Spec

(***************************************************************************)
(* A closed file never holds the mutex, and a grace period runs only while *)
(* a release waits for it.                                                 *)
(***************************************************************************)
HeldInv ==
    /\ mutex # NULL => fstate[mutex] # "closed"
    /\ grace # {} => Waiting # {}

LEMMA HeldStep == DevInv /\ HeldInv /\ [Next]_vars => HeldInv'
<1> SUFFICES ASSUME DevInv, HeldInv, [Next]_vars PROVE HeldInv'
  OBVIOUS
<1> USE DeviceAssumption DEF DevInv, TypeOK, HeldInv, Waiting, fileVars,
        probeVars, consumerVars
<1>1. ASSUME NEW p \in Procs, NEW f \in Files, NEW o \in Objs, OpenNew(p, f, o)
      PROVE  HeldInv'
  BY <1>1 DEF OpenNew
<1>2. ASSUME NEW p \in Procs, NEW f \in Files, OpenWithoutRing(p, f)
      PROVE  HeldInv'
  BY <1>2 DEF OpenWithoutRing
<1>3. ASSUME NEW f \in Files, IoctlProtected(f)
      PROVE  HeldInv'
  BY <1>3 DEF IoctlProtected, CanIoctl
<1>4. ASSUME NEW f \in Files, CloseFd(f)
      PROVE  HeldInv'
  BY <1>4 DEF CloseFd
<1>5. ASSUME NEW f \in Files, ReleaseNothing(f)
      PROVE  HeldInv'
  BY <1>5 DEF ReleaseNothing
<1>6. ASSUME NEW f \in Files, ReleaseUnlink(f)
      PROVE  HeldInv'
  <2>1. mutex' = f /\ fstate'[f] = "sync1"
    BY <1>6 DEF ReleaseUnlink
  <2> QED
    BY <2>1
<1>7. ASSUME NEW f \in Files, ReleaseRing(f)
      PROVE  HeldInv'
  <2>1. mutex = f /\ mutex' = f /\ fstate'[f] = "sync2"
    BY <1>7 DEF ReleaseRing, Owned
  <2> QED
    BY <2>1
<1>8. ASSUME NEW f \in Files, ReleaseConsumer(f)
      PROVE  HeldInv'
  BY <1>8 DEF ReleaseConsumer, Unlock
<1>9. ASSUME NEW c \in CPUs, ProbeDone(c)
      PROVE  HeldInv'
  BY <1>9 DEF ProbeDone, Passed
<1>10. ASSUME UNCHANGED <<mutex, fstate, grace>>
       PROVE  HeldInv'
  BY <1>10
<1>11. ASSUME \/ \E f \in Files :
                   \/ \E nr \in Syscalls : IoctlSyscall(f, nr)
                   \/ \E tp \in TPs : IoctlTracepoint(f, tp)
                   \/ IoctlDropping(f)
              \/ \E f \in Files, r \in Regions : Mmap(f, r) \/ Munmap(f, r)
              \/ \E c \in CPUs : \/ \E nr \in Syscalls : ProbeHit(c, nr)
                                 \/ \E o \in Objs : ProbeRecord(c, o)
              \/ UNCHANGED vars
       PROVE  UNCHANGED <<mutex, fstate, grace>>
  BY <1>11 DEF IoctlSyscall, IoctlTracepoint, IoctlDropping, Mmap, Munmap,
     ProbeHit, ProbeRecord, vars
<1> HIDE DEF DevInv, HeldInv
<1> QED
  BY <1>1, <1>2, <1>3, <1>4, <1>5, <1>6, <1>7, <1>8, <1>9, <1>10, <1>11
     DEF Next, Open, Ioctl, Release, Probe

(***************************************************************************)
(* Unless an ioctl kept g_consumer_mutex or linx_get_cmdline its section,  *)
(* no release, open or ioctl is ever stuck: at most one release holds the  *)
(* mutex, and it waits for running sections only.                          *)
(***************************************************************************)
THEOREM ReleaseNeverStuck == Spec => []ReleaseUnblocked
<1>1. Init => HeldInv
  BY DEF Init, HeldInv
<1>2. DevInv /\ HeldInv /\ [Next]_vars => HeldInv'
  BY HeldStep
<1>3. DevInv /\ HeldInv => ReleaseUnblocked
  <2> SUFFICES ASSUME DevInv, HeldInv, NothingLeaked
               PROVE  /\ Waiting = {mutex} \ {NULL}
                      /\ grace \subseteq inside
                      /\ grace # {} => Waiting # {}
    BY DEF ReleaseUnblocked
  <2>1. grace \subseteq inside
    BY DEF DevInv, TypeOK, Readers, NothingLeaked
  <2>2. \A f \in Waiting : f = mutex /\ f # NULL
    BY DeviceAssumption DEF Waiting, DevInv, Owned
  <2>3. mutex # NULL => mutex \in Waiting
    BY DEF Waiting, DevInv, TypeOK, HeldInv, NothingLeaked
  <2> QED
    BY <2>1, <2>2, <2>3 DEF HeldInv
<1> QED
  BY <1>1, <1>2, <1>3, DeviceInvariant, PTL DEF Spec
===============================================================================
