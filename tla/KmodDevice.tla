------------------------------ MODULE KmodDevice ------------------------------
(***************************************************************************)
(* The character device of src/kernel/kmod/kernel/sysmon_main.c: open,     *)
(* ioctl, mmap and release, which g_consumer_mutex serialises, and the     *)
(* probes, which walk linx_consumer_list under rcu_read_lock only.         *)
(*                                                                         *)
(* A file operation that does not block while it holds the mutex is one    *)
(* action; linx_kmod_release waits twice in synchronize_rcu and is three.  *)
(* Calls that fail without changing anything are stuttering steps.         *)
(***************************************************************************)
EXTENDS Integers, FiniteSets

CONSTANTS
    Procs,              \* tasks that open the device
    Files,              \* struct file objects
    Objs,               \* consumers kzalloc may return; freed ones stay freed
    CPUs,               \* tasks that run into the probes
    Syscalls,
    Traced,             \* those linx_trace_syscall names
    Cmds,               \* the ioctls processes issue
    TPs,                \* tracepoints, below SYSMON_TP_MAX
    Regions,            \* what linx_kmod_mmap maps, by the length asked for
    CmdlineMayFail,     \* access_process_vm may return less than asked for
    NULL

AllCmds == {"ENABLE_SYSCALL", "DISABLE_SYSCALL", "ENABLE_TP", "DISABLE_TP",
            "ENABLE_DROPPING_MODE", "DISABLE_DROPPING_MODE", "ENABLE_FDS",
            "DISABLE_FDS", "ENABLE_REAL_ARGS", "DISABLE_REAL_ARGS"}

ASSUME DeviceAssumption ==
    /\ Traced \subseteq Syscalls
    /\ Cmds \subseteq AllCmds
    /\ CmdlineMayFail \in BOOLEAN
    /\ Regions \subseteq {"info", "buffer"}
    /\ NULL \notin Procs \cup Files \cup Objs

VARIABLES
    mutex,          \* the file whose operation holds g_consumer_mutex, or NULL
    fstate,         \* per file: closed, open, put (last fd closed), or where
                    \* its release waits: sync1, sync2
    private_data,   \* per file
    mapped,         \* per file, the regions mapped through it
    status,         \* per consumer: none, listed, unlinked, emptied (ring
                    \* memory freed) or freed
    consumer_id,
    ring_open,
    syscall_mask,
    drop_enabel,
    tp_flags,       \* g_tracepoints_flags, the bits that are set
    inside,         \* CPUs between rcu_read_lock and rcu_read_unlock
    leaked,         \* CPUs whose linx_get_cmdline kept its rcu_read_lock
    todo,           \* consumers a CPU may still visit in its walk
    grace           \* CPUs the running synchronize_rcu waits for

fileVars == <<fstate, private_data, mapped>>
consumerVars == <<status, consumer_id, ring_open, syscall_mask, drop_enabel>>
probeVars == <<inside, leaked, todo>>
vars == <<mutex, fileVars, consumerVars, tp_flags, probeVars, grace>>

Init ==
    /\ mutex = NULL
    /\ fstate = [f \in Files |-> "closed"]
    /\ private_data = [f \in Files |-> NULL]
    /\ mapped = [f \in Files |-> {}]
    /\ status = [o \in Objs |-> "none"]
    /\ consumer_id = [o \in Objs |-> NULL]
    /\ ring_open = [o \in Objs |-> FALSE]
    /\ syscall_mask = [o \in Objs |-> {}]
    /\ drop_enabel = [o \in Objs |-> FALSE]
    /\ tp_flags = {}
    /\ inside = {} /\ leaked = {}
    /\ todo = [c \in CPUs |-> {}]
    /\ grace = {}

Listed == {o \in Objs : status[o] = "listed"}

Readers == inside \cup leaked

-------------------------------------------------------------------------------
(***************************************************************************)
(* linx_kmod_open.  Definitions named Bad... are faults: plausible slips   *)
(* in the definition that follows them.                                    *)
(***************************************************************************)
BadFindConsumer(p) == {}

FindConsumer(p) == {o \in Listed : consumer_id[o] = p}

\* A consumer found with its ring open is -EBUSY; OneConsumer and FilesOwn
\* show that none is ever found with its ring closed.
OpenNew(p, f, o) ==
    /\ fstate[f] = "closed"
    /\ mutex = NULL
    /\ FindConsumer(p) = {}
    /\ status[o] = "none"
    /\ status' = [status EXCEPT ![o] = "listed"]
    /\ consumer_id' = [consumer_id EXCEPT ![o] = p]
    /\ ring_open' = [ring_open EXCEPT ![o] = TRUE]
    /\ drop_enabel' = [drop_enabel EXCEPT ![o] = FALSE]
    /\ private_data' = [private_data EXCEPT ![f] = o]
    /\ fstate' = [fstate EXCEPT ![f] = "open"]
    /\ UNCHANGED <<mutex, mapped, syscall_mask, tp_flags, probeVars, grace>>

\* When linx_init_ringbuffer fails ret is still 0: the open succeeds.
OpenWithoutRing(p, f) ==
    /\ fstate[f] = "closed"
    /\ mutex = NULL
    /\ FindConsumer(p) = {}
    /\ fstate' = [fstate EXCEPT ![f] = "open"]
    /\ UNCHANGED <<mutex, private_data, mapped, consumerVars, tp_flags,
                   probeVars, grace>>

-------------------------------------------------------------------------------
(***************************************************************************)
(* linx_kmod_ioctl.  The queries return a number and change nothing.       *)
(* fds_enabel and args_enable keep the value open gave them: the enabling  *)
(* commands return before they assign, with the mutex held.                *)
(***************************************************************************)
\* The guards up to the mutex, for a call that copy_from_user let through.
\* Where it cannot read arg the call returns -EFAULT before the mutex: a step
\* that changes nothing, which every behaviour may take.  The tracepoint
\* commands pass a number where it expects an address, so they come through
\* only in a process that has mapped the lowest page.
CanIoctl(f, cmd) ==
    /\ cmd \in Cmds
    /\ fstate[f] = "open"
    /\ private_data[f] # NULL
    /\ mutex = NULL

IoctlSyscall(f, nr) ==
    /\ \/ /\ CanIoctl(f, "ENABLE_SYSCALL")
          /\ syscall_mask' = [syscall_mask EXCEPT ![private_data[f]] = @ \cup {nr}]
       \/ /\ CanIoctl(f, "DISABLE_SYSCALL")
          /\ syscall_mask' = [syscall_mask EXCEPT ![private_data[f]] = @ \ {nr}]
    /\ UNCHANGED <<mutex, fileVars, status, consumer_id, ring_open,
                   drop_enabel, tp_flags, probeVars, grace>>

IoctlTracepoint(f, tp) ==
    /\ \/ CanIoctl(f, "ENABLE_TP") /\ tp_flags' = tp_flags \cup {tp}
       \/ CanIoctl(f, "DISABLE_TP") /\ tp_flags' = tp_flags \ {tp}
    /\ UNCHANGED <<mutex, fileVars, consumerVars, probeVars, grace>>

IoctlDropping(f) ==
    /\ \E on \in BOOLEAN :
          /\ CanIoctl(f, IF on THEN "ENABLE_DROPPING_MODE"
                               ELSE "DISABLE_DROPPING_MODE")
          /\ drop_enabel' = [drop_enabel EXCEPT ![private_data[f]] = on]
    /\ UNCHANGED <<mutex, fileVars, status, consumer_id, ring_open,
                   syscall_mask, tp_flags, probeVars, grace>>

IoctlProtected(f) ==
    /\ \E cmd \in {"ENABLE_FDS", "ENABLE_REAL_ARGS"} : CanIoctl(f, cmd)
    /\ mutex' = f
    /\ UNCHANGED <<fileVars, consumerVars, tp_flags, probeVars, grace>>

-------------------------------------------------------------------------------
(***************************************************************************)
(* linx_kmod_mmap, by the length asked for.  The kernel releases a file    *)
(* when neither a descriptor nor a mapping refers to it.                   *)
(***************************************************************************)
Mmap(f, region) ==
    /\ fstate[f] = "open"
    /\ private_data[f] # NULL
    /\ region \notin mapped[f]
    /\ mapped' = [mapped EXCEPT ![f] = @ \cup {region}]
    /\ UNCHANGED <<mutex, fstate, private_data, consumerVars, tp_flags,
                   probeVars, grace>>

Munmap(f, region) ==
    /\ region \in mapped[f]
    /\ mapped' = [mapped EXCEPT ![f] = @ \ {region}]
    /\ UNCHANGED <<mutex, fstate, private_data, consumerVars, tp_flags,
                   probeVars, grace>>

CloseFd(f) ==
    /\ fstate[f] = "open"
    /\ fstate' = [fstate EXCEPT ![f] = "put"]
    /\ UNCHANGED <<mutex, private_data, mapped, consumerVars, tp_flags,
                   probeVars, grace>>

-------------------------------------------------------------------------------
(***************************************************************************)
(* linx_kmod_release.                                                      *)
(***************************************************************************)
ReleaseNothing(f) ==
    /\ fstate[f] = "put" /\ mapped[f] = {}
    /\ mutex = NULL
    /\ private_data[f] = NULL
    /\ fstate' = [fstate EXCEPT ![f] = "closed"]
    /\ UNCHANGED <<mutex, private_data, mapped, consumerVars, tp_flags,
                   probeVars, grace>>

BadAwaited == {}

\* synchronize_rcu waits for the read-side sections that have begun.
Awaited == Readers

BadUnlink(o) == UNCHANGED status

Unlink(o) == status' = [status EXCEPT ![o] = "unlinked"]

ReleaseUnlink(f) ==
    /\ fstate[f] = "put" /\ mapped[f] = {}
    /\ mutex = NULL
    /\ private_data[f] # NULL
    /\ mutex' = f
    /\ ring_open' = [ring_open EXCEPT ![private_data[f]] = FALSE]
    /\ Unlink(private_data[f])
    /\ grace' = Awaited
    /\ fstate' = [fstate EXCEPT ![f] = "sync1"]
    /\ UNCHANGED <<private_data, mapped, consumer_id, syscall_mask,
                   drop_enabel, tp_flags, probeVars>>

ReleaseRing(f) ==
    /\ fstate[f] = "sync1"
    /\ grace = {}
    /\ status' = [status EXCEPT ![private_data[f]] = "emptied"]
    /\ grace' = Awaited
    /\ fstate' = [fstate EXCEPT ![f] = "sync2"]
    /\ UNCHANGED <<mutex, private_data, mapped, consumer_id, ring_open,
                   syscall_mask, drop_enabel, tp_flags, probeVars>>

BadUnlock == UNCHANGED mutex

Unlock == mutex' = NULL

ReleaseConsumer(f) ==
    /\ fstate[f] = "sync2"
    /\ grace = {}
    /\ status' = [status EXCEPT ![private_data[f]] = "freed"]
    /\ private_data' = [private_data EXCEPT ![f] = NULL]
    /\ fstate' = [fstate EXCEPT ![f] = "closed"]
    /\ Unlock
    /\ UNCHANGED <<mapped, consumer_id, ring_open, syscall_mask, drop_enabel,
                   tp_flags, probeVars, grace>>

-------------------------------------------------------------------------------
(***************************************************************************)
(* sys_enter_probe and sys_exit_probe.  A walk sees the consumers listed   *)
(* when it began, those unlinked meanwhile included; syscall_mask and      *)
(* g_tracepoints_flags are not consulted.                                  *)
(***************************************************************************)
IsTraced(nr) == nr \in Traced

\* Where access_process_vm falls short, rcu_read_unlock is jumped over.
GetCmdline(c) ==
    \/ UNCHANGED leaked
    \/ CmdlineMayFail /\ leaked' = leaked \cup {c}

ProbeHit(c, nr) ==
    /\ c \notin inside
    /\ IsTraced(nr)
    /\ GetCmdline(c)
    /\ inside' = inside \cup {c}
    /\ todo' = [todo EXCEPT ![c] = Listed]
    /\ UNCHANGED <<mutex, fileVars, consumerVars, tp_flags, grace>>

ProbeRecord(c, o) ==
    /\ o \in todo[c]
    /\ todo' = [todo EXCEPT ![c] = @ \ {o}]
    /\ UNCHANGED <<mutex, fileVars, consumerVars, tp_flags, inside, leaked,
                   grace>>

BadPassed(c) == UNCHANGED grace

\* The CPU's section ends, unless linx_get_cmdline left it nested.
Passed(c) == grace' = grace \ ({c} \ leaked)

ProbeDone(c) ==
    /\ c \in inside
    /\ todo[c] = {}
    /\ inside' = inside \ {c}
    /\ Passed(c)
    /\ UNCHANGED <<mutex, fileVars, consumerVars, tp_flags, leaked, todo>>

-------------------------------------------------------------------------------
Open == \E p \in Procs, f \in Files :
    OpenWithoutRing(p, f) \/ \E o \in Objs : OpenNew(p, f, o)

Ioctl(f) ==
    \/ \E nr \in Syscalls : IoctlSyscall(f, nr)
    \/ \E tp \in TPs : IoctlTracepoint(f, tp)
    \/ IoctlDropping(f) \/ IoctlProtected(f)

Release(f) ==
    \/ ReleaseNothing(f) \/ ReleaseUnlink(f) \/ ReleaseRing(f)
    \/ ReleaseConsumer(f)

Probe(c) == ProbeDone(c) \/ \E o \in Objs : ProbeRecord(c, o)

Next ==
    \/ Open
    \/ \E f \in Files : Ioctl(f) \/ CloseFd(f) \/ Release(f)
    \/ \E f \in Files, r \in Regions : Mmap(f, r) \/ Munmap(f, r)
    \/ \E c \in CPUs : Probe(c) \/ \E nr \in Syscalls : ProbeHit(c, nr)

Spec == Init /\ [][Next]_vars

(***************************************************************************)
(* Read-side sections end and a blocked release goes on when it can; a     *)
(* process unmaps what it mapped when it exits.                            *)
(***************************************************************************)
FairSpec ==
    /\ Spec
    /\ \A f \in Files :
          /\ SF_vars(Release(f))
          /\ \A r \in Regions : WF_vars(Munmap(f, r))
    /\ \A c \in CPUs : WF_vars(Probe(c))

-------------------------------------------------------------------------------
(***************************************************************************)
(* Type invariant.                                                         *)
(***************************************************************************)
TypeOK ==
    /\ mutex \in Files \cup {NULL}
    /\ fstate \in [Files -> {"closed", "open", "put", "sync1", "sync2"}]
    /\ private_data \in [Files -> Objs \cup {NULL}]
    /\ mapped \in [Files -> SUBSET Regions]
    /\ status \in [Objs -> {"none", "listed", "unlinked", "emptied", "freed"}]
    /\ consumer_id \in [Objs -> Procs \cup {NULL}]
    /\ ring_open \in [Objs -> BOOLEAN]
    /\ syscall_mask \in [Objs -> SUBSET Syscalls]
    /\ drop_enabel \in [Objs -> BOOLEAN]
    /\ tp_flags \in SUBSET TPs
    /\ inside \in SUBSET CPUs /\ leaked \in SUBSET CPUs
    /\ todo \in [CPUs -> SUBSET Objs]
    /\ grace \in SUBSET Readers

(***************************************************************************)
(* A probe never touches the ring of a consumer whose memory release has   *)
(* freed, although the probes take no lock.                                *)
(***************************************************************************)
NoUseAfterFree ==
    \A c \in CPUs : \A o \in todo[c] : status[o] \in {"listed", "unlinked"}

(***************************************************************************)
(* A process has at most one consumer on the list, whatever the order of   *)
(* opens and releases.                                                     *)
(***************************************************************************)
OneConsumer ==
    \A o, q \in Listed : consumer_id[o] = consumer_id[q] => o = q

(***************************************************************************)
(* Files and consumers correspond: each live consumer belongs to exactly   *)
(* one file, is on the list just as long as its ring is open, and a region *)
(* is mapped only from a ring that still has its memory.                   *)
(***************************************************************************)
FilesOwn ==
    /\ \A o \in Objs : ring_open[o] <=> status[o] = "listed"
    /\ \A o \in Listed :
          Cardinality({f \in Files : private_data[f] = o}) = 1
    /\ \A f \in Files :
          mapped[f] # {} => private_data[f] \in Listed

(***************************************************************************)
(* The consumers' memory is reclaimed as Reclamation says: the order of    *)
(* the stages, and emptied only when no walk may still come to it.         *)
(***************************************************************************)
Memory == INSTANCE Reclamation WITH stage <- status, held <- todo

ImplementsReclamation == Memory!Spec

(***************************************************************************)
(* A closed and unmapped file is eventually released, as long as no ioctl  *)
(* returned with g_consumer_mutex held and no linx_get_cmdline kept its    *)
(* read-side section: either one blocks every later release.               *)
(***************************************************************************)
NothingLeaked ==
    /\ leaked = {}
    /\ mutex # NULL => fstate[mutex] \notin {"open", "put"}

ReleaseReturns ==
    \A f \in Files :
        fstate[f] = "put" ~> (fstate[f] = "closed" \/ ~NothingLeaked)

(***************************************************************************)
(* What everyone waits for can happen: as long as nothing leaked, the      *)
(* mutex is held only by the one release that waits in synchronize_rcu,    *)
(* and that waits only for sections still running, which take no lock.     *)
(***************************************************************************)
Waiting == {f \in Files : fstate[f] \in {"sync1", "sync2"}}

ReleaseUnblocked ==
    NothingLeaked =>
        /\ Waiting = {mutex} \ {NULL}
        /\ grace \subseteq inside
        /\ grace # {} => Waiting # {}
===============================================================================
