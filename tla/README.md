# A verification project for linx-apd

linx-apd is a host monitoring agent: a kernel part (an eBPF program, or the
stand-alone kernel module of `src/kernel/kmod`) records system calls; a user
space daemon (`src/userspace`) enriches the events with process data, matches
them against rules read from YAML files and raises alerts. This directory holds
TLA+ modules for the parts of it whose correctness depends on what runs
concurrently, the TLC configurations that check small instances of them, and
proofs checked by TLAPS.

All paths below are relative to the repository.

## 1. Inventory

| component (source) | state | operations | hard because |
|---|---|---|---|
| `linx_thread` (`linx_thread_pool.c`) | task list, `queue_size`, `task_runing`, `shutdown`, `active_threads`, per thread `state` | create, worker, add_task, pause / resume / terminate, getters, destroy | N workers, two kinds of condition variables, cancellation, shutdown races |
| `kernel/kmod` ring (`sysmon_main.c: linx_record_event`, `user/linx_devset.c: linx_kmod_next`) | `head`, `tail`, buffer with slack, `preempt_count`, counters | record an event (any CPU), read the next event (user process) | lock-free, memory shared with a process, wrap-around, 32 bit arithmetic |
| `kernel/kmod` device (`sysmon_main.c`) | consumer list (RCU), `g_consumer_mutex`, per file `private_data` and mappings, masks | open, ioctl, mmap, release, probes | RCU readers against release, error paths |
| `linx_process_cache` | hash of processes behind a rwlock, statistics | monitor, cleaner, update (pool tasks), get, delete, cleanup, init, deinit | pointers that outlive the lock, pool workers occupied for ever, pid reuse |
| `linx_alert` | configuration of 4 outputs, pool, statistics | send_async, send_sync, worker, set_config, init, deinit | tasks dropped or running at deinit, configuration changed without its mutex |
| `linx_log` | queue (an array that grows by `realloc`, without a bound), level, file | linx_log (puts a message on the queue), writer task on a pool of one worker, init, deinit | shutdown while messages are queued, messages before there is a log |
| `linx_apd` | stage of initialisation, running flag | init chain, event loop, signal handler, staged cleanup | signals during init, loop or cleanup |
| `linx_engine` (eBPF) | one global event slot | load, poll, callback | several events per poll, one slot |
| `linx_event_rich`, `linx_hash_map` | field tables with base pointers, current event | bind, lookup, get value | base pointers that go stale between events |
| `linx_rule_engine` | rule set, compiled matchers | load, lexer, parser, compile, match | partial failure while loading; recursion |
| `linx_yaml`, `linx_config`, `linx_arg_parser` | node tree, configuration | event-driven tree builder, lookups | malformed documents |
| `linx_event_table`, `linx_syscall_table` | constant tables | lookup | none |
| `linx_machine_status`, `linx_regex` | values of `/proc`, compiled expressions | read, match | none: I/O and library calls |
| `linx_event_processor`, `linx_event_queue` | none | none | `src/README.md` lists them as not implemented; the first does not compile against the pool's present interface, the second is stubs |
| `kernel/ebpf` | BPF maps | about 350 generated programs | generated; only the delivery to user space has logic |

Interactions. `linx_process_cache` (4 workers), `linx_alert` and `linx_log` each
create a pool and destroy it in their deinit; the process cache puts two tasks
on its pool that loop until their `should_stop` is set, and queues further tasks
from one of them. The event loop of `linx_apd` polls the engine, enriches the
event (which reads the process cache), matches it and hands alerts to
`linx_alert`. The kernel module does not use the daemon: its own reader
(`kernel/kmod/user`) maps the ring and writes a log.

What makes each part correct:

* pool: a task is executed at most once, in order, never lost by a missed
  wakeup; no worker touches freed memory; destroy returns;
* ring: one writer at a time; no unread byte is overwritten, unless a CPU meets
  the gap between the reader's two stores; the reader gets whole events in order
  and, if scheduled, all of them;
* device: no probe touches a freed consumer; one consumer per process; release
  returns;
* process cache: no entry is used after it was freed, live processes are found,
  dead ones are eventually removed;
* alert and log: what was logged is written before the log goes, deinit returns
  and frees nothing that is still used;
* rules and events: a condition means what it says, a rule that compiles is
  loaded with its own matcher, alerts follow the events, the newest event is
  seen;
* life cycle: every stage that was initialised is cleaned up once, whatever the
  signal hits.

## 2. Plan

In order of importance. What is done says so.

1. `TaskPool`, `ThreadPool` (+ proofs, refinement proof): everything in user
   space that is concurrent stands on it. Done.
2. `EventChannel`, `KmodRing` (+ proofs, refinement proof): the lock-free data
   path. Done.
3. `Reclamation`, `KmodDevice` (+ proofs, refinement proof): life cycle of
   consumers against the probes. Done.
4. `ProcessLedger`, `ProcessCache` (+ proofs, refinement proof): monitor,
   cleaner, updates and the event loop over the pool as `TaskPool` promises it,
   which the refinement theorem justifies. Done.
5. `Agent` (+ proofs): initialisation, event loop, signals and cleanup of the
   process, composed with the log thread, the alert tasks and the cache's tasks.
   Done.
6. `EventFeed`, `Detect` (+ proofs, refinement proof): rule loading, the single
   event slot, enrichment and matching. Done.
7. `Condition`, `YamlTree`, `RuleText`: lexer, condition grammar, compiler,
   matchers and the YAML tree builder as algorithms against reference
   definitions. They need recursion, so they hold no theorems. Done.
8. `YamlReference`, `YamlBuild` (+ proofs, refinement proof): the tree builder
   again, this time step by step, so that it can be proved about. Done.
9. For each liveness property its safety part, which can be proved: that what is
   waited for is never blocked, and that no step undoes progress. Done for
   destroy, release, deinit, the cleanup and the event loop.

Left for later: module load and unload of `kernel/kmod`; the output templates of
the rules (`output_match_func.c`), if alerts ever get a promise about their
text; field transformers and escapes in conditions, once the compiler supports
them.

Runs are kept few: one run per component (the pool has two), and
one for each disagreement that a document of the repository makes worth a
counterexample.

## 3. The modules

### linx_thread: `TaskPool`, `ThreadPool`, `MCThreadPool`

`ThreadPool` models `linx_thread_pool.c` whole. Every field of the pool is
accessed under `pool->lock` and every `thread->state` under its `state_mutex`,
so one action is one critical section; `pc[w]` says which section of
`linx_thread_worker` a worker executes next, `phase` and `idx` where the owner's
create or destroy call is.

| model | code |
|---|---|
| `SpawnThread`, `SpawnFails`, `CancelThread`, `JoinCancelled`, `CreateReturnsNull` | the loop of `linx_thread_pool_create` and its failure branch |
| `Lookup`, `SetRunning`, `CheckState`, `WaitForTask`, `LeaveLoop`, `TakeTask`, `TaskReturns`, `FreeTask`, `SetTerminated`, `DropActive` | the sections of `linx_thread_worker` in their order |
| `AddTask`, `PauseThread`, `ResumeThread`, `TerminateThread`, `Get...` | the calls of the same names |
| `DestroyBegin`, `MarkThread`, `JoinThread`, `FreePool` | `linx_thread_pool_destroy`: the sweep and broadcast under one lock, one state per `state_mutex`, the joins, the frees |
| `SpuriousWakeup`, `Cancelled` | what pthreads may do; external |

`task_runing` starts as whatever `malloc` left there (`UninitRuning`), because
create never assigns it. `Lookup` always finds the worker's own id: glibc
stores the id in the caller's array before the new thread runs, and create does
not hold `pool->lock` then, so the loop at lines 25-31 cannot miss it. A task's
`life` is history: it tells what the code did with each submission. A task is
submitted at most once; a second submission of the same function is another
element of `Tasks`, as it is another `linx_task_t`. A task in `Looping` returns
only after its `should_stop` was set, as the monitor and cleaner of the process
cache do.

`TaskPool` is the promise to callers (FIFO start, at most one execution, closed
means closed, discard only what never started and only when nothing runs);
`ThreadPool` implements it with backlog = the list, running = the tasks of busy
workers, open = (`shutdown` = 0).

### kmod ring: `EventChannel`, `KmodRing`, `MCKmodRing`

`KmodRing` has one action between any two accesses to memory the other side
writes. The writer's control is `Enter` / `GiveUp` (`atomic_inc_return` on
`preempt_count`), `CompareTail`, `MeasureFree` (tail is loaded twice),
`Fits` / `DropFull`, `LoadDrops`, `StoreDrops` (the increment after the gate was
released), `FillEvent`, `WrapNext`, `Publish`, `Leave`. The reader's is
`PollHead`, `ReadEvent`, `ReadNothing` (an event of length 0), `AddTail`,
`SubtractSize`, `NextEvent`; `ReadOutside` is a read beyond the mapping, after
which the process is gone. An event is its `E` bytes and a buffer cell holds the
stream position of the byte last written to it, so that a torn, stale, repeated
or overwritten event is visible while the contents are abstracted. `Word` is the
modulus of `uint32_t`.

`tail += len; if (tail > SIZE) tail -= SIZE;` on shared memory is two stores:
`kernel/kmod/user/Makefile` compiles the reader without `-O`. Between `AddTail`
and `SubtractSize` every CPU may load a `tail` beyond the buffer, and it loads it
twice. `len` is what the reader found in `evt->len`: `E` in a whole event, any of
`TornLens` in memory that holds none, which it meets only after an overrun.
`overran` is history: the space check let an event pass for which there was no
room. `glimpse` is history too: the CPU compared between the two stores.

In the code `Size` is 32768 and `E` is 496. The assumption `(2 * Size) % E # 0`
is what makes the comparison `tail > SIZE` (rather than `>=`) harmless while the
reader is inside its mapping: no event ends exactly at the end of a half.

`EventChannel` is the promise: bytes are received in the order they were sent,
whole events, each one once, with at most `Capacity` = `Size - 1` bytes in
between, until the sender overruns the receiver (`Overrun`), after which nothing
is promised.

### kmod device: `Reclamation`, `KmodDevice`, `MCKmodDevice`

One action per file operation; `linx_kmod_release` is three (`ReleaseUnlink`,
`ReleaseRing`, `ReleaseConsumer`) because it waits twice in `synchronize_rcu`
while it holds `g_consumer_mutex`. `grace` holds the readers the running
`synchronize_rcu` still waits for. A probe (`ProbeHit`, `ProbeRecord`,
`ProbeDone`) walks the consumers that were on the list when its walk began,
which includes those unlinked since. `linx_get_cmdline` may jump over its
`rcu_read_unlock` (`CmdlineMayFail`). The two ioctls that return with the mutex
held are `IoctlProtected`; one that fails in `copy_from_user` returns -EFAULT,
having unlocked the mutex and changed nothing, so it is a stutter. A file stays alive while it is mapped, so release
runs after the last `munmap`. `tp_flags` is a set of tracepoints of `TPs`; one
is enough for the runs, since each bit is set and cleared on its own. The early
exit of `linx_kmod_open` for a minor number of `g_kmod_numdevs` or more (which
would unlock a mutex it does not hold) is not an action: only the smaller minors
are registered, so no `open` reaches it.

`Reclamation` is the promise about the consumers' memory, without locks, files
or grace periods: readers take references to listed objects only, and an object
gives up its memory when it is off the list and nobody refers to it. The
mapping takes a consumer's state for its stage and the rest of a CPU's walk for
the references it holds.

### Process cache: `ProcessLedger`, `ProcessCache`, `MCProcessCache`

Every access to the hash table is a critical section of the rwlock and one
action. `update_process_task` reads `/proc` before it takes the lock, so it is
two actions (`TakeTask`, `InsertUpdate`), and processes start, end and execute
in between; `reading[p]` counts the workers between the two. The pool is what
`TaskPool` promises: first in first out, at most `Workers` at a time, a closed
pool discards what it has not started.

| model | code |
|---|---|
| `CacheInit`, `CacheInitFails` | `linx_process_cache_init` and its error paths |
| `MonitorScan`, `MonitorMark`, `MonitorEnds` | the two halves of `monitor_thread_func` and its loop test |
| `CleanerSweep` | one round of `cleaner_thread_func` |
| `TakeTask`, `InsertUpdate` | `update_process_task` |
| `RichUpdate` | `rich_execve_exit` and `linx_process_cache_update` |
| `UpdateAsync`, `UpdateSync`, `Delete`, `Cleanup` | the calls of the same names |
| `DeinitBegin`, `DeinitEnd` | `linx_process_cache_deinit`, around the destruction of the pool |
| `ProcessStarts`, `ProcessExits`, `ProcessExecs`, `Tick` | the kernel; external |

`update_process_task` looks at its stop flag first. Destroy sets that of every
queued task and of the one `task_runing` names, so a task taken while deinit
runs may have been told to stop or not (`ToldToStop`); before, it has not.

An entry keeps what decides anything: alive, rich, and how long ago its exit was
recorded (`age`, saturated above `Expire`). `linx_process_cache_get`,
`_get_all` and `_stats` change nothing and are not actions.

`ProcessLedger` is the promise about what the cache says of a pid, without pool,
queue or lock: a record stems from a sighting of the running process, which may
arrive late or never; an exit is noted only while the process is not there; a
sighting that arrives after it leaves it as it was; any record may be forgotten.
A sighting under way is a worker between `/proc` and the lock, or an execve event
before the event loop (`InFlight`); the state and age of a pid are those of its
entry.

### Life cycle, log and alerts: `Agent`

`Agent` is the process: `main` goes through the stages of
`linx_resource_cleanup_type_t` (`InitSucceeds`, then `SetType`: a signal may
come between the two), passes over some failures and gives up on others
(`InitFails`, `InitFailsFatally`), and ends in the event loop, of which only
the lock it holds matters here (`TakeLock`, `LogAndUnlock`, `LookupAndUnlock`,
`SendAndUnlock`). A signal starts a handler: `SignalMain` in the main thread,
`SignalAgain` in a worker or nested in the `SIGUSR1` that main raised. A handler
walks the owners downwards from `type`: `Check` (the test of the global
pointer), `Stop` and `Join` (`linx_thread_pool_destroy`), `Free`, `SetNull`,
and `exit`. `inst` tells what each global pointer points to, and `fault` records
the first bad access: through a null or freed one; of a command line option that
was never stored (`linx_arg_init` sets none, `ParseArgs` stores those given,
`UnsetOption` is main using one that was not, and `Free` frees both); a release
of the same matcher twice inside the rule set. The last two are `Spoiled`: an
instance that is `raw` lacks something its deinit relies on. For the rules that
is the type by which `linx_rule_engine_match_destroy` decides what to free, which
no compile function sets; with the one outcome it destroys a left operand twice
(lines 438-443), with another it frees no operand at all, so `Free` of a rule set
with rules in it may go well or not. `Free` of the log takes the queue and the
messages in it along.

The log task (`LogTaken`, `LogPop`, `LogWrite`; `LogDiscarded` when the pool
closes before its worker took the task), the alert tasks (`AlertTaken`,
`AlertSent`) and the cache's tasks (`CacheTaskStarts`, `CacheTaskEnds`) run
beside it. Messages and alerts are numbers in the order main made them.

### Texts: `Condition`, `YamlTree`, `RuleText`, `MCRuleText`, `YamlReference`, `YamlBuild`

`Condition` has one operator per function of the lexer, the parser, the compiler
and the matchers. A text is a sequence of symbols, of which some are letters and
some whole keywords, field names or numbers; a parser takes the rest of the text
and returns a node and what it left, as the code moves `lexer->idx`. A matcher's
outcome is a set, because some paths read uninitialised memory: {"yes"}, {"no"},
or more where anything may happen. `Bound` is what `update_field_base` binds.

`YamlTree` has one operator per kind of libyaml event and folds them over the
builder's stack and flags. `YamlBuild` takes the same operators one event at a
time while libyaml, of which only the nesting of its events is assumed, reads a
stream of any number of regular documents or fails in the midst of one; `open`
is libyaml's own account of what is open and never seen by the builder.
`YamlReference` is the promise: a builder without flags, which reads off the
type of the innermost container what a text is, and returns the first document
whole or nothing. Regular means: keys are scalars, a document is a container,
no aliases, and in no sequence does a scalar follow a container.

`RuleText` compares: each behaviour reads one condition, written from a syntax
tree in one of the layouts (as few parentheses as the precedence allows or one
around every operand, with blanks or glued to the keywords), or one document, or
a stream as `YamlBuild` has it. `Write`, `Holds`, `EventsOf`, `TreeOf` and
`TextAt` are the reference definitions. `Supported` names the tests that have a
meaning in the code (a matcher, an integer, a table with a base), `Misread` the
texts the parser does not read as they are written, and `ByIndex` the paths that
apply no key to a sequence; the properties say what they leave out in these
terms, and the run reads texts and paths of all kinds.

A list test works by the allocator's grace: its context is allocated with the 80
bytes of a `num_context_t` (`linx_rule_engine_match.c:260`) and `list_count` is
the bytes 80 to 87. `Usable` is what glibc's malloc makes of 80, which is 88. A
number with a point is stored as a long double and compared through `int_val`
(`IntVal`).

### Rules and events: `EventFeed`, `Detect`, `MCDetect`

The main thread from `linx_rule_engine_load` on. `OpenFile`, `OpenFails`,
`AddRule`, `FileDone` and `LoadDone` are the loader; a condition is reduced to
what the loader sees of it (it compiles, it has a tree without a matcher, it has
no tree), `match` is the loader's local variable that survives from rule to rule
and `ret` the result that only the last rule decides. `PollBegin`, `HandleEvent`,
`HandleTooBig` and `PollEnds` are `linx_engine_next` around libbpf's
`ring_buffer__poll`, which calls back for every pending event; the kernel
submits meanwhile. `Rich` and `RichUndefined` are `linx_event_rich`: `data` tells
for each argument whether it was allocated or points into the slot.
`MatchRule` and `MatchNothing` are `linx_rule_set_match_rule`.

`EventFeed` is the promise to whoever writes rules, without ring, slot or poll:
the rules are fixed before the first event, events are looked at in the order in
which they were emitted, none twice though some never, and the one looked at
last raises at most one alert, of the first rule that accepts it. The mapping
takes `evt` for the event looked at, so an event is passed over when the slot is
overwritten, and looked at when it is enriched.

## 4. The runs

| run | instance | shows |
|---|---|---|
| `pool_safety` | 3 workers, 3 tasks, control calls in every phase, create may fail; tasks symmetric; 1.4 million states | the inductive invariant `IInv` (types, queue, exclusive execution, counters, stop flags, owner), of it by name `RuningNotDangling` and `NoLostWakeup`, and `ImplementsTaskPool` |
| `pool_live` | 2 workers, 3 tasks, control calls before destroy | `DestroyReturns`, `TaskServed`, and why: `JoinUnblocked`, `JoinAdvances` |
| `ring` | 2 CPUs, 7 byte ring, 3 byte events, 6 probe hits, torn lengths 0, 2 and 3; 0.24 million states | `GateInv` (types and bounds, `PreemptCounted`, `OneWriter`), `CountersSound`, `SpaceExact`; until an overrun `UnreadIntact`, `PollSeesAll`, `ImplementsChannel`, `AllDelivered` |
| `dev_safety` | 2 processes, 2 files, 2 consumers, 1 CPU, failing command lines, protected ioctls; 0.5 million states | `OneConsumer`, `FilesOwn`, `ImplementsReclamation` (hence no use after free), and `ReleaseUnblocked` and `ReleaseReturns` where no error path kept the mutex or the RCU read lock |
| `cache` | 2 pids, 4 workers, a queue of 3, expiry after one tick; 0.6 million states | `ImplementsLedger` (hence `ExitKept`), `LoopsAlive`, `DeinitAdvances`, `ExitedForgotten`, `RunningRecorded` |
| `agent` | all 11 stages, 2 signals, 1 alert, 2 alert workers, every failure reported, the event loop logging up to the second message; 1.2 million states | `UsersGoneFirst`, `ReleasedAtExit`, `ReleasedInOrder`, `CleanupAdvances`, `CleanExit` |
| `agent_ctrl_c` | 2 signals, 2 messages, 2 alerts | *violated*: a second signal frees what the first one uses |
| `agent_log` | 1 signal | *violated*: logged messages are freed with the queue |
| `detect` | 4 rules of all kinds in up to 2 files, 3 event types, 3 events, a ring of 2; 0.14 million states | `RulesKept`, `ImplementsFeed` (hence `AlertsInOrder`), `EnrichedIsNewest`, `LoopAdvances`, `NewestSeen` |
| `detect_loop` | one directory, 3 events | *violated*: the event loop frees a pointer into its slot |
| `text` | 6798 conditions up to depth 3 over 24 tests in 3 layouts, 8 events; 3082 documents up to depth 3; every regular stream of up to 9 events over 2 texts; 0.28 million states | `ConditionMeans`, `YamlFaithful`, `ImplementsReference` |
| `text_documented` | three tests with documented operators and tables | *violated*: `>=` and `proc.` never match |

Not every invariant has a line in a configuration. `TypeOK` of the device, the
cache, the agent, the rules and the YAML builder, and `RoomChecked`,
`NoUseAfterFree`, `ExitKept`, `AlertsInOrder` and `WellKeyed`, are proved for
every instance (section 6) and follow from, or are needed by, what the runs check
(`SpaceExact` and `UnreadIntact`, `ImplementsReclamation`, `ImplementsLedger`,
`ImplementsFeed`, `ImplementsReference`). `NoLostResume`, `PoolOutlivesWorkers`
and the other parts of `IInv` are checked with it.

Each property of a passing run has a fault (a definition named `Bad...` next to
the one it distorts) under which TLC finds it violated.

Bounds. Three workers are the fewest with which one holds a task, one sleeps and
one is on its way between the two, which is what `NoLostWakeup` is about; the
proofs cover any number. A ring of 7 bytes with 3 byte events keeps the relation
of the real one (an event spills over the end at a different offset on each lap,
two events fit, a third does not); 5 events take the reader to the end of the
doubled mapping, the sixth beyond it. Both ways of `Misled` happen in it.
`MaxCalls` bounds the probe hits and is the only bound of `KmodRing`; `Word` = 32 is larger than every sum the code
forms, as 2^32 is. Two consumers let two processes hold the device or one reopen
it; freed consumers are not reused, so that a stale pointer is visible, and the
proofs cover any number.

Four workers are what `LINX_PROCESS_CACHE_THREAD_NUM` says. With two,
`RunningRecorded` fails: monitor and cleaner occupy both and no update ever
runs. One tick of expiry is enough, since only "before" and "after" count. A
queue of 3 lets the monitor queue an update while an older one waits and another
is being applied.

In `agent` two signals are the second that `agent_ctrl_c` is about; the
properties of the passing run are about the first. `MaxLogs` bounds only what the
event loop logs; the failures of the stages are all reported, a hash map that
cannot be made three times on the way to the event queue. In `detect` three events are the fewest with which one is enriched, one
overwritten in the slot and one still in the ring; up to three rules a file let
a rule without a tree stand behind each other kind. In `text` depth 3 has every
pair of operators in every nesting; four of the tests at that depth and all 24
at depth 2 keep it small. Nine events of a stream are two more than it takes to
close a mapping inside a sequence inside a mapping and go on with the outer one,
the deepest case in which each of the two flags has to be right again.

Deadlock is not checked: a pool that was freed, a ring nobody writes to, a
device nobody opens, a process that exited and a text that was read stand still,
as they should; the liveness properties say what must still happen.

Fairness. Weak fairness of each worker (`WorkerStep`), of the owner's loops and
of the probes and the reader says that the kernel schedules runnable threads and
that a mutex held by a live thread is released: the sections contain no blocking
call. Nobody is obliged to call add_task, destroy, pause or to make system
calls, and spurious wakeups are never relied on. `Release` of the device is
strongly fair because kernel mutexes hand over to waiters (a later opener cannot
take the mutex for ever), and `Munmap` is fair because a process that ends is
unmapped. Looping tasks get no fairness beyond their stop flag.

The cache's fairness is that of its workers, of the event loop and of time; no
process has to start or end, no caller to call. `ExitedForgotten` and
`RunningRecorded` are about pids that from some point on stay as they are while
the cache is up. In `Agent` the threads and the handlers are weakly fair and
nobody has to send a signal; `CleanExit` assumes that the signal did not hit
main inside one of the locks (held = 0), since there the cleanup may wait for
main itself, that no second one comes, and that the options and the rules are
released without the faults of `Spoiled`. In `Detect` only the main thread is
fair: `NewestSeen` is the promise once the kernel falls silent.

## 5. Disagreements found

With a run: see `findings` in `PROJECT.json` and the rows marked *violated*.

* `agent_ctrl_c`: the handler has no guard against a second signal.
  `src/README.md:1456` has the segmentation fault on ctrl + c as solved. Nor is
  that so of one signal: its cleanup frees command line options that were not
  given (`linx_arg_parser.c:68-76`, of memory that `malloc` left as it was), and
  in the rule set it may destroy the left operand of `and` and `or` twice
  (`linx_rule_engine_match.c:438-443`) and a matcher that two rules share. What
  does hold for one signal is `UsersGoneFirst`: no instance is taken away from a
  thread, and none is released twice.
* `agent_log`: the log's worker may leave before it took the log task, and the
  queue is then freed with the messages in it, although `linx_log.c:296` waits
  for all tasks and line 142 for all messages. A second way: the task pops before
  it tests its stop flag (lines 158 and 166); when the queue was empty at the pop,
  and a message and the stop come in between, the task ends with the message in
  the queue.
* `text_documented`: `>` stands before `>=` in the operator table and `<` before
  `<=`, and the first prefix wins; the value is then missing, the test never
  matches, and the rest of the condition is dropped. Tables behind `fd`, which is
  never created, never get a base, so no test of a `proc` field matches.
* `detect_loop`: `rich_event_clean` frees by the new event's types what the old
  event left. An openat exit has an inode where an execve exit has a user id.

Seen while modelling and recorded without a run.

Pool:

* A graceful destroy frees accepted tasks: every worker is marked TERMINATING
  (`linx_thread_pool.c:313`) and obeys before it looks at the queue, while the
  comment at line 68 has a graceful close end when the queue is empty.
* Only the task `task_runing` last pointed to gets its stop flag (line 299),
  while line 288 speaks of all tasks. The process cache, which runs two loops,
  also has its own `running` flag and does end.
* When a later `pthread_create` fails, the first cancelled worker dies inside
  `pthread_cond_wait` with `pool->lock` held, and the join at line 231 never
  returns; line 228 says the resources are cleaned up.
* `linx_thread_pool_create` never assigns `task_runing`; destroy writes through
  it (line 299) if it is not null, so a pool destroyed before its first task
  depends on what `malloc` returned; one task that was taken is enough to end
  that, as `RuningNotDangling` says.
* `linx_thread_pool_get_active_threads` returns `thread_count` (line 633), not
  `active_threads`.
* A worker paused while it sleeps on `notify` executes one more task (line 64:
  the state is not tested again), and a worker that starts late overwrites
  PAUSED or TERMINATING with RUNNING (line 40). Destroy still returns, because
  `shutdown` is tested too: that is what `DestroyReturns` checks.

Kernel module:

* The reader stores `tail` beyond the buffer before it subtracts
  (`linx_devset.c:90-92`, built without `-O`). Two orders then mislead the space
  check (`Misled`): the CPU loads that `tail` while the writer has gone round the
  end, so that it lies ahead of `head` by more than the buffer; or the CPU
  compares with it and subtracts with the value after the second store, so that
  the difference wraps around. Either way an event is written over unread ones,
  and what the reader finds then may be torn. `SpaceExact` says that nothing else
  does it; the ring's other properties hold until it happens.
* `msg_next_event` only grows (`linx_devset.c:93`): after two laps, 132 events,
  the reader reads beyond its mapping.
* `linx_get_cmdline` leaves its `rcu_read_lock` when the command line cannot be
  read (`sysmon_main.c:672`); a later release waits in `synchronize_rcu` for
  ever. `ReleaseReturns` is claimed of the other behaviours.
* `SYSMON_IOCTL_ENABLE_FDS` and `_ENABLE_REAL_ARGS` return with
  `g_consumer_mutex` held (`sysmon_main.c:332`, `341`); every later file
  operation blocks.
* `syscall_mask` and `g_tracepoints_flags` are set and never consulted: the
  probes record a fixed list of system calls for every consumer.
* `n_drop_evts` misses the events turned away by `preempt_count`
  (`sysmon_main.c:535`) and its increment is not atomic (line 570).
* `linx_kmod_open` returns 0 when the ring cannot be allocated, and every later
  operation on that file fails.

Process cache:

* `linx_process_cache_get` returns a pointer after it released the lock, and
  `rich_event_args` (`linx_event_rich.c:124`) reads through it; an update of the
  same pid frees the entry in between.
* The exit of a process is carried over to the next process with its pid
  (`linx_process_cache.c:268`), which is then recorded as dead until the entry
  expires. `RunningRecorded` says that it does come back.
* The cleaner removes an enriched entry at its next round, also that of a process
  that still runs: `rich_execve_exit` leaves `start_time` 0
  (`linx_process_cache.c:351`), while the comment at line 350 and
  `src/README.md:1239` speak only of processes that ended and whose time is over.
* `linx_process_cache_update` does not test that there is a cache, although main
  goes on without one (`linx_apd.c:134`).

Life cycle, log, alerts:

* `linx_config_load` logs (`linx_config.c:25`) before `linx_log_init`, through a
  null instance: `ConfigLoadLogs`.
* A signal that arrives while main is inside the log's, the alert's or the
  cache's lock makes the cleanup wait for it for ever, except that
  `linx_log_deinit` does not take the log's lock and frees it while held.
* The engine is never closed by the cleanup, and rules are left behind by a load
  that failed.

Rules and events:

* Several events in one poll leave only the last to be enriched and matched
  (`linx_ebpf_ringbuf.c:20`; `src/README.md:244` speaks of the next event), and a
  poll does not end while the kernel submits faster than it reads. An event that
  is too big makes the poll pass over what it had taken.
* A rule without a condition tree gets the matcher of the rule before it
  (`linx_rule_engine_load.c:62`) and is added, although the comment at line 72
  says that a rule is added when its conversion succeeded; at exit the shared
  matcher is destroyed twice. Whether loading failed is decided by the last rule
  of a file alone, although line 142 has a syntax error end the loading.
  `RulesKept` is about the other rules.
* `a or(b) and c`, with the parenthesis glued to `or`, drops `and c`
  (`linx_rule_engine_ast.c:357-366`, whose message at line 362 admits a `(`
  after `or`): `Misread`, together with `>=` and `<=`.
* `exists` and operators without a matcher (`==`, `glob`, `iglob`, `bcontains`,
  `bstartswith`, `regex`, `intersects`, `pmatch`) leave the function pointer of
  the matcher uninitialised. A number with a point is compared through the wrong
  member of a union (`linx_rule_engine_match.c:47`, `rule_match_func.c:94`). A
  list test writes and reads 8 bytes past its context
  (`linx_rule_engine_match.c:260`), which glibc's rounding makes harmless.
* A key applied to a YAML sequence finds nothing: the loop at
  `linx_yaml_get.c:46-57` looks the key up in the sequence instead of its
  mappings and then forgets what it found, although the comments at lines 35 and
  44 say that it finds the mapping that holds the key. `TextAt` is what they say;
  `YamlFaithful` is about the paths without such a token (`ByIndex`).
* A YAML sequence in which a scalar follows a mapping or a sequence is built
  wrongly, since `in_sequence` is forgotten (`linx_yaml_load.c:213`);
  `YamlFaithful` is about the other documents (`Regular`).

## 6. What is proved

TLAPS checks the following for every value of the constants that satisfies the
assumptions in the modules (`PoolAssumption`, `RingAssumption`,
`DeviceAssumption`, `CacheAssumption`, `DetectAssumption`, `AgentAssumption`,
`YamlAssumption`).

`ThreadPoolProofs` proves `Spec => []IInv`. The single invariants are not
inductive: that `active_threads` stays in range needs `ActiveCounted`, that
needs the set of live workers and, for the failure branch, `OwnerSound` (which
threads exist, which were joined, that nobody is cancelled in a pool that was
handed out); `ExclusiveExecution` needs that the list has no duplicates and
holds just the tasks whose `life` is queued (`QueueCounted`);
`RuningNotDangling` rests on `ExclusiveExecution`, and that nothing
uninitialised is left in `task_runing` once a task was taken on the tasks' lives:
a worker that takes one overwrites it, and none leaves it running or done
otherwise. `NoLostWakeup` is a counting
argument: while someone sleeps, each queued task is matched by a worker between
its wakeup and the queue; a worker may go to sleep only when the list is empty,
and a task taken or added changes both sides by one. `IInv` is the conjunction,
one lemma per conjunct with one step per action, and the listed theorems follow.
`PoolImplementsTaskPool` follows from `IInv`: each action is a step of
`TaskPool` under the mapping or leaves it unchanged.

Liveness is beyond the prover, but the argument for it has a safety part that is
not, and that is where a lost wakeup or a deadlock would show. `JoinNeverBlocked`
says that while destroy joins, no worker sleeps and the lock is not abandoned;
it needs that the mark takes PAUSED away for good (`MarkedAwake`) and that
nobody goes to sleep on `notify` once `shutdown` is set. `JoinProgress` says
that every step of a worker then brings it nearer to its end or takes a task off
the queue, to which nothing is added. What is left to TLC is that fair workers
take these steps. Both assume that no caller pauses or resumes workers of a pool
that is being destroyed (`ControlPhases`), as none does.

`KmodRingProofs` proves `Spec => []GateInv`: types and bounds, `PreemptCounted`
(each step changes the count and the set it counts alike) and `OneWriter` (a CPU
becomes the writer only when the count, hence the set, was empty), also after an
overrun and whatever the reader stores in `tail`. `CountersNeverInvent` is about
the increment outside the gate: `n_evts + n_drop_evts <= calls` is not inductive, since a CPU stores what
it loaded before others counted; `CountersInv` adds to the two counters, and to
each value about to be stored, the calls that are not counted yet.

`KmodRingSafety` proves `Spec => []RingInv` and `Spec => ImplementsChannel` for
the reader that stores `tail` twice, where `RingInv` is `GateInv` and, until the
first overrun, `Sound`. `UnreadIntact` alone is not inductive: `head` and `tail`
have to be tied to the positions they stand for (`WriterOnTrack`, `ReaderOnTrack`;
that positions are multiples of `E`, and `2 * Size` is not, is what rules out
`tail` = `Size`), the event in the making to its bytes in the buffer and in the
slack (`Staged`), and what a CPU has learnt of `tail` to what is still true
after the reader has moved on (`Measured`): if it saw `tail > head`, then either
that still holds or the reader has since given back an event, and then there is
room whatever the subtraction yields, except when what it saw was the `tail`
between the two stores (`glimpse`); if it saw `tail <= head`, the reader can
only move `tail` towards `head`, which can only be underestimated, except when it
is now between its two stores. The two exceptions are `Misled`. The mapping
to `EventChannel` sends at `Publish`, receives at `ReadEvent` and overruns where
the check is wrong. From the same invariant follow `SpaceCheckExact`, that the
check is right in both directions outside these two cases (an event is never
turned away for a `tail` that moved between its two loads), and `PollComplete`,
that `head = tail` never hides a full ring.

`KmodDeviceProofs` proves `Spec => []DevInv`. `NoUseAfterFree` needs to know
which walks may still come to a consumer that was unlinked: `WalksAwaited` says
that such a walk began before the unlinking and that the running
`synchronize_rcu` still waits for it. That release frees only then needs the
state of a consumer to follow from where its owner's release is, and the waiting
release to hold the mutex (`Owned`); `RingsOpen` and `MapsLive` tie the ring and
the mappings to it. `DeviceImplementsReclamation` takes each step to one of
`Reclamation`; the step that needs the invariant is `Empty`, whose guard is that
no reader holds the object. `ReleaseNeverStuck` is the safety part of
`ReleaseReturns`: nobody but a release that waits for running sections holds the
mutex, from `DevInv` and from who may hold it (`HeldInv`).

`ProcessCacheProofs` proves `Spec => []TypeOK`, which is inductive as it stands,
and `Spec => ExitKept` from it: each action that
touches the table either removes an entry or merges the recorded exit into it.
`LoopsNeverLost` counts: taking the head of the queue or appending to it keeps
each loop queued or running exactly once (`LoopsInv`). `DeinitProgress` is the
safety part of deinit's return. `CacheImplementsLedger` takes each step to one of
`ProcessLedger`. An update (`ReplaceRecords`) is the arrival of one sighting,
which is there because the worker is counted in `reading` or the event in
`execs`, and which leaves a dead entry dead and as old as it was; that a living
entry becomes dead with age 0 needs that a living one has no age, a part of
`TypeOK`. The steps for all pids at once (mark, sweep, tick) are shown pid by
pid.

`DetectProofs` proves `Spec => []DetectInv`. For `AlertsInOrder` the numbers of
the events have to grow from `evt` over the slot to the ring (`RingOrdered`,
`SlotNewer`, `AlertsOlder`). For `RulesKept` what is done of the open file must
be in the set (`OpenFileKept`, `FilesKept`).
`NewestEnriched` needs more than an order: the ring holds the events produced
last without a gap, and the slot, from the callback to its enrichment, the one
before them (`ReadInv`). `FeedImplemented` is the refinement of `EventFeed`: that
an event is looked at after those before it is `SlotNewer` where the poll has
just filled the slot, that it is alerted once is `AlertsOlder`, and that the
rules do not change under the alerts is the order of the phases; the first event
needs that numbers begin at one (`Numbered`). `LoopProgress` is the safety part of
`NewestSeen`: four times what is in the ring and how far the loop is from reading
it (`ToGo`) goes down with every step of the loop.

`AgentProofs` proves `Spec => []AgentInv`. It is about one handler (`Once`): `OneHandler` says that what the handler has passed is null,
what lies before it is untouched (its pointer is live just when its pool is
open), and the owner it is at is live until it frees it; `JoinedIdle` that a
joined pool runs nothing. From these no access can meet a freed pointer
(`CleanupSafe`), whatever the faults inside `Free` are, and `CleanupInOrder`
follows: what is freed has been joined, and what came up after
it has been passed.
`CleanupProgress` is the safety part of `CleanExit`, for any number of signals:
a pool is being closed only while main is in its handler, so nothing is added,
and each step of its threads lowers what they have left (`LogLeft`, `AlertLeft`).

`YamlBuildProofs` proves `Spec => []YamlInv` and `Spec => ImplementsReference`.
The builder does not know where it is; the invariant says why its two flags
suffice all the same: `current_key` is set just when the innermost container
waits for a value, `in_sequence` just when it is a sequence in which no
container stood (`Flags`), and every container around it holds one and waits for
no value (`Outer`), so that the flags are right again when the inner one ends.
That a sequence in which a container stood gets no more scalars is what regular
means, and without it `Flags` is not kept by `SequenceEnds`. The document is
unbounded in length and depth although induction over data is out of reach:
the stream grows step by step, and the induction is over the steps.

Only model-checked: the liveness properties (`DestroyReturns`, `TaskServed`,
`AllDelivered`, `ReleaseReturns`, `ExitedForgotten`, `RunningRecorded`,
`CleanExit`, `NewestSeen`), since liveness under fairness is beyond the prover,
and `ConditionMeans` and `YamlFaithful`, which are about recursive definitions
over data. Of `YamlFaithful` the theorem about `YamlBuild` covers the building of
the tree, not the paths that are looked up in it.

## 7. Not modelled

Listed with reasons in `PROJECT.json`. In short:

* Of the 326 thousand lines of C in the repository, 248 thousand are two copies
  of the kernel's generated `vmlinux.h`; most of the rest are the eBPF programs
  generated one per system call, their tables (`linx_event_table.c`,
  `linx_syscall_table.c`, `missing_defines.h`) and vendored headers (libyaml,
  pcre2, uthash). They hold declarations, constants and straight-line copies of
  arguments, and no state that a step could get wrong. The models cover the
  hand-written logic, a few thousand lines.
* Reading and parsing of `/proc`, the formatting of log lines, alerts and output
  templates, the alert channels, regular expressions: I/O and library calls.
* `linx_event_processor` and `linx_event_queue`: the first does not compile, the
  second is stubs.
* In modelled parts: loading and unloading of the kernel module and failures of
  `mmap` itself; contents of kernel events beyond length and place; in `linx_alert`
  what nobody calls (`set_config_enable`, `update_config`, `send_sync`,
  `get_stats`); in conditions, field transformers, arguments and escapes; in
  YAML, the integer and Boolean getters, and what is wrong with the documents that
  libyaml rejects; failures of `malloc` where they only make a call return early.
