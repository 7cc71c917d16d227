# A TLA+ verification of minion

minion runs untrusted programs in sandboxes. This directory models the library's Linux backend
(`src/src/linux*`) and its callers: the protocol between the host process and the *zygote* of a sandbox,
the life of sandboxes, their watchdogs, how a zygote is started, which file descriptors a job gets, the
pipes between programs and their jobs, how resource limits are put in force, and the C interface. TLC
checks the models on small instances (`MC*.tla`, `*.cfg`); TLAPS checks proofs for all values of the
constants (`*Proofs.tla`). `PROJECT.json` lists the runs, the lines every definition translates, the
hazards of the code and the properties that cover them.

    tlc -workers 2 -config MCSandboxJobs_core.cfg MCSandboxJobs     # one run
    tlapm SandboxesProofs.tla                                       # one module of proofs

## 1. The system

| Component | State | Operations | What is hard |
|---|---|---|---|
| Host side of a sandbox (`sandbox.rs`, `linux.rs`, `wait.rs`) | `Arc<Mutex<Option<ZygoteInfo>>>`, two verdict flags, the channel from the watchdog | `create`, `spawn_job`, `get_exit_code`, `resource_usage`, `kill`, `drop`, the wait future | threads share one socket; `kill` at any moment; `drop` while others measure |
| Zygote (`zygote/main_loop.rs`) | `tasks`, its descriptors, the enter handle | `Spawn`, `GetExitCode`, `GetResourceUsage`, reaping | lookup by pid, panics on unexpected states, blocking reads |
| Socket (`ipc.rs`) | packets in flight | `send`, `recv`, `send_fds`, `recv_fds` | a message is several packets; failures in between |
| Start of a zygote (`zygote.rs`, `setup.rs`) | three processes, a socket pair, two pipes | `start_zygote` and its three branches, `setup` | forks that never exec keep every end of every pipe open |
| Watchdog (`watchdog.rs`) | its last readings | tick, measure, report, kill | report before kill; measuring a sandbox somebody just killed; what RUSAGE_CHILDREN leaves out |
| Uid allocator (`uid_alloc.rs`) | `used` | `allocate`, `deallocate` | a create that fails half way |
| Limit drivers (`limits.rs`, `limits/*`) | map of groups, or cgroup directories; open handles | select, create, join, delete, usage | nine system calls per group, none undone; busy groups |
| Descriptors of a job (`zygote.rs` `do_exec`, `main_loop.rs`) | a descriptor table | receive, duplicate, join, close-on-exec, `dup2` | numbers chosen by the caller clash with numbers in use |
| Stdio of a job (`linux.rs` `handle_*_io`, `pipe.rs`) | pipes and buffers, their ends in host, zygotes, jobs | open, pass, duplicate, close, read, write | who still has a write end; blocking reads on a runtime that also runs the watchdogs |
| C interface (`minion-ffi`) | `Arc<dyn Sandbox>` shared by boxes, children and waits | create, spawn, wait with a timeout, kill, free | any order of frees; a wait that timed out has used the descriptor up; every panic aborts |
| Command line tool and tests' worker | one job each, a `current_thread` runtime | wait; wait, then read | a blocked read stops every timer; they are clients in `Stdio` |
| Public interface, `Command`, seccomp generator, system check | none that changes | builders and conversions | not modelled, see section 7 |

How they interact: a host thread locks the mutex, sends a request over the socket and reads the answer
(calls as messages); the watchdog and `kill` take the `ZygoteInfo` out of the same mutex (shared state);
the kernel tells the host that a job ended through a pidfd (callback), and only then the wait future asks
the zygote for the exit code. All sandboxes of a backend share the uid allocator and the driver. The
prlimit driver asks the zygote of a sandbox for its usage with the mutex of *all* groups held until it has
the zygote's mutex. Sandboxes of one process also share what they never meant to: a zygote inherits the
pipe ends, sockets and handles that are open in the host when it is forked.

## 2. Modules

| Module | Models | State and actions in terms of the code |
|---|---|---|
| `SandboxJobs` | one running sandbox, packet by packet | `owner`/`info`: the mutex and its `Option`; `toZyg`, `toHost`: the socket; `zpc`, `tasks`: the zygote; `procs`: processes it forked. An action per send, receive, system call of a handler |
| `JobService` | what a sandbox promises its users | abstract: `up`, and for every client its job and what it was told |
| `SandboxJobsService` | that `SandboxJobs` implements `JobService` and `ZygoteLock` | the refinement mappings: the job of a client is the process forked for it, its view follows from `pc`; the mutex of the one sandbox is held when it has an `owner` |
| `ZygoteLock` | what the mutex around the zygote guarantees, whoever uses it | abstract, for each sandbox: `held`, `info`, `zyg`, and whether a process of it runs (`jobs`) |
| `Sandboxes` | many sandboxes on one backend | `pc`: the owner in `create` and `drop`; `used`, `uid`; `groups`, `groupsLock`: the prlimit map; `zlock`, `info`: zygote mutexes; `at`: users and watchdogs. A critical section in which nothing blocks is one step |
| `Watchdog` | one watchdog with time in parts of a second, under either driver | `now`, `user`, `system`, `reaped`, `began`: clocks, what the kernel counts, and what of it `getrusage` sees; `info`, `by`, `up`: the mutex, who emptied it, and whether the zygote has died; `lost`: a measurement failed; `chan`, `flags`; `pc`, `elapsed`, `usage`: the task. `ParseTimeval` and `RlimitCpu` are the two conversions that round |
| `Startup` | `start_zygote` for several sandboxes at once | `caller`, `mid`, `zyg`: the three processes of each; `holders`: which process has which pipe end open; `sent`, `mapped` |
| `JobFds` | descriptor tables from the stdio specification to `execve` | `fds`: the zygote's table; `handles`: the numbers in `CgroupEnter`; `jobs`: the table and confinement of every job; `alive`: the zygote did not panic. A spawn is one step; what it receives, duplicates and moves are recursive functions over sequences, in the order of the code (`Folded`) |
| `LimitDriver` | selection of a driver, groups and their handles | `tried`, `driver`: `Driver::new`; `todo`: system calls a `create_group` or `delete_group` has left; `dirs`, `limits`, `enabled`: the cgroup file systems; `files`: descriptors of the host; `job`, `confined` |
| `Stdio` | pipes and buffers of several jobs, their readers and the runtime | `holds`: which process has which end; `written`, `got`: the data as numbers of bytes; `size`, `file`, `offset`, `nul`: a buffer's length, the positions written, the offset both sides share, and the NUL bytes read; `pc`: a client, which is `cli`, `wait_read` or `read_wait`; `wd`: its watchdog; `workers`: runtime threads, which blocking reads and writes occupy |
| `CApi` | a C program with several threads | `arc`: who shares each `LinuxSandbox`; `box`, `cp`, `fd`: pointers between creation and free, and what a wait took out; `wait`, `told`: calls of `minion_cp_wait` and what they returned; `aborted`: the panic hook. A call comes from a thread outside every runtime, in the context of one, or driving one (`Contexts`) |

Composition. In `Sandboxes` a request to a zygote only begins and ends, and `SandboxJobs` has its
packets; its `StartZygote` is one step, which `Startup` splits (`Outcomes` is what it relies on); its
`CreateGroup` and `DropGroup` are split in `LimitDriver`; whether a limit was passed is a choice in
`Sandboxes` and a comparison in `Watchdog`; `SandboxJobs` counts descriptors in packets, `JobFds` follows
them into the job, and `Stdio` follows the ends across all processes; `CApi` takes a wait and a kill as
single steps, which `SandboxJobs` splits.

Two of these connections are checked and proved, the others argued here. `SandboxJobs` implements
`JobService`. And `SandboxJobs`, where a request is a sequence of packets and everything may fail, and
`Sandboxes`, where it only begins and ends, both implement `ZygoteLock`: they agree on what a request may do to the
zygote and on what a kill waits for, which is all that `Sandboxes` needs of a request.

## 3. Runs

| Run | Question and bounds | Result |
|---|---|---|
| `jobs_core` | two clients, one usage query, one kill at any moment, no failing call; two pids, so that a pid is used again for the second job; chunks of two descriptors, so that three or four take two packets | the ends stay in step (`InSync`), nothing panics (`NeverFails`), the sandbox implements `JobService`, waits resolve |
| `jobs_faults` | the same with every fault: too long a query, bad descriptors, no descriptors, failing fork, crashing zygote | exit codes stay exact, `KILLED` is told only if true, every request returns, kills take effect; `ZygoteLock` is implemented: kills wait for requests, and nothing is started afterwards |
| `jobs_legacy_wait` | without pidfd | **violated**: `main_loop.rs:244` watches for SIGCHLD only if pidfd is supported, so the end of a job is never notified |
| `boxes_prlimit` | two sandboxes, one with a user, prlimit | users never see a panic, a watchdog only during `drop`; `create` and `drop` return; `drop` and watchdogs kill (`KillsEnd`); `ZygoteLock` is implemented |
| `boxes_uids` | three sandboxes for two uids, every failing create; symmetric | the allocator is exactly the held uids; processes nobody has killed do not share one but for a moment of `drop` (`ProcessesApart`); exhausted only if full |
| `fds` | three spawns with the three handles of cgroup v1 or none, eight choices of extra numbers, which clash with stdio, with each other and with numbers in use, and three of stdio | a job has exactly its descriptors if numbers are apart; nothing else is exposed whatever they are; the zygote keeps its own; the first program is in every group or does not run, and the zygote panics only later (`FirstSpawnServed`) |
| `fds_join` | two spawns with a cgroup handle | **violated**: a clone of the handle closes its number after the first spawn, and the next job's pid goes to whatever is open there |
| `watchdog` | both drivers, time in half seconds up to two seconds, CPU limits of none, half a second and one second, a wall-clock limit that is passed or out of reach, a zygote that dies, measurements that fail | a verdict precedes the kill, no verdict is false but for failed measurements (`NoFalseTle`), RLIMIT_CPU is the next whole second, limits are enforced |
| `startup` | two concurrent creations, five faults | a zygote waits for its maps, `start_zygote` tells the truth and returns, zygotes go on, their death is seen; each with the exception its definition names |
| `limit_drivers` | five lists of drivers (the default among them), two sandboxes of which one may have many processes, rootless, every call may fail | what runs is limited and measured, groups and handles do not outlive the sandbox |
| `stdio` | two clients with different plans, one thread or three, pipes that are full after one write, buffers without a size or of two bytes, jobs that write up to twice and may fork a child that keeps the pipe | a reader of a pipe has everything when it sees the end, one of a buffer nothing of it, ends are seen but for strays (`EndsSeen`), every client finishes if there are threads enough |
| `capi` | two sandboxes, two children in either, every fault, calls from threads outside, in the context of and driving a runtime | what was freed is killed, killed only for a reason, `minion_cp_wait` tells the truth and returns |

Why the bounds are enough: sandboxes and clients interact only through one mutex, one map, one range of
uids or the descriptors one zygote inherits from the other, so two contenders and one bystander give every
order of two critical sections; time only matters relative to the two limits and to whole seconds, so half
seconds show every rounding; a pipe is empty, full or neither, and one write fills it; a descriptor number
matters only by being lowest free, used or wanted; two children share a sandbox or do not. `stdio` orders
its two clients by plan (`MCInit`), since they differ in nothing else. Properties that count (uids, tasks)
are also proved for every size.

Fairness. `SandboxJobs`: a thread that is inside a request goes on, the zygote serves, the kernel delivers
signals (weak); a mutex is handed over eventually, as parking_lot does (strong, for `kill` and the wait
future). Jobs need not end and nobody needs to call anything. `Sandboxes`: the same for owners, users and
watchdogs (strong, as all of them wait for mutexes). `Watchdog`: timers fire and blocking tasks run, time
passes, jobs end that the kernel kills, because their zygote was killed or died or they are at RLIMIT_CPU. `Startup`:
each thread and process that can go on does; a zygote exits only if its client has gone. `Stdio`: a client
goes on when it has a thread, a job that reads notices the end, a watchdog whose timer has fired and that
finds a thread acts; jobs need not end. `CApi`: a wait goes on, as other
threads drive the runtime its thread has entered, and jobs of a killed zygote end; the program need not call anything.

Deadlock is checked in every run. Final states have an explicit step (`Quiescent`, `Ended`, `Finished`,
`Enough`) that is enabled only when everything is over. The type invariant of `SandboxJobs` is
an invariant of `core`. Those of `Sandboxes`, `Watchdog`, `Stdio` and `CApi` are conjuncts of the inductive
invariants of section 4, and that of `JobFds` follows from one; those of `Startup` and `LimitDriver` say what the
variables hold.

## 4. Proofs

TLAPS proves these from the assumptions named in the modules, for all values of the constants:

* `SandboxJobsProofs` — `TypeCorrect`: types, and `TaskInv`. Types alone are not inductive: that a reply is a
  number needs that an ended process has a status, and that the task a query finds exists needs that a
  client's child has a pid. `TaskInv` says that tasks are processes that were not waited for, and that
  neither these nor tasks share a pid. So `swap_remove` by pid in `main_loop.rs:126` takes the right task,
  however many jobs there are, and although the kernel uses pids again. The lemmas on `SwapRemove` and
  `Chunks` say what these operators return.
* `SandboxJobsProofs`, second half — with every fault, any number of threads and kills at any moment: `ExitCodeExactHolds`
  and `KilledOnlyIfGoneHolds`, from `ServiceInv`: the stream between host and zygote belongs to the thread
  that holds the mutex (`LockInv`), what it still has to send, what is on its way and what the zygote still
  has to take add up to its request (`SpawnsInv`, `QueriesInv`), and so a reply is to the query of the thread
  that reads it (`AnswerInv`). A request that broke off leaves the zygote with too few packets (`Blocked`):
  it waits, and the header of the next request, which is not what it waits for, makes it stop without an
  answer.
  Under `NoFaults` (no call fails, the zygote has pidfds, requests bring three stdio descriptors):
  `InSyncHolds` and `NeverFailsHolds`, from `FlowInv`, which says how far the one query is that is being
  served, and that the zygote has a task for every process it has not waited for, so that the `expect` and
  the `unreachable!` of the exit code query are not reached. On top of both `ServiceImplemented`: every
  step of `SandboxJobs` is a step of `JobService` or none, with one process per client (`JobInv`).
  With every fault again, `ZygoteLockImplemented`: `ServiceInv` says that a zygote which has all descriptors
  of a job serves the client that waits for it (`SpawnServes`), even after requests that broke off, and
  `SignalInv` that it was not signalled, so that a process is started only inside a request and before a
  kill.
* `SandboxesProofs` — `UidLedgerHolds` and `ExhaustedOnlyIfFullHolds` from `UidInv` (types, an owner before
  `ChooseUid` has no uid, the ledger); the second by a bijection between held uids and their holders.
  `PanicsOnlyInDrop` from `PanicInv`, which adds what is registered at each place of the owner (`OwnerOrder`)
  and that a user is active only while the sandbox lives (`InUse`). `ProcessesApartHolds` from `UidInv` and
  `UnkilledPlace`: processes nobody has killed belong to an owner that holds its uid, to a failed create, which
  keeps it, or to a drop that is about to kill. That a finite range has a least free uid, which the `CHOOSE`
  of `Allocate` needs, is `LowestExists`, from well-foundedness.
  `ZygoteLockImplemented` from `LockInv`: the zygote runs as long as its `ZygoteInfo` is in the mutex
  (`InfoInv`), and exactly the thread whose request is served has the mutex (`MutexInv`). That `create`
  keeps this needs `InUse`: it starts the watchdog, which cannot have been in a request before.
  `LocksOrderedHolds`: a thread that has the map of groups waits for a zygote mutex, one that has a zygote
  mutex for no other. So with more sandboxes than the two for which TLC checks `OwnerReturns`, a cycle of
  mutexes is no reason for it to fail.
* `WatchdogProofs` — `ReasonBeforeKillHolds` and `NoFalseTleHolds`, for each of the two clocks, from `VerdictInv`: a
  watchdog about to kill has reported, whoever took the `ZygoteInfo` is known (`TakenBy`), and readings
  never run ahead of what they read (`ReadingTrue`), as both conversions of `getrusage`'s times only round
  down. `Unmeasured` says what an unlimited reading means, and `FailuresStay` that it keeps that meaning until
  the verdict and after it. `RlimitFitsHolds` from `RlimitRounds`: `(limit - 1) / 1e9 + 1` is the least number
  of whole seconds that reaches the limit, for every limit but zero, whatever the unit of time.
* `StartupProofs` — `MappedBeforeSetupHolds` and `OutcomesHold` from `StartInv`: for each sandbox, the order of
  the three processes, and that a zygote *keeps* its own copy of `uid_mapping_done_w`. The second part is
  why the end of the host is never mistaken for the notification that maps are written (`setup.rs:199` does
  not look at the number of bytes read).
* `LimitDriverProofs` — `EnforcedHolds` from `EnforcedInv`: while a group is created each limit is written or
  still to come, and no call is skipped after one that failed. `HandlesClosedHolds` from `HandlesInv`: open
  handles belong to a creation that runs or to one that failed. `NothingLeftHolds` from `RemovalInv`: what a
  creation made is accounted for by the calls that deletion has left, but for directories the kernel
  reported busy.
* `StdioProofs` — `WholeOutputHolds` from `StdioInv`: the offset of a buffer is behind all that was
  written, and what was read of it are bytes nobody wrote (`PastSize` relates them to its size); what was not
  spawned has nothing open (`NotStarted`), and a client that saw the end has all of it *and* its job has no
  write end any more (`ReadAll`; without this, a job that reads its stdin could write later).
* `CApiProofs` — `FreedIsKilledHolds`, `KilledWithReasonHolds` and `OutcomesTrueHolds` from `ArcInv`: the sharers of
  a sandbox are exactly its open box, its open children and its running waits, so the last of them to go is
  the one that drops it. For `OutcomesTrueHolds` it adds that a descriptor is missing only from a child for
  which a call waits or has returned.

* `JobFdsProofs` — `JobGetsItsFdsHolds`, `NothingExposedHolds`, `ZygoteKeepsItsFdsHolds` and
  `FirstSpawnServedHolds` from `FdsInv`, for any table, handles, requests and number of spawns. What happens in
  a spawn is proved by induction over its descriptors. No induction theorem of the library is used: that a
  set of numbers has a least member (`LeastMember`, from well-foundedness) gives induction over a set
  (`UpTo`), with which the recursive functions are shown to exist and to unfold (`ReceiveUnfolds`,
  `DuplicateUnfolds`, `PlacedUnfolds`). `Extended` is what is kept while descriptors are received and
  duplicated: the table is the one before with the job's files under numbers that are new and distinct.
  `ExecExposesNothing` follows every `dup2`: what is not close-on-exec came from the numbers of the job or
  from a number put there before. `ExecPlaces` needs the targets apart from all sources, or a move would
  overwrite one that is still to come. Across spawns `FdsInv` adds that the zygote has its own descriptors,
  and the handles their tasks files until the first spawn (`HandlesOpen`), not longer.

Only model-checked: every liveness property, which is out of reach of TLAPS with these backends.

## 5. Disagreements found

Two violation runs, quoted under `findings` in `PROJECT.json`: `jobs_legacy_wait` and `fds_join`. Others are
known from the models, where properties name them as exceptions, and are not given a run:

* A null stdio item sends fewer than three descriptors. If none arrives, the zygote waits for ever with the
  host's mutex held, and `kill` blocks; if one or two arrive, `recv_fds` fails with a size mismatch and the
  zygote panics. The runs of `SandboxJobs` have clients that pass three.
* If `unshare` or the second fork fails, the intermediate process returns from `start_zygote` as a second
  copy of the host, and the first waits for a pid for ever (`zygote.rs:293`; exception in `StartReturns`).
* Repairing `main_loop.rs:244` alone is not enough: in the legacy loop processes are reaped before their
  exit code is asked for, so that two tasks may then have one pid and the lookup finds the first.
* The clone of the enter handle that a later job gets closes numbers that are not handles any more. If an extra
  descriptor of the job has one, it is closed twice, and `fd.rs:56` panics in the zygote (`PanicsOnlyLater` has
  the condition; `alive` is false in some states of the run `fds`).
* A watchdog takes an error of `resource_usage` for a passed CPU limit (`watchdog.rs:59`): a file that
  cannot be read, a request that fails, and under prlimit a sandbox its owner has killed or whose zygote has
  died. These are the exceptions of `NoFalseCpuTle`. If the zygote dies after it was asked, the watchdog
  panics instead and kills nothing (`MeasurePanics`).
* If both limits are passed between two ticks, `check_real_tle` stays false.
* RLIMIT_CPU does not enforce a CPU limit of zero: `prlimit.rs:63` underflows, and wraps to a limit of many
  years in a release build. `RUSAGE_CHILDREN` leaves out running jobs, and `parse_timeval` adds microseconds
  to nanoseconds, so the watchdog may miss nearly two seconds (`LimitsEnforced` has the bound).
* A measuring watchdog may panic in `prlimit.rs:122` while its sandbox is dropped (`PanicOnlyInDrop` has it as
  the exception); the task's `unwrap` ends the watchdog.
* `drop` gives the uid back before it kills (`sandbox.rs:275`): a new sandbox may run under the uid of
  processes that still live, for as long as `kill` waits (the exception of `ProcessesApart`).
* `delete_group` follows SIGKILL at once: a cgroup directory with a live member stays (`NothingLeft`).
  `smoke_check` deletes no group it creates, and a `create_group` leaks the descriptors it opened before
  duplicating them: `dirs` and `files` of `LimitDriver` show both.
* A memfd buffer shares its offset with the job, so its reader starts where the job stopped writing and
  gets nothing of it (`WholeOutput`), but NUL bytes up to the size the buffer was given. If giving it that size
  fails, the descriptor leaks (`linux.rs:146`, not modelled). A blocked read on a `current_thread` runtime
  stops the watchdog that would end it, and a zygote started in between keeps the pipe open (`ClientFinishes`, `EndsSeen`).
* `minion_sandbox_create` needs the context of a tokio runtime (`sandbox.rs:217` spawns a task), which a C
  program has no way to make; without one it panics after the zygote was started, and the hook aborts. A
  second `minion_cp_wait` of a child after a first that timed out aborts too, and so does a first one if its
  own runtime cannot be built, or on a thread that is in no runtime's context or drives one
  (`minion-ffi/src/lib.rs:364`, `:375`, `:385`; `PanicsFor` has the cases).
* The intermediate process is never waited for (`zygote.rs:317`), and a zygote keeps the client's end of its
  own socket (`zygote.rs:280`), so it does not see the host die. `minion-cli` computes `time_limit * 3` in 32
  bits (`main.rs:144`).

## 6. Abstractions

Messages are reduced to their type and the one number that decides something. `MINION_DEBUG_KEEP_CGROUPS` is
taken as unset. `JobFds` spawns jobs through pidfds and assumes nothing else in the zygote opens
descriptors. In `LimitDriver` a call of the kernel may fail at any time, which covers every layout of the
cgroup mounts; each sandbox has one job, since `JobFds` shows what becomes of the handles after the first;
controllers, once enabled, stay enabled. `Startup` has `setup` as one step. `Watchdog` has one thread that asks for verdicts,
since `poll_state` takes a verdict out of the channel and stores it in two steps, and RLIMIT_CPU, which the
kernel applies to each process, is that of a job of one process. In `Stdio` nobody seeks in a buffer but by
reading and writing. `Stdio` starts a zygote and its
watchdog in one step, has one output pipe per job (stderr is handled as stdout is) and lets a job fork one
child. `CApi` follows the documented contract: a pointer is used between its creation and its free, by one
call at a time where the call takes it mutably. Clients spawn one job each and sandboxes are created once:
names are not used twice, pids and uids are.

## 7. Not modelled

Mounts, chroot and namespaces (a straight sequence whose meaning is the kernel's); seccomp filters (no
state); `check.rs` (reports text; pidfd support is a constant); `Command`, option parsing of the command line
tool, the master and the cases of the integration tests (conversions and reports); the text of cgroup
files. Hazards without a property carry a note in `PROJECT.json`: each is a leak, an order or a wait for ever that
the code shows and that nothing in the repository denies, or that a property names as its exception.

## 8. Plan

Done: the modules above and their proofs. Left, the most important first:

1. The other connections of section 2: `Startup` and `LimitDriver` against the one-step `StartZygote`,
   `CreateGroup` and `DropGroup` of `Sandboxes`, by abstract specifications like `ZygoteLock`.
2. Legacy mode of `JobFds` and `SandboxJobs`, with the repaired loop as an alternative to compare.
3. A module for the jail's set-up: isolation roots that sandboxes share, nested exposed items.
