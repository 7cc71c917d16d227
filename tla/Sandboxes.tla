----------------------------- MODULE Sandboxes -----------------------------
(***************************************************************************)
(* Many sandboxes on one LinuxBackend: creation, use, watchdog and Drop.   *)
(*                                                                         *)
(* All sandboxes of a backend share its UidAllocator and its resource      *)
(* driver.  Each sandbox has an owner, which creates it and drops it, a    *)
(* user (a thread with a reference to it, which the owner cannot outlive), *)
(* and a watchdog task, which keeps the driver and the zygote mutex alive  *)
(* but not the sandbox.  The prlimit driver keeps a map of groups under a  *)
(* mutex of its own, and asks the zygote of a group for its usage while    *)
(* that mutex is held; the cgroup drivers keep one directory per sandbox.  *)
(*                                                                         *)
(* A request to a zygote only begins and ends here (SandboxJobs has the    *)
(* packets), and a critical section in which nothing blocks is one step.   *)
(* Whether a limit was passed is a choice (Watchdog has the times).        *)
(***************************************************************************)
EXTENDS Integers, FiniteSets

CONSTANTS
  Boxes,      \* sandboxes that are created, each once
  Users,      \* those of them some thread uses between create and drop
  Low, High,  \* UidAllocator::low, UidAllocator::high
  Driver,     \* "prlimit" or "cgroup", the driver the backend selected
  Rootless,   \* settings.rootless: no uid per sandbox
  Faults,     \* what may go wrong in LinuxSandbox::create
  None        \* no uid, no thread

Measurers == {"watchdog", "user"} \X Boxes

ASSUME UsersAssumption == Users \subseteq Boxes
ASSUME BoundsAssumption == Low \in Nat /\ High \in Nat /\ Low <= High
ASSUME DriverAssumption ==
  Driver \in {"prlimit", "cgroup"} /\ Rootless \in BOOLEAN
ASSUME CreateFaultsAssumption == Faults \subseteq {"items", "group", "zygote"}
ASSUME NoneAssumption == None \notin Nat /\ None \notin Measurers

VARIABLES
  used,        \* UidAllocator::used
  uid,         \* sandbox_uid of each sandbox, once it has one
  pc,          \* where the owner of each sandbox is
  groups,      \* ids in Prlimit::groups, or the cgroup directories that exist
  registered,  \* groups whose zygote was registered
  groupsLock,  \* holder of the mutex around Prlimit::groups
  zlock,       \* holder of the zygote mutex of each sandbox
  info,        \* that mutex holds Some(ZygoteInfo)
  zyg,         \* the zygote of each sandbox
  jobs,        \* jobs of the sandbox run
  at           \* where each user and each watchdog is

ids    == <<used, uid>>
driver == <<groups, registered, groupsLock>>
mutex  == <<zlock, info>>
kernel == <<zyg, jobs>>
vars   == <<ids, pc, driver, mutex, kernel, at>>

OwnerPcs == {"new", "uid", "group", "zygote", "live", "drop_kill", "drop_group",
             "drop_fields", "gone", "failed", "exhausted"}
MeasurerPcs == {"off", "sleep", "idle", "request", "look", "lock", "ask", "kill",
                "done", "panicked"}

Watchdog(s) == <<"watchdog", s>>
User(s)     == <<"user", s>>

\* The owner passes from one place in the code to another.
Step(s, from, to) == pc[s] = from /\ pc' = [pc EXCEPT ![s] = to]
Move(t, from, to) == at[t] = from /\ at' = [at EXCEPT ![t] = to]

\* The mutex of Prlimit::groups is free; the cgroup drivers have none.
GroupsFree == Driver = "prlimit" => groupsLock = None

\* Mutant: the ZygoteInfo is taken out while another thread has the mutex.
TakeZygoteUnlocked(s) ==
  /\ info' = [info EXCEPT ![s] = FALSE]
  /\ zyg' = [zyg EXCEPT ![s] = IF info[s] /\ @ = "running" THEN "signalled" ELSE @]
  /\ UNCHANGED <<zlock, jobs>>

\* Taking the ZygoteInfo out and dropping it: SIGKILL for the zygote.
TakeZygote(s) ==
  /\ zlock[s] = None
  /\ info' = [info EXCEPT ![s] = FALSE]
  /\ zyg' = [zyg EXCEPT ![s] = IF info[s] /\ @ = "running" THEN "signalled" ELSE @]
  /\ UNCHANGED <<zlock, jobs>>

-----------------------------------------------------------------------------
(***************************************************************************)
(* LinuxSandbox::create.                                                   *)
(***************************************************************************)

\* A shared item has an invalid flag: nothing was acquired yet.
RejectItems(s) ==
  /\ "items" \in Faults
  /\ Step(s, "new", "failed")
  /\ UNCHANGED <<ids, driver, mutex, kernel, at>>

\* Mutant: the uid that is handed out is not recorded.
AllocateUnrecorded(s) ==
  LET free == (Low..(High - 1)) \ used
  IN IF free = {} THEN Step(s, "new", "exhausted") /\ UNCHANGED ids
     ELSE LET u == CHOOSE u \in free : \A v \in free : u <= v
          IN /\ Step(s, "new", "uid")
             /\ used' = used /\ uid' = [uid EXCEPT ![s] = u]

\* UidAllocator::allocate: the lowest uid of the half-open range not in use.
Allocate(s) ==
  LET free == (Low..(High - 1)) \ used
  IN IF free = {} THEN Step(s, "new", "exhausted") /\ UNCHANGED ids
     ELSE LET u == CHOOSE u \in free : \A v \in free : u <= v
          IN /\ Step(s, "new", "uid")
             /\ used' = used \cup {u} /\ uid' = [uid EXCEPT ![s] = u]

\* A rootless sandbox has no uid of its own; without one left it is
\* Error::UidExhausted.
ChooseUid(s) ==
  /\ IF Rootless THEN Step(s, "new", "uid") /\ UNCHANGED ids ELSE Allocate(s)
  /\ UNCHANGED <<driver, mutex, kernel, at>>

CreateGroup(s) ==
  /\ GroupsFree
  /\ Step(s, "uid", "group")
  /\ groups' = groups \cup {s}
  /\ UNCHANGED <<ids, registered, groupsLock, mutex, kernel, at>>

\* create_group fails.  prlimit refuses before it inserts; a cgroup driver may
\* have made the directory.  Nobody returns the uid.
CreateGroupFails(s) ==
  /\ "group" \in Faults
  /\ Step(s, "uid", "failed")
  /\ groups' \in IF Driver = "prlimit" THEN {groups} ELSE {groups, groups \cup {s}}
  /\ UNCHANGED <<ids, registered, groupsLock, mutex, kernel, at>>

StartZygote(s) ==
  /\ Step(s, "group", "zygote")
  /\ zyg' = [zyg EXCEPT ![s] = "running"]
  /\ info' = [info EXCEPT ![s] = TRUE]
  /\ UNCHANGED <<ids, driver, zlock, jobs, at>>

\* Mutant: a create that fails gives the uid back.
StartZygoteFailsClean(s) ==
  /\ "zygote" \in Faults
  /\ Step(s, "group", "failed")
  /\ \E z \in {"none", "orphan"} : zyg' = [zyg EXCEPT ![s] = z]
  /\ used' = used \ {uid[s]}
  /\ UNCHANGED <<uid, driver, mutex, jobs, at>>

\* start_zygote fails before the fork, or panics after it (the uid map cannot
\* be written): then the zygote waits for ever for its mapping, because it has
\* the write end of that pipe too.  Uid and group stay.
StartZygoteFails(s) ==
  /\ "zygote" \in Faults
  /\ Step(s, "group", "failed")
  /\ \E z \in {"none", "orphan"} : zyg' = [zyg EXCEPT ![s] = z]
  /\ UNCHANGED <<ids, driver, mutex, jobs, at>>

\* Mutant: the watchdog is started before the details are registered.
WatchdogFirst(s) ==
  \/ /\ Move(Watchdog(s), "off", "sleep") /\ pc[s] = "zygote"
     /\ UNCHANGED <<ids, pc, driver, mutex, kernel>>
  \/ /\ GroupsFree /\ at[Watchdog(s)] # "off"
     /\ Step(s, "zygote", "live")
     /\ registered' = registered \cup {s}
     /\ at' = [at EXCEPT ![User(s)] = "idle"]
     /\ UNCHANGED <<ids, groups, groupsLock, mutex, kernel>>

\* register_group_details, then the watchdog task is spawned and the sandbox
\* is handed out.
Register(s) ==
  /\ GroupsFree
  /\ Step(s, "zygote", "live")
  /\ registered' = registered \cup {s}
  /\ at' = [at EXCEPT ![Watchdog(s)] = "sleep", ![User(s)] = "idle"]
  /\ UNCHANGED <<ids, groups, groupsLock, mutex, kernel>>

-----------------------------------------------------------------------------
(***************************************************************************)
(* Drop for LinuxSandbox.                                                  *)
(***************************************************************************)

\* Mutant: the uid is not given back.
KeepUid(s) ==
  /\ at[User(s)] \in {"idle", "panicked"}
  /\ Step(s, "live", "drop_kill")
  /\ UNCHANGED <<ids, driver, mutex, kernel, at>>

\* UidAllocator::deallocate comes first.  Nobody uses the sandbox any more.
DropUid(s) ==
  /\ at[User(s)] \in {"idle", "panicked"}
  /\ Step(s, "live", "drop_kill")
  /\ used' = used \ {uid[s]}
  /\ UNCHANGED <<uid, driver, mutex, kernel, at>>

\* Mutant: a mutex that is busy is left alone.
DropKillTry(s) ==
  /\ Step(s, "drop_kill", "drop_group")
  /\ IF zlock[s] = None THEN TakeZygote(s) ELSE UNCHANGED <<mutex, kernel>>
  /\ UNCHANGED <<ids, driver, at>>

DropKill(s) ==
  /\ Step(s, "drop_kill", "drop_group")
  /\ TakeZygote(s)
  /\ UNCHANGED <<ids, driver, at>>

\* delete_group.  rmdir fails while a process is in the cgroup, and
\* drop_cgroup ignores that.
DropGroup(s) ==
  /\ GroupsFree
  /\ Step(s, "drop_group", "drop_fields")
  /\ groups' = IF Driver = "prlimit" \/ ~jobs[s] THEN groups \ {s} ELSE groups
  /\ UNCHANGED <<ids, registered, groupsLock, mutex, kernel, at>>

\* The fields are dropped, the receiver of the watchdog's channel among them.
DropFields(s) ==
  /\ Step(s, "drop_fields", "gone")
  /\ UNCHANGED <<ids, driver, mutex, kernel, at>>

-----------------------------------------------------------------------------
(***************************************************************************)
(* Driver::resource_usage, called by users and by watchdogs.               *)
(***************************************************************************)

\* The usage is known, or is an error.  A watchdog that sees a limit passed,
\* or an error, goes on to kill the sandbox.
Measured(t, ok) ==
  \E to \in IF t[1] = "user" THEN {"idle"}
            ELSE IF ok THEN {"sleep", "kill"} ELSE {"kill"} :
    at' = [at EXCEPT ![t] = to]

\* A cgroup driver reads a file of the group's directory.
ReadUsage(t) ==
  /\ Driver = "cgroup" /\ at[t] = "look"
  /\ Measured(t, t[2] \in groups)
  /\ UNCHANGED <<ids, pc, driver, mutex, kernel>>

\* prlimit looks the group up, and keeps the map locked.  An unknown group and
\* one without a zygote are expects; the panic unlocks the map.
LookUpGroup(t) ==
  /\ Driver = "prlimit" /\ groupsLock = None
  /\ IF t[2] \in groups \cap registered
       THEN Move(t, "look", "lock") /\ groupsLock' = t
       ELSE Move(t, "look", "panicked") /\ UNCHANGED groupsLock
  /\ UNCHANGED <<ids, pc, groups, registered, mutex, kernel>>

\* Mutant: the map stays locked when the sandbox is gone.
LockZygoteLeaks(t) ==
  /\ at[t] = "lock" /\ zlock[t[2]] = None
  /\ IF info[t[2]]
       THEN Move(t, "lock", "ask") /\ zlock' = [zlock EXCEPT ![t[2]] = t]
            /\ groupsLock' = None
       ELSE Measured(t, FALSE) /\ UNCHANGED <<zlock, groupsLock>>
  /\ UNCHANGED <<ids, pc, groups, registered, info, kernel>>

\* The zygote mutex is locked, and then the map unlocked.
LockZygote(t) ==
  /\ at[t] = "lock" /\ zlock[t[2]] = None
  /\ groupsLock' = None
  /\ IF info[t[2]]
       THEN Move(t, "lock", "ask") /\ zlock' = [zlock EXCEPT ![t[2]] = t]
       ELSE Measured(t, FALSE) /\ UNCHANGED zlock
  /\ UNCHANGED <<ids, pc, groups, registered, info, kernel>>

\* The zygote answers.
Answer(t) ==
  /\ at[t] = "ask"
  /\ Measured(t, TRUE)
  /\ zlock' = [zlock EXCEPT ![t[2]] = None]
  /\ UNCHANGED <<ids, pc, driver, info, kernel>>

-----------------------------------------------------------------------------
(***************************************************************************)
(* Users and watchdogs.                                                    *)
(***************************************************************************)

UserMeasures(s) ==
  /\ pc[s] = "live" /\ Move(User(s), "idle", "look")
  /\ UNCHANGED <<ids, pc, driver, mutex, kernel>>

\* A request of spawn or wait is made with the mutex locked ...
UserRequest(s) ==
  /\ pc[s] = "live" /\ zlock[s] = None /\ info[s]
  /\ Move(User(s), "idle", "request")
  /\ zlock' = [zlock EXCEPT ![s] = User(s)]
  /\ UNCHANGED <<ids, pc, driver, info, kernel>>

\* ... until it is answered; a job may have been started.
UserAnswered(s) ==
  /\ Move(User(s), "request", "idle")
  /\ zlock' = [zlock EXCEPT ![s] = None]
  /\ \E j \in {jobs[s], TRUE} : jobs' = [jobs EXCEPT ![s] = j]
  /\ UNCHANGED <<ids, pc, driver, info, zyg>>

UserKill(s) ==
  /\ pc[s] = "live" /\ at[User(s)] = "idle" /\ info[s]
  /\ TakeZygote(s)
  /\ UNCHANGED <<ids, pc, driver, at>>

\* Once a second: the heartbeat fails when the sandbox's receiver is gone.
WatchdogTick(s) ==
  /\ at[Watchdog(s)] = "sleep"
  /\ at' = [at EXCEPT ![Watchdog(s)] = IF pc[s] = "gone" THEN "done" ELSE "look"]
  /\ UNCHANGED <<ids, pc, driver, mutex, kernel>>

WatchdogKill(s) ==
  /\ Move(Watchdog(s), "kill", "done")
  /\ TakeZygote(s)
  /\ UNCHANGED <<ids, pc, driver>>

-----------------------------------------------------------------------------
(***************************************************************************)
(* The kernel.                                                             *)
(***************************************************************************)

\* SIGKILL is delivered to the zygote, ...
ZygoteExit(s) ==
  /\ zyg[s] = "signalled"
  /\ zyg' = [zyg EXCEPT ![s] = "dead"]
  /\ UNCHANGED <<ids, pc, driver, mutex, jobs, at>>

\* ... and then to all processes of its PID namespace.  Jobs also end by
\* themselves.
JobsExit(s) ==
  /\ jobs[s]
  /\ jobs' = [jobs EXCEPT ![s] = FALSE]
  /\ UNCHANGED <<ids, pc, driver, mutex, zyg, at>>

-----------------------------------------------------------------------------

Init ==
  /\ used = {} /\ uid = [s \in Boxes |-> None]
  /\ pc = [s \in Boxes |-> "new"]
  /\ groups = {} /\ registered = {} /\ groupsLock = None
  /\ zlock = [s \in Boxes |-> None] /\ info = [s \in Boxes |-> FALSE]
  /\ zyg = [s \in Boxes |-> "none"] /\ jobs = [s \in Boxes |-> FALSE]
  /\ at = [t \in Measurers |-> "off"]

Create(s) == \/ ChooseUid(s) \/ CreateGroup(s) \/ StartZygote(s) \/ Register(s)
             \/ RejectItems(s) \/ CreateGroupFails(s) \/ StartZygoteFails(s)
Drop(s)   == DropUid(s) \/ DropKill(s) \/ DropGroup(s) \/ DropFields(s)

Measure(t) == ReadUsage(t) \/ LookUpGroup(t) \/ LockZygote(t) \/ Answer(t)

UserStep(s)     == UserMeasures(s) \/ UserRequest(s) \/ UserAnswered(s) \/ UserKill(s)
WatchdogStep(s) == WatchdogTick(s) \/ WatchdogKill(s)

\* Every sandbox is gone or was never there, and nobody uses any.
Quiescent ==
  /\ \A s \in Boxes : pc[s] \in {"gone", "failed", "exhausted"}
  /\ UNCHANGED vars

Next ==
  \/ \E s \in Boxes : Create(s) \/ Drop(s) \/ WatchdogStep(s) \/ ZygoteExit(s) \/ JobsExit(s)
  \/ \E s \in Users : UserStep(s)
  \/ \E t \in Measurers : Measure(t)
  \/ Quiescent

(***************************************************************************)
(* Threads go on, the timer ticks, the kernel delivers signals and tears   *)
(* PID namespaces down; parking_lot's mutexes are eventually fair, so no   *)
(* thread that wants one is overtaken for ever.  A request is answered.    *)
(* Nobody has to create or drop a sandbox.                                 *)
(***************************************************************************)
OwnerContinues(s) == (pc[s] \notin {"new", "live"}) /\ (Create(s) \/ Drop(s))
UserContinues(s)  == Measure(User(s)) \/ UserAnswered(s)
WatchdogContinues(s) == Measure(Watchdog(s)) \/ WatchdogStep(s)
KernelKills(s) == ZygoteExit(s) \/ (zyg[s] = "dead" /\ JobsExit(s))

Fairness ==
  \A s \in Boxes : /\ SF_vars(OwnerContinues(s)) /\ SF_vars(UserContinues(s))
                  /\ SF_vars(WatchdogContinues(s)) /\ WF_vars(KernelKills(s))

Spec     == Init /\ [][Next]_vars
FairSpec == Spec /\ Fairness

-----------------------------------------------------------------------------
(***************************************************************************)
(* Properties.                                                             *)
(***************************************************************************)

Uids == Low..(High - 1)

\* Every variable has its type; in particular a uid is one of the half-open
\* range the backend was given.
TypeOK ==
  /\ used \subseteq Uids
  /\ uid \in [Boxes -> Uids \cup {None}]
  /\ pc \in [Boxes -> OwnerPcs]
  /\ groups \subseteq Boxes /\ registered \subseteq Boxes
  /\ groupsLock \in Measurers \cup {None}
  /\ zlock \in [Boxes -> Measurers \cup {None}]
  /\ info \in [Boxes -> BOOLEAN]
  /\ zyg \in [Boxes -> {"none", "running", "signalled", "dead", "orphan"}]
  /\ jobs \in [Boxes -> BOOLEAN]
  /\ at \in [Measurers -> MeasurerPcs]

\* The sandbox has a uid that was not given back; a create that failed keeps
\* its uid for ever.
Holds(s) == uid[s] # None /\ pc[s] \in {"uid", "group", "zygote", "live", "failed"}

\* UidAllocator::used is exactly the uids of the sandboxes that hold one, and
\* no two of these share one.  So deallocate never panics and no sandbox runs
\* under the uid of another that is not being dropped.
UidLedger ==
  /\ used = {uid[s] : s \in {r \in Boxes : Holds(r)}}
  /\ \A s, r \in Boxes : Holds(s) /\ Holds(r) /\ uid[s] = uid[r] => s = r

\* create fails with UidExhausted only when as many sandboxes hold a uid as
\* there are uids, not when one of them was dropped.
ExhaustedOnlyIfFull ==
  [][\A s \in Boxes : pc[s] = "new" /\ pc'[s] = "exhausted" =>
       Cardinality({r \in Boxes : Holds(r)}) = High - Low]_vars

\* resource_usage finds the group it is called for, with its zygote, except when
\* a watchdog calls it while the sandbox is being dropped: a thread that uses the
\* sandbox never sees the panic, and a watchdog not before the zygote is there.
PanicOnlyInDrop ==
  \A s \in Boxes :
    /\ at[User(s)] # "panicked"
    /\ at[Watchdog(s)] = "panicked" => pc[s] \in {"drop_fields", "gone"}

\* The zygote of s lives and nobody has sent it SIGKILL: its processes may go on.
Unkilled(s) == zyg[s] \in {"running", "orphan"}

\* Two sandboxes whose processes may go on never have the same uid, also when a
\* create has failed and left its zygote behind, but for the moment in which drop
\* has given the uid back and has not killed yet (it does so in that order).
ProcessesApart ==
  \A s, r \in Boxes :
    s # r /\ uid[s] # None /\ uid[s] = uid[r] /\ Unkilled(s) /\ Unkilled(r)
      => "drop_kill" \in {pc[s], pc[r]}

\* create and drop return, although every caller of resource_usage and every
\* watchdog locks the map they need and waits for a zygote with it.
OwnerReturns ==
  \A s \in Boxes :
    pc[s] \in {"uid", "group", "zygote", "drop_kill", "drop_group", "drop_fields"}
      ~> pc[s] \in {"live", "failed", "gone"}

\* Dropping a sandbox ends its processes, also when a watchdog is in the middle
\* of a request, and a watchdog that decided to kill it does so.
KillsEnd ==
  \A s \in Boxes :
    pc[s] = "drop_kill" \/ at[Watchdog(s)] = "kill" ~> zyg[s] = "dead" /\ ~jobs[s]

\* Mutex and zygote of each sandbox, for ZygoteLock.
Lock == INSTANCE ZygoteLock WITH held <- [s \in Boxes |-> zlock[s] # None]

\* A kill, a drop and a watchdog wait for the request that has the mutex, and no
\* process is started after the ZygoteInfo was taken out.
ImplementsZygoteLock == Lock!Spec
=============================================================================
