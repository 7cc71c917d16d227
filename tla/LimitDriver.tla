---------------------------- MODULE LimitDriver ----------------------------
(***************************************************************************)
(* Resource limit drivers: which one a backend selects, and the groups it  *)
(* creates, joins and deletes.                                             *)
(*                                                                         *)
(* Driver::new (src/src/linux/limits.rs) tries the configured drivers in   *)
(* order: each creates a probe group.  create_group of a cgroup driver is  *)
(* a sequence of file system calls, of which any may fail and none is      *)
(* undone; it returns open handles, which a job writes its pid to.  The    *)
(* driver of cgroups v1 has three hierarchies, that of v2 one, in which    *)
(* controllers must be enabled for the parent directory first.  The        *)
(* prlimit driver has a map of groups, and a job sets its own limits.      *)
(*                                                                         *)
(* A call is one step, so sandboxes are created and deleted while others   *)
(* are, and while jobs join.  Every sandbox has one job here: JobFds has   *)
(* what becomes of the handles in the zygote after the first.              *)
(***************************************************************************)
EXTENDS Integers, Sequences, SequencesExt

CONSTANTS
  Boxes,     \* sandboxes, each created once
  ManyPids,  \* those of them with max_alive_process_count > 1
  Probe,     \* the caller of smoke_check
  KindLists, \* possible values of Settings::resource_drivers
  Rootless,  \* Settings::rootless
  None       \* no driver

Kinds   == {"CgroupV1", "CgroupV2", "CgroupAuto", "Prlimit", "Auto", "AutoDangerous"}
Drivers == {"v1", "v2", "prlimit"}
Callers == Boxes \cup {Probe}

ASSUME BoxesAssumption == Probe \notin Boxes /\ ManyPids \subseteq Boxes
ASSUME KindsAssumption == KindLists \subseteq Seq(Kinds)
ASSUME RootAssumption == Rootless \in BOOLEAN
ASSUME NoneAssumption == None \notin Drivers \cup {"error"}

VARIABLES
  kinds,    \* Settings::resource_drivers
  tried,    \* configurations that do not work
  driver,   \* the driver selected, None as long as there is none, or "error"
  pc,       \* where each caller of create_group is
  todo,     \* calls it has still to make
  dirs,     \* <<hierarchy, group id>> of the groups that exist
  limits,   \* <<file, group id>> of the limits that were written
  enabled,  \* controllers are enabled for the children of the prefix (v2)
  files,    \* <<"file" or "handle", hierarchy, group id>> open in the host
  job,      \* the job of each sandbox
  confined  \* places where the job has set up its restrictions

choice == <<kinds, tried, driver>>
fs     == <<dirs, limits, enabled>>
procs  == <<job, confined>>
vars   == <<choice, pc, todo, fs, files, procs>>

Pcs  == {"new", "creating", "held", "live", "deleting", "deleted", "failed", "abandoned"}
Jobs == {"none", "joining", "runs", "refused", "dead"}

-----------------------------------------------------------------------------
(***************************************************************************)
(* Configurations and the calls of each driver.                            *)
(***************************************************************************)

ConfigsOf(kind) ==
  CASE kind = "CgroupV1" -> <<"v1">>
    [] kind = "CgroupV2" -> <<"v2">>
    [] kind \in {"CgroupAuto", "Auto"} -> <<"v1", "v2">>
    [] kind = "Prlimit" -> <<"prlimit">>
    [] kind = "AutoDangerous" -> <<"v1", "v2", "prlimit">>

\* process_driver_kind for each kind, in order.
Configs == FlattenSeq([i \in DOMAIN kinds |-> ConfigsOf(kinds[i])])

Call(op, arg) == [op |-> op, arg |-> arg]

CreateCalls(d) ==
  CASE d = "v1" -> <<Call("mkdir", "cpuacct"),
                     Call("mkdir", "pids"), Call("write", "pids"),
                     Call("mkdir", "memory"), Call("write", "swappiness"),
                     Call("write", "memory"),
                     Call("open", "cpuacct"), Call("open", "memory"), Call("open", "pids")>>
    [] d = "v2" -> <<Call("mkdir", "unified"), Call("enable", "unified"),
                     Call("write", "pids"), Call("write", "memory"), Call("open", "unified")>>
    [] d = "prlimit" -> <<Call("insert", "groups")>>

\* Mutant: the hierarchy without a limit of its own is forgotten.
DeleteCallsShort(d) ==
  CASE d = "v1" -> <<Call("rmdir", "pids"), Call("rmdir", "memory")>>
    [] d = "v2" -> <<Call("rmdir", "unified")>>
    [] d = "prlimit" -> <<Call("rmdir", "groups")>>

DeleteCalls(d) ==
  CASE d = "v1" -> <<Call("rmdir", "pids"), Call("rmdir", "memory"), Call("rmdir", "cpuacct")>>
    [] d = "v2" -> <<Call("rmdir", "unified")>>
    [] d = "prlimit" -> <<Call("rmdir", "groups")>>

\* Where a job sets up its restrictions, in order: hierarchies of the handles in
\* CgroupEnter, or limits of its own.
JoinPlaces(d) ==
  CASE d = "v1" -> <<"cpuacct", "memory", "pids">>
    [] d = "v2" -> <<"unified">>
    [] d = "prlimit" -> <<"data", "nproc", "cpu">>

\* Where the driver reads CPU time and memory from: hierarchies of cgroups v1, ...
UsageV1 == {"cpuacct", "memory"}
\* ... cpu.stat of cgroups v2; the zygote sums up its children under prlimit.
UsageV2 == {"unified"}

\* The driver a caller of create_group uses.
DriverOf(c) == IF c = Probe THEN Configs[tried + 1] ELSE driver

\* The id of its group: smoke_check draws a new one for every configuration.
Group(c) == <<c, IF c = Probe THEN tried ELSE 0>>

-----------------------------------------------------------------------------
(***************************************************************************)
(* create_group.                                                           *)
(***************************************************************************)

Begin(c) ==
  /\ pc' = [pc EXCEPT ![c] = "creating"]
  /\ todo' = [todo EXCEPT ![c] = CreateCalls(DriverOf(c))]
  /\ UNCHANGED <<choice, fs, files, procs>>

\* Driver::new goes on to the next configuration.
TryConfig == pc[Probe] = "new" /\ driver = None /\ tried < Len(Configs) /\ Begin(Probe)

\* LinuxSandbox::create.
Create(s) == pc[s] = "new" /\ driver \in Drivers /\ Begin(s)

\* The next call c makes.
Calling(c, op) == pc[c] = "creating" /\ todo[c] # <<>> /\ Head(todo[c]).op = op
Arg(c)         == Head(todo[c]).arg
Proceed(c)     == todo' = [todo EXCEPT ![c] = Tail(@)]

Mkdir(c) ==
  /\ Calling(c, "mkdir")
  /\ dirs' = dirs \cup {<<Arg(c), Group(c)>>}
  /\ Proceed(c) /\ UNCHANGED <<choice, pc, limits, enabled, files, procs>>

\* The file of a limit is there if its controller is enabled, which in a v2
\* hierarchy is up to the parent.
WriteLimit(c) ==
  /\ Calling(c, "write")
  /\ DriverOf(c) = "v2" => enabled
  /\ limits' = limits \cup {<<Arg(c), Group(c)>>}
  /\ Proceed(c) /\ UNCHANGED <<choice, pc, dirs, enabled, files, procs>>

\* cgroup.subtree_control of the parent; an error is ignored.
Enable(c) ==
  /\ Calling(c, "enable")
  /\ enabled' \in {enabled, TRUE}
  /\ Proceed(c) /\ UNCHANGED <<choice, pc, dirs, limits, files, procs>>

\* The file is opened and duplicated, and into_raw_fd gives up its owner.
Open(c) ==
  /\ Calling(c, "open")
  /\ files' = files \cup {<<"file", Arg(c), Group(c)>>, <<"handle", Arg(c), Group(c)>>}
  /\ Proceed(c) /\ UNCHANGED <<choice, pc, fs, procs>>

\* Prlimit::create_group accepts the group.
Insert(c) ==
  /\ Calling(c, "insert")
  /\ ~ (c \in ManyPids /\ Rootless)
  /\ dirs' = dirs \cup {<<Arg(c), Group(c)>>}
  /\ Proceed(c) /\ UNCHANGED <<choice, pc, limits, enabled, files, procs>>

\* Driver::new notes that the configuration does not work; a sandbox is not created.
GiveUp(c, how) ==
  IF c = Probe THEN pc' = [pc EXCEPT ![c] = "new"] /\ tried' = tried + 1
               ELSE pc' = [pc EXCEPT ![c] = how] /\ UNCHANGED tried

\* Mutant: an error of write_file is ignored like that of subtree_control.
CallFailsSilently(c) ==
  /\ \/ \E op \in {"mkdir", "write", "open"} : Calling(c, op)
     \/ Calling(c, "insert") /\ c \in ManyPids /\ Rootless
  /\ IF Calling(c, "write")
     THEN Proceed(c) /\ UNCHANGED <<tried, pc>>
     ELSE todo' = [todo EXCEPT ![c] = <<>>] /\ GiveUp(c, "failed")
  /\ UNCHANGED <<kinds, driver, fs, files, procs>>

\* A call fails: create_group returns its error and undoes nothing.  A file that
\* was opened but could not be duplicated stays open.
CallFails(c) ==
  /\ \/ \E op \in {"mkdir", "write", "open"} : Calling(c, op)
     \/ Calling(c, "insert") /\ c \in ManyPids /\ Rootless
  /\ files' \in {files} \cup (IF Calling(c, "open")
                              THEN {files \cup {<<"file", Arg(c), Group(c)>>}}
                              ELSE {})
  /\ todo' = [todo EXCEPT ![c] = <<>>]
  /\ GiveUp(c, "failed")
  /\ UNCHANGED <<kinds, driver, fs, procs>>

\* create_group returns its handles.
Created(c) == pc[c] = "creating" /\ todo[c] = <<>>
Handle(c)  == {f \in files : f[1] = "handle" /\ f[3] = Group(c)}

\* Mutant: CgroupEnter has no Drop.
DropHandleForgets(c) == UNCHANGED files

\* CgroupEnter::drop in the host.
DropHandle(c) == files' = files \ Handle(c)

-----------------------------------------------------------------------------
(***************************************************************************)
(* Selection, after the probe group was created.                           *)
(***************************************************************************)

\* check_access writes nothing to each handle, and drops them.
ProbeWorks ==
  /\ Created(Probe)
  /\ driver' = DriverOf(Probe)
  /\ pc' = [pc EXCEPT ![Probe] = "abandoned"]
  /\ DropHandle(Probe)
  /\ UNCHANGED <<kinds, tried, todo, fs, procs>>

\* A handle cannot be written to.
ProbeDenied ==
  /\ Created(Probe) /\ Handle(Probe) # {}
  /\ GiveUp(Probe, "failed")
  /\ DropHandle(Probe)
  /\ UNCHANGED <<kinds, driver, todo, fs, procs>>

\* Error::SelectDriverImpl.
NoneWorks ==
  /\ pc[Probe] = "new" /\ driver = None /\ tried = Len(Configs)
  /\ driver' = "error"
  /\ UNCHANGED <<kinds, tried, pc, todo, fs, files, procs>>

-----------------------------------------------------------------------------
(***************************************************************************)
(* The life of a sandbox.                                                  *)
(***************************************************************************)

\* The zygote has inherited the handles when start_zygote returns; create then
\* drops those of the host.
ZygoteStarted(s) ==
  /\ s \in Boxes /\ Created(s)
  /\ pc' = [pc EXCEPT ![s] = "live"]
  /\ DropHandle(s)
  /\ UNCHANGED <<choice, todo, fs, procs>>

\* start_zygote returns an error: the group stays.
ZygoteFails(s) ==
  /\ s \in Boxes /\ Created(s)
  /\ pc' = [pc EXCEPT ![s] = "abandoned"]
  /\ DropHandle(s)
  /\ UNCHANGED <<choice, todo, fs, procs>>

\* The zygote forks a job.
Spawn(s) ==
  /\ pc[s] = "live" /\ job[s] = "none"
  /\ job' = [job EXCEPT ![s] = "joining"]
  /\ UNCHANGED <<choice, pc, todo, fs, files, confined>>

\* Places that are left for a job to join, by their number, and the next one.
Pending(s) == {i \in DOMAIN JoinPlaces(driver) : JoinPlaces(driver)[i] \notin confined[s]}
Place(s)   == JoinPlaces(driver)[CHOOSE i \in Pending(s) : \A k \in Pending(s) : i <= k]

\* The write of the pid, or setrlimit, succeeds.  The directory is still there.
Join(s) ==
  /\ job[s] = "joining" /\ Pending(s) # {}
  /\ driver = "prlimit" \/ <<Place(s), Group(s)>> \in dirs
  /\ confined' = [confined EXCEPT ![s] = @ \cup {Place(s)}]
  /\ UNCHANGED <<choice, pc, todo, fs, files, job>>

\* "FATAL: failed to setup resource limits": the child exits.
JoinFails(s) ==
  /\ job[s] = "joining" /\ Pending(s) # {}
  /\ job' = [job EXCEPT ![s] = "refused"]
  /\ UNCHANGED <<choice, pc, todo, fs, files, confined>>

Exec(s) ==
  /\ job[s] = "joining" /\ Pending(s) = {}
  /\ job' = [job EXCEPT ![s] = "runs"]
  /\ UNCHANGED <<choice, pc, todo, fs, files, confined>>

\* The job exits, or is killed with its zygote, at any time after that.
Exit(s) ==
  /\ job[s] \in {"joining", "runs"}
  /\ job' = [job EXCEPT ![s] = "dead"]
  /\ UNCHANGED <<choice, pc, todo, fs, files, confined>>

\* LinuxSandbox::drop has sent SIGKILL to the zygote and calls delete_group.
DeleteGroup(s) ==
  /\ pc[s] = "live"
  /\ pc' = [pc EXCEPT ![s] = "deleting"]
  /\ todo' = [todo EXCEPT ![s] = DeleteCalls(driver)]
  /\ UNCHANGED <<choice, fs, files, procs>>

\* A live job is a member of group s in hierarchy h.
Busy(h, s) == job[s] \in {"joining", "runs"} /\ h \in confined[s]

\* One remove_dir, whose result is ignored: the kernel refuses a busy group.
Rmdir(s) ==
  /\ pc[s] = "deleting" /\ todo[s] # <<>>
  /\ dirs' = IF Busy(Arg(s), s) THEN dirs ELSE dirs \ {<<Arg(s), Group(s)>>}
  /\ Proceed(s) /\ UNCHANGED <<choice, pc, limits, enabled, files, procs>>

Deleted(s) ==
  /\ pc[s] = "deleting" /\ todo[s] = <<>>
  /\ pc' = [pc EXCEPT ![s] = "deleted"]
  /\ UNCHANGED <<choice, todo, fs, files, procs>>

-----------------------------------------------------------------------------

Init ==
  /\ kinds \in KindLists
  /\ tried = 0 /\ driver = None
  /\ pc = [c \in Callers |-> "new"] /\ todo = [c \in Callers |-> <<>>]
  /\ dirs = {} /\ limits = {} /\ files = {}
  /\ enabled \in BOOLEAN
  /\ job = [s \in Boxes |-> "none"] /\ confined = [s \in Boxes |-> {}]

\* There is no driver, or every sandbox that was created is gone.
Finished ==
  /\ driver # None
  /\ driver = "error" \/ \A s \in Boxes : pc[s] \in {"failed", "abandoned", "deleted"}
  /\ \A s \in Boxes : job[s] \notin {"joining", "runs"}
  /\ UNCHANGED vars

CreateStep(c) == \/ Mkdir(c) \/ WriteLimit(c) \/ Enable(c) \/ Open(c) \/ Insert(c)
                 \/ CallFails(c)
Select        == TryConfig \/ ProbeWorks \/ ProbeDenied \/ NoneWorks
Life(s)       == \/ Create(s) \/ ZygoteStarted(s) \/ ZygoteFails(s)
                 \/ Spawn(s) \/ Join(s) \/ JoinFails(s) \/ Exec(s) \/ Exit(s)
                 \/ DeleteGroup(s) \/ Rmdir(s) \/ Deleted(s)

Next ==
  \/ Select
  \/ \E c \in Callers : CreateStep(c)
  \/ \E s \in Boxes : Life(s)
  \/ Finished

Spec == Init /\ [][Next]_vars

-----------------------------------------------------------------------------
(***************************************************************************)
(* Properties.                                                             *)
(***************************************************************************)

\* Types of the variables; no more configurations were tried than there are.
TypeOK ==
  /\ kinds \in KindLists /\ tried \in 0..Len(Configs)
  /\ driver \in Drivers \cup {None, "error"}
  /\ pc \in [Callers -> Pcs] /\ DOMAIN todo = Callers
  /\ \A c \in Callers : todo[c] \in Seq([op : STRING, arg : STRING])
  /\ dirs \subseteq STRING \X (Callers \X Nat) /\ limits \subseteq STRING \X (Callers \X Nat)
  /\ enabled \in BOOLEAN
  /\ files \subseteq {"file", "handle"} \X STRING \X (Callers \X Nat)
  /\ job \in [Boxes -> Jobs] /\ \A s \in Boxes : confined[s] \subseteq STRING

\* Where a job must be for a limit to apply to it, and whether the limit of its
\* group was written.
InForce(s, limit) ==
  CASE driver = "v1" -> limit \in confined[s] /\ <<limit, Group(s)>> \in limits
    [] driver = "v2" -> "unified" \in confined[s] /\ <<limit, Group(s)>> \in limits /\ enabled
    [] driver = "prlimit" -> (IF limit = "pids" THEN "nproc" ELSE "data") \in confined[s]

\* Its CPU time and memory are counted where the driver looks for them, or it has
\* a CPU limit of its own.
Measured(s) ==
  CASE driver = "v1" -> UsageV1 \subseteq confined[s]
    [] driver = "v2" -> UsageV2 \subseteq confined[s]
    [] driver = "prlimit" -> "cpu" \in confined[s]

\* A program that runs is under the memory limit and under the process limit of
\* its sandbox, and what it uses can be measured: whichever driver was selected,
\* whichever calls failed, and although create_group ignores an error of
\* subtree_control ("TODO: should we ignore this error?" in cgroup_v2.rs).
Enforced ==
  \A s \in Boxes : job[s] = "runs" =>
    InForce(s, "pids") /\ InForce(s, "memory") /\ Measured(s)

\* When delete_group has returned and no job joined too late or lives too long,
\* nothing of the group is left, in any hierarchy.
NothingLeft ==
  \A s \in Boxes : pc[s] = "deleted" =>
    \A h \in {d[1] : d \in {d \in dirs : d[2] = Group(s)}} : h \in confined[s]

\* Handles with which a process can join a group stay open in the host only
\* while its zygote is started, so no zygote started after that inherits them;
\* a create_group that failed half way is the exception.
HandlesClosed ==
  \A c \in Callers : pc[c] \in {"live", "deleting", "deleted", "abandoned"} => Handle(c) = {}
=============================================================================
