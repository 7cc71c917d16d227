------------------------------ MODULE JobFds ------------------------------
(***************************************************************************)
(* The file descriptors of a job, from the zygote's recv_fds to execve.    *)
(*                                                                         *)
(* process_spawn_query (src/src/linux/zygote/main_loop.rs) receives three  *)
(* stdio descriptors and the extra ones, duplicates them and forks.  The   *)
(* child (do_exec in src/src/linux/zygote.rs) joins the cgroups by writing *)
(* its pid to handles that were opened before the zygote was started,      *)
(* marks everything close-on-exec, and puts the descriptors where the      *)
(* caller wants them with dup2.  Numbers matter: the kernel always gives   *)
(* the lowest free one, and handles are plain numbers that CgroupEnter's   *)
(* Drop closes (src/src/linux/limits/cgroup_common.rs).                    *)
(*                                                                         *)
(* The zygote is single-threaded and its child has a copy of its table, so *)
(* a whole spawn is one step.  Jobs are spawned through pidfds.            *)
(***************************************************************************)
EXTENDS Integers, Sequences, FiniteSets, SequencesExt

CONSTANTS
  Inherited,  \* numbers the zygote has open all the time: 0, 1, 2, its socket, ...
  Handles,    \* lists of numbers that may be in CgroupEnter: one, or one for each
              \* hierarchy, or <<>> under prlimit
  Requests,   \* [stdin, stdout, stderr, names, rw]: the stdio of a job, its extra_fds,
              \* and which of these may be written to
  MaxSpawns   \* bound on the number of spawns

\* InputSpecification and OutputSpecification without Null, which SandboxJobs has.
\* A handle is open for reading or for writing.
InputSpecs  == {"empty", "pipe", "reading", "writing"}
OutputSpecs == {"ignore", "pipe", "buffer", "reading", "writing"}

ASSUME NumbersAssumption ==
  /\ IsFiniteSet(Inherited) /\ Inherited \subseteq Nat /\ 0..2 \subseteq Inherited
  /\ \A hs \in Handles :
       hs \in Seq(Nat) /\ IsInjective(hs) /\ ToSet(hs) \cap Inherited = {}
ASSUME RequestsAssumption ==
  \A r \in Requests :
    /\ r.stdin \in InputSpecs /\ {r.stdout, r.stderr} \subseteq OutputSpecs
    /\ r.names \in Seq(Nat) /\ r.rw \subseteq DOMAIN r.names
ASSUME MaxSpawnsAssumption == MaxSpawns \in Nat

VARIABLES
  fds,     \* the zygote's table: number -> open file
  handles, \* numbers in Zygote::resource_group_enter_handle
  jobs,    \* what became of each spawn, in order
  alive    \* the zygote did not panic

vars == <<fds, handles, jobs, alive>>

\* Open files: what the zygote has anyway, a cgroup's tasks file, and what was
\* passed with a request.
Own(n)       == [of |-> "zygote", job |-> 0, n |-> n]
TasksFile(i) == [of |-> "cgroup", job |-> 0, n |-> i]
Passed(j, i) == [of |-> "job", job |-> j, n |-> i]

-----------------------------------------------------------------------------
(* Tables of descriptors.                                                  *)

Put(t, n, file) == [m \in DOMAIN t \cup {n} |-> IF m = n THEN file ELSE t[m]]
Close(t, S)     == [m \in DOMAIN t \ S |-> t[m]]

\* The number the kernel gives to a new descriptor.
LowestFree(t) ==
  LET n == Cardinality(DOMAIN t)
      free == (0..n) \ DOMAIN t
  IN CHOOSE m \in free : \A k \in free : m <= k

\* A table and the numbers of the descriptors an operation made.
With(t, nums) == [t |-> t, nums |-> nums]

\* FoldLeft of SequencesExt as a recursive function, which proofs can unfold.
Folded(op(_, _), base, s) ==
  LET acc[i \in 0..Len(s)] == IF i = 0 THEN base ELSE op(acc[i - 1], s[i])
  IN acc[Len(s)]

\* recv_fds installs the files in order.
ReceiveOne(acc, file) ==
  LET n == LowestFree(acc.t) IN With(Put(acc.t, n, file), Append(acc.nums, n))

Receive(t, files) == Folded(ReceiveOne, With(t, <<>>), files)

\* Mutant: the original stays open.
DuplicateLeaks(acc, n) ==
  LET d == LowestFree(acc.t) IN With(Put(acc.t, d, acc.t[n]), Append(acc.nums, d))

\* A descriptor is duplicated, and the original is closed when it is overwritten.
DuplicateOne(acc, n) ==
  LET d == LowestFree(acc.t)
  IN With(Close(Put(acc.t, d, acc.t[n]), {n}), Append(acc.nums, d))

Duplicate(t, nums) == Folded(DuplicateOne, With(t, <<>>), nums)

\* dup2 in the child of a move [cur, new]: `keep` are the numbers that are not
\* close-on-exec.  An error is ignored, and dup2 to itself does not clear the flag.
Dup2(p, move) ==
  IF move.cur \notin DOMAIN p.t \/ move.cur = move.new THEN p
  ELSE [t |-> Put(p.t, move.new, p.t[move.cur]), keep |-> p.keep \cup {move.new}]

-----------------------------------------------------------------------------
(* The child.                                                              *)

\* handle_input_io opens /dev/null with File::create for empty, and passes the
\* read end of a pipe.
InputWritable(spec) == spec \in {"empty", "writing"}

\* handle_output_io opens /dev/null for reading to ignore output, and passes the
\* write end of a pipe, or a memfd.
OutputWritable(spec) == spec \in {"pipe", "buffer", "writing"}

\* Descriptors of a request (1 is stdin) that may be written to.
Writable(r) == {i \in 1..(3 + Len(r.names)) :
  CASE i = 1 -> InputWritable(r.stdin)
    [] i = 2 -> OutputWritable(r.stdout)
    [] i = 3 -> OutputWritable(r.stderr)
    [] OTHER -> (i - 3) \in r.rw}

\* A write of the pid to handle h succeeds if something that can be written to
\* is open there.
Writes(t, r, h) ==
  h \in DOMAIN t /\ (t[h].of = "job" => t[h].n \in Writable(r))

\* CgroupEnter::join stops at the first write that fails.
JoinOk(t, r) == \A i \in DOMAIN handles : Writes(t, r, handles[i])

\* The process is in the group of every hierarchy.
InGroups(t) == \A i \in DOMAIN handles :
  handles[i] \in DOMAIN t /\ t[handles[i]] = TasksFile(i)

\* The numbers the program knows its descriptors by: stdio, then the extra ones.
Target(names, i) == IF i <= 3 THEN i - 1 ELSE names[i - 3]

\* Mutant: the extra descriptors come first in the packets.
MovesRotated(nums, names) ==
  LET k == Len(names)
  IN [i \in 1..Len(nums) |->
        [cur |-> nums[IF i <= 3 THEN k + i ELSE i - 3], new |-> Target(names, i)]]

Moves(nums, names) ==
  [i \in 1..Len(nums) |-> [cur |-> nums[i], new |-> Target(names, i)]]

\* Mutant: what is open is not marked close-on-exec.
Exposed(t) == [t |-> Close(t, ToSet(handles)), keep |-> DOMAIN t \ ToSet(handles)]

\* join closed the handles, and everything is close-on-exec.
CloseOnExec(t) == [t |-> Close(t, ToSet(handles)), keep |-> {}]

\* do_exec after join: the descriptors are put in place, and the others do not
\* survive execve.
ExecTable(t, nums, names) ==
  LET placed == Folded(Dup2, CloseOnExec(t), Moves(nums, names))
  IN [n \in placed.keep |-> placed.t[n]]

\* What the child does with the zygote's table: it keeps a copy of stderr for
\* messages, and runs the program, or exits with 1 because the resource limits
\* could not be set up.
Child(zyg, nums, r) ==
  LET t == Put(zyg, LowestFree(zyg), zyg[2])
  IN IF JoinOk(t, r)
     THEN [ran |-> TRUE, confined |-> InGroups(t), names |-> r.names, nums |-> nums,
           table |-> ExecTable(t, nums, r.names)]
     ELSE [ran |-> FALSE, confined |-> FALSE, names |-> r.names, nums |-> nums,
           table |-> <<>>]

-----------------------------------------------------------------------------

\* process_spawn_query and spawn_job.  When spawn_job returns in the zygote it
\* drops the job's stdio, then the clone of the enter handle, then the extra
\* descriptors.  CgroupEnter ignores what close returns, Fd panics: the zygote
\* dies if an extra descriptor had the number of a handle.
Spawn(r) ==
  LET j     == Len(jobs) + 1
      files == [i \in 1..(3 + Len(r.names)) |-> Passed(j, i)]
      got   == Receive(fds, files)
      dup   == Duplicate(got.t, got.nums)
  IN /\ alive
     /\ j <= MaxSpawns
     /\ jobs' = Append(jobs, Child(dup.t, dup.nums, r))
     /\ fds' = Close(dup.t, ToSet(dup.nums) \cup ToSet(handles))
     /\ alive' = \A i \in DOMAIN dup.nums : i > 3 => dup.nums[i] \notin ToSet(handles)
     /\ UNCHANGED handles

\* The bound on spawns is reached, or the zygote is gone.
Enough == (Len(jobs) = MaxSpawns \/ ~alive) /\ UNCHANGED vars

\* Mutant: the enter handle is dropped before the zygote is forked.
InitWithoutHandles ==
  /\ fds = [n \in Inherited |-> Own(n)]
  /\ handles \in Handles
  /\ jobs = <<>>
  /\ alive = TRUE

\* entry: the zygote inherited the handles with everything else.
Init ==
  /\ handles \in Handles
  /\ fds = [n \in Inherited \cup ToSet(handles) |->
              IF n \in Inherited THEN Own(n)
              ELSE TasksFile(CHOOSE i \in DOMAIN handles : handles[i] = n)]
  /\ jobs = <<>>
  /\ alive = TRUE

Next == (\E r \in Requests : Spawn(r)) \/ Enough

Spec == Init /\ [][Next]_vars

-----------------------------------------------------------------------------
(***************************************************************************)
(* Properties.                                                             *)
(***************************************************************************)

File == [of : {"zygote", "cgroup", "job"}, job : Nat, n : Nat]

\* Tables hold open files under valid numbers, finitely many.
TypeOK ==
  /\ IsFiniteSet(DOMAIN fds) /\ DOMAIN fds \subseteq Nat
  /\ \A n \in DOMAIN fds : fds[n] \in File
  /\ handles \in Handles /\ alive \in BOOLEAN
  /\ \A j \in DOMAIN jobs :
       /\ \A n \in DOMAIN jobs[j].table : jobs[j].table[n] \in File
       /\ jobs[j].nums \in Seq(Nat)

\* The caller's numbers clash neither with each other, nor with stdio, nor with
\* the numbers the descriptors have in the zygote, and none of these is the
\* number of a handle that was closed.
Apart(job) ==
  /\ IsInjective(job.names)
  /\ ToSet(job.names) \cap (0..2 \cup ToSet(job.nums)) = {}
  /\ ToSet(job.nums) \cap ToSet(handles) = {}

\* A program has exactly the descriptors its caller gave it, under the numbers
\* the caller knows them by (minion-tests: "verifies that handle inheritance
\* works"), if these are apart from the zygote's.
GotItsFds(j, job) ==
  job.ran /\ Apart(job) =>
    /\ DOMAIN job.table = 0..2 \cup ToSet(job.names)
    /\ \A i \in 1..3 : job.table[i - 1] = Passed(j, i)
    /\ \A i \in DOMAIN job.names : job.table[job.names[i]] = Passed(j, 3 + i)
JobGetsItsFds == \A j \in DOMAIN jobs : GotItsFds(j, jobs[j])

\* Whatever numbers the caller chose, no descriptor of the zygote, of another
\* job or of a cgroup is exposed to the program (zygote.rs: "mark all FDs as
\* CLOEXEC for not to expose them to sandboxed process").
NothingExposed ==
  \A j \in DOMAIN jobs : \A n \in DOMAIN jobs[j].table :
    jobs[j].table[n].of = "job" /\ jobs[j].table[n].job = j

\* A spawn leaves no descriptor behind in the zygote, and takes none of its own.
ZygoteKeepsItsFds == \A n \in DOMAIN fds \cup Inherited : n \in DOMAIN fds /\ fds[n].of # "job"

\* The first program of a sandbox is in every group, or does not run at all.
FirstJobConfined == jobs # <<>> /\ jobs[1].ran => jobs[1].confined

\* Fd owns its number (fd.rs: "Represents owned file descriptor"), so closing it
\* should not fail and the zygote not panic.  It only does over a descriptor that
\* was passed after the first job's clone of the handles closed them.
PanicsOnlyLater ==
  ~alive => handles # <<>> /\ Len(jobs) > 1 /\ jobs[Len(jobs)].names # <<>>

\* The cgroup handles do for the first spawn what they are for, whatever
\* descriptors it comes with: its program is confined, and closing them is safe.
FirstSpawnServed == FirstJobConfined /\ PanicsOnlyLater

\* "Must return Err if enforcement failed" (limits.rs, EnterHandle::join): a
\* program that runs is in the groups of its sandbox.
JoinEnforces == \A j \in DOMAIN jobs : jobs[j].ran => jobs[j].confined
=============================================================================
