------------------------------- MODULE Stdio -------------------------------
(***************************************************************************)
(* The pipes between programs that use the library and their jobs, and the *)
(* runtime both the programs and the watchdogs run on.                     *)
(*                                                                         *)
(* For a piped stdio item the host opens a pipe, keeps one end and passes  *)
(* a duplicate of the other to the zygote (src/src/linux.rs, handle_*_io   *)
(* and spawn).  A reader sees the end of file when no process has a write  *)
(* end open.  Zygotes are forked from the host and never call execve, so   *)
(* close-on-exec does not help: a zygote has a copy of every end that was  *)
(* open in the host when it was forked, until it dies.                     *)
(*                                                                         *)
(* Clients are the command line tool, the worker of the tests, and a       *)
(* program that reads before it waits.  They are tasks of a tokio runtime  *)
(* with `workers` threads.  Reads and writes of the library block the      *)
(* thread; the wait future does not.  The watchdog of a sandbox is a task  *)
(* of the same runtime: its timer is noticed when a thread is free.        *)
(***************************************************************************)
EXTENDS Integers, FiniteSets

CONSTANTS
  Boxes,      \* sandboxes, each with a client task of its own
  Plans,      \* what clients do: a subset of AllPlans
  Outputs,    \* stdout of jobs: a subset of {"pipe", "buffer"}
  Sizes,      \* buffer(size): sizes of buffers, 0 for unbounded_buffer()
  Workers,    \* possible numbers of threads of the runtime
  Capacity,   \* what a pipe holds
  MaxOut      \* bound: the most a job writes

\* "cli" passes its own stdio and waits (minion-cli), "wait_read" waits and
\* then reads (minion-tests), "read_wait" reads to the end and then waits.
AllPlans == {"cli", "wait_read", "read_wait"}

ASSUME PlansAssumption == Plans \subseteq AllPlans /\ Outputs \subseteq {"pipe", "buffer"}
ASSUME BoundsAssumption ==
  /\ Workers \subseteq Nat \ {0} /\ Sizes \subseteq Nat
  /\ Capacity \in Nat \ {0} /\ MaxOut \in Nat

VARIABLES
  workers,  \* threads of the runtime
  plan,     \* plan[b]: what the client of b does
  output,   \* output[b]: what stdout of b's job is, "none" for the client's own
  size,     \* size[b]: what a buffer is truncated to before anything is written
  pc,       \* pc[b]: where the client is
  holds,    \* holds[p]: the ends process p has open
  zyg,      \* zyg[b]: "none", "alive" or "dead"
  job,      \* job[b]: "none", "running", "reading", "fed" (saw the end), "ended"
  child,    \* child[b]: a process the job forked runs
  wd,       \* wd[b]: the watchdog: "none", "sleep", "kill" or "done"
  written,  \* written[b]: how much the job wrote
  got,      \* got[b]: how much of it the client read
  nul,      \* nul[b]: how many NUL bytes of the buffer it read that nobody wrote
  file,     \* file[b]: the positions of the buffer that the job wrote
  offset    \* offset[b]: the offset of the buffer, which both sides share

program == <<workers, plan, output, size>>
stream  == <<written, got, nul, file, offset>>
vars    == <<program, pc, holds, zyg, job, child, wd, stream>>

Zygote(b) == <<"zygote", b>>
Job(b)    == <<"job", b>>
Child(b)  == <<"child", b>>
Host      == <<"host", "host">>
Processes == {Host} \cup ({"zygote", "job", "child"} \X Boxes)

End(b, name) == <<b, name>>
Ends         == Boxes \X {"in_r", "in_w", "out_r", "out_w"}
JobEnds(b)   == {End(b, "in_r"), End(b, "out_w")}
HostEnds(b)  == {End(b, "in_w"), End(b, "out_r")}

Held(e) == \E p \in Processes : e \in holds[p]

\* Threads of the runtime that run or are blocked by a client.
OffThread == {"new", "waiting", "done"}
Busy == Cardinality({b \in Boxes : pc[b] \notin OffThread})
ThreadFree == Busy < workers

Goto(b, from, to) == pc[b] = from /\ pc' = [pc EXCEPT ![b] = to]

Close(p, ends) == [holds EXCEPT ![p] = @ \ ends]

-----------------------------------------------------------------------------
(***************************************************************************)
(* The client.                                                             *)
(***************************************************************************)

\* The task is scheduled, and new_sandbox forks a zygote with every end the
\* host has open.
NewSandbox(b) ==
  /\ ThreadFree /\ Goto(b, "new", "created")
  /\ zyg' = [zyg EXCEPT ![b] = "alive"]
  /\ wd' = [wd EXCEPT ![b] = "sleep"]
  /\ holds' = [holds EXCEPT ![Zygote(b)] = holds[Host]]
  /\ UNCHANGED <<program, job, child, stream>>

\* handle_input_io and handle_output_io.  They are one step: a zygote that is
\* forked in between has fewer ends than one forked after both.
OpenedEnds(b) ==
  (IF plan[b] = "read_wait" THEN {End(b, "in_r"), End(b, "in_w")} ELSE {})
    \cup (IF output[b] # "none" THEN {End(b, "out_r"), End(b, "out_w")} ELSE {})

OpenStdio(b) ==
  /\ Goto(b, "created", "io_open")
  /\ holds' = [holds EXCEPT ![Host] = @ \cup OpenedEnds(b)]
  /\ UNCHANGED <<program, zyg, job, child, wd, stream>>

\* spawn_job: the zygote starts the job, which keeps only what is meant for it.
SpawnJob(b) ==
  /\ zyg[b] = "alive" /\ Goto(b, "io_open", "spawned")
  /\ job' = [job EXCEPT ![b] = "running"]
  /\ holds' = [holds EXCEPT ![Job(b)] = holds[Host] \cap JobEnds(b)]
  /\ UNCHANGED <<program, zyg, child, wd, stream>>

\* spawn_job fails: the sandbox was killed.  All ends are dropped.
SpawnFails(b) ==
  /\ zyg[b] = "dead" /\ Goto(b, "io_open", "drop")
  /\ holds' = Close(Host, JobEnds(b) \cup HostEnds(b))
  /\ UNCHANGED <<program, zyg, job, child, wd, stream>>

\* Mutant: the job's ends stay open in the host.
SpawnReturnsOpen(b) ==
  /\ Goto(b, "spawned", "use")
  /\ UNCHANGED <<program, holds, zyg, job, child, wd, stream>>

\* spawn returns: the ExtendedJobQuery was dropped, and the job's ends with it.
SpawnReturns(b) ==
  /\ Goto(b, "spawned", "use")
  /\ holds' = Close(Host, JobEnds(b))
  /\ UNCHANGED <<program, zyg, job, child, wd, stream>>

\* The client has nothing (more) to write and drops its LinuxWritePipe.
CloseStdin(b) ==
  /\ Goto(b, "use", IF plan[b] = "read_wait" THEN "read" ELSE "waiting")
  /\ holds' = Close(Host, {End(b, "in_w")})
  /\ UNCHANGED <<program, zyg, job, child, wd, stream>>

\* Where a client goes from reading and from waiting.
AfterRead(b) == IF plan[b] = "read_wait" THEN "waiting" ELSE "drop"
AfterWait(b) == IF plan[b] = "wait_read" THEN "read" ELSE "drop"

\* LinuxReadPipe::read.  A buffer is as long as it was made or was written, and is
\* read where the job's next byte would go.
InFile(b, i) == i < size[b] \/ \E j \in file[b] : i <= j
Readable(b) == IF output[b] = "pipe" THEN got[b] < written[b] ELSE InFile(b, offset[b])

Advance(b) == IF output[b] = "buffer" THEN [offset EXCEPT ![b] = @ + 1] ELSE offset

Read(b) ==
  /\ pc[b] = "read" /\ Readable(b)
  /\ IF output[b] = "pipe" \/ offset[b] \in file[b]
     THEN got' = [got EXCEPT ![b] = @ + 1] /\ UNCHANGED nul
     ELSE nul' = [nul EXCEPT ![b] = @ + 1] /\ UNCHANGED got
  /\ offset' = Advance(b)
  /\ UNCHANGED <<program, pc, holds, zyg, job, child, wd, written, file>>

\* Mutant: an empty pipe is taken for its end.
ReadEndEmpty(b) ==
  /\ ~Readable(b)
  /\ Goto(b, "read", AfterRead(b))
  /\ UNCHANGED <<program, holds, zyg, job, child, wd, stream>>

\* read returns 0: nothing is left, and nobody can write to the pipe.
ReadEnd(b) ==
  /\ ~Readable(b) /\ (output[b] = "pipe" => ~Held(End(b, "out_w")))
  /\ Goto(b, "read", AfterRead(b))
  /\ UNCHANGED <<program, holds, zyg, job, child, wd, stream>>

\* The wait future resolves: the job ended, or its sandbox was killed.
WaitResolves(b) ==
  /\ ThreadFree /\ job[b] = "ended"
  /\ Goto(b, "waiting", AfterWait(b))
  /\ UNCHANGED <<program, holds, zyg, job, child, wd, stream>>

\* The processes of b end, and their descriptors are closed.
Ended(b, more) ==
  /\ zyg' = [zyg EXCEPT ![b] = IF zyg[b] = "alive" THEN "dead" ELSE @]
  /\ job' = [job EXCEPT ![b] = IF @ = "none" THEN "none" ELSE "ended"]
  /\ child' = [child EXCEPT ![b] = FALSE]
  /\ holds' = [p \in Processes |-> IF p \in {Zygote(b), Job(b), Child(b)} THEN {}
                                   ELSE IF p = Host THEN holds[p] \ more ELSE holds[p]]

\* The child process and the sandbox are dropped, which kills the sandbox.
DropAll(b) ==
  /\ Goto(b, "drop", "done")
  /\ Ended(b, JobEnds(b) \cup HostEnds(b))
  /\ wd' = [wd EXCEPT ![b] = IF @ = "sleep" THEN "done" ELSE @]
  /\ UNCHANGED <<program, stream>>

-----------------------------------------------------------------------------
(***************************************************************************)
(* The job and the watchdog.                                               *)
(***************************************************************************)

\* The processes of b that run and can write to its stdout.
Writers(b) ==
  {p \in {Job(b), Child(b)} :
     /\ End(b, "out_w") \in holds[p]
     /\ p = Job(b) => job[b] # "reading"}

\* The job reads its stdin, and later sees the end of it.
JobReads(b) ==
  /\ job[b] = "running" /\ End(b, "in_r") \in holds[Job(b)]
  /\ job' = [job EXCEPT ![b] = "reading"]
  /\ UNCHANGED <<program, pc, holds, zyg, child, wd, stream>>

JobSeesEnd(b) ==
  /\ job[b] = "reading" /\ ~Held(End(b, "in_w"))
  /\ job' = [job EXCEPT ![b] = "fed"]
  /\ UNCHANGED <<program, pc, holds, zyg, child, wd, stream>>

\* It writes, and blocks when the pipe is full.  A buffer is a file: a write
\* goes to the shared offset, and may go past the size the buffer was given.
JobWrites(b) ==
  /\ Writers(b) # {} /\ written[b] < MaxOut
  /\ output[b] = "pipe" => Held(End(b, "out_r")) /\ written[b] - got[b] < Capacity
  /\ written' = [written EXCEPT ![b] = @ + 1]
  /\ file' = IF output[b] = "buffer" THEN [file EXCEPT ![b] = @ \cup {offset[b]}] ELSE file
  /\ offset' = Advance(b)
  /\ UNCHANGED <<program, pc, holds, zyg, job, child, wd, got, nul>>

\* A descendant matters for the ends it inherits.
JobForks(b) ==
  /\ job[b] \in {"running", "fed"} /\ ~child[b] /\ holds[Job(b)] # {}
  /\ child' = [child EXCEPT ![b] = TRUE]
  /\ holds' = [holds EXCEPT ![Child(b)] = holds[Job(b)]]
  /\ UNCHANGED <<program, pc, zyg, job, wd, stream>>

JobExits(b) ==
  /\ job[b] \in {"running", "fed"}
  /\ job' = [job EXCEPT ![b] = "ended"]
  /\ holds' = [holds EXCEPT ![Job(b)] = {}]
  /\ UNCHANGED <<program, pc, zyg, child, wd, stream>>

ChildExits(b) ==
  /\ child[b]
  /\ child' = [child EXCEPT ![b] = FALSE]
  /\ holds' = [holds EXCEPT ![Child(b)] = {}]
  /\ UNCHANGED <<program, pc, zyg, job, wd, stream>>

\* The watchdog's timer fires and the wall-clock limit has passed.  The task
\* needs a thread; measuring and killing are done on the blocking pool.
WatchdogWakes(b) ==
  /\ wd[b] = "sleep" /\ ThreadFree
  /\ wd' = [wd EXCEPT ![b] = "kill"]
  /\ UNCHANGED <<program, pc, holds, zyg, job, child, stream>>

\* Mutant: only the zygote's job is killed.
WatchdogKillsJob(b) ==
  /\ wd[b] = "kill"
  /\ wd' = [wd EXCEPT ![b] = "done"]
  /\ job' = [job EXCEPT ![b] = IF @ = "none" THEN "none" ELSE "ended"]
  /\ holds' = [holds EXCEPT ![Job(b)] = {}]
  /\ UNCHANGED <<program, pc, zyg, child, stream>>

WatchdogKills(b) ==
  /\ wd[b] = "kill"
  /\ wd' = [wd EXCEPT ![b] = "done"]
  /\ Ended(b, {})
  /\ UNCHANGED <<program, pc, stream>>

-----------------------------------------------------------------------------

\* Clients of "wait_read" read nothing in (their job's stdin is empty).
Init ==
  /\ workers \in Workers
  /\ plan \in [Boxes -> Plans]
  /\ output \in [Boxes -> Outputs \cup {"none"}]
  /\ size \in [Boxes -> Sizes \cup {0}]
  /\ \A b \in Boxes : /\ output[b] = "none" <=> plan[b] = "cli"
                      /\ size[b] # 0 => output[b] = "buffer"
  /\ pc = [b \in Boxes |-> "new"]
  /\ holds = [p \in Processes |-> {}]
  /\ zyg = [b \in Boxes |-> "none"] /\ job = [b \in Boxes |-> "none"]
  /\ child = [b \in Boxes |-> FALSE] /\ wd = [b \in Boxes |-> "none"]
  /\ written = [b \in Boxes |-> 0] /\ got = [b \in Boxes |-> 0]
  /\ nul = [b \in Boxes |-> 0] /\ file = [b \in Boxes |-> {}]
  /\ offset = [b \in Boxes |-> 0]

ClientStep(b) ==
  \/ OpenStdio(b) \/ SpawnJob(b) \/ SpawnFails(b)
  \/ SpawnReturns(b) \/ CloseStdin(b) \/ Read(b) \/ ReadEnd(b)
  \/ WaitResolves(b) \/ DropAll(b)

JobStep(b) ==
  \/ JobReads(b) \/ JobSeesEnd(b) \/ JobWrites(b) \/ JobForks(b)
  \/ JobExits(b) \/ ChildExits(b)

WatchdogStep(b) == WatchdogWakes(b) \/ WatchdogKills(b)

Finished == (\A b \in Boxes : pc[b] = "done" /\ wd[b] = "done") /\ UNCHANGED vars

Next ==
  \/ \E b \in Boxes : NewSandbox(b) \/ ClientStep(b) \/ JobStep(b) \/ WatchdogStep(b)
  \/ Finished

(***************************************************************************)
(* A scheduled client goes on, a task that is ready runs when a thread is  *)
(* free, timers fire.  A job that reads sees the end of file.  Jobs need   *)
(* not do anything else, and need not end.                                 *)
(***************************************************************************)
Fairness ==
  \A b \in Boxes : /\ WF_vars(ClientStep(b)) /\ WF_vars(JobSeesEnd(b))
                   /\ WF_vars(WatchdogStep(b))

Spec     == Init /\ [][Next]_vars
FairSpec == Spec /\ Fairness

-----------------------------------------------------------------------------
(* Properties.                                                             *)

\* Every variable has its type, and nothing is read that was not written.
TypeOK ==
  /\ workers \in Workers /\ plan \in [Boxes -> AllPlans]
  /\ output \in [Boxes -> {"none", "pipe", "buffer"}] /\ size \in [Boxes -> Nat]
  /\ pc \in [Boxes -> {"new", "created", "io_open", "spawned", "use",
                       "read", "waiting", "drop", "done"}]
  /\ holds \in [Processes -> SUBSET Ends]
  /\ zyg \in [Boxes -> {"none", "alive", "dead"}]
  /\ job \in [Boxes -> {"none", "running", "reading", "fed", "ended"}]
  /\ child \in [Boxes -> BOOLEAN]
  /\ wd \in [Boxes -> {"none", "sleep", "kill", "done"}]
  /\ written \in [Boxes -> 0..MaxOut] /\ got \in [Boxes -> 0..MaxOut]
  /\ nul \in [Boxes -> Nat] /\ file \in [Boxes -> SUBSET Nat] /\ offset \in [Boxes -> Nat]
  /\ \A b \in Boxes : got[b] <= written[b]

\* The client has read its job's stdout to the end.
HasRead(b) == \/ plan[b] = "read_wait" /\ pc[b] \in {"waiting", "drop", "done"}
              \/ plan[b] = "wait_read" /\ pc[b] \in {"drop", "done"}

\* "Returns readable stream, connected to child stdout" (lib.rs): a client that
\* was told that the stream is at its end has what the job and its descendants
\* wrote, all of it, and they cannot write any more, also when the watchdog
\* killed them in the middle.  Buffers are an exception: the duplicate of the
\* memfd that the job gets shares its offset, which is behind all that was
\* written, so that a reader gets none of it.  What is read to the end of a
\* buffer that was given a size are NUL bytes, for what the job did not fill.
WholeOutput ==
  \A b \in Boxes :
    IF output[b] = "buffer"
    THEN got[b] = 0 /\ (HasRead(b) /\ job[b] # "none" => written[b] + nul[b] >= size[b])
    ELSE HasRead(b) => got[b] = written[b] /\ Writers(b) = {}

\* A zygote that was forked while the end was open in the host has it.
Stray(e) == \E c \in Boxes : e \in holds[Zygote(c)]

\* When the job and what it forked have ended, its reader sees the end of
\* file, unless a zygote that another client had started in between has it.
OutputEnds ==
  \A b \in Boxes :
    pc[b] = "read" /\ job[b] = "ended" /\ ~child[b] /\ ~Stray(End(b, "out_w"))
      ~> pc[b] # "read"

\* When the client has dropped its end, a job that reads its stdin sees the end
\* of file, with the same exception, however many threads the runtime has.
InputEnds ==
  \A b \in Boxes :
    job[b] = "reading" /\ End(b, "in_w") \notin holds[Host] /\ ~Stray(End(b, "in_w"))
      ~> job[b] # "reading"

\* Neither side of a pipe waits for an end of file that does not come.
EndsSeen == OutputEnds /\ InputEnds

\* Stray ends delay clients and never block them for good: which zygote has
\* whose ends has no cycle, and every sandbox ends at its wall-clock limit.
\* That needs a runtime with more threads than clients that read: a blocked
\* read stops the watchdog that would end it.  Clients that only wait, as
\* minion-cli, need one thread.
ClientFinishes ==
  (workers > Cardinality(Boxes) \/ \A b \in Boxes : plan[b] = "cli")
    => \A b \in Boxes : pc[b] = "created" ~> pc[b] = "done"

=============================================================================
