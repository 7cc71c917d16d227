------------------------------- MODULE CApi -------------------------------
(***************************************************************************)
(* The C interface (src/minion-ffi/src/lib.rs) under a C program with      *)
(* several threads: which calls return, which end the program, and how     *)
(* long a sandbox lives.                                                   *)
(*                                                                         *)
(* A sandbox is an Arc.  It is shared by the Sandbox box that the program  *)
(* has, by every ChildProcess it has (LinuxChildProcess::sandbox_ref), and *)
(* by the future inside a call of minion_cp_wait; when the last of them is *)
(* freed LinuxSandbox::drop kills the sandbox.  minion_lib_init installs a *)
(* panic hook that aborts, so every expect and unwrap of the library ends  *)
(* the program.  The program follows the documented contract: a pointer is *)
(* used between its creation and its free, by one call at a time if the    *)
(* call takes it as &mut.                                                  *)
(***************************************************************************)
EXTENDS Integers

CONSTANTS
  Boxes,     \* sandboxes the program creates, each once
  Children,  \* child processes it spawns, each once
  Contexts,  \* how the threads that call are related to a tokio runtime
  Faults,    \* what may fail
  None       \* no sandbox

\* A thread is in no runtime's context, or has entered one that other threads
\* drive, or drives one itself (the call is made from a task).
ASSUME ContextsAssumption == Contexts \subseteq {"none", "entered", "driving"}
ASSUME FaultsAssumption == Faults \subseteq {"setup", "create", "spawn", "build", "reactor"}
ASSUME NoneAssumption == None \notin Boxes

VARIABLES
  backend,   \* "none", "open" or "freed"
  box,       \* box[s]: minion_sandbox_create to minion_sandbox_free
  arc,       \* arc[s]: who shares the LinuxSandbox
  zyg,       \* zyg[s]: its zygote: "none", "up" or "killed"
  cp,        \* cp[c]: minion_cp_spawn to minion_cp_free
  of,        \* of[c]: the sandbox of c
  fd,        \* fd[c]: LinuxChildProcess::fd is still there
  job,       \* job[c]: the process: "none", "running" or "ended"
  wait,      \* wait[c]: "none", or the call of minion_cp_wait that runs or panicked
  told,      \* told[c]: what the calls of minion_cp_wait that returned wrote
  aborted    \* what ended the program, or "no"

boxes    == <<box, arc, zyg>>
children == <<cp, of, fd, job>>
waits    == <<wait, told>>
vars     == <<backend, boxes, children, waits, aborted>>

Box       == <<"box", 0>>
Child(c)  == <<"child", c>>
Future(c) == <<"future", c>>
Sharers   == {Box} \cup ({"child", "future"} \X Children)

\* A call is made: the program runs.
Calls == aborted = "no"

\* What a call of minion_cp_wait waits for: with a timeout or without one.
Modes == {"timed", "untimed"}

\* A panic: the hook aborts at once, and nothing is dropped.
Panic(why) ==
  /\ aborted' = why
  /\ UNCHANGED <<backend, children, waits>>

\* Mutant: the sandbox is killed with the program's box.
ReleaseBox(s, who) ==
  /\ arc' = [arc EXCEPT ![s] = @ \ {who}]
  /\ zyg' = [zyg EXCEPT ![s] = IF who = Box THEN "killed" ELSE @]

\* Mutant: the sandbox that nobody shares any more is not killed.
ReleaseForgets(s, who) == arc' = [arc EXCEPT ![s] = @ \ {who}] /\ UNCHANGED zyg

\* An Arc is dropped; the last one drops the LinuxSandbox.
Release(s, who) ==
  /\ arc' = [arc EXCEPT ![s] = @ \ {who}]
  /\ zyg' = [zyg EXCEPT ![s] = IF arc[s] \subseteq {who} THEN "killed" ELSE @]

-----------------------------------------------------------------------------
(***************************************************************************)
(* Backend and sandboxes.                                                  *)
(***************************************************************************)

\* minion_backend_create; setup may fail, which is reported.
BackendCreate ==
  /\ Calls /\ backend = "none"
  /\ backend' = "open"
  /\ UNCHANGED <<boxes, children, waits, aborted>>

BackendCreateFails ==
  /\ "setup" \in Faults
  /\ Calls /\ backend = "none"
  /\ backend' = "freed"
  /\ UNCHANGED <<boxes, children, waits, aborted>>

\* minion_backend_free: sandboxes keep what they need of it.
BackendFree ==
  /\ Calls /\ backend = "open"
  /\ backend' = "freed"
  /\ UNCHANGED <<boxes, children, waits, aborted>>

\* minion_sandbox_create.  The watchdog is spawned last, when the zygote runs,
\* and tokio::task::spawn panics outside of a runtime.
SandboxCreate(s, thread) ==
  /\ Calls /\ backend = "open" /\ box[s] = "none" /\ thread # "none"
  /\ box' = [box EXCEPT ![s] = "open"]
  /\ arc' = [arc EXCEPT ![s] = {Box}]
  /\ zyg' = [zyg EXCEPT ![s] = "up"]
  /\ UNCHANGED <<backend, children, waits, aborted>>

SandboxCreatePanics(s, thread) ==
  /\ Calls /\ backend = "open" /\ box[s] = "none" /\ thread = "none"
  /\ Panic("runtime")
  /\ zyg' = [zyg EXCEPT ![s] = "up"] /\ UNCHANGED <<box, arc>>

\* new_sandbox returned an error, which is unwrapped.
SandboxCreateFails(s) ==
  /\ "create" \in Faults
  /\ Calls /\ backend = "open" /\ box[s] = "none"
  /\ Panic("create") /\ UNCHANGED boxes

\* minion_sandbox_free.
SandboxFree(s) ==
  /\ Calls /\ box[s] = "open"
  /\ box' = [box EXCEPT ![s] = "freed"]
  /\ Release(s, Box)
  /\ UNCHANGED <<backend, children, waits, aborted>>

\* minion_sandbox_kill, also while other threads wait for its children.
SandboxKill(s) ==
  /\ Calls /\ box[s] = "open" /\ zyg[s] = "up"
  /\ zyg' = [zyg EXCEPT ![s] = "killed"]
  /\ UNCHANGED <<backend, box, arc, children, waits, aborted>>

\* The watchdog kills a sandbox that is over its limits.
WatchdogKills(s) ==
  /\ Calls /\ zyg[s] = "up" /\ arc[s] # {}
  /\ zyg' = [zyg EXCEPT ![s] = "killed"]
  /\ UNCHANGED <<backend, box, arc, children, waits, aborted>>

-----------------------------------------------------------------------------
(***************************************************************************)
(* Child processes.                                                        *)
(***************************************************************************)

\* minion_cp_spawn.
Spawn(c, s) ==
  /\ Calls /\ backend = "open" /\ box[s] = "open" /\ cp[c] = "none" /\ zyg[s] = "up"
  /\ arc' = [arc EXCEPT ![s] = @ \cup {Child(c)}]
  /\ cp' = [cp EXCEPT ![c] = "open"] /\ of' = [of EXCEPT ![c] = s]
  /\ fd' = [fd EXCEPT ![c] = TRUE] /\ job' = [job EXCEPT ![c] = "running"]
  /\ UNCHANGED <<backend, box, zyg, waits, aborted>>

\* The sandbox is gone, or spawn failed otherwise: the error is unwrapped.
SpawnPanics(c, s) ==
  /\ Calls /\ backend = "open" /\ box[s] = "open" /\ cp[c] = "none"
  /\ zyg[s] = "killed" \/ "spawn" \in Faults
  /\ Panic("spawn") /\ UNCHANGED boxes

\* minion_cp_free; nobody waits for the child.
CpFree(c) ==
  /\ Calls /\ cp[c] = "open" /\ wait[c] = "none"
  /\ cp' = [cp EXCEPT ![c] = "freed"]
  /\ fd' = [fd EXCEPT ![c] = FALSE]
  /\ Release(of[c], Child(c))
  /\ UNCHANGED <<backend, box, of, job, waits, aborted>>

\* minion_cp_wait up to block_on: wait_for_exit takes the descriptor out and
\* makes a future that shares the sandbox.
CpWait(c, mode, thread) ==
  /\ Calls /\ cp[c] = "open" /\ wait[c] = "none" /\ fd[c] /\ thread = "entered"
  /\ fd' = [fd EXCEPT ![c] = FALSE]
  /\ wait' = [wait EXCEPT ![c] = mode]
  /\ arc' = [arc EXCEPT ![of[c]] = @ \cup {Future(c)}]
  /\ UNCHANGED <<backend, box, zyg, cp, of, job, told, aborted>>

\* AsyncFd::new fails.  The descriptor is gone.
CpWaitFails(c, thread) ==
  /\ "reactor" \in Faults
  /\ Calls /\ cp[c] = "open" /\ wait[c] = "none" /\ fd[c] /\ thread = "entered"
  /\ fd' = [fd EXCEPT ![c] = FALSE]
  /\ told' = [told EXCEPT ![c] = @ \cup {"Minion"}]
  /\ UNCHANGED <<backend, boxes, cp, of, job, wait, aborted>>

\* Why a call panics, in the order of its statements: its own runtime cannot be
\* built; wait_for_exit expects the descriptor; AsyncFd::new and timeout() want
\* the context of a runtime; block_on must not be called from inside one, nor
\* may the call's runtime be dropped there if AsyncFd::new has failed.
PanicsFor(c, thread) ==
  (IF "build" \in Faults THEN {"build"} ELSE {})
    \cup (IF ~fd[c] THEN {"wait"}
          ELSE IF thread = "none" THEN {"runtime"}
          ELSE IF thread = "driving" THEN {"nested"} ELSE {})

CpWaitPanics(c, thread) ==
  /\ Calls /\ cp[c] = "open" /\ wait[c] = "none"
  /\ aborted' \in PanicsFor(c, thread)
  /\ wait' = [wait EXCEPT ![c] = "panicked"]
  /\ UNCHANGED <<backend, boxes, children, told>>

\* The call returns, and the future is dropped.
Return(c, outcome) ==
  /\ wait' = [wait EXCEPT ![c] = "none"]
  /\ told' = [told EXCEPT ![c] = @ \cup {outcome}]
  /\ Release(of[c], Future(c))
  /\ UNCHANGED <<backend, box, cp, of, job, aborted>>

\* Mutants: a timeout is reported as an exit; only a process that ended counts.
WaitTimeoutExits(c) ==
  /\ Calls /\ wait[c] = "timed"
  /\ Return(c, "Exited") /\ UNCHANGED fd
WaitTimeoutNever(c) ==
  /\ Calls /\ wait[c] = "timed" /\ job[c] = "ended"
  /\ Return(c, "Timeout") /\ UNCHANGED fd

\* The timer fires, maybe before the reactor has seen that the job ended.
WaitTimeout(c) ==
  /\ Calls /\ wait[c] = "timed"
  /\ Return(c, "Timeout") /\ UNCHANGED fd

\* The pidfd is readable and the future gets the exit code, or KILLED.
WaitExited(c) ==
  /\ Calls /\ wait[c] \in Modes /\ job[c] = "ended"
  /\ Return(c, "Exited") /\ UNCHANGED fd

\* The future resolves with an error: the runtime it is registered with shuts down.
WaitBreaks(c) ==
  /\ "reactor" \in Faults
  /\ Calls /\ wait[c] \in Modes
  /\ Return(c, "Minion") /\ UNCHANGED fd

\* A job ends by itself, and one whose sandbox was killed ends.
JobEnds(c) ==
  /\ job[c] = "running"
  /\ job' = [job EXCEPT ![c] = "ended"]
  /\ UNCHANGED <<backend, boxes, cp, of, fd, waits, aborted>>

-----------------------------------------------------------------------------

Init ==
  /\ backend = "none"
  /\ box = [s \in Boxes |-> "none"] /\ arc = [s \in Boxes |-> {}]
  /\ zyg = [s \in Boxes |-> "none"]
  /\ cp = [c \in Children |-> "none"] /\ of = [c \in Children |-> None]
  /\ fd = [c \in Children |-> FALSE] /\ job = [c \in Children |-> "none"]
  /\ wait = [c \in Children |-> "none"] /\ told = [c \in Children |-> {}]
  /\ aborted = "no"

BoxStep(s) ==
  \/ \E thread \in Contexts : SandboxCreate(s, thread) \/ SandboxCreatePanics(s, thread)
  \/ SandboxCreateFails(s) \/ SandboxFree(s) \/ SandboxKill(s) \/ WatchdogKills(s)

ChildStep(c) ==
  \/ \E s \in Boxes : Spawn(c, s) \/ SpawnPanics(c, s)
  \/ \E thread \in Contexts :
       \/ \E mode \in Modes : CpWait(c, mode, thread)
       \/ CpWaitFails(c, thread) \/ CpWaitPanics(c, thread)
  \/ CpFree(c)

WaitStep(c) == WaitTimeout(c) \/ WaitExited(c)

\* The program is no more, or has freed everything.
Finished ==
  /\ \/ aborted # "no"
     \/ backend = "freed" /\ \A s \in Boxes : box[s] # "open"
                          /\ \A c \in Children : cp[c] # "open"
  /\ UNCHANGED vars

Next ==
  \/ BackendCreate \/ BackendCreateFails \/ BackendFree
  \/ \E s \in Boxes : BoxStep(s)
  \/ \E c \in Children : ChildStep(c) \/ WaitStep(c) \/ WaitBreaks(c) \/ JobEnds(c)
  \/ Finished

(***************************************************************************)
(* Jobs of a killed sandbox end.  The runtime a thread that waits has      *)
(* entered is driven by others: AsyncFd::new and tokio::time::timeout      *)
(* register with it before block_on enters the runtime of the call, so a   *)
(* wait that is ready resolves and its timer fires.  An error is not what  *)
(* ends a wait that would not end.  The program need not call anything.    *)
(***************************************************************************)
Fairness ==
  \A c \in Children :
    WF_vars(WaitStep(c)) /\ WF_vars(of[c] \in Boxes /\ zyg[of[c]] = "killed" /\ JobEnds(c))

Spec     == Init /\ [][Next]_vars
FairSpec == Spec /\ Fairness

-----------------------------------------------------------------------------
(* Properties.                                                             *)

\* Every variable has its type.
TypeOK ==
  /\ backend \in {"none", "open", "freed"}
  /\ box \in [Boxes -> {"none", "open", "freed"}]
  /\ arc \in [Boxes -> SUBSET Sharers]
  /\ zyg \in [Boxes -> {"none", "up", "killed"}]
  /\ cp \in [Children -> {"none", "open", "freed"}]
  /\ of \in [Children -> Boxes \cup {None}]
  /\ fd \in [Children -> BOOLEAN]
  /\ job \in [Children -> {"none", "running", "ended"}]
  /\ wait \in [Children -> {"none", "panicked"} \cup Modes]
  /\ told \in [Children -> SUBSET {"Exited", "Timeout", "Minion"}]
  /\ aborted \in {"no", "runtime", "create", "spawn", "build", "wait", "nested"}

\* The pointers the program has into sandbox s.
Pointers(s) == box[s] = "open" \/ \E c \in Children : of[c] = s /\ cp[c] = "open"

\* A program that has freed the sandbox and all of its children leaves nothing
\* running, in whatever order it freed them, waited and timed out.
FreedIsKilled ==
  \A s \in Boxes : aborted = "no" /\ zyg[s] = "up" => Pointers(s)

\* Freeing one pointer does not end what another is used for: a sandbox is
\* killed by a call of kill, by its watchdog, or with its last pointer.
KilledWithReason ==
  [][\A s \in Boxes :
       zyg[s] = "up" /\ zyg'[s] = "killed"
         => SandboxKill(s) \/ WatchdogKills(s) \/ ~Pointers(s)']_vars

\* "Exited" is told only of a process that ended.  A call of minion_cp_wait for a
\* child aborts the program only if an earlier one for the same child returned, be
\* it with Timeout or with an error, unless a runtime could not be built or the
\* thread that calls is in no runtime's context or drives one.
OutcomesTrue ==
  \A c \in Children :
    /\ "Exited" \in told[c] => job[c] = "ended"
    /\ wait[c] = "panicked" => told[c] # {} \/ aborted \in {"build", "runtime", "nested"}

\* minion_cp_wait returns: with a timeout always, without one when the process
\* has ended or the sandbox was killed, by whichever thread, unless the program
\* is aborted.
WaitReturns ==
  \A c \in Children :
    wait[c] = "timed" \/ (wait[c] = "untimed" /\ zyg[of[c]] = "killed")
      ~> wait[c] = "none" \/ aborted # "no"
=============================================================================
