---------------------------- MODULE SandboxJobs ----------------------------
(***************************************************************************)
(* One running sandbox: the host threads that use it and the zygote that   *)
(* serves them.                                                            *)
(*                                                                         *)
(* A host thread reaches the zygote through `with_zygote`                  *)
(* (src/src/linux/sandbox.rs): a mutex around Option<ZygoteInfo>, held for *)
(* a whole request and its answer.  Requests travel over a SEQPACKET       *)
(* socket pair as packets (src/src/linux/ipc.rs): a header naming the      *)
(* message type, a body, and packets that carry at most FdChunkSize file   *)
(* descriptors.  The zygote (src/src/linux/zygote/main_loop.rs) is one     *)
(* process that answers requests in order, forks the jobs and keeps a      *)
(* Task for each job whose exit code was not asked for yet.  Killing the   *)
(* sandbox takes the ZygoteInfo out of the mutex; its Drop sends SIGKILL   *)
(* to the zygote, and the kernel then kills the zygote's PID namespace.    *)
(*                                                                         *)
(* Serialisation is abstracted to the type and the one number of a message *)
(* that decides something; a blocking call is a step that is not enabled.  *)
(***************************************************************************)
EXTENDS Integers, Sequences, FiniteSets

CONSTANTS
  Clients,         \* threads that spawn one job each and wait for it
  Meters,          \* threads that ask once for the resource usage (prlimit)
  Killers,         \* threads that call Sandbox::kill, or the watchdog
  Pids,            \* process identifiers of the sandbox's PID namespace
  Requests,        \* [stdio, extra]: how many stdio and extra fds are passed
  Statuses,        \* exit codes of jobs
  KilledStatus,    \* SIGNALLED + SIGKILL, what a job ended by the kernel has
  KILLED,          \* ExitCode::KILLED
  FdChunkSize,     \* FD_CHUNK_SIZE
  PidfdSupported,  \* check::pidfd_supported()
  Faults,          \* the system-call failures and crashes that may happen
  None             \* no thread, no value

AllFaults == {"emsgsize", "badfd", "emfile", "fork", "crash"}

Threads == Clients \cup Meters \cup Killers

ASSUME ThreadsAssumption ==
  /\ Clients \cap Meters = {} /\ Clients \cap Killers = {}
  /\ Meters \cap Killers = {}
  /\ None \notin Threads
ASSUME ValuesAssumption ==
  /\ Pids \subseteq Nat /\ Statuses \subseteq Int
  /\ KilledStatus \in Int /\ KILLED \in Int
  /\ KILLED \notin Statuses \cup {KilledStatus}
  /\ None \notin Int
ASSUME RequestsAssumption == Requests \subseteq [stdio : 0..3, extra : Nat]
ASSUME FdChunkSizeAssumption == FdChunkSize \in Nat \ {0}
ASSUME FaultsAssumption == PidfdSupported \in BOOLEAN /\ Faults \subseteq AllFaults

VARIABLES
  owner,    \* the thread that holds the zygote mutex, or None
  info,     \* the mutex holds Some(ZygoteInfo)
  pc,       \* where each thread is
  req,      \* the request of a client that has not passed its fds yet
  child,    \* LinuxChildProcess of each client
  toZyg,    \* packets sent to the zygote and not received yet
  toHost,   \* packets sent to the host and not received yet
  sockErr,  \* ECONNRESET is pending on the host's socket
  zpc,      \* where the zygote is
  zwant,    \* sizes of the fd packets the zygote still waits for
  tasks,    \* Zygote::tasks
  sigkill,  \* SIGKILL is pending for the zygote
  procs,    \* every process the zygote forked, in order
  written   \* jobs whose notification pipe was written (without pidfd)

host   == <<owner, info, pc, req, child>>
socket == <<toZyg, toHost, sockErr>>
zygote == <<zpc, zwant, tasks, sigkill>>
kernel == <<procs, written>>
vars   == <<host, socket, zygote, kernel>>

NoRequest == [stdio |-> 0, extra |-> 0]
NoChild   == [pid |-> None, job |-> None, code |-> None]

(* ------------------------------ packets -------------------------------- *)

Hdr(ty)     == [k |-> "hdr", ty |-> ty, v |-> 0]
Body(ty, v) == [k |-> "body", ty |-> ty, v |-> v]
Fds(n)      == [k |-> "fds", ty |-> "fds", v |-> n]

\* What Socket::send puts on the wire: the header, then the body.
Message(hty, bty, v) == <<Hdr(hty), Body(bty, v)>>

\* Sizes of the packets n descriptors are split into.
Chunks(n) ==
  [i \in 1..((n + FdChunkSize - 1) \div FdChunkSize) |->
     IF i * FdChunkSize <= n THEN FdChunkSize ELSE n % FdChunkSize]

FdPackets(n) == [i \in 1..Len(Chunks(n)) |-> Fds(Chunks(n)[i])]

ZygotePcs  == {"recv", "body", "fds", "panicked", "bad_query", "failed", "killed"}

\* The zygote serves, and its end of the socket is open.
Open == zpc \in {"recv", "body", "fds"}

\* The zygote process, first process of the PID namespace, is gone.  A panic
\* is one way: the hook set by setup_panic_hook calls exit.
Exited == ~Open

Running(q) == procs[q].st = "running"

-----------------------------------------------------------------------------
(***************************************************************************)
(* The host.                                                               *)
(***************************************************************************)

Goto(t, label) == pc' = [pc EXCEPT ![t] = label]

\* Leave with_zygote with thread t at label.
Release(t, label) == owner' = None /\ Goto(t, label)

\* with_zygote when nobody holds the mutex and the sandbox is not killed.
CanEnter(t) == owner = None /\ info

\* A request is sent: it arrives if the zygote's end is open; otherwise the
\* call fails and consumes the pending error.
Post(packets) ==
  IF Open THEN toZyg' = toZyg \o packets /\ sockErr' = sockErr
          ELSE toZyg' = toZyg /\ sockErr' = FALSE

\* spawn_job finds None in the mutex: Error::SandboxGone.
SpawnRefused(c) ==
  /\ pc[c] = "idle" /\ owner = None /\ ~info
  /\ Goto(c, "refused")
  /\ UNCHANGED <<owner, info, req, child, socket, zygote, kernel>>

\* spawn_job sends Query::Spawn.
SpawnQuery(c, r) ==
  /\ pc[c] = "idle" /\ CanEnter(c)
  /\ IF Open THEN /\ owner' = c
                  /\ Goto(c, "send_fds")
                  /\ req' = [req EXCEPT ![c] = r]
             ELSE Release(c, "failed") /\ req' = req
  /\ Post(Message("Query", "Spawn", r.extra))
  /\ UNCHANGED <<info, child, toHost, zygote, kernel>>

\* The body does not fit a packet: only the header was sent.
SpawnQueryTooLong(c) ==
  /\ "emsgsize" \in Faults
  /\ pc[c] = "idle" /\ CanEnter(c) /\ Open
  /\ Release(c, "failed")
  /\ Post(<<Hdr("Query")>>)
  /\ UNCHANGED <<info, req, child, toHost, zygote, kernel>>

\* spawn_job passes the descriptors that are there (None ones are dropped by
\* flatten).  Nothing is sent, and nothing can fail, when there are none.
SpawnSendFds(c) ==
  LET packets == FdPackets(req[c].stdio + req[c].extra)
  IN /\ pc[c] = "send_fds"
     /\ IF Open \/ packets = <<>>
          THEN owner' = owner /\ Goto(c, "info")
          ELSE Release(c, "failed")
     /\ IF packets = <<>> THEN UNCHANGED <<toZyg, sockErr>> ELSE Post(packets)
     /\ req' = [req EXCEPT ![c] = NoRequest]
     /\ UNCHANGED <<info, child, toHost, zygote, kernel>>

\* One of the descriptors is not valid: sendmsg fails with EBADF after the
\* packets before it were sent.
SpawnSendFdsFails(c) ==
  LET packets == FdPackets(req[c].stdio + req[c].extra)
  IN /\ "badfd" \in Faults
     /\ pc[c] = "send_fds" /\ Open /\ packets # <<>>
     /\ Release(c, "failed")
     /\ \E n \in 0..(Len(packets) - 1) : Post(SubSeq(packets, 1, n))
     /\ req' = [req EXCEPT ![c] = NoRequest]
     /\ UNCHANGED <<info, child, toHost, zygote, kernel>>

\* Socket::recv::<T>: the answer is there, ...
Answered(ty) == ~sockErr /\ Len(toHost) >= 2 /\ toHost[1] = Hdr(ty)
\* ... or the type identifier of what was read is not T's.  At end of file
\* nothing is read and the identifier is 0.
WrongType(ty) ==
  /\ ~sockErr
  /\ IF toHost = <<>> THEN ~Open ELSE toHost[1] # Hdr(ty)

\* The type of the answer each waiting thread expects.
Expected == [info |-> "JobStartupInfo", exit_code |-> "i64",
             usage |-> "ResourceUsageInformation"]

SpawnRecvInfo(c) ==
  /\ pc[c] = "info" /\ Answered("JobStartupInfo")
  /\ child' = [child EXCEPT ![c].pid = toHost[2].v]
  /\ toHost' = SubSeq(toHost, 3, Len(toHost))
  /\ Goto(c, "event")
  /\ UNCHANGED <<owner, info, req, toZyg, sockErr, zygote, kernel>>

\* recv_fds(1): the pidfd, or the read end of the notification pipe.
SpawnRecvEvent(c) ==
  /\ pc[c] = "event" /\ ~sockErr /\ toHost # <<>> /\ toHost[1].k = "fds"
  /\ child' = [child EXCEPT ![c].job = toHost[1].v]
  /\ toHost' = Tail(toHost)
  /\ Release(c, "child")
  /\ UNCHANGED <<info, req, toZyg, sockErr, zygote, kernel>>

\* recv_fds(1) fails: the connection was reset or is at its end, or the host
\* has no free descriptor and the kernel drops the one that was passed.
SpawnEventFails(c) ==
  /\ pc[c] = "event"
  /\ sockErr \/ (toHost = <<>> /\ ~Open) \/ (toHost # <<>> /\ "emfile" \in Faults)
  /\ sockErr' = FALSE
  /\ toHost' = IF sockErr \/ toHost = <<>> THEN toHost ELSE Tail(toHost)
  /\ Release(c, "failed")
  /\ UNCHANGED <<info, req, child, toZyg, zygote, kernel>>

\* Mutants: the job is never seen to end; it is taken for ended at once.
EventReadyNever(c)  == child[c].job \in written
EventReadyAlways(c) == child[c].job # None

\* WaitFuture::poll has something to do: the job ended (pidfd), its
\* notification was written, or the zygote's end of the pipe was closed.
EventReady(c) ==
  IF PidfdSupported THEN ~Running(child[c].job)
                    ELSE child[c].job \in written \/ ~Open

\* Mutants: the mutex is released before the answer is read; a mutex that is
\* busy is taken for a sandbox that is gone.
PollUnlocked(c) ==
  /\ pc[c] = "child" /\ EventReady(c) /\ CanEnter(c)
  /\ Goto(c, "exit_code")
  /\ Post(Message("Query", "GetExitCode", child[c].pid))
  /\ UNCHANGED <<owner, info, req, child, toHost, zygote, kernel>>
PollTryLock(c) ==
  /\ pc[c] = "child" /\ EventReady(c)
  /\ IF info /\ owner = None
       THEN /\ owner' = c /\ Goto(c, "exit_code")
            /\ Post(Message("Query", "GetExitCode", child[c].pid))
            /\ child' = child
       ELSE /\ owner' = owner /\ Goto(c, "done")
            /\ child' = [child EXCEPT ![c].code = KILLED]
            /\ UNCHANGED <<toZyg, sockErr>>
  /\ UNCHANGED <<info, req, toHost, zygote, kernel>>

\* WaitFuture::poll calls get_exit_code, which ignores a failed send.
Poll(c) ==
  /\ pc[c] = "child" /\ EventReady(c) /\ owner = None
  /\ IF info
       THEN /\ owner' = c /\ Goto(c, "exit_code")
            /\ Post(Message("Query", "GetExitCode", child[c].pid))
            /\ child' = child
       ELSE /\ owner' = owner /\ Goto(c, "done")
            /\ child' = [child EXCEPT ![c].code = KILLED]
            /\ UNCHANGED <<toZyg, sockErr>>
  /\ UNCHANGED <<info, req, toHost, zygote, kernel>>

WaitRecv(c) ==
  /\ pc[c] = "exit_code" /\ Answered("i64")
  /\ child' = [child EXCEPT ![c].code = toHost[2].v]
  /\ toHost' = SubSeq(toHost, 3, Len(toHost))
  /\ Release(c, "done")
  /\ UNCHANGED <<info, req, toZyg, sockErr, zygote, kernel>>

\* get_exit_code turns an error into ExitCode::KILLED.
WaitRecvFails(c) ==
  /\ pc[c] = "exit_code" /\ sockErr
  /\ child' = [child EXCEPT ![c].code = KILLED]
  /\ sockErr' = FALSE
  /\ Release(c, "done")
  /\ UNCHANGED <<info, req, toZyg, toHost, zygote, kernel>>

\* The LinuxChildProcess or its WaitFuture is dropped; nobody tells the zygote.
DropChild(c) ==
  /\ pc[c] = "child"
  /\ Goto(c, "dropped")
  /\ UNCHANGED <<owner, info, req, child, socket, zygote, kernel>>

\* Prlimit::resource_usage.
MeterGone(m) ==
  /\ pc[m] = "idle" /\ owner = None /\ ~info
  /\ Goto(m, "refused")
  /\ UNCHANGED <<owner, info, req, child, socket, zygote, kernel>>

MeterQuery(m) ==
  /\ pc[m] = "idle" /\ CanEnter(m)
  /\ IF Open THEN owner' = m /\ Goto(m, "usage") ELSE Release(m, "failed")
  /\ Post(Message("Query", "GetResourceUsage", 0))
  /\ UNCHANGED <<info, req, child, toHost, zygote, kernel>>

MeterRecv(m) ==
  /\ pc[m] = "usage" /\ Answered("ResourceUsageInformation")
  /\ toHost' = SubSeq(toHost, 3, Len(toHost))
  /\ Release(m, "done")
  /\ UNCHANGED <<info, req, child, toZyg, sockErr, zygote, kernel>>

\* The connection was reset: spawn_job and resource_usage return the error.
RecvFails(t) ==
  /\ pc[t] \in {"info", "usage"} /\ sockErr
  /\ sockErr' = FALSE
  /\ Release(t, "failed")
  /\ UNCHANGED <<info, req, child, toZyg, toHost, zygote, kernel>>

\* assert_eq!(id, typeid::<T>()) in Socket::recv fails; unwinding unlocks.
RecvPanics(t) ==
  /\ pc[t] \in DOMAIN Expected /\ WrongType(Expected[pc[t]])
  /\ toHost' = IF toHost = <<>> THEN toHost ELSE Tail(toHost)
  /\ Release(t, "panicked")
  /\ UNCHANGED <<info, req, child, toZyg, sockErr, zygote, kernel>>

\* Sandbox::kill (or the watchdog) is called, ...
KillCall(k) ==
  /\ pc[k] = "idle"
  /\ Goto(k, "calling")
  /\ UNCHANGED <<owner, info, req, child, socket, zygote, kernel>>

\* Mutants: the mutex is not locked; the ZygoteInfo is forgotten, not dropped.
KillUnlocked(k) ==
  /\ pc[k] = "calling"
  /\ info' = FALSE
  /\ Goto(k, "killed")
  /\ sigkill' = (sigkill \/ info)
  /\ toHost' = <<>> /\ sockErr' = FALSE
  /\ UNCHANGED <<owner, req, child, toZyg, zpc, zwant, tasks, kernel>>
KillForgets(k) ==
  /\ pc[k] = "calling" /\ owner = None
  /\ info' = FALSE
  /\ Goto(k, "killed")
  /\ toHost' = <<>> /\ sockErr' = FALSE
  /\ UNCHANGED <<owner, req, child, toZyg, zygote, kernel>>

\* ... locks the mutex and takes the ZygoteInfo out.  Dropping it sends
\* SIGKILL and closes the socket.
Kill(k) ==
  /\ pc[k] = "calling" /\ owner = None
  /\ info' = FALSE
  /\ Goto(k, "killed")
  /\ sigkill' = (sigkill \/ info)
  /\ toHost' = <<>> /\ sockErr' = FALSE
  /\ UNCHANGED <<owner, req, child, toZyg, zpc, zwant, tasks, kernel>>

-----------------------------------------------------------------------------
(***************************************************************************)
(* The zygote.                                                             *)
(***************************************************************************)

\* Append to the host's queue, which exists until the sandbox is killed.  The
\* zygote inherited the host's end as well, so its sends never fail.
Reply(packets) == toHost' = IF info THEN toHost \o packets ELSE toHost

\* The zygote stops serving with unread packets `rest` in its queue: the
\* host's next call on the socket fails with ECONNRESET if there are any.
Stop(label, rest) ==
  /\ zpc' = label
  /\ toZyg' = <<>>
  /\ sockErr' = (sockErr \/ (info /\ rest # <<>>))

\* Mutant: the entry is emptied and stays where it is.
SwapRemoveHole(s, i) ==
  [s EXCEPT ![i] = [pid |-> None, job |-> 0, code |-> None]]

\* tasks[i] is replaced by the last task (Vec::swap_remove).
SwapRemove(s, i) ==
  [j \in 1..(Len(s) - 1) |-> IF j = i THEN s[Len(s)] ELSE s[j]]

\* Positions of the tasks with this pid; the code looks at the first.
TasksOf(pid) == {i \in DOMAIN tasks : tasks[i].pid = pid}
First(S)     == CHOOSE i \in S : \A j \in S : i <= j

\* Processes a waitpid call can name: not reaped yet.
Children == {q \in DOMAIN procs : procs[q].st # "reaped"}
Zombies  == {q \in Children : procs[q].st = "zombie"}

\* What select waits for in run_loop_legacy.
FdSet == {"sock"} \cup (IF PidfdSupported THEN {"sig_fd"} ELSE {})

Readable(fd) == IF fd = "sock" THEN toZyg # <<>> ELSE Zombies # {}

\* reap_children: every zombie is waited for; its tasks get the exit code and
\* their notification is written.
ReapChildren ==
  /\ procs' = [q \in DOMAIN procs |->
                 IF q \in Zombies THEN [procs[q] EXCEPT !.st = "reaped"] ELSE procs[q]]
  /\ tasks' = [i \in DOMAIN tasks |->
                 IF \E q \in Zombies : procs[q].pid = tasks[i].pid
                   THEN [tasks[i] EXCEPT !.code =
                           procs[CHOOSE q \in Zombies : procs[q].pid = tasks[i].pid].status]
                   ELSE tasks[i]]
  /\ written' = written \cup {tasks[i].job : i \in {j \in DOMAIN tasks :
                               \E q \in Zombies : procs[q].pid = tasks[j].pid}}

\* handle_one_request receives the header.
RecvHeader ==
  /\ IF Head(toZyg) = Hdr("Query")
       THEN zpc' = "body" /\ toZyg' = Tail(toZyg) /\ sockErr' = sockErr
       ELSE Stop("panicked", Tail(toZyg))

\* One turn of run_loop_pidfd (blocks in recv) or run_loop_legacy (select).
ZygoteIterate ==
  LET ready == {fd \in IF PidfdSupported THEN {"sock"} ELSE FdSet : Readable(fd)}
  IN /\ zpc = "recv" /\ ready # {}
     /\ IF "sig_fd" \in ready THEN ReapChildren ELSE UNCHANGED <<tasks, kernel>>
     /\ IF "sock" \in ready THEN RecvHeader ELSE UNCHANGED <<zpc, toZyg, sockErr>>
     /\ UNCHANGED <<host, toHost, zwant, sigkill>>

\* The packet after a header, if the zygote waits for one.
Incoming(ty) == zpc = "body" /\ toZyg # <<>> /\ toZyg[1].k = "body" /\ toZyg[1].ty = ty

\* The body cannot be parsed: exit with BAD_QUERY.
ZygoteBadQuery ==
  /\ zpc = "body" /\ toZyg # <<>> /\ toZyg[1].k # "body"
  /\ Stop("bad_query", Tail(toZyg))
  /\ UNCHANGED <<host, toHost, zwant, tasks, sigkill, kernel>>

\* Mutant: only the stdio descriptors are waited for.
ZygoteGotSpawnStdio ==
  /\ Incoming("Spawn")
  /\ zpc' = "fds"
  /\ zwant' = Chunks(3)
  /\ toZyg' = Tail(toZyg)
  /\ UNCHANGED <<host, toHost, sockErr, tasks, sigkill, kernel>>

\* process_spawn_query, up to recv_fds: 3 descriptors for stdio and the extra ones.
ZygoteGotSpawn ==
  /\ Incoming("Spawn")
  /\ zpc' = "fds"
  /\ zwant' = Chunks(3 + toZyg[1].v)
  /\ toZyg' = Tail(toZyg)
  /\ UNCHANGED <<host, toHost, sockErr, tasks, sigkill, kernel>>

\* Mutant: packets that carry something else are skipped.
ZygoteRecvFdsSkips ==
  /\ zpc = "fds" /\ zwant # <<>> /\ toZyg # <<>>
  /\ zwant' = IF toZyg[1] = Fds(zwant[1]) THEN Tail(zwant) ELSE zwant
  /\ toZyg' = Tail(toZyg)
  /\ UNCHANGED <<host, zpc, toHost, sockErr, tasks, sigkill, kernel>>

\* recv_fds: every packet must carry exactly the expected number.
ZygoteRecvFds ==
  /\ zpc = "fds" /\ zwant # <<>> /\ toZyg # <<>>
  /\ IF toZyg[1] = Fds(zwant[1])
       THEN /\ zwant' = Tail(zwant) /\ toZyg' = Tail(toZyg)
            /\ UNCHANGED <<zpc, sockErr>>
       ELSE Stop("panicked", Tail(toZyg)) /\ zwant' = <<>>
  /\ UNCHANGED <<host, toHost, tasks, sigkill, kernel>>

\* process_spawn_query after recv_fds: fork, remember the task, answer.  The
\* kernel gives the job a pid no process of the namespace has.
ZygoteSpawn ==
  /\ zpc = "fds" /\ zwant = <<>>
  /\ \E pid \in Pids \ {procs[q].pid : q \in Children} :
       LET job == Len(procs) + 1
       IN /\ procs' = Append(procs, [pid |-> pid, st |-> "running",
                                     status |-> None, by |-> owner])
          /\ tasks' = Append(tasks, [pid |-> pid, job |-> job, code |-> None])
          /\ Reply(Append(Message("JobStartupInfo", "JobStartupInfo", pid), Fds(job)))
  /\ zpc' = "recv"
  /\ UNCHANGED <<host, toZyg, sockErr, zwant, sigkill, written>>

\* dup, fork, pidfd_open or pipe2 fails: every one of them is an expect.
ZygoteSpawnFails ==
  /\ "fork" \in Faults
  /\ zpc = "fds" /\ zwant = <<>>
  /\ Stop("panicked", toZyg)
  /\ UNCHANGED <<host, toHost, zwant, tasks, sigkill, kernel>>

\* Mutant: waitpid(-1, WNOHANG), any finished child.
ZygoteWaitedAny(pid, rest) ==
  \E q \in Zombies :
    /\ procs' = [procs EXCEPT ![q].st = "reaped"]
    /\ Reply(Message("i64", "i64", procs[q].status))
    /\ zpc' = "recv" /\ toZyg' = rest /\ sockErr' = sockErr

\* waitpid(pid, WNOHANG) found a finished child: its code is the answer.
ZygoteWaited(pid, rest) ==
  \E q \in Zombies :
    /\ procs[q].pid = pid
    /\ procs' = [procs EXCEPT ![q].st = "reaped"]
    /\ Reply(Message("i64", "i64", procs[q].status))
    /\ zpc' = "recv" /\ toZyg' = rest /\ sockErr' = sockErr

\* process_get_exit_code_query.  A pid without a task is a panic (expect), a
\* child that still runs is one too (unreachable), a pid that is not a child
\* is ECHILD and ends the main loop.
ZygoteGetExitCode ==
  LET pid  == toZyg[1].v
      rest == Tail(toZyg)
      task == tasks[First(TasksOf(pid))]
      named == {q \in Children : procs[q].pid = pid}
  IN /\ Incoming("GetExitCode")
     /\ IF TasksOf(pid) = {}
          THEN Stop("panicked", rest) /\ UNCHANGED <<tasks, procs, toHost>>
          ELSE /\ tasks' = SwapRemove(tasks, First(TasksOf(pid)))
               /\ IF task.code # None
                    THEN /\ Reply(Message("i64", "i64", task.code))
                         /\ zpc' = "recv" /\ toZyg' = rest
                         /\ UNCHANGED <<procs, sockErr>>
                    ELSE IF named \cap Zombies # {}
                    THEN ZygoteWaited(pid, rest)
                    ELSE /\ Stop(IF named = {} THEN "failed" ELSE "panicked", rest)
                         /\ UNCHANGED <<procs, toHost>>
     /\ UNCHANGED <<host, zwant, sigkill, written>>

\* process_resource_usage_query.
ZygoteResourceUsage ==
  /\ Incoming("GetResourceUsage")
  /\ Reply(Message("ResourceUsageInformation", "ResourceUsageInformation", 0))
  /\ zpc' = "recv" /\ toZyg' = Tail(toZyg)
  /\ UNCHANGED <<host, sockErr, zwant, tasks, sigkill, kernel>>

ZygoteStep ==
  \/ ZygoteIterate \/ ZygoteBadQuery \/ ZygoteGotSpawn \/ ZygoteRecvFds
  \/ ZygoteSpawn \/ ZygoteGetExitCode \/ ZygoteResourceUsage

-----------------------------------------------------------------------------
(***************************************************************************)
(* The kernel and the jobs.                                                *)
(***************************************************************************)

\* A job ends by itself, by a signal, or on a resource limit.
JobExit(q) ==
  /\ Running(q)
  /\ \E s \in Statuses : procs' = [procs EXCEPT ![q].st = "zombie", ![q].status = s]
  /\ UNCHANGED <<host, socket, zygote, written>>

\* SIGKILL is delivered to the zygote.
ZygoteDies ==
  /\ sigkill /\ ~Exited
  /\ Stop("killed", toZyg)
  /\ UNCHANGED <<host, toHost, zwant, tasks, sigkill, kernel>>

\* The zygote is killed by something else (the OOM killer, an administrator).
ZygoteCrash ==
  /\ "crash" \in Faults /\ ~Exited
  /\ Stop("killed", toZyg)
  /\ UNCHANGED <<host, toHost, zwant, tasks, sigkill, kernel>>

\* The first process of a PID namespace is gone: the kernel kills the others.
NamespaceTeardown ==
  /\ Exited /\ Children # {}
  /\ procs' = [q \in DOMAIN procs |->
                 [procs[q] EXCEPT !.st = "reaped",
                                  !.status = IF @ = None THEN KilledStatus ELSE @]]
  /\ UNCHANGED <<host, socket, zygote, written>>

-----------------------------------------------------------------------------

Init ==
  /\ owner = None /\ info = TRUE
  /\ pc = [t \in Threads |-> "idle"]
  /\ req = [c \in Clients |-> NoRequest]
  /\ child = [c \in Clients |-> NoChild]
  /\ toZyg = <<>> /\ toHost = <<>> /\ sockErr = FALSE
  /\ zpc = "recv" /\ zwant = <<>> /\ tasks = <<>> /\ sigkill = FALSE
  /\ procs = <<>> /\ written = {}

ClientStep(c) ==
  \/ SpawnRefused(c)
  \/ \E r \in Requests : SpawnQuery(c, r)
  \/ SpawnQueryTooLong(c)
  \/ SpawnSendFds(c) \/ SpawnSendFdsFails(c)
  \/ SpawnRecvInfo(c) \/ SpawnRecvEvent(c) \/ SpawnEventFails(c)
  \/ Poll(c) \/ WaitRecv(c) \/ WaitRecvFails(c) \/ DropChild(c)

\* The steps of a client that holds the mutex, or that gave up holding it.
ClientContinues(c) ==
  \/ SpawnSendFds(c) \/ SpawnRecvInfo(c) \/ SpawnRecvEvent(c) \/ SpawnEventFails(c)
  \/ WaitRecv(c) \/ WaitRecvFails(c) \/ RecvFails(c) \/ RecvPanics(c)

MeterStep(m)  == MeterGone(m) \/ MeterQuery(m) \/ MeterRecv(m)
MeterContinues(m) == MeterRecv(m) \/ RecvFails(m) \/ RecvPanics(m)
KillerStep(k) == KillCall(k) \/ Kill(k)

\* Nothing is left to do for any thread.
Quiescent ==
  /\ \A t \in Threads : pc[t] \in {"refused", "failed", "panicked", "done", "dropped", "killed"}
  /\ UNCHANGED vars

Next ==
  \/ \E c \in Clients : ClientStep(c)
  \/ \E m \in Meters : MeterStep(m)
  \/ \E t \in Clients \cup Meters : RecvFails(t) \/ RecvPanics(t)
  \/ \E k \in Killers : KillerStep(k)
  \/ ZygoteStep \/ ZygoteSpawnFails
  \/ \E q \in DOMAIN procs : JobExit(q)
  \/ ZygoteDies \/ ZygoteCrash \/ NamespaceTeardown
  \/ Quiescent

(***************************************************************************)
(* Every thread that is inside a request goes on, the zygote serves and    *)
(* the kernel acts.  parking_lot hands a contended mutex over eventually,  *)
(* so a thread that wants it is not overtaken for ever.  Jobs need not     *)
(* end, and nobody has to call anything.                                   *)
(***************************************************************************)
Fairness ==
  /\ \A c \in Clients : WF_vars(ClientContinues(c)) /\ SF_vars(Poll(c))
  /\ \A m \in Meters : WF_vars(MeterContinues(m))
  /\ \A k \in Killers : SF_vars(Kill(k))
  /\ WF_vars(ZygoteStep) /\ WF_vars(ZygoteDies) /\ WF_vars(NamespaceTeardown)

Spec == Init /\ [][Next]_vars
FairSpec == Spec /\ Fairness

-----------------------------------------------------------------------------
(***************************************************************************)
(* Properties.                                                             *)
(***************************************************************************)

Packet == [k : {"hdr", "body", "fds"},
           ty : {"Query", "Spawn", "GetExitCode", "GetResourceUsage", "fds",
                 "JobStartupInfo", "i64", "ResourceUsageInformation"},
           v : Int]

ThreadPcs == {"idle", "send_fds", "info", "event", "child", "exit_code", "usage",
              "calling", "refused", "failed", "panicked", "done", "dropped", "killed"}

Process == [pid : Pids, st : {"running", "zombie", "reaped"},
            status : Int \cup {None}, by : Threads \cup {None}]

Task == [pid : Pids, job : Nat, code : Int \cup {None}]

HostType ==
  /\ owner \in Threads \cup {None} /\ info \in BOOLEAN
  /\ pc \in [Threads -> ThreadPcs]
  /\ req \in [Clients -> [stdio : 0..3, extra : Nat]]
  /\ child \in [Clients -> [pid : Int \cup {None}, job : Int \cup {None},
                            code : Int \cup {None}]]
SocketType == toZyg \in Seq(Packet) /\ toHost \in Seq(Packet) /\ sockErr \in BOOLEAN
ZygoteType == /\ zpc \in ZygotePcs /\ zwant \in Seq(Int)
              /\ tasks \in Seq(Task) /\ sigkill \in BOOLEAN
KernelType == procs \in Seq(Process) /\ written \subseteq Nat

\* Every variable has its type; in particular tasks, a Vec in the code, stays
\* a sequence when an entry is taken out of its middle.
TypeOK == HostType /\ SocketType /\ ZygoteType /\ KernelType

\* Whatever fails, wait_for_exit gives a client the exit code of the very
\* process its spawn started, and only after that process ended, or KILLED
\* (lib.rs: "Future that resolves when process exited").
ExitCodeExact ==
  \A c \in Clients :
    LET code == child[c].code
        job  == child[c].job
    IN code \notin {None, KILLED} =>
         /\ procs[job].by = c
         /\ procs[job].status = code

\* KILLED is an answer only if somebody killed the sandbox or the zygote no
\* longer serves it.
KilledOnlyIfGone ==
  \A c \in Clients : child[c].code = KILLED => ~info \/ ~Open

\* Between requests the two ends agree where they are in the stream: the
\* zygote expects a header and no packet is on its way, in either direction.
InSync ==
  owner = None /\ info => /\ zpc = "recv"
                          /\ toZyg = <<>> /\ toHost = <<>>

\* When no system call fails, no expect, assert, unwrap or unreachable of the
\* zygote or of the host fires, and no request fails.
NeverFails ==
  /\ zpc \notin {"panicked", "bad_query", "failed"}
  /\ \A t \in Threads : pc[t] \notin {"panicked", "failed"}

\* Every request that holds the mutex ends, so nobody is locked out for ever.
RequestReturns == \A t \in Threads : owner = t ~> owner # t

\* "Kills all processes in sandbox" (lib.rs): after a call of kill there
\* comes a time when no process of the sandbox runs.
KillTakesEffect ==
  \A k \in Killers :
    pc[k] = "calling" ~> pc[k] = "killed" /\ \A q \in DOMAIN procs : ~Running(q)

\* The wait future of a client whose process has ended resolves, unless the
\* client drops it.
WaitResolves ==
  \A c \in Clients :
    pc[c] = "child" /\ ~Running(child[c].job) ~> pc[c] # "child"
=============================================================================
