------------------------- MODULE SandboxJobsProofs -------------------------
(***************************************************************************)
(* Theorems about SandboxJobs, for every value of its constants.           *)
(***************************************************************************)
EXTENDS SandboxJobs, SandboxJobsService, TLAPS

\* A process that ended has an exit status, so the zygote never answers a
\* query with a missing number.
EndedHasStatus == \A q \in DOMAIN procs : procs[q].st = "zombie" => procs[q].status \in Int

\* A client that has, or is about to get, its child process knows its pid.
HandleHasPid ==
  \A c \in Clients : pc[c] \in {"event", "child", "exit_code"} => child[c].pid \in Int

TypeInv == TypeOK /\ EndedHasStatus /\ HandleHasPid

\* Every task stands for a process the zygote forked and, while the zygote
\* lives, has not waited for.
TasksAreChildren ==
  \A i \in DOMAIN tasks :
    /\ tasks[i].job \in DOMAIN procs
    /\ procs[tasks[i].job].pid = tasks[i].pid
    /\ tasks[i].code = None
    /\ ~Exited => procs[tasks[i].job].st # "reaped"

\* No two processes that were not waited for share a pid ...
ChildPidsUnique ==
  \A q, r \in Children : procs[q].pid = procs[r].pid => q = r

\* ... and no two tasks do, so that looking a task up by its pid is exact.
TasksUnique ==
  \A i, j \in DOMAIN tasks : tasks[i].pid = tasks[j].pid => i = j

TaskInv == TasksAreChildren /\ ChildPidsUnique /\ TasksUnique

(***************************************************************************)
(* Descriptors are split into packets with a size each.                    *)
(***************************************************************************)
LEMMA ChunksType ==
  ASSUME NEW n \in Int
  PROVE  /\ Chunks(n) \in Seq(Int)
         /\ FdPackets(n) \in Seq(Packet)
<1> DEFINE k == (n + FdChunkSize - 1) \div FdChunkSize
           l == IF k < 0 THEN 0 ELSE k
<1>1. k \in Int /\ l \in Nat /\ 1..k = 1..l
  BY FdChunkSizeAssumption
<1>2. \A i \in 1..k : (IF i * FdChunkSize <= n THEN FdChunkSize ELSE n % FdChunkSize) \in Int
  BY FdChunkSizeAssumption, <1>1
<1>3. Chunks(n) \in [1..k -> Int]
  BY <1>2 DEF Chunks
<1>4. Chunks(n) \in Seq(Int)
  BY <1>1, <1>3
<1>5. FdPackets(n) \in [1..Len(Chunks(n)) -> Packet]
  BY <1>4 DEF FdPackets, Fds, Packet
<1>6. Len(Chunks(n)) \in Nat
  BY <1>4
<1> QED
  BY <1>4, <1>5, <1>6

LEMMA MessageType ==
  ASSUME NEW v \in Int
  PROVE  /\ Message("Query", "Spawn", v) \in Seq(Packet)
         /\ Message("Query", "GetExitCode", v) \in Seq(Packet)
         /\ Message("Query", "GetResourceUsage", v) \in Seq(Packet)
         /\ Message("i64", "i64", v) \in Seq(Packet)
         /\ Message("ResourceUsageInformation", "ResourceUsageInformation", v) \in Seq(Packet)
         /\ Message("JobStartupInfo", "JobStartupInfo", v) \in Seq(Packet)
         /\ <<Hdr("Query")>> \in Seq(Packet)
         /\ Fds(v) \in Packet
BY DEF Message, Hdr, Body, Fds, Packet

\* Sending keeps the queue and the error flag well typed.
LEMMA PostType ==
  ASSUME SocketType, NEW p \in Seq(Packet), Post(p)
  PROVE  toZyg' \in Seq(Packet) /\ sockErr' \in BOOLEAN
<1>1. toZyg \in Seq(Packet) /\ sockErr \in BOOLEAN
  BY DEF SocketType
<1>2. toZyg \o p \in Seq(Packet)
  BY <1>1
<1> QED
  BY <1>1, <1>2 DEF Post

LEMMA TypeInit == Init => TypeInv
<1> SUFFICES ASSUME Init PROVE TypeInv
  OBVIOUS
<1>1. req \in [Clients -> [stdio : 0..3, extra : Nat]]
  BY DEF Init, NoRequest
<1>2. child \in [Clients -> [pid : Int \cup {None}, job : Int \cup {None},
                            code : Int \cup {None}]]
  BY DEF Init, NoChild
<1>3. pc \in [Threads -> ThreadPcs]
  BY DEF Init, ThreadPcs
<1>4. HostType
  BY <1>1, <1>2, <1>3 DEF Init, HostType
<1>5. SocketType
  <2>1. toZyg \in Seq(Packet) /\ toHost \in Seq(Packet)
    BY DEF Init
  <2> QED
    BY <2>1 DEF Init, SocketType
<1>6. ZygoteType
  <2>1. zwant \in Seq(Int) /\ tasks \in Seq(Task)
    BY DEF Init
  <2> QED
    BY <2>1 DEF Init, ZygoteType, ZygotePcs
<1>7. KernelType
  <2>1. procs \in Seq(Process)
    BY DEF Init
  <2> QED
    BY <2>1 DEF Init, KernelType
<1>8. EndedHasStatus /\ HandleHasPid
  BY DEF Init, EndedHasStatus, HandleHasPid, Threads
<1> QED
  BY <1>4, <1>5, <1>6, <1>7, <1>8 DEF TypeInv, TypeOK

\* What is left of a queue when packets are taken from its front, and the
\* packets themselves, are well typed.
LEMMA TakeType ==
  ASSUME NEW s \in Seq(Packet), s # <<>>
  PROVE  /\ Tail(s) \in Seq(Packet)
         /\ Len(s) >= 2 => SubSeq(s, 3, Len(s)) \in Seq(Packet) /\ s[2].v \in Int
         /\ s[1].v \in Int
<1>1. Tail(s) \in Seq(Packet)
  OBVIOUS
<1>2. s[1] \in Packet /\ (Len(s) >= 2 => s[2] \in Packet)
  OBVIOUS
<1>3. ASSUME Len(s) >= 2 PROVE SubSeq(s, 3, Len(s)) \in Seq(Packet)
  <2>1. \A i \in 3..Len(s) : s[i] \in Packet
    OBVIOUS
  <2> QED
    BY <2>1, <1>3
<1> QED
  BY <1>1, <1>2, <1>3 DEF Packet

\* Host threads touch the host's state and the socket, never the processes.
LEMMA ClientType ==
  ASSUME TypeInv, NEW c \in Clients, ClientStep(c)
  PROVE  HostType' /\ SocketType'
<1> USE DEF TypeInv, TypeOK
<1> c \in Threads
  BY DEF Threads
<1>1. ASSUME SpawnRefused(c) PROVE HostType' /\ SocketType'
  BY <1>1 DEF SpawnRefused, Goto, HostType, SocketType, socket, ThreadPcs
<1>2. ASSUME NEW r \in Requests, SpawnQuery(c, r) PROVE HostType' /\ SocketType'
  <2>1. r \in [stdio : 0..3, extra : Nat]
    BY RequestsAssumption
  <2>2. HostType'
    BY <1>2, <2>1 DEF SpawnQuery, Goto, Release, HostType, ThreadPcs
  <2>3. Message("Query", "Spawn", r.extra) \in Seq(Packet)
    BY <2>1, MessageType
  <2>4. SocketType'
    BY <1>2, <2>3, PostType DEF SpawnQuery, SocketType
  <2> QED
    BY <2>2, <2>4
<1>3. ASSUME SpawnQueryTooLong(c) PROVE HostType' /\ SocketType'
  <2>1. HostType'
    BY <1>3 DEF SpawnQueryTooLong, Goto, Release, HostType, ThreadPcs
  <2>2. SocketType'
    BY <1>3, MessageType, PostType, 0 \in Int DEF SpawnQueryTooLong, SocketType
  <2> QED
    BY <2>1, <2>2
<1>4. ASSUME SpawnSendFds(c) PROVE HostType' /\ SocketType'
  <2> DEFINE n == req[c].stdio + req[c].extra
  <2>1. n \in Int
    BY DEF HostType
  <2>2. HostType'
    <3>1. req' \in [Clients -> [stdio : 0..3, extra : Nat]]
      BY <1>4 DEF SpawnSendFds, HostType, NoRequest
    <3>2. pc' \in [Threads -> ThreadPcs] /\ owner' \in Threads \cup {None}
      <4>1. CASE owner' = owner /\ Goto(c, "info")
        BY <4>1 DEF Goto, HostType, ThreadPcs
      <4>2. CASE Release(c, "failed")
        BY <4>2 DEF Release, Goto, HostType, ThreadPcs
      <4> QED
        BY <1>4, <4>1, <4>2 DEF SpawnSendFds
    <3> QED
      BY <1>4, <3>1, <3>2 DEF SpawnSendFds, HostType
  <2>3. FdPackets(n) \in Seq(Packet)
    BY <2>1, ChunksType
  <2>4. SocketType'
    BY <1>4, <2>3, PostType DEF SpawnSendFds, SocketType
  <2> QED
    BY <2>2, <2>4
<1>5. ASSUME SpawnSendFdsFails(c) PROVE HostType' /\ SocketType'
  <2> DEFINE n == req[c].stdio + req[c].extra
  <2>1. n \in Int
    BY DEF HostType
  <2>2. HostType'
    BY <1>5 DEF SpawnSendFdsFails, Goto, Release, HostType, ThreadPcs, NoRequest
  <2>3. FdPackets(n) \in Seq(Packet)
    BY <2>1, ChunksType
  <2>4. PICK j \in 0..(Len(FdPackets(n)) - 1) : Post(SubSeq(FdPackets(n), 1, j))
    BY <1>5 DEF SpawnSendFdsFails
  <2>5. SubSeq(FdPackets(n), 1, j) \in Seq(Packet)
    <3>1. \A i \in 1..j : FdPackets(n)[i] \in Packet
      BY <2>3
    <3> QED
      BY <2>3, <3>1
  <2>6. SocketType'
    BY <1>5, <2>4, <2>5, PostType DEF SpawnSendFdsFails, SocketType
  <2> QED
    BY <2>2, <2>6
<1>6. ASSUME SpawnRecvInfo(c) PROVE HostType' /\ SocketType'
  <2>1. HostType'
    <3>1. toHost[2].v \in Int
      BY <1>6, TakeType DEF SpawnRecvInfo, Answered, SocketType
    <3> QED
      BY <1>6, <3>1 DEF SpawnRecvInfo, Goto, HostType, ThreadPcs
  <2>2. SocketType'
    BY <1>6, TakeType DEF SpawnRecvInfo, Answered, SocketType
  <2> QED
    BY <2>1, <2>2
<1>7. ASSUME SpawnRecvEvent(c) PROVE HostType' /\ SocketType'
  <2>1. HostType'
    BY <1>7, TakeType DEF SpawnRecvEvent, Goto, Release, HostType, SocketType, ThreadPcs
  <2>2. SocketType'
    BY <1>7, TakeType DEF SpawnRecvEvent, SocketType
  <2> QED
    BY <2>1, <2>2
<1>8. ASSUME SpawnEventFails(c) PROVE HostType' /\ SocketType'
  <2>1. HostType'
    BY <1>8, TakeType DEF SpawnEventFails, Goto, Release, HostType, ThreadPcs
  <2>2. SocketType'
    BY <1>8, TakeType DEF SpawnEventFails, SocketType
  <2> QED
    BY <2>1, <2>2
<1>9. ASSUME Poll(c) PROVE HostType' /\ SocketType'
  <2>1. CASE info
    <3>1. HostType'
      BY <1>9, <2>1 DEF Poll, Goto, HostType, ThreadPcs
    <3>2. Message("Query", "GetExitCode", child[c].pid) \in Seq(Packet)
      BY <1>9, MessageType DEF Poll, HandleHasPid
    <3>3. SocketType'
      BY <1>9, <2>1, <3>2, PostType DEF Poll, SocketType
    <3> QED
      BY <3>1, <3>3
  <2>2. CASE ~info
    <3>1. HostType'
      <4>1. child' = [child EXCEPT ![c].code = KILLED]
        BY <1>9, <2>2 DEF Poll
      <4>2. child' \in [Clients -> [pid : Int \cup {None}, job : Int \cup {None},
                                   code : Int \cup {None}]]
        BY <4>1, ValuesAssumption DEF HostType
      <4> QED
        BY <1>9, <2>2, <4>2 DEF Poll, Goto, HostType, ThreadPcs
    <3>2. SocketType'
      BY <1>9, <2>2 DEF Poll, SocketType
    <3> QED
      BY <3>1, <3>2
  <2> QED
    BY <2>1, <2>2
<1>10. ASSUME WaitRecv(c) PROVE HostType' /\ SocketType'
  <2>1. HostType'
    <3>1. toHost[2].v \in Int
      BY <1>10, TakeType DEF WaitRecv, Answered, SocketType
    <3> QED
      BY <1>10, <3>1 DEF WaitRecv, Goto, Release, HostType, ThreadPcs
  <2>2. SocketType'
    BY <1>10, TakeType DEF WaitRecv, Answered, SocketType
  <2> QED
    BY <2>1, <2>2
<1>11. ASSUME WaitRecvFails(c) PROVE HostType' /\ SocketType'
  <2>1. HostType'
    BY <1>11, ValuesAssumption DEF WaitRecvFails, Goto, Release, HostType, ThreadPcs
  <2>2. SocketType'
    BY <1>11, TakeType DEF WaitRecvFails, SocketType
  <2> QED
    BY <2>1, <2>2
<1>12. ASSUME DropChild(c) PROVE HostType' /\ SocketType'
  BY <1>12 DEF DropChild, Goto, HostType, SocketType, socket, ThreadPcs
<1> QED
  BY <1>1, <1>2, <1>3, <1>4, <1>5, <1>6, <1>7, <1>8, <1>9, <1>10, <1>11, <1>12
     DEF ClientStep

LEMMA OtherThreadsType ==
  ASSUME TypeInv, NEW t \in Threads,
         MeterStep(t) \/ RecvFails(t) \/ RecvPanics(t) \/ KillerStep(t)
  PROVE  HostType' /\ SocketType'
<1> USE DEF TypeInv, TypeOK
<1>1. ASSUME MeterGone(t) PROVE HostType' /\ SocketType'
  BY <1>1 DEF MeterGone, Goto, HostType, SocketType, socket, ThreadPcs
<1>2. ASSUME MeterQuery(t) PROVE HostType' /\ SocketType'
  <2>1. HostType'
    BY <1>2 DEF MeterQuery, Goto, Release, HostType, ThreadPcs
  <2>2. SocketType'
    BY <1>2, MessageType, PostType, 0 \in Int DEF MeterQuery, SocketType
  <2> QED
    BY <2>1, <2>2
<1>3. ASSUME MeterRecv(t) PROVE HostType' /\ SocketType'
  <2>1. HostType'
    BY <1>3 DEF MeterRecv, Goto, Release, HostType, ThreadPcs
  <2>2. SocketType'
    BY <1>3, TakeType DEF MeterRecv, Answered, SocketType
  <2> QED
    BY <2>1, <2>2
<1>4. ASSUME RecvFails(t) PROVE HostType' /\ SocketType'
  BY <1>4 DEF RecvFails, Goto, Release, HostType, SocketType, ThreadPcs
<1>5. ASSUME RecvPanics(t) PROVE HostType' /\ SocketType'
  <2>1. HostType'
    BY <1>5 DEF RecvPanics, Goto, Release, HostType, ThreadPcs
  <2>2. SocketType'
    BY <1>5, TakeType DEF RecvPanics, SocketType
  <2> QED
    BY <2>1, <2>2
<1>6. ASSUME KillCall(t) PROVE HostType' /\ SocketType'
  BY <1>6 DEF KillCall, Goto, HostType, SocketType, socket, ThreadPcs
<1>7. ASSUME Kill(t) PROVE HostType' /\ SocketType'
  <2>1. HostType'
    BY <1>7 DEF Kill, Goto, HostType, ThreadPcs
  <2>2. toHost' \in Seq(Packet)
    BY <1>7 DEF Kill
  <2>3. SocketType'
    BY <1>7, <2>2 DEF Kill, SocketType
  <2> QED
    BY <2>1, <2>3
<1> QED
  BY <1>1, <1>2, <1>3, <1>4, <1>5, <1>6, <1>7 DEF MeterStep, KillerStep

(***************************************************************************)
(* Steps of the zygote and the kernel.                                     *)
(***************************************************************************)

\* Answers are appended to a well-typed queue.
LEMMA ReplyType ==
  ASSUME SocketType, NEW p \in Seq(Packet), Reply(p)
  PROVE  toHost' \in Seq(Packet)
<1>1. toHost \in Seq(Packet) /\ toHost \o p \in Seq(Packet)
  BY DEF SocketType
<1> QED
  BY <1>1 DEF Reply

\* However the zygote stops, its queue is discarded.
LEMMA StopType ==
  ASSUME SocketType, info \in BOOLEAN, NEW label \in ZygotePcs, NEW rest, Stop(label, rest)
  PROVE  zpc' \in ZygotePcs /\ toZyg' \in Seq(Packet) /\ sockErr' \in BOOLEAN
BY DEF Stop, SocketType

\* Taking an element out the way Vec::swap_remove does leaves a sequence.
LEMMA SwapRemoveType ==
  ASSUME NEW S, NEW s \in Seq(S), NEW i \in DOMAIN s
  PROVE  SwapRemove(s, i) \in Seq(S)
<1>1. Len(s) - 1 \in Nat /\ Len(s) \in DOMAIN s
  OBVIOUS
<1>2. \A j \in 1..(Len(s) - 1) : (IF j = i THEN s[Len(s)] ELSE s[j]) \in S
  BY <1>1
<1>3. SwapRemove(s, i) \in [1..(Len(s) - 1) -> S]
  BY <1>2 DEF SwapRemove
<1> QED
  BY <1>1, <1>3

\* Every other element keeps its value, and no element is there twice.
LEMMA SwapRemoveElements ==
  ASSUME NEW S, NEW s \in Seq(S), NEW i \in DOMAIN s,
         NEW j \in DOMAIN SwapRemove(s, i)
  PROVE  LET from(l) == IF l = i THEN Len(s) ELSE l
         IN /\ from(j) \in DOMAIN s \ {i}
            /\ SwapRemove(s, i)[j] = s[from(j)]
            /\ \A l \in DOMAIN SwapRemove(s, i) : from(l) = from(j) => l = j
BY DEF SwapRemove

\* The zygote never reaps in its loop: without pidfd the signal descriptor is
\* not in the set that select waits for, and with pidfd there is no select.
LEMMA NeverReaps ==
  ASSUME ZygoteIterate
  PROVE  /\ zpc = "recv" /\ toZyg # <<>> /\ RecvHeader
         /\ UNCHANGED <<tasks, kernel, host, toHost, zwant, sigkill>>
<1> DEFINE ready == {fd \in IF PidfdSupported THEN {"sock"} ELSE FdSet : Readable(fd)}
<1>1. ready # {} /\ ready \subseteq {"sock"}
  BY DEF ZygoteIterate, FdSet
<1>2. "sock" \in ready /\ "sig_fd" \notin ready
  BY <1>1
<1>3. toZyg # <<>>
  BY <1>2 DEF Readable
<1> QED
  BY <1>2, <1>3 DEF ZygoteIterate

\* A job's task is the only one with its pid, so it is the first with it.
LEMMA OnlyTask ==
  ASSUME ZygoteType, TasksUnique, NEW pid, TasksOf(pid) # {}
  PROVE  /\ First(TasksOf(pid)) \in DOMAIN tasks
         /\ tasks[First(TasksOf(pid))].pid = pid
         /\ TasksOf(pid) = {First(TasksOf(pid))}
<1>1. PICK i \in TasksOf(pid) : TRUE
  OBVIOUS
<1>2. TasksOf(pid) = {i} /\ i \in DOMAIN tasks /\ tasks[i].pid = pid
  BY <1>1 DEF TasksOf, TasksUnique
<1>3. First(TasksOf(pid)) = i
  <2>1. i \in Nat
    BY <1>2 DEF ZygoteType
  <2> QED
    BY <1>2, <2>1 DEF First
<1> QED
  BY <1>2, <1>3

\* Steps that leave tasks and processes alone keep their invariant.
LEMMA TaskInvStable ==
  ASSUME TaskInv, UNCHANGED <<tasks, procs>>, Exited => Exited'
  PROVE  TaskInv'
BY DEF TaskInv, TasksAreChildren, ChildPidsUnique, TasksUnique, Children

\* What a step of the zygote or the kernel must keep.
ServerInv == SocketType /\ ZygoteType /\ KernelType /\ EndedHasStatus /\ TaskInv

\* Steps by which the zygote only receives.
LEMMA ReceiveSteps ==
  ASSUME TypeInv, TaskInv,
         ZygoteIterate \/ ZygoteBadQuery \/ ZygoteGotSpawn \/ ZygoteRecvFds
  PROVE  ServerInv'
<1> USE DEF TypeInv, TypeOK
<1>1. toZyg # <<>> /\ UNCHANGED <<tasks, procs, written, toHost, sigkill>> /\ ~Exited
  BY NeverReaps DEF ZygoteBadQuery, ZygoteGotSpawn, Incoming, ZygoteRecvFds, Exited, Open, kernel
<1>2. Tail(toZyg) \in Seq(Packet)
  BY <1>1 DEF SocketType
<1>3. /\ zpc' \in ZygotePcs /\ zwant' \in Seq(Int)
      /\ toZyg' \in Seq(Packet) /\ sockErr' \in BOOLEAN
  <2>1. CASE ZygoteIterate
    BY <1>2, <2>1, NeverReaps, StopType
       DEF RecvHeader, SocketType, ZygoteType, HostType, ZygotePcs
  <2>2. CASE ZygoteBadQuery
    BY <1>2, <2>2, StopType DEF ZygoteBadQuery, SocketType, ZygoteType, HostType, ZygotePcs
  <2>3. CASE ZygoteGotSpawn
    <3>1. toZyg[1].v \in Int
      BY <1>1, TakeType DEF SocketType
    <3>2. Chunks(3 + toZyg[1].v) \in Seq(Int)
      BY <3>1, ChunksType
    <3> QED
      BY <1>2, <2>3, <3>2 DEF ZygoteGotSpawn, SocketType, ZygotePcs
  <2>4. CASE ZygoteRecvFds
    <3>1. zwant # <<>> /\ Tail(zwant) \in Seq(Int)
      BY <2>4 DEF ZygoteRecvFds, ZygoteType
    <3>2. CASE toZyg[1] = Fds(zwant[1])
      BY <1>2, <2>4, <3>1, <3>2 DEF ZygoteRecvFds, SocketType, ZygoteType
    <3>3. CASE toZyg[1] # Fds(zwant[1])
      <4>1. Stop("panicked", Tail(toZyg)) /\ zwant' = <<>>
        BY <2>4, <3>3 DEF ZygoteRecvFds
      <4> QED
        BY <4>1, StopType DEF HostType, ZygotePcs
    <3> QED
      BY <3>2, <3>3
  <2> QED
    BY <2>1, <2>2, <2>3, <2>4
<1>4. SocketType' /\ ZygoteType'
  BY <1>1, <1>3 DEF SocketType, ZygoteType
<1>5. KernelType' /\ EndedHasStatus'
  BY <1>1 DEF KernelType, EndedHasStatus
<1>6. TaskInv'
  BY <1>1, TaskInvStable
<1> QED
  BY <1>4, <1>5, <1>6 DEF ServerInv

\* Changing one process keeps the others and the sequence.
LEMMA UpdateType ==
  ASSUME NEW S, NEW s \in Seq(S), NEW q \in DOMAIN s, NEW v \in S,
         NEW t, t = [s EXCEPT ![q] = v]
  PROVE  /\ t \in Seq(S) /\ DOMAIN t = DOMAIN s
         /\ t[q] = v /\ \A r \in DOMAIN s : r # q => t[r] = s[r]
OBVIOUS

\* The states a process goes through.
LEMMA ProcessType ==
  ASSUME NEW p \in Process
  PROVE  /\ [p EXCEPT !.st = "reaped"] \in Process
         /\ [p EXCEPT !.st = "reaped"].st = "reaped"
         /\ [p EXCEPT !.st = "reaped"].pid = p.pid
         /\ [p EXCEPT !.st = "reaped"].status = p.status
         /\ \A s \in Int :
              /\ [p EXCEPT !.st = "zombie", !.status = s] \in Process
              /\ [p EXCEPT !.st = "zombie", !.status = s].st = "zombie"
              /\ [p EXCEPT !.st = "zombie", !.status = s].pid = p.pid
              /\ [p EXCEPT !.st = "zombie", !.status = s].status = s
         /\ \A s \in Int :
              /\ [p EXCEPT !.st = "reaped", !.status = s] \in Process
              /\ [p EXCEPT !.st = "reaped", !.status = s].st = "reaped"
              /\ [p EXCEPT !.st = "reaped", !.status = s].pid = p.pid
         /\ [p EXCEPT !.st = "reaped", !.status = None] \in Process
BY DEF Process

\* process_spawn_query appends a task for a child with a fresh pid.
LEMMA SpawnStep ==
  ASSUME TypeInv, TaskInv, ZygoteSpawn
  PROVE  ServerInv'
<1> USE DEF TypeInv, TypeOK
<1> DEFINE job == Len(procs) + 1
<1>1. PICK pid \in Pids \ {procs[q].pid : q \in Children} :
        /\ procs' = Append(procs, [pid |-> pid, st |-> "running",
                                   status |-> None, by |-> owner])
        /\ tasks' = Append(tasks, [pid |-> pid, job |-> job, code |-> None])
        /\ Reply(Append(Message("JobStartupInfo", "JobStartupInfo", pid), Fds(job)))
  BY DEF ZygoteSpawn
<1> DEFINE new  == [pid |-> pid, st |-> "running", status |-> None, by |-> owner]
           task == [pid |-> pid, job |-> job, code |-> None]
<1>2. /\ zpc' = "recv" /\ UNCHANGED <<owner, toZyg, sockErr, zwant, sigkill, written>>
      /\ ~Exited
  BY DEF ZygoteSpawn, host, Exited, Open
<1>3. new \in Process /\ task \in Task /\ job \in Nat
  BY <1>1 DEF Process, Task, HostType, KernelType
<1>4. /\ procs' \in Seq(Process) /\ tasks' \in Seq(Task)
      /\ Len(procs') = job /\ Len(tasks') = Len(tasks) + 1
      /\ \A q \in DOMAIN procs' : procs'[q] = IF q = job THEN new ELSE procs[q]
      /\ \A i \in DOMAIN tasks' : tasks'[i] = IF i = Len(tasks) + 1 THEN task ELSE tasks[i]
  BY <1>1, <1>3 DEF KernelType, ZygoteType
<1>5. toHost' \in Seq(Packet)
  <2>1. pid \in Int
    BY <1>1, ValuesAssumption
  <2>2. Message("JobStartupInfo", "JobStartupInfo", pid) \in Seq(Packet) /\ Fds(job) \in Packet
    BY <2>1, <1>3, MessageType
  <2>3. Append(Message("JobStartupInfo", "JobStartupInfo", pid), Fds(job)) \in Seq(Packet)
    BY <2>2
  <2> QED
    BY <1>1, <2>3, ReplyType
<1>6. SocketType' /\ ZygoteType' /\ KernelType'
  BY <1>2, <1>4, <1>5 DEF SocketType, ZygoteType, KernelType, ZygotePcs
<1>7. DOMAIN procs' = DOMAIN procs \cup {job} /\ job \notin DOMAIN procs
  BY <1>4 DEF KernelType
<1>8. DOMAIN tasks' = DOMAIN tasks \cup {Len(tasks) + 1} /\ Len(tasks) + 1 \notin DOMAIN tasks
  BY <1>4 DEF ZygoteType
<1>9. EndedHasStatus'
  BY <1>4, <1>7 DEF EndedHasStatus
<1>10. Children' = Children \cup {job} /\ Children \subseteq DOMAIN procs
  BY <1>4, <1>7 DEF Children
<1>11. TasksAreChildren'
  BY <1>2, <1>4, <1>7, <1>8 DEF TaskInv, TasksAreChildren
<1>12. ChildPidsUnique'
  BY <1>1, <1>4, <1>7, <1>10 DEF TaskInv, ChildPidsUnique
<1>13. TasksUnique'
  <2>1. \A i \in DOMAIN tasks : tasks[i].pid # pid
    BY <1>1, <1>2 DEF TaskInv, TasksAreChildren, Children
  <2> QED
    BY <1>4, <1>8, <2>1 DEF TaskInv, TasksUnique
<1> QED
  BY <1>6, <1>9, <1>11, <1>12, <1>13 DEF ServerInv, TaskInv

\* process_get_exit_code_query takes a task out and waits for its process.
LEMMA ExitCodeStep ==
  ASSUME TypeInv, TaskInv, ZygoteGetExitCode
  PROVE  ServerInv'
<1> USE DEF TypeInv, TypeOK
<1> DEFINE pid   == toZyg[1].v
           rest  == Tail(toZyg)
           first == First(TasksOf(pid))
           named == {q \in Children : procs[q].pid = pid}
<1>1. /\ toZyg # <<>> /\ zpc = "body" /\ ~Exited
      /\ UNCHANGED <<zwant, sigkill, written, info>>
  BY DEF ZygoteGetExitCode, Incoming, host, Exited, Open
<1>2. rest \in Seq(Packet)
  BY <1>1 DEF SocketType
<1>3. CASE TasksOf(pid) = {}
  <2>1. Stop("panicked", rest) /\ UNCHANGED <<tasks, procs, toHost>>
    BY <1>3 DEF ZygoteGetExitCode
  <2>2. SocketType' /\ ZygoteType' /\ KernelType' /\ EndedHasStatus'
    BY <1>1, <2>1, StopType
       DEF SocketType, ZygoteType, KernelType, EndedHasStatus, HostType, ZygotePcs
  <2>3. TaskInv'
    BY <1>1, <2>1, TaskInvStable
  <2> QED
    BY <2>2, <2>3 DEF ServerInv
<1>4. CASE TasksOf(pid) # {}
  <2>1. first \in DOMAIN tasks /\ tasks[first].pid = pid /\ tasks[first].code = None
    BY <1>4, OnlyTask DEF TaskInv, TasksAreChildren
  <2>2. tasks' = SwapRemove(tasks, first)
    BY <1>4 DEF ZygoteGetExitCode
  <2>3. tasks' \in Seq(Task)
    BY <2>1, <2>2, SwapRemoveType DEF ZygoteType
  <2> DEFINE from(l) == IF l = first THEN Len(tasks) ELSE l
  <2>4. \A j \in DOMAIN tasks' : /\ from(j) \in DOMAIN tasks \ {first}
                                 /\ tasks'[j] = tasks[from(j)]
                                 /\ \A l \in DOMAIN tasks' : from(l) = from(j) => l = j
    BY <2>1, <2>2, SwapRemoveElements DEF ZygoteType
  <2>5. TasksUnique'
    BY <2>4 DEF TaskInv, TasksUnique
  <2>6. \A j \in DOMAIN tasks' : tasks'[j].pid # pid
    BY <2>1, <2>4 DEF TaskInv, TasksUnique
  <2>7. CASE named \cap Zombies # {}
    <3>1. ZygoteWaited(pid, rest)
      BY <1>4, <2>1, <2>7 DEF ZygoteGetExitCode
    <3>2. PICK q \in Zombies :
            /\ procs[q].pid = pid
            /\ procs' = [procs EXCEPT ![q].st = "reaped"]
            /\ Reply(Message("i64", "i64", procs[q].status))
            /\ zpc' = "recv" /\ toZyg' = rest /\ sockErr' = sockErr
      BY <3>1 DEF ZygoteWaited
    <3>3. q \in DOMAIN procs /\ procs[q].status \in Int
      BY DEF Zombies, Children, EndedHasStatus
    <3>4. /\ procs' \in Seq(Process) /\ DOMAIN procs' = DOMAIN procs
          /\ procs'[q] = [procs[q] EXCEPT !.st = "reaped"]
          /\ \A r \in DOMAIN procs : r # q => procs'[r] = procs[r]
      <4>1. procs[q] \in Process
        BY <3>3 DEF KernelType
      <4>2. [procs[q] EXCEPT !.st = "reaped"] \in Process
        BY <4>1, ProcessType
      <4>3. procs' = [procs EXCEPT ![q] = [procs[q] EXCEPT !.st = "reaped"]]
        BY <3>2
      <4> QED
        BY <3>3, <4>2, <4>3, UpdateType DEF KernelType
    <3>5. toHost' \in Seq(Packet)
      BY <3>2, <3>3, MessageType, ReplyType
    <3>6. SocketType' /\ ZygoteType' /\ KernelType'
      BY <1>1, <1>2, <2>3, <3>2, <3>4, <3>5 DEF SocketType, ZygoteType, KernelType, ZygotePcs
    <3>7. procs'[q].st = "reaped" /\ procs'[q].pid = pid /\ procs'[q].status = procs[q].status
      BY <3>2, <3>3, <3>4 DEF KernelType, Process
    <3>8. EndedHasStatus'
      BY <3>4, <3>7 DEF EndedHasStatus
    <3>9. Children' \subseteq Children /\ \A r \in Children' : procs'[r].pid = procs[r].pid
      BY <3>4, <3>7 DEF Children
    <3>10. ChildPidsUnique'
      BY <3>9 DEF TaskInv, ChildPidsUnique
    <3>11. \A i \in DOMAIN tasks' : tasks'[i].job # q
      BY <2>4, <2>6, <3>2 DEF TaskInv, TasksAreChildren
    <3>12. TasksAreChildren'
      BY <1>1, <2>4, <3>4, <3>11 DEF TaskInv, TasksAreChildren
    <3> QED
      BY <2>5, <3>6, <3>8, <3>10, <3>12 DEF ServerInv, TaskInv
  <2>8. CASE named \cap Zombies = {}
    <3>1. \E label \in {"failed", "panicked"} : Stop(label, rest)
      BY <1>4, <2>1, <2>8 DEF ZygoteGetExitCode
    <3>2. UNCHANGED <<procs, toHost>>
      BY <1>4, <2>1, <2>8 DEF ZygoteGetExitCode
    <3>3. zpc' \in ZygotePcs /\ toZyg' \in Seq(Packet) /\ sockErr' \in BOOLEAN
      BY <3>1, StopType DEF HostType, ZygotePcs
    <3>4. SocketType' /\ ZygoteType' /\ KernelType' /\ EndedHasStatus'
      BY <1>1, <2>3, <3>2, <3>3 DEF SocketType, ZygoteType, KernelType, EndedHasStatus
    <3>5. ChildPidsUnique'
      BY <3>2 DEF TaskInv, ChildPidsUnique, Children
    <3>6. TasksAreChildren'
      BY <1>1, <2>4, <3>2 DEF TaskInv, TasksAreChildren
    <3> QED
      BY <2>5, <3>4, <3>5, <3>6 DEF ServerInv, TaskInv
  <2> QED
    BY <2>7, <2>8
<1> QED
  BY <1>3, <1>4

\* Answering a resource query, failing to start a job, and dying.
LEMMA ServerOtherSteps ==
  ASSUME TypeInv, TaskInv,
         \/ ZygoteResourceUsage \/ ZygoteSpawnFails
         \/ ZygoteDies \/ ZygoteCrash
  PROVE  ServerInv'
<1> USE DEF TypeInv, TypeOK
<1>1. /\ UNCHANGED <<tasks, procs, written, zwant, sigkill, info>>
      /\ Exited => Exited'
  BY DEF ZygoteResourceUsage, Incoming, ZygoteSpawnFails, ZygoteDies, ZygoteCrash,
         Exited, Open, host, kernel
<1>2. zpc' \in ZygotePcs /\ SocketType'
  <2>1. CASE ZygoteResourceUsage
    <3>1. toHost' \in Seq(Packet)
      BY <2>1, MessageType, ReplyType, 0 \in Int DEF ZygoteResourceUsage
    <3>2. Tail(toZyg) \in Seq(Packet)
      BY <2>1 DEF ZygoteResourceUsage, Incoming, SocketType
    <3> QED
      BY <2>1, <3>1, <3>2 DEF ZygoteResourceUsage, SocketType, ZygotePcs
  <2>2. CASE ZygoteSpawnFails
    BY <2>2, StopType DEF ZygoteSpawnFails, SocketType, HostType, ZygotePcs
  <2>3. CASE ZygoteDies
    BY <2>3, StopType DEF ZygoteDies, SocketType, HostType, ZygotePcs
  <2>4. CASE ZygoteCrash
    BY <2>4, StopType DEF ZygoteCrash, SocketType, HostType, ZygotePcs
  <2> QED
    BY <2>1, <2>2, <2>3, <2>4
<1>3. ZygoteType' /\ KernelType' /\ EndedHasStatus'
  BY <1>1, <1>2 DEF ZygoteType, KernelType, EndedHasStatus
<1>4. TaskInv'
  BY <1>1, TaskInvStable
<1> QED
  BY <1>2, <1>3, <1>4 DEF ServerInv

\* A job ends, by itself or with the namespace.
LEMMA KernelSteps ==
  ASSUME TypeInv, TaskInv, (\E q \in DOMAIN procs : JobExit(q)) \/ NamespaceTeardown
  PROVE  ServerInv'
<1> USE DEF TypeInv, TypeOK
<1>1. UNCHANGED <<toZyg, toHost, sockErr, zpc, zwant, tasks, sigkill, written>>
  BY DEF JobExit, NamespaceTeardown, socket, zygote
<1>2. SocketType' /\ ZygoteType'
  BY <1>1 DEF SocketType, ZygoteType
<1>3. CASE \E q \in DOMAIN procs : JobExit(q)
  <2>1. PICK q \in DOMAIN procs : JobExit(q)
    BY <1>3
  <2>2. PICK s \in Statuses :
          procs' = [procs EXCEPT ![q].st = "zombie", ![q].status = s]
    BY <2>1 DEF JobExit
  <2>3. s \in Int
    BY ValuesAssumption
  <2>4. /\ procs' \in Seq(Process) /\ DOMAIN procs' = DOMAIN procs
        /\ procs'[q].st = "zombie" /\ procs'[q].pid = procs[q].pid /\ procs'[q].status = s
        /\ \A r \in DOMAIN procs : r # q => procs'[r] = procs[r]
    <3>1. procs[q] \in Process
      BY DEF KernelType
    <3> DEFINE z == [procs[q] EXCEPT !.st = "zombie", !.status = s]
    <3>2. z \in Process /\ z.st = "zombie" /\ z.pid = procs[q].pid /\ z.status = s
      BY <2>3, <3>1, ProcessType
    <3>3. procs' = [procs EXCEPT ![q] = z]
      BY <2>2, <3>1 DEF Process
    <3> HIDE DEF z
    <3> QED
      BY <3>2, <3>3, UpdateType DEF KernelType
  <2>5. procs[q].st = "running"
    BY <2>1 DEF JobExit, Running
  <2>6. Children' = Children /\ \A r \in DOMAIN procs : procs'[r].pid = procs[r].pid
    BY <2>4, <2>5 DEF Children
  <2>7. TaskInv'
    BY <1>1, <2>4, <2>6
       DEF TaskInv, TasksAreChildren, ChildPidsUnique, TasksUnique, Exited, Open, Children
  <2>8. KernelType' /\ EndedHasStatus'
    BY <1>1, <2>3, <2>4 DEF KernelType, EndedHasStatus
  <2> QED
    BY <1>2, <2>7, <2>8 DEF ServerInv
<1>4. CASE NamespaceTeardown
  <2> DEFINE dead(q) == [procs[q] EXCEPT !.st = "reaped",
                                         !.status = IF @ = None THEN KilledStatus ELSE @]
  <2>1. procs' = [q \in DOMAIN procs |-> dead(q)] /\ Exited
    BY <1>4 DEF NamespaceTeardown
  <2>2. \A q \in DOMAIN procs : dead(q) \in Process /\ dead(q).st = "reaped"
                                /\ dead(q).pid = procs[q].pid
    <3>1. \A q \in DOMAIN procs : procs[q] \in Process
      BY DEF KernelType
    <3> DEFINE s(q) == IF procs[q].status = None THEN KilledStatus ELSE procs[q].status
    <3>2. \A q \in DOMAIN procs :
            /\ s(q) \in Int
            /\ dead(q) = [procs[q] EXCEPT !.st = "reaped", !.status = s(q)]
      BY <3>1, ValuesAssumption DEF Process
    <3>3. ASSUME NEW q \in DOMAIN procs
          PROVE  dead(q) \in Process /\ dead(q).st = "reaped" /\ dead(q).pid = procs[q].pid
      <4>1. /\ s(q) \in Int /\ procs[q] \in Process
            /\ dead(q) = [procs[q] EXCEPT !.st = "reaped", !.status = s(q)]
        BY <3>1, <3>2
      <4> HIDE DEF s, dead
      <4>2. /\ [procs[q] EXCEPT !.st = "reaped", !.status = s(q)] \in Process
            /\ [procs[q] EXCEPT !.st = "reaped", !.status = s(q)].st = "reaped"
            /\ [procs[q] EXCEPT !.st = "reaped", !.status = s(q)].pid = procs[q].pid
        BY <4>1, ProcessType
      <4> QED
        BY <4>1, <4>2
    <3> QED
      BY <3>3
  <2> HIDE DEF dead
  <2>3. procs' \in Seq(Process)
    <3>1. Len(procs) \in Nat /\ DOMAIN procs = 1..Len(procs)
      BY DEF KernelType
    <3>2. procs' \in [1..Len(procs) -> Process]
      BY <2>1, <2>2, <3>1
    <3> QED
      BY <3>1, <3>2
  <2>4. KernelType' /\ EndedHasStatus'
    BY <1>1, <2>1, <2>2, <2>3 DEF KernelType, EndedHasStatus
  <2>5. Children' = {}
    BY <2>1, <2>2 DEF Children
  <2>6. TaskInv'
    BY <1>1, <2>1, <2>2, <2>5
       DEF TaskInv, TasksAreChildren, ChildPidsUnique, TasksUnique, Exited, Open
  <2> QED
    BY <1>2, <2>4, <2>6 DEF ServerInv
<1> QED
  BY <1>3, <1>4

\* Who takes a step.
LEMMA StepKinds ==
  ASSUME [Next]_vars
  PROVE  \/ \E c \in Clients : ClientStep(c)
         \/ \E t \in Threads : MeterStep(t) \/ RecvFails(t) \/ RecvPanics(t) \/ KillerStep(t)
         \/ host' = host /\ (\/ ZygoteStep \/ ZygoteSpawnFails
                             \/ \E q \in DOMAIN procs : JobExit(q)
                             \/ ZygoteDies \/ ZygoteCrash
                             \/ NamespaceTeardown)
         \/ UNCHANGED vars
BY DEF Next, Threads, Quiescent, ZygoteStep, ZygoteIterate, ZygoteBadQuery, ZygoteGotSpawn,
   ZygoteRecvFds, ZygoteSpawn, ZygoteGetExitCode, ZygoteResourceUsage, ZygoteSpawnFails,
   JobExit, ZygoteDies, ZygoteCrash, NamespaceTeardown

\* The pid of a handle is received before the handle is there, and kept.
LEMMA HandlePidStep ==
  ASSUME TypeInv, [Next]_vars
  PROVE  HandleHasPid'
<1> USE DEF TypeInv, TypeOK
<1> DEFINE Has == {"event", "child", "exit_code"}
<1> SUFFICES ASSUME NEW c \in Clients, pc'[c] \in Has
             PROVE  child'[c].pid \in Int
  BY DEF HandleHasPid
<1> c \in Threads
  BY DEF Threads
<1> DEFINE Kept == pc[c] \in Has /\ child'[c].pid = child[c].pid
<1>1. CASE UNCHANGED <<pc, child>>
  BY <1>1 DEF HandleHasPid
<1>2. CASE \E d \in Clients : SpawnRecvInfo(d)
  <2>1. PICK d \in Clients : SpawnRecvInfo(d)
    BY <1>2
  <2>2. toHost[2].v \in Int
    BY <2>1, TakeType DEF SpawnRecvInfo, Answered, SocketType
  <2> QED
    BY <2>1, <2>2 DEF SpawnRecvInfo, Goto, HandleHasPid, HostType
<1>3. CASE \E d \in Clients : ClientStep(d) /\ ~SpawnRecvInfo(d)
  <2>1. PICK d \in Clients : ClientStep(d) /\ ~SpawnRecvInfo(d)
    BY <1>3
  <2>2. ASSUME SpawnRefused(d) PROVE Kept
    BY <2>2 DEF SpawnRefused, Release, Goto, HostType
  <2>3. ASSUME \E r \in Requests : SpawnQuery(d, r) PROVE Kept
    BY <2>3 DEF SpawnQuery, Release, Goto, HostType
  <2>4. ASSUME SpawnQueryTooLong(d) PROVE Kept
    BY <2>4 DEF SpawnQueryTooLong, Release, Goto, HostType
  <2>5. ASSUME SpawnSendFds(d) PROVE Kept
    BY <2>5 DEF SpawnSendFds, Release, Goto, HostType
  <2>6. ASSUME SpawnSendFdsFails(d) PROVE Kept
    BY <2>6 DEF SpawnSendFdsFails, Release, Goto, HostType
  <2>7. ASSUME SpawnRecvEvent(d) PROVE Kept
    BY <2>7 DEF SpawnRecvEvent, Release, Goto, HostType
  <2>8. ASSUME SpawnEventFails(d) PROVE Kept
    BY <2>8 DEF SpawnEventFails, Release, Goto, HostType
  <2>9. ASSUME Poll(d) PROVE Kept
    BY <2>9 DEF Poll, Release, Goto, HostType
  <2>10. ASSUME WaitRecv(d) PROVE Kept
    BY <2>10 DEF WaitRecv, Release, Goto, HostType
  <2>11. ASSUME WaitRecvFails(d) PROVE Kept
    BY <2>11 DEF WaitRecvFails, Release, Goto, HostType
  <2>12. ASSUME DropChild(d) PROVE Kept
    BY <2>12 DEF DropChild, Release, Goto, HostType
  <2>13. Kept
    BY <2>1, <2>2, <2>3, <2>4, <2>5, <2>6, <2>7, <2>8, <2>9, <2>10, <2>11, <2>12 DEF ClientStep
  <2> QED
    BY <2>13 DEF HandleHasPid
<1>4. CASE \E t \in Threads : MeterStep(t) \/ RecvFails(t) \/ RecvPanics(t) \/ KillerStep(t)
  <2>1. PICK t \in Threads : MeterStep(t) \/ RecvFails(t) \/ RecvPanics(t) \/ KillerStep(t)
    BY <1>4
  <2>2. ASSUME MeterGone(t) PROVE Kept
    BY <2>2 DEF MeterGone, Release, Goto, HostType
  <2>3. ASSUME MeterQuery(t) PROVE Kept
    BY <2>3 DEF MeterQuery, Release, Goto, HostType
  <2>4. ASSUME MeterRecv(t) PROVE Kept
    BY <2>4 DEF MeterRecv, Release, Goto, HostType
  <2>5. ASSUME RecvFails(t) PROVE Kept
    BY <2>5 DEF RecvFails, Release, Goto, HostType
  <2>6. ASSUME RecvPanics(t) PROVE Kept
    BY <2>6 DEF RecvPanics, Release, Goto, HostType
  <2>7. ASSUME KillCall(t) PROVE Kept
    BY <2>7 DEF KillCall, Release, Goto, HostType
  <2>8. ASSUME Kill(t) PROVE Kept
    BY <2>8 DEF Kill, Release, Goto, HostType
  <2>9. Kept
    BY <2>1, <2>2, <2>3, <2>4, <2>5, <2>6, <2>7, <2>8 DEF MeterStep, KillerStep
  <2> QED
    BY <2>9 DEF HandleHasPid
<1> QED
  BY <1>1, <1>2, <1>3, <1>4, StepKinds DEF host, vars

(***************************************************************************)
(* The theorem: the invariant holds initially and every step keeps it.     *)
(***************************************************************************)

\* A host thread changes nothing of the zygote's and the kernel's state but
\* the pending signal.
LEMMA HostLeavesServer ==
  ASSUME TypeInv, TaskInv, SocketType',
         \/ \E c \in Clients : ClientStep(c)
         \/ \E t \in Threads : MeterStep(t) \/ RecvFails(t) \/ RecvPanics(t) \/ KillerStep(t)
  PROVE  ServerInv'
<1>1. UNCHANGED <<zpc, zwant, tasks, procs, written>> /\ sigkill' \in BOOLEAN
  BY DEF TypeInv, TypeOK, ZygoteType, HostType, zygote, kernel,
     ClientStep, SpawnRefused, SpawnQuery, SpawnQueryTooLong,
     SpawnSendFds, SpawnSendFdsFails, SpawnRecvInfo, SpawnRecvEvent, SpawnEventFails,
     Poll, WaitRecv, WaitRecvFails, DropChild, MeterStep, MeterGone, MeterQuery,
     MeterRecv, RecvFails, RecvPanics, KillerStep, KillCall, Kill
<1>2. ZygoteType' /\ KernelType' /\ EndedHasStatus'
  BY <1>1 DEF TypeInv, TypeOK, ZygoteType, KernelType, EndedHasStatus
<1>3. TaskInv'
  BY <1>1, TaskInvStable DEF Exited, Open
<1> QED
  BY <1>2, <1>3 DEF ServerInv

LEMMA TypeNext ==
  ASSUME TypeInv, TaskInv, [Next]_vars
  PROVE  TypeInv' /\ TaskInv'
<1>1. HandleHasPid'
  BY HandlePidStep
<1>2. CASE \/ \E c \in Clients : ClientStep(c)
           \/ \E t \in Threads : MeterStep(t) \/ RecvFails(t) \/ RecvPanics(t) \/ KillerStep(t)
  <2>1. HostType' /\ SocketType'
    BY <1>2, ClientType, OtherThreadsType
  <2>2. ServerInv'
    BY <1>2, <2>1, HostLeavesServer
  <2> QED
    BY <1>1, <2>1, <2>2 DEF TypeInv, TypeOK, ServerInv
<1>3. CASE host' = host /\ (\/ ZygoteStep \/ ZygoteSpawnFails
                            \/ \E q \in DOMAIN procs : JobExit(q)
                            \/ ZygoteDies \/ ZygoteCrash
                            \/ NamespaceTeardown)
  <2>1. HostType'
    BY <1>3 DEF TypeInv, TypeOK, host, HostType
  <2>2. ServerInv'
    BY <1>3, ReceiveSteps, SpawnStep, ExitCodeStep, ServerOtherSteps, KernelSteps
       DEF ZygoteStep
  <2> QED
    BY <1>1, <2>1, <2>2 DEF TypeInv, TypeOK, ServerInv
<1>4. CASE UNCHANGED vars
  <2>1. TaskInv'
    BY <1>4, TaskInvStable DEF vars, zygote, kernel, Exited, Open
  <2> QED
    BY <1>1, <1>4, <2>1 DEF TypeInv, TypeOK, vars, host, socket, zygote, kernel,
       HostType, SocketType, ZygoteType, KernelType, EndedHasStatus
<1> QED
  BY <1>2, <1>3, <1>4, StepKinds

\* Whatever the threads, the pids, the faults and the interleaving, every
\* variable keeps its type (the zygote's task list stays a sequence, the fd
\* packets have sizes) and the zygote's tasks stand, one each, for processes
\* it forked and has not waited for.
THEOREM TypeCorrect == Spec => [](TypeOK /\ TaskInv)
<1>1. Init => TypeInv /\ TaskInv
  BY TypeInit DEF Init, TaskInv, TasksAreChildren, ChildPidsUnique, TasksUnique, Children
<1>2. TypeInv /\ TaskInv /\ [Next]_vars => TypeInv' /\ TaskInv'
  BY TypeNext
<1>3. TypeInv /\ TaskInv => TypeOK /\ TaskInv
  BY DEF TypeInv
<1> QED
  BY <1>1, <1>2, <1>3, PTL DEF Spec


-----------------------------------------------------------------------------
(***************************************************************************)
(* Who gets which answer of the zygote, with every fault.                  *)
(***************************************************************************)

\* Threads in these places hold the mutex.
Inside == {"send_fds", "info", "event", "exit_code", "usage"}

\* The mutex is held by the thread that is inside a request, as long as the
\* sandbox was not killed; only clients spawn and wait.
LockInv ==
  /\ \A t \in Threads : owner = t <=> pc[t] \in Inside
  /\ owner # None => info
  /\ \A t \in Threads \ Clients : pc[t] \notin {"send_fds", "info", "event", "exit_code", "child"}
  /\ \A t \in Clients : pc[t] # "usage"

\* The zygote will receive, at place i of its queue, or is receiving (0), the
\* descriptors of a job, in so many packets.
Begins(i) == IF i = 0 THEN zpc = "fds" ELSE toZyg[i].k = "body" /\ toZyg[i].ty = "Spawn"
Need(i)   == IF i = 0 THEN Len(zwant) ELSE Len(Chunks(3 + toZyg[i].v))

\* Something else comes before they are complete.
Blocked(i) ==
  \E j \in 1..Len(toZyg) : i < j /\ j <= i + Need(i) /\ toZyg[j].k # "fds"

\* Requests of spawn_job that failed half way are never answered: the
\* descriptors that are missing do not come any more.
SpawnsInv ==
  \A i \in 0..Len(toZyg) : Begins(i) =>
    \/ Blocked(i)
    \/ owner = None /\ Len(toZyg) < i + Need(i)
    \/ /\ owner # None /\ pc[owner] = "send_fds" /\ Len(toZyg) = i /\ Need(i) > 0
       /\ Len(FdPackets(req[owner].stdio + req[owner].extra)) <= Need(i)
    \/ owner # None /\ pc[owner] = "info" /\ Len(toZyg) <= i + Need(i)

\* Any other query is the last packet, and its sender waits.
QueriesInv ==
  \A i \in 1..Len(toZyg) : toZyg[i].k = "body" /\ toZyg[i].ty # "Spawn" =>
    /\ i = Len(toZyg) /\ owner # None
    /\ \/ pc[owner] = "exit_code" /\ toZyg[i] = Body("GetExitCode", child[owner].pid)
       \/ pc[owner] = "usage" /\ toZyg[i] = Body("GetResourceUsage", 0)

\* Nothing is sent to a zygote that has gone, and a reset was not seen yet only
\* if there was no answer to see.
ClosedInv == /\ ~Open => toZyg = <<>>
             /\ sockErr => ~Open /\ toHost = <<>>

\* The job exists, was spawned for client c, and has this pid.
JobOf(c, job, pid) == job \in DOMAIN procs /\ procs[job].by = c /\ procs[job].pid = pid

\* The zygote has not waited for the job as long as it serves.
NotReaped(job) == Open => procs[job].st # "reaped"

\* An answer is on its way only to the thread that holds the mutex, when the
\* zygote has nothing else to do, and it is the answer to its request.
AnswerInv ==
  toHost # <<>> =>
    /\ owner # None /\ toZyg = <<>> /\ zpc \notin {"body", "fds"}
    /\ pc[owner] = "send_fds" => FALSE
    /\ pc[owner] = "info" =>
         \E job \in DOMAIN procs :
           /\ toHost = <<Hdr("JobStartupInfo"), Body("JobStartupInfo", procs[job].pid), Fds(job)>>
           /\ procs[job].by = owner /\ NotReaped(job)
    /\ pc[owner] = "event" =>
         \E job \in DOMAIN procs :
           /\ toHost = <<Fds(job)>>
           /\ JobOf(owner, job, child[owner].pid) /\ NotReaped(job)
    /\ pc[owner] = "exit_code" =>
         /\ procs[child[owner].job].status # None
         /\ toHost = Message("i64", "i64", procs[child[owner].job].status)
    /\ pc[owner] = "usage" =>
         toHost = Message("ResourceUsageInformation", "ResourceUsageInformation", 0)

\* A handle is that of the client's own job, which nobody else waits for.
HandleInv ==
  \A c \in Clients :
    /\ child[c].job # None => JobOf(c, child[c].job, child[c].pid)
    /\ pc[c] \in {"child", "exit_code"} => child[c].job # None
    /\ pc[c] \in {"idle", "send_fds", "info", "event"} => child[c].job = None
    /\ child[c].code # None => pc[c] = "done"
    /\ pc[c] = "child" \/ (pc[c] = "exit_code" /\ toHost = <<>>) => NotReaped(child[c].job)
    /\ child[c].code \notin {None, KILLED} =>
         child[c].job # None /\ procs[child[c].job].status = child[c].code

\* Jobs that run have no exit status, and those that ended keep theirs.
StatusInv ==
  \A q \in DOMAIN procs :
    /\ Running(q) => procs[q].status = None
    /\ procs[q].status \in Statuses \cup {KilledStatus, None}

ServiceInv ==
  /\ LockInv /\ SpawnsInv /\ QueriesInv /\ ClosedInv /\ AnswerInv /\ HandleInv /\ StatusInv
  /\ KilledOnlyIfGone

\* The inductive invariant.
Inv == TypeInv /\ TaskInv /\ ServiceInv

(***************************************************************************)
(* Queues.                                                                 *)
(***************************************************************************)

\* More descriptors take no fewer packets, and any take one.
LEMMA ChunksGrow ==
  ASSUME NEW n \in Nat, NEW m \in Nat, n <= m
  PROVE  /\ Len(FdPackets(n)) \in Nat /\ Len(Chunks(m)) \in Nat
         /\ Len(FdPackets(n)) <= Len(Chunks(m))
         /\ m > 0 => Len(Chunks(m)) > 0
<1> DEFINE f == FdChunkSize
           a == (n + f - 1) \div f
           b == (m + f - 1) \div f
<1>1. f \in Nat \ {0}
  BY FdChunkSizeAssumption
<1>2. /\ a \in Nat /\ a * f <= n + f - 1 /\ n + f - 1 < a * f + f
      /\ b \in Nat /\ b * f <= m + f - 1 /\ m + f - 1 < b * f + f
  BY <1>1
<1>3. a <= b
  <2>1. \A k, l \in Nat : k > l => k * f >= l * f + f
    <3> SUFFICES ASSUME NEW k \in Nat, NEW l \in Nat, k > l PROVE k * f >= l * f + f
      OBVIOUS
    <3>1. (k - (l + 1)) * f >= 0
      BY <1>1
    <3>2. (k - (l + 1)) * f = k * f - (l * f + f)
      BY <1>1
    <3>3. k * f \in Nat /\ l * f \in Nat
      BY <1>1
    <3> QED
      BY <1>1, <3>1, <3>2, <3>3
  <2>2. a * f \in Nat /\ b * f \in Nat
    BY <1>1, <1>2
  <2>3. a > b => a * f >= b * f + f
    BY <1>2, <2>1
  <2> QED
    BY <1>1, <1>2, <2>2, <2>3
<1>4. m > 0 => b > 0
  BY <1>1, <1>2
<1>5. Len(Chunks(n)) = a /\ Len(Chunks(m)) = b
  <2>1. Chunks(n) \in Seq(Int) /\ Chunks(m) \in Seq(Int)
    BY ChunksType
  <2>2. DOMAIN Chunks(n) = 1..a /\ DOMAIN Chunks(m) = 1..b
    BY DEF Chunks
  <2> HIDE DEF a, b
  <2> QED
    BY <1>2, <2>1, <2>2
<1>6. Len(FdPackets(n)) = a
  <2>1. FdPackets(n) \in Seq(Packet)
    BY ChunksType
  <2>2. DOMAIN FdPackets(n) = 1..a
    BY <1>5 DEF FdPackets
  <2> HIDE DEF a
  <2> QED
    BY <1>2, <2>1, <2>2
<1> HIDE DEF a, b
<1> QED
  BY <1>2, <1>3, <1>4, <1>5, <1>6

\* All packets of descriptors are such packets.
LEMMA FdPacketsAre ==
  ASSUME NEW n \in Nat
  PROVE  FdPackets(n) \in Seq(Packet) /\ \A i \in 1..Len(FdPackets(n)) : FdPackets(n)[i].k = "fds"
<1>1. FdPackets(n) \in Seq(Packet) /\ Chunks(n) \in Seq(Int)
  BY ChunksType
<1>2. FdPackets(n) = [i \in 1..Len(Chunks(n)) |-> Fds(Chunks(n)[i])] /\ Len(Chunks(n)) \in Nat
  BY <1>1 DEF FdPackets
<1>3. Len(FdPackets(n)) = Len(Chunks(n))
  BY <1>2
<1> QED
  BY <1>1, <1>2, <1>3 DEF Fds

LEMMA ConcatIs ==
  ASSUME NEW s \in Seq(Packet), NEW p \in Seq(Packet)
  PROVE  /\ s \o p \in Seq(Packet) /\ Len(s \o p) = Len(s) + Len(p)
         /\ \A i \in 1..Len(s) : (s \o p)[i] = s[i]
         /\ \A i \in 1..Len(p) : (s \o p)[Len(s) + i] = p[i]
OBVIOUS

LEMMA TailIs ==
  ASSUME NEW S, NEW s \in Seq(S), s # <<>>
  PROVE  /\ Tail(s) \in Seq(S) /\ Len(Tail(s)) = Len(s) - 1 /\ Len(s) \in Nat \ {0}
         /\ \A i \in 1..(Len(s) - 1) : Tail(s)[i] = s[i + 1]
OBVIOUS

\* Where nothing is queued and nothing is received nothing can be wrong.
LEMMA QuietQueues ==
  ASSUME toZyg' = <<>>, zpc' \notin {"body", "fds"}
  PROVE  SpawnsInv' /\ QueriesInv'
<1>1. Len(<<>>) = 0
  OBVIOUS
<1> QED
  BY <1>1 DEF SpawnsInv, QueriesInv, Begins

\* The needs of what is in the queue.
LEMMA NeedIsNat ==
  ASSUME TypeOK, NEW i \in 0..Len(toZyg)
  PROVE  Need(i) \in Nat /\ Len(toZyg) \in Nat /\ (i > 0 => toZyg[i] \in Packet)
<1>1. zwant \in Seq(Int) /\ toZyg \in Seq(Packet) /\ Len(toZyg) \in Nat
  BY DEF TypeOK, ZygoteType, SocketType
<1>2. CASE i = 0
  BY <1>1, <1>2 DEF Need
<1>3. CASE i > 0
  <2>0. i \in 1..Len(toZyg)
    BY <1>1, <1>3
  <2>1. toZyg[i] \in Packet
    BY <1>1, <2>0
  <2>2. 3 + toZyg[i].v \in Int
    BY <2>1 DEF Packet
  <2>3. Chunks(3 + toZyg[i].v) \in Seq(Int)
    BY <2>2, ChunksType
  <2> QED
    BY <1>1, <1>3, <2>1, <2>3 DEF Need
<1> QED
  BY <1>2, <1>3

\* A thread that locks the mutex sends a header first.  It comes in the way of
\* whatever was left unfinished in the queue.
LEMMA HeaderBlocks ==
  ASSUME Inv, owner = None, NEW p \in Seq(Packet), p # <<>>, p[1].k = "hdr",
         toZyg' = toZyg \o p, UNCHANGED <<zpc, zwant>>
  PROVE  /\ \A i \in 0..Len(toZyg) : Begins(i)' => Blocked(i)'
         /\ \A i \in 1..Len(toZyg) : toZyg'[i].k = "body" => toZyg'[i].ty = "Spawn"
<1>1. toZyg \in Seq(Packet) /\ Len(toZyg) \in Nat /\ Len(p) \in Nat \ {0}
  BY DEF Inv, TypeInv, TypeOK, SocketType
<1>2. /\ Len(toZyg') = Len(toZyg) + Len(p) /\ toZyg'[Len(toZyg) + 1] = p[1]
      /\ \A i \in 1..Len(toZyg) : toZyg'[i] = toZyg[i]
  BY <1>1, ConcatIs
<1>3. ASSUME NEW i \in 0..Len(toZyg), Begins(i)' PROVE Blocked(i)'
  <2>1. Begins(i) /\ Need(i)' = Need(i) /\ Need(i) \in Nat
    BY <1>2, <1>3, NeedIsNat DEF Begins, Need, Inv, TypeInv
  <2>2. CASE Blocked(i)
    BY <1>1, <1>2, <2>1, <2>2 DEF Blocked
  <2>3. CASE Len(toZyg) < i + Need(i)
    <3> DEFINE j == Len(toZyg) + 1
    <3>1. j \in 1..Len(toZyg') /\ i < j /\ j <= i + Need(i)' /\ toZyg'[j].k # "fds"
      BY <1>1, <1>2, <2>1, <2>3
    <3> QED
      BY <3>1 DEF Blocked
  <2> QED
    BY <2>1, <2>2, <2>3 DEF Inv, ServiceInv, SpawnsInv
<1>4. \A i \in 1..Len(toZyg) : toZyg[i].k = "body" => toZyg[i].ty = "Spawn"
  BY DEF Inv, ServiceInv, QueriesInv
<1> QED
  BY <1>2, <1>3, <1>4

(***************************************************************************)
(* Steps of the host.                                                      *)
(***************************************************************************)

\* Nobody is in two places.
LEMMA GotoIs ==
  ASSUME HostType, NEW t \in Threads, NEW to, Goto(t, to)
  PROVE  pc'[t] = to /\ \A u \in Threads : u # t => pc'[u] = pc[u]
BY DEF Goto, HostType

LEMMA ClientsAreThreads == Clients \subseteq Threads /\ None \notin Threads
BY ThreadsAssumption DEF Threads

\* A thread that does not hold the mutex goes somewhere outside.
LEMMA OutsideKeeps ==
  ASSUME Inv, NEW t \in Threads, pc[t] \notin Inside,
         NEW to, to \notin Inside \cup {"child", "idle"}, Goto(t, to),
         UNCHANGED <<owner, info, req, toZyg, toHost, sockErr, zpc, zwant, procs>>,
         \/ child' = child /\ (t \in Clients => pc[t] # "done")
         \/ t \in Clients /\ ~info /\ to = "done" /\ child' = [child EXCEPT ![t].code = KILLED]
  PROVE  ServiceInv'
<1>1. pc'[t] = to /\ \A u \in Threads : u # t => pc'[u] = pc[u]
  BY GotoIs DEF Inv, TypeInv, TypeOK
<1>2. owner # t /\ owner \in Threads \cup {None}
  BY DEF Inv, TypeInv, TypeOK, HostType, ServiceInv, LockInv
<1>3. \A c \in Clients : /\ child'[c].pid = child[c].pid /\ child'[c].job = child[c].job
                         /\ \/ child'[c].code = child[c].code
                            \/ child'[c].code = KILLED /\ ~info /\ c = t /\ to = "done"
  BY DEF Inv, TypeInv, TypeOK, HostType
<1>4. LockInv'
  BY <1>1, <1>2, ClientsAreThreads DEF Inv, ServiceInv, LockInv, Inside
<1>5. owner # None => pc'[owner] = pc[owner]
  BY <1>1, <1>2
<1>6. SpawnsInv'
  BY <1>5 DEF Inv, ServiceInv, SpawnsInv, Begins, Blocked, Need
<1>7. owner # None /\ pc[owner] \in {"exit_code", "event"} => child'[owner].pid = child[owner].pid
                                                  /\ child'[owner].job = child[owner].job
  BY <1>2, <1>3 DEF Inv, ServiceInv, LockInv
<1>8. QueriesInv'
  BY <1>5, <1>7 DEF Inv, ServiceInv, QueriesInv
<1>9. ClosedInv' /\ StatusInv'
  BY DEF Inv, ServiceInv, ClosedInv, StatusInv, Open, Running
<1>10. AnswerInv'
  BY <1>5, <1>7 DEF Inv, ServiceInv, AnswerInv, JobOf, NotReaped, Open
<1>11. HandleInv' /\ KilledOnlyIfGone'
  BY <1>1, <1>3, ClientsAreThreads
  DEF Inv, ServiceInv, HandleInv, JobOf, NotReaped, Open, KilledOnlyIfGone, Inside
<1> QED
  BY <1>4, <1>6, <1>8, <1>9, <1>10, <1>11 DEF ServiceInv

\* A thread leaves with_zygote, or fails to enter it.
LEMMA LeaveKeeps ==
  ASSUME Inv, NEW t \in Threads, owner = t \/ (owner = None /\ pc[t] \notin Inside),
         NEW to, to \notin Inside, to = "child" => t \in Clients, Release(t, to),
         toHost' = <<>>, sockErr' => sockErr, UNCHANGED <<info, procs, zpc, zwant>>,
         SpawnsInv', QueriesInv', HandleInv', KilledOnlyIfGone', ~Open => toZyg' = <<>>
  PROVE  ServiceInv'
<1>1. pc'[t] = to /\ (\A u \in Threads : u # t => pc'[u] = pc[u]) /\ owner' = None
  BY GotoIs DEF Inv, TypeInv, TypeOK, Release
<1>2. LockInv'
  BY <1>1, ClientsAreThreads DEF Inv, ServiceInv, LockInv, Inside
<1>3. ClosedInv' /\ StatusInv' /\ AnswerInv'
  BY DEF Inv, ServiceInv, ClosedInv, StatusInv, Open, Running, AnswerInv
<1> QED
  BY <1>2, <1>3 DEF ServiceInv

\* A thread locks the mutex and sends its query, if there is anybody to send it to.
LEMMA EnterKeeps ==
  ASSUME Inv, NEW t \in Threads, CanEnter(t), pc[t] \notin Inside,
         NEW to, Goto(t, to), owner' = t,
         NEW ty, NEW v \in Int, Message("Query", ty, v) \in Seq(Packet),
         Post(Message("Query", ty, v)),
         UNCHANGED <<info, child, toHost, zpc, zwant, procs>>,
         \A c \in Clients : c # t => req'[c] = req[c],
         \/ /\ to = "send_fds" /\ ty = "Spawn" /\ t \in Clients /\ pc[t] = "idle" /\ Open
            /\ req'[t] \in [stdio : 0..3, extra : Nat] /\ v = req'[t].extra
         \/ to = "exit_code" /\ ty = "GetExitCode" /\ t \in Clients /\ pc[t] = "child"
            /\ v = child[t].pid
         \/ to = "usage" /\ ty = "GetResourceUsage" /\ t \notin Clients /\ v = 0
  PROVE  ServiceInv'
<1> DEFINE p == Message("Query", ty, v)
           n == Len(toZyg)
<1>1. pc'[t] = to /\ \A u \in Threads : u # t => pc'[u] = pc[u]
  BY GotoIs DEF Inv, TypeInv, TypeOK
<1>2. owner = None /\ info /\ t # None /\ t \in Threads
  BY ClientsAreThreads DEF CanEnter
<1>3. toHost = <<>>
  BY <1>2 DEF Inv, ServiceInv, AnswerInv
<1>4. LockInv'
  BY <1>1, <1>2, ClientsAreThreads DEF Inv, ServiceInv, LockInv, Inside
<1>5. ClosedInv' /\ StatusInv' /\ AnswerInv'
  BY <1>3 DEF Inv, ServiceInv, ClosedInv, StatusInv, AnswerInv, Open, Running, Post
<1>6. HandleInv' /\ KilledOnlyIfGone'
  BY <1>1, <1>2, <1>3, ClientsAreThreads
  DEF Inv, ServiceInv, HandleInv, JobOf, NotReaped, Open, KilledOnlyIfGone, Inside
<1>7. CASE ~ Open
  <2>1. toZyg' = <<>> /\ zpc' \notin {"body", "fds"}
    BY <1>7 DEF Inv, ServiceInv, ClosedInv, Post, Open
  <2> QED
    BY <1>4, <1>5, <1>6, <2>1, QuietQueues DEF ServiceInv
<1>8. CASE Open
  <2>1. toZyg \in Seq(Packet) /\ n \in Nat /\ toZyg' = toZyg \o p
    BY <1>8 DEF Inv, TypeInv, TypeOK, SocketType, Post
  <2>2. p \in Seq(Packet) /\ Len(p) = 2 /\ p[1] = Hdr("Query") /\ p[2] = Body(ty, v)
        /\ p # <<>> /\ p[1].k = "hdr"
    BY DEF Message, Hdr
  <2> HIDE DEF p, n
  <2>3. /\ Len(toZyg') = n + 2
        /\ toZyg'[n + 1] = Hdr("Query") /\ toZyg'[n + 2] = Body(ty, v)
    <3>1. Len(toZyg') = Len(toZyg) + Len(p) /\ \A i \in 1..Len(p) : toZyg'[Len(toZyg) + i] = p[i]
      BY <2>1, <2>2, ConcatIs
    <3>2. 1 \in 1..Len(p) /\ 2 \in 1..Len(p)
      BY <2>2
    <3> QED
      BY <2>2, <3>1, <3>2 DEF n
  <2>4. /\ \A i \in 0..n : Begins(i)' => Blocked(i)'
        /\ \A i \in 1..n : toZyg'[i].k = "body" => toZyg'[i].ty = "Spawn"
    BY <1>2, <2>1, <2>2, HeaderBlocks DEF n
  <2>5. /\ toZyg'[n + 1].k = "hdr" /\ toZyg'[n + 2].k = "body" /\ toZyg'[n + 2].ty = ty
        /\ toZyg'[n + 2].v = v
    BY <2>3 DEF Hdr, Body
  <2>6. QueriesInv'
    <3> SUFFICES ASSUME NEW i \in 1..Len(toZyg'), toZyg'[i].k = "body", toZyg'[i].ty # "Spawn"
                 PROVE  /\ i = Len(toZyg')
                        /\ \/ to = "exit_code" /\ toZyg'[i] = Body("GetExitCode", child[t].pid)
                           \/ to = "usage" /\ toZyg'[i] = Body("GetResourceUsage", 0)
      BY <1>1, <1>2 DEF QueriesInv
    <3>1. i = n + 2
      BY <2>1, <2>3, <2>4, <2>5
    <3> QED
      BY <2>3, <2>5, <3>1
  <2>7. SpawnsInv'
    <3> SUFFICES ASSUME NEW i \in 0..Len(toZyg'), Begins(i)', ~ Blocked(i)'
                 PROVE  /\ pc'[t] = "send_fds" /\ Len(toZyg') = i /\ Need(i)' > 0
                        /\ Len(FdPackets(req'[t].stdio + req'[t].extra)) <= Need(i)'
      BY <1>2 DEF SpawnsInv
    <3>1. i = n + 2 /\ i # 0
      BY <2>1, <2>3, <2>4, <2>5 DEF Begins
    <3>2. ty = "Spawn"
      BY <2>5, <3>1 DEF Begins
    <3>3. Need(i)' = Len(Chunks(3 + req'[t].extra))
      BY <2>5, <3>1, <3>2 DEF Need
    <3>4. /\ req'[t].stdio + req'[t].extra \in Nat /\ 3 + req'[t].extra \in Nat
          /\ req'[t].stdio + req'[t].extra <= 3 + req'[t].extra /\ 3 + req'[t].extra > 0
      BY <3>2
    <3> QED
      BY <1>1, <2>3, <3>1, <3>2, <3>3, <3>4, ChunksGrow
  <2> QED
    BY <1>4, <1>5, <1>6, <2>6, <2>7 DEF ServiceInv
<1> QED
  BY <1>7, <1>8

\* spawn_job passes the descriptors, all of them or, failing, fewer.
LEMMA SendFdsKeeps ==
  ASSUME Inv, NEW c \in Clients, pc[c] = "send_fds", NEW sent \in Seq(Packet),
         \A i \in 1..Len(sent) : sent[i].k = "fds",
         Len(sent) <= Len(FdPackets(req[c].stdio + req[c].extra)),
         IF Open THEN toZyg' = toZyg \o sent ELSE toZyg' = toZyg,
         sockErr' => sockErr,
         req' = [req EXCEPT ![c] = NoRequest],
         UNCHANGED <<info, child, toHost, zpc, zwant, procs>>,
         \/ owner' = owner /\ Goto(c, "info")
         \/ Release(c, "failed") /\ (Open => Len(sent) < Len(FdPackets(req[c].stdio + req[c].extra)))
  PROVE  ServiceInv'
<1> DEFINE n == Len(toZyg)
           all == Len(FdPackets(req[c].stdio + req[c].extra))
<1>1. c \in Threads /\ owner = c /\ owner # None /\ info /\ toHost = <<>>
  BY ClientsAreThreads DEF Inv, ServiceInv, LockInv, Inside, AnswerInv
<1>2. \A u \in Threads : u # c => pc'[u] = pc[u]
  BY <1>1, GotoIs DEF Inv, TypeInv, TypeOK, Release
<1>3. \/ owner' = c /\ pc'[c] = "info"
      \/ owner' = None /\ pc'[c] = "failed" /\ (Open => Len(sent) < all)
  BY <1>1, GotoIs DEF Inv, TypeInv, TypeOK, Release
<1>4. LockInv'
  BY <1>1, <1>2, <1>3, ClientsAreThreads DEF Inv, ServiceInv, LockInv, Inside
<1>5. StatusInv' /\ AnswerInv'
  BY <1>1 DEF Inv, ServiceInv, StatusInv, AnswerInv, Running
<1>6. HandleInv' /\ KilledOnlyIfGone'
  <2>1. \A d \in Clients : pc'[d] = pc[d] \/ (d = c /\ pc'[d] \in {"info", "failed"})
    BY <1>2, <1>3, ClientsAreThreads
  <2>2. child[c].job = None /\ child[c].code = None
    BY DEF Inv, ServiceInv, HandleInv
  <2> QED
    BY <2>1, <2>2 DEF Inv, ServiceInv, HandleInv, JobOf, NotReaped, Open, KilledOnlyIfGone
<1>7. CASE ~ Open
  <2>1. toZyg' = <<>> /\ zpc' \notin {"body", "fds"} /\ ClosedInv'
    BY <1>7 DEF Inv, ServiceInv, ClosedInv, Open
  <2> QED
    BY <1>4, <1>5, <1>6, <2>1, QuietQueues DEF ServiceInv
<1>8. CASE Open
  <2>1. /\ toZyg \in Seq(Packet) /\ n \in Nat /\ toZyg' = toZyg \o sent /\ Len(sent) \in Nat
        /\ req[c].stdio + req[c].extra \in Nat
    <3>1. toZyg \in Seq(Packet)
      BY DEF Inv, TypeInv, TypeOK, SocketType
    <3>2. req[c] \in [stdio : 0..3, extra : Nat]
      BY DEF Inv, TypeInv, TypeOK, HostType
    <3>3. req[c].stdio + req[c].extra \in Nat
      BY <3>2
    <3> QED
      BY <1>8, <3>1, <3>3
  <2>2. all \in Nat
    BY <2>1, ChunksGrow
  <2> HIDE DEF n, all
  <2>3. /\ Len(toZyg') = n + Len(sent)
        /\ \A i \in 1..n : toZyg'[i] = toZyg[i]
        /\ \A i \in 1..Len(sent) : toZyg'[n + i] = sent[i]
    BY <2>1, ConcatIs DEF n
  <2>4. \A i \in 1..Len(toZyg') : i > n => toZyg'[i].k = "fds"
    <3> SUFFICES ASSUME NEW i \in 1..Len(toZyg'), i > n PROVE toZyg'[i].k = "fds"
      OBVIOUS
    <3>1. i - n \in 1..Len(sent) /\ n + (i - n) = i
      BY <2>1, <2>3
    <3> QED
      BY <2>3, <3>1
  <2>5. ClosedInv'
    BY <1>8 DEF Inv, ServiceInv, ClosedInv, Open
  <2>6. QueriesInv'
    <3> SUFFICES ASSUME NEW i \in 1..Len(toZyg'), toZyg'[i].k = "body", toZyg'[i].ty # "Spawn"
                 PROVE  FALSE
      BY DEF QueriesInv
    <3>1. i \in 1..n /\ toZyg'[i] = toZyg[i]
      BY <2>1, <2>3, <2>4
    <3> QED
      BY <1>1, <3>1 DEF Inv, ServiceInv, QueriesInv, n
  <2>7. SpawnsInv'
    <3> SUFFICES ASSUME NEW i \in 0..Len(toZyg'), Begins(i)', ~ Blocked(i)'
                 PROVE  \/ owner' = None /\ Len(toZyg') < i + Need(i)'
                        \/ owner' # None /\ pc'[owner'] = "info" /\ Len(toZyg') <= i + Need(i)'
      BY DEF SpawnsInv
    <3>1. i \in 0..n
      BY <2>1, <2>3, <2>4 DEF Begins
    <3>2. Begins(i) /\ Need(i)' = Need(i) /\ Need(i) \in Nat
      BY <2>3, <3>1, NeedIsNat DEF Begins, Need, Inv, TypeInv, n
    <3>3. ~ Blocked(i)
      <4> SUFFICES ASSUME NEW j \in 1..Len(toZyg), i < j, j <= i + Need(i), toZyg[j].k # "fds"
                   PROVE  FALSE
        BY DEF Blocked
      <4>1. j \in 1..Len(toZyg') /\ toZyg'[j] = toZyg[j]
        BY <2>1, <2>3 DEF n
      <4> QED
        BY <3>2, <4>1 DEF Blocked
    <3>4. Len(toZyg) = i /\ all <= Need(i) /\ Need(i) > 0
      BY <1>1, <3>1, <3>2, <3>3 DEF Inv, ServiceInv, SpawnsInv, n, all
    <3> QED
      BY <1>1, <1>3, <1>8, <2>1, <2>2, <2>3, <3>2, <3>4 DEF n, all
  <2> QED
    BY <1>4, <1>5, <1>6, <2>5, <2>6, <2>7 DEF ServiceInv
<1> QED
  BY <1>7, <1>8

LEMMA SendSteps ==
  ASSUME Inv, NEW c \in Clients, SpawnSendFds(c) \/ SpawnSendFdsFails(c)
  PROVE  ServiceInv'
<1> DEFINE packets == FdPackets(req[c].stdio + req[c].extra)
<1>1. req[c].stdio + req[c].extra \in Nat
  <2>1. req[c] \in [stdio : 0..3, extra : Nat]
    BY DEF Inv, TypeInv, TypeOK, HostType
  <2> QED
    BY <2>1
<1>2. packets \in Seq(Packet) /\ \A i \in 1..Len(packets) : packets[i].k = "fds"
  BY <1>1, FdPacketsAre
<1>3. /\ pc[c] = "send_fds" /\ req' = [req EXCEPT ![c] = NoRequest]
      /\ UNCHANGED <<info, child, toHost, zpc, zwant, procs>>
  BY DEF SpawnSendFds, SpawnSendFdsFails, zygote, kernel
<1>4. toZyg \in Seq(Packet) /\ (sockErr' => sockErr)
  BY DEF Inv, TypeInv, TypeOK, SocketType, SpawnSendFds, SpawnSendFdsFails, Post
<1>5. CASE SpawnSendFds(c) /\ packets = <<>>
  <2>1. owner' = owner /\ Goto(c, "info") /\ toZyg' = toZyg
    BY <1>5 DEF SpawnSendFds
  <2>2. packets \in Seq(Packet) /\ toZyg \o packets = toZyg /\ Len(packets) <= Len(packets)
    BY <1>2, <1>4, <1>5
  <2> HIDE DEF packets
  <2>3. IF Open THEN toZyg' = toZyg \o packets ELSE toZyg' = toZyg
    BY <2>1, <2>2
  <2> QED
    BY <1>2, <1>3, <1>4, <2>1, <2>2, <2>3, SendFdsKeeps DEF packets
<1>6. CASE SpawnSendFds(c) /\ packets # <<>>
  <2>1. /\ IF Open THEN toZyg' = toZyg \o packets ELSE toZyg' = toZyg
        /\ IF Open THEN owner' = owner /\ Goto(c, "info") ELSE Release(c, "failed")
    BY <1>6 DEF SpawnSendFds, Post
  <2>2. Len(packets) <= Len(packets)
    BY <1>2
  <2> QED
    BY <1>2, <1>3, <1>4, <2>1, <2>2, SendFdsKeeps
<1>7. CASE SpawnSendFdsFails(c)
  <2>1. PICK n \in 0..(Len(packets) - 1) : Post(SubSeq(packets, 1, n))
    BY <1>7 DEF SpawnSendFdsFails
  <2>2. Release(c, "failed") /\ Len(packets) \in Nat /\ n \in Nat /\ n < Len(packets)
    BY <1>2, <1>7 DEF SpawnSendFdsFails
  <2> DEFINE sent == SubSeq(packets, 1, n)
  <2> HIDE DEF packets
  <2>3. /\ sent \in Seq(Packet) /\ Len(sent) = n
        /\ \A i \in 1..Len(sent) : sent[i].k = "fds"
    <3>1. \A i \in 1..n : i \in 1..Len(packets) /\ packets[i] \in Packet
      BY <1>2, <2>2
    <3>2. sent = [i \in 1..n |-> packets[i]]
      BY <1>2, <2>2
    <3> QED
      BY <1>2, <2>2, <3>1, <3>2
  <2>4. IF Open THEN toZyg' = toZyg \o sent ELSE toZyg' = toZyg
    BY <2>1 DEF Post
  <2>5. Len(sent) < Len(packets) /\ Len(sent) <= Len(packets)
    BY <2>2, <2>3
  <2> HIDE DEF sent
  <2> QED
    BY <1>3, <1>4, <2>2, <2>3, <2>4, <2>5, SendFdsKeeps DEF packets
<1> QED
  BY <1>5, <1>6, <1>7

\* What a thread inside a request knows.
LEMMA InsideFacts ==
  ASSUME Inv, NEW t \in Threads, pc[t] \in Inside
  PROVE  /\ owner = t /\ t # None /\ info
         /\ \A u \in Threads : pc[u] \in Inside => u = t
         /\ toHost # <<>> \/ ~Open => toZyg = <<>> /\ zpc \notin {"body", "fds"}
         /\ sockErr => ~Open /\ toHost = <<>>
BY ClientsAreThreads DEF Inv, ServiceInv, LockInv, AnswerInv, ClosedInv, Open

\* It leaves with nothing on its way in either direction.
LEMMA LeaveQuietly ==
  ASSUME Inv, NEW t \in Threads, pc[t] \in Inside,
         NEW to, to \notin Inside \cup {"child", "idle"}, Release(t, to),
         toHost' = <<>>, sockErr' => sockErr,
         toHost # <<>> \/ ~Open,
         UNCHANGED <<info, procs, zpc, zwant, toZyg>>,
         \/ child' = child
         \/ /\ t \in Clients /\ to = "done" /\ pc[t] = "exit_code"
            /\ \/ child' = [child EXCEPT ![t].code = KILLED] /\ ~Open
               \/ /\ child' = [child EXCEPT ![t].code = procs[child[t].job].status]
                  /\ procs[child[t].job].status \in Statuses \cup {KilledStatus}
  PROVE  ServiceInv'
<1>1. /\ owner = t /\ (\A u \in Threads : pc[u] \in Inside => u = t)
      /\ toZyg = <<>> /\ zpc \notin {"body", "fds"}
  BY InsideFacts
<1>2. pc'[t] = to /\ (\A u \in Threads : u # t => pc'[u] = pc[u])
  BY GotoIs DEF Inv, TypeInv, TypeOK, Release
<1>3. SpawnsInv' /\ QueriesInv'
  BY <1>1, QuietQueues
<1>4. \A c \in Clients : c \in Threads /\ (c # t => child'[c] = child[c] /\ pc'[c] = pc[c])
  BY <1>2, ClientsAreThreads DEF Inv, TypeInv, TypeOK, HostType
<1>5. t \in Clients => /\ child'[t].pid = child[t].pid /\ child'[t].job = child[t].job
                       /\ \/ child'[t].code = child[t].code /\ child[t].code = None
                          \/ /\ to = "done" /\ child[t].job # None
                             /\ \/ child'[t].code = KILLED /\ ~Open
                                \/ /\ child'[t].code = procs[child[t].job].status
                                   /\ child'[t].code \in Statuses \cup {KilledStatus}
  <2>1. t \in Clients => child[t].code = None /\ (pc[t] = "exit_code" => child[t].job # None)
    BY DEF Inv, ServiceInv, HandleInv, Inside
  <2> QED
    BY <2>1 DEF Inv, TypeInv, TypeOK, HostType
<1>6. KilledOnlyIfGone'
  BY <1>4, <1>5, ValuesAssumption DEF Inv, ServiceInv, KilledOnlyIfGone, Open
<1>7. HandleInv'
  <2> SUFFICES ASSUME NEW c \in Clients
               PROVE  /\ child'[c].job # None => JobOf(c, child[c].job, child[c].pid)'
                      /\ pc'[c] \in {"child", "exit_code"} => child'[c].job # None
                      /\ pc'[c] \in {"idle", "send_fds", "info", "event"} => child'[c].job = None
                      /\ child'[c].code # None => pc'[c] = "done"
                      /\ pc'[c] = "child" \/ (pc'[c] = "exit_code" /\ toHost' = <<>>)
                           => NotReaped(child[c].job)'
                      /\ child'[c].code \notin {None, KILLED} =>
                           child'[c].job # None /\ procs'[child'[c].job].status = child'[c].code
    BY DEF HandleInv
  <2>1. CASE c # t
    BY <1>1, <1>4, <2>1 DEF Inv, ServiceInv, HandleInv, JobOf, NotReaped, Open, Inside
  <2>2. CASE c = t
    <3>1. to \notin {"child", "exit_code", "send_fds", "info", "event"} /\ pc[c] # "idle"
      BY <2>2 DEF Inside
    <3> QED
      BY <1>2, <1>5, <2>2, <3>1 DEF Inv, ServiceInv, HandleInv, JobOf, NotReaped, Open, Inside
  <2> QED
    BY <2>1, <2>2
<1>8. owner = t \/ (owner = None /\ pc[t] \notin Inside)
  BY <1>1
<1>9. to \notin Inside /\ to # "child"
  OBVIOUS
<1> QED
  BY <1>1, <1>3, <1>6, <1>7, <1>8, <1>9, LeaveKeeps

\* Sequences that are read from.
LEMMA ReadIs ==
  ASSUME NEW a, NEW b, NEW c
  PROVE  /\ SubSeq(<<a, b>>, 3, Len(<<a, b>>)) = <<>>
         /\ SubSeq(<<a, b, c>>, 3, Len(<<a, b, c>>)) = <<c>>
         /\ Tail(<<a>>) = <<>>
<1>1. Len(<<a, b>>) = 2 /\ Len(<<a, b, c>>) = 3 /\ <<a, b, c>>[3] = c
  OBVIOUS
<1>2. SubSeq(<<a, b>>, 3, 2) = <<>>
  OBVIOUS
<1>3. SubSeq(<<a, b, c>>, 3, 3) = <<c>>
  <2> DEFINE abc == <<a, b, c>>
             rest == SubSeq(abc, 3, 3)
  <2>1. abc \in Seq({a, b, c}) /\ Len(abc) = 3
    OBVIOUS
  <2> HIDE DEF abc
  <2>2. rest \in Seq({a, b, c}) /\ Len(rest) = 1 /\ rest[1] = abc[3]
    BY <2>1
  <2> HIDE DEF rest
  <2>3. rest = <<rest[1]>>
    BY <2>2
  <2>4. rest[1] = c
    BY <1>1, <2>2 DEF abc
  <2> QED
    BY <2>3, <2>4 DEF rest, abc
<1>4. Tail(<<a>>) = <<>>
  OBVIOUS
<1> QED
  BY <1>1, <1>2, <1>3, <1>4

LEMMA AppendIs ==
  ASSUME NEW a, NEW b, NEW c
  PROVE  Append(<<a, b>>, c) = <<a, b, c>>
<1> DEFINE S == {a, b, c}
           t == <<a, b>>
           u == Append(t, c)
<1>1. t \in Seq(S) /\ c \in S /\ Len(t) = 2 /\ t[1] = a /\ t[2] = b
  OBVIOUS
<1>2. \A s \in Seq(S) : /\ Append(s, c) \in Seq(S) /\ Len(Append(s, c)) = Len(s) + 1
                       /\ Append(s, c)[Len(s) + 1] = c
                       /\ \A i \in 1..Len(s) : Append(s, c)[i] = s[i]
  OBVIOUS
<1> HIDE DEF S, t
<1>5. /\ u \in Seq(S) /\ Len(u) = Len(t) + 1 /\ u[Len(t) + 1] = c
      /\ \A i \in 1..Len(t) : u[i] = t[i]
  BY <1>1, <1>2
<1> HIDE DEF u
<1>3. u \in Seq(S) /\ Len(u) = 3 /\ u[3] = c /\ u[1] = t[1] /\ u[2] = t[2]
  BY <1>1, <1>5
<1>4. u = <<u[1], u[2], u[3]>>
  BY <1>3
<1> QED
  BY <1>1, <1>3, <1>4 DEF t, u

\* What a thread that reads finds.
LEMMA AnswerIs ==
  ASSUME Inv, NEW t \in Threads, pc[t] \in Inside, toHost # <<>>
  PROVE  /\ pc[t] # "send_fds"
         /\ pc[t] = "info" =>
              \E job \in DOMAIN procs :
                /\ toHost = <<Hdr("JobStartupInfo"), Body("JobStartupInfo", procs[job].pid), Fds(job)>>
                /\ procs[job].by = t /\ NotReaped(job)
         /\ pc[t] = "event" =>
              \E job \in DOMAIN procs :
                /\ toHost = <<Fds(job)>>
                /\ JobOf(t, job, child[t].pid) /\ NotReaped(job)
         /\ pc[t] = "exit_code" =>
              /\ procs[child[t].job].status # None
              /\ toHost = Message("i64", "i64", procs[child[t].job].status)
         /\ pc[t] = "usage" =>
              toHost = Message("ResourceUsageInformation", "ResourceUsageInformation", 0)
<1>1. owner = t
  BY InsideFacts
<1> QED
  BY <1>1 DEF Inv, ServiceInv, AnswerInv

LEMMA FailingSteps ==
  ASSUME Inv, NEW t \in Threads,
         \/ RecvFails(t) \/ RecvPanics(t) \/ MeterRecv(t)
         \/ t \in Clients /\ (WaitRecv(t) \/ WaitRecvFails(t) \/ SpawnEventFails(t))
  PROVE  ServiceInv'
<1>1. CASE RecvFails(t)
  <2>1. /\ pc[t] \in Inside /\ sockErr /\ Release(t, "failed") /\ sockErr' = FALSE
        /\ UNCHANGED <<info, child, procs, zpc, zwant, toZyg, toHost>>
    BY <1>1 DEF RecvFails, Inside, zygote, kernel
  <2>2. toHost' = <<>> /\ ~Open
    BY <2>1, InsideFacts
  <2> QED
    BY <2>1, <2>2, LeaveQuietly DEF Inside
<1>2. CASE RecvPanics(t)
  <2>1. /\ pc[t] \in {"info", "exit_code", "usage"} /\ Release(t, "panicked") /\ sockErr' = sockErr
        /\ UNCHANGED <<info, child, procs, zpc, zwant, toZyg>>
        /\ WrongType(Expected[pc[t]])
    BY <1>2 DEF RecvPanics, Expected, zygote, kernel
  <2>2. toHost = <<>>
    <3> SUFFICES ASSUME toHost # <<>> PROVE FALSE
      OBVIOUS
    <3>1. toHost[1] # Hdr(Expected[pc[t]])
      BY <2>1 DEF WrongType
    <3>2. CASE pc[t] = "info"
      <4>1. toHost[1] = Hdr("JobStartupInfo")
        BY <3>2, AnswerIs DEF Inside
      <4> QED
        BY <3>1, <3>2, <4>1 DEF Expected
    <3>3. CASE pc[t] = "exit_code"
      <4>1. toHost[1] = Hdr("i64")
        BY <3>3, AnswerIs DEF Inside, Message
      <4> QED
        BY <3>1, <3>3, <4>1 DEF Expected
    <3>4. CASE pc[t] = "usage"
      <4>1. toHost[1] = Hdr("ResourceUsageInformation")
        BY <3>4, AnswerIs DEF Inside, Message
      <4> QED
        BY <3>1, <3>4, <4>1 DEF Expected
    <3> QED
      BY <2>1, <3>2, <3>3, <3>4
  <2>3. toHost' = <<>> /\ ~Open
    BY <1>2, <2>1, <2>2 DEF RecvPanics, WrongType
  <2> QED
    BY <2>1, <2>3, LeaveQuietly DEF Inside
<1>3. CASE MeterRecv(t)
  <2>1. /\ pc[t] = "usage" /\ Release(t, "done") /\ sockErr' = sockErr
        /\ UNCHANGED <<info, child, procs, zpc, zwant, toZyg>>
        /\ toHost' = SubSeq(toHost, 3, Len(toHost)) /\ toHost # <<>>
    BY <1>3 DEF MeterRecv, Answered, zygote, kernel
  <2>2. toHost' = <<>>
    BY <2>1, AnswerIs, ReadIs DEF Inside, Message
  <2> QED
    BY <2>1, <2>2, LeaveQuietly DEF Inside
<1>4. CASE t \in Clients /\ WaitRecv(t)
  <2>1. /\ pc[t] = "exit_code" /\ Release(t, "done") /\ sockErr' = sockErr
        /\ UNCHANGED <<info, procs, zpc, zwant, toZyg>>
        /\ child' = [child EXCEPT ![t].code = toHost[2].v]
        /\ toHost' = SubSeq(toHost, 3, Len(toHost)) /\ toHost # <<>>
    BY <1>4 DEF WaitRecv, Answered, zygote, kernel
  <2>2. /\ toHost = Message("i64", "i64", procs[child[t].job].status)
        /\ procs[child[t].job].status # None
    BY <2>1, AnswerIs DEF Inside
  <2>3. toHost' = <<>> /\ toHost[2].v = procs[child[t].job].status
    BY <2>1, <2>2, ReadIs DEF Message, Body
  <2>4. child[t].job \in DOMAIN procs
    BY <1>4, <2>1 DEF Inv, ServiceInv, HandleInv, JobOf
  <2>5. procs[child[t].job].status \in Statuses \cup {KilledStatus}
    BY <2>2, <2>4 DEF Inv, ServiceInv, StatusInv
  <2> QED
    BY <1>4, <2>1, <2>3, <2>5, LeaveQuietly DEF Inside
<1>5. CASE t \in Clients /\ WaitRecvFails(t)
  <2>1. /\ pc[t] = "exit_code" /\ sockErr /\ Release(t, "done") /\ sockErr' = FALSE
        /\ child' = [child EXCEPT ![t].code = KILLED]
        /\ UNCHANGED <<info, procs, zpc, zwant, toZyg, toHost>>
    BY <1>5 DEF WaitRecvFails, zygote, kernel
  <2>2. toHost' = <<>> /\ ~Open
    BY <2>1, InsideFacts DEF Inside
  <2> QED
    BY <1>5, <2>1, <2>2, LeaveQuietly DEF Inside
<1>6. CASE t \in Clients /\ SpawnEventFails(t)
  <2>1. /\ pc[t] = "event" /\ Release(t, "failed") /\ sockErr' = FALSE
        /\ UNCHANGED <<info, child, procs, zpc, zwant, toZyg>>
        /\ toHost' = IF sockErr \/ toHost = <<>> THEN toHost ELSE Tail(toHost)
        /\ sockErr \/ (toHost = <<>> /\ ~Open) \/ toHost # <<>>
    BY <1>6 DEF SpawnEventFails, zygote, kernel
  <2>2. sockErr => ~Open /\ toHost = <<>>
    BY <2>1, InsideFacts DEF Inside
  <2>3. toHost # <<>> => Tail(toHost) = <<>>
    BY <2>1, AnswerIs, ReadIs DEF Inside
  <2>4. toHost' = <<>> /\ (toHost # <<>> \/ ~Open)
    BY <2>1, <2>2, <2>3
  <2> QED
    BY <2>1, <2>4, LeaveQuietly DEF Inside
<1> QED
  BY <1>1, <1>2, <1>3, <1>4, <1>5, <1>6

\* spawn_job gets the pid, and then the event of its job.
LEMMA SpawnReceives ==
  ASSUME Inv, NEW c \in Clients, SpawnRecvInfo(c) \/ SpawnRecvEvent(c)
  PROVE  ServiceInv'
<1>1. c \in Threads
  BY ClientsAreThreads
<1>2. CASE SpawnRecvInfo(c)
  <2>1. /\ pc[c] = "info" /\ Goto(c, "event") /\ toHost # <<>>
        /\ child' = [child EXCEPT ![c].pid = toHost[2].v]
        /\ toHost' = SubSeq(toHost, 3, Len(toHost))
        /\ UNCHANGED <<owner, info, req, toZyg, sockErr, procs, zpc, zwant>>
    BY <1>2 DEF SpawnRecvInfo, Answered, zygote, kernel
  <2>2. /\ owner = c /\ c # None /\ info /\ toZyg = <<>> /\ zpc \notin {"body", "fds"}
        /\ \A u \in Threads : pc[u] \in Inside => u = c
    BY <1>1, <2>1, InsideFacts DEF Inside
  <2>3. PICK job \in DOMAIN procs :
          /\ toHost = <<Hdr("JobStartupInfo"), Body("JobStartupInfo", procs[job].pid), Fds(job)>>
          /\ procs[job].by = c /\ NotReaped(job)
    BY <1>1, <2>1, AnswerIs DEF Inside
  <2>4. toHost' = <<Fds(job)>> /\ toHost[2].v = procs[job].pid
    BY <2>1, <2>3, ReadIs DEF Body
  <2>5. pc'[c] = "event" /\ \A u \in Threads : u # c => pc'[u] = pc[u]
    BY <1>1, <2>1, GotoIs DEF Inv, TypeInv, TypeOK
  <2>6. /\ child'[c].pid = procs[job].pid /\ child'[c].job = None /\ child'[c].code = None
        /\ \A d \in Clients : d # c => child'[d] = child[d]
    <3>1. child[c].job = None /\ child[c].code = None
      BY <2>1 DEF Inv, ServiceInv, HandleInv
    <3> QED
      BY <2>1, <2>4, <3>1 DEF Inv, TypeInv, TypeOK, HostType
  <2>7. LockInv'
    BY <1>1, <2>1, <2>2, <2>5, ClientsAreThreads DEF Inv, ServiceInv, LockInv, Inside
  <2>8. SpawnsInv' /\ QueriesInv'
    BY <2>1, <2>2, QuietQueues
  <2>9. ClosedInv' /\ StatusInv'
    <3>1. ~sockErr
      BY <2>3 DEF Inv, ServiceInv, ClosedInv
    <3> QED
      BY <2>1, <2>2, <3>1 DEF Inv, ServiceInv, ClosedInv, StatusInv, Open, Running
  <2>10. AnswerInv'
    BY <2>1, <2>2, <2>3, <2>4, <2>5, <2>6 DEF AnswerInv, JobOf, NotReaped, Open
  <2>11. KilledOnlyIfGone'
    BY <2>1, <2>6, ValuesAssumption DEF Inv, ServiceInv, KilledOnlyIfGone, Open
  <2>12. HandleInv'
    BY <1>1, <2>1, <2>2, <2>5, <2>6, ClientsAreThreads
    DEF Inv, ServiceInv, HandleInv, JobOf, NotReaped, Open, Inside
  <2> QED
    BY <2>7, <2>8, <2>9, <2>10, <2>11, <2>12 DEF ServiceInv
<1>3. CASE SpawnRecvEvent(c)
  <2>1. /\ pc[c] = "event" /\ Release(c, "child") /\ toHost # <<>>
        /\ child' = [child EXCEPT ![c].job = toHost[1].v]
        /\ toHost' = Tail(toHost)
        /\ UNCHANGED <<info, toZyg, sockErr, procs, zpc, zwant>>
    BY <1>3 DEF SpawnRecvEvent, zygote, kernel
  <2>2. /\ owner = c /\ toZyg = <<>> /\ zpc \notin {"body", "fds"}
        /\ \A u \in Threads : pc[u] \in Inside => u = c
    BY <1>1, <2>1, InsideFacts DEF Inside
  <2>3. PICK job \in DOMAIN procs :
          /\ toHost = <<Fds(job)>> /\ JobOf(c, job, child[c].pid) /\ NotReaped(job)
    BY <1>1, <2>1, AnswerIs DEF Inside
  <2>4. toHost' = <<>> /\ toHost[1].v = job
    BY <2>1, <2>3, ReadIs DEF Fds
  <2>5. pc'[c] = "child" /\ \A u \in Threads : u # c => pc'[u] = pc[u]
    BY <1>1, <2>1, GotoIs DEF Inv, TypeInv, TypeOK, Release
  <2>6. /\ child'[c].pid = child[c].pid /\ child'[c].job = job /\ child'[c].code = None
        /\ \A d \in Clients : d # c => child'[d] = child[d]
    <3>1. child[c].code = None
      BY <2>1 DEF Inv, ServiceInv, HandleInv
    <3> QED
      BY <2>1, <2>4, <3>1 DEF Inv, TypeInv, TypeOK, HostType
  <2>7. SpawnsInv' /\ QueriesInv'
    BY <2>1, <2>2, QuietQueues
  <2>8. KilledOnlyIfGone'
    BY <2>1, <2>6, ValuesAssumption DEF Inv, ServiceInv, KilledOnlyIfGone, Open
  <2>9. job # None
    BY <2>3, ValuesAssumption DEF Inv, TypeInv, TypeOK, KernelType
  <2>10. HandleInv'
    BY <1>1, <2>1, <2>2, <2>3, <2>4, <2>5, <2>6, <2>9, ClientsAreThreads
    DEF Inv, ServiceInv, HandleInv, JobOf, NotReaped, Open, Inside
  <2>11. "child" \notin Inside
    BY DEF Inside
  <2> QED
    BY <1>1, <2>1, <2>2, <2>4, <2>7, <2>8, <2>10, <2>11, LeaveKeeps
<1> QED
  BY <1>2, <1>3

\* Whoever finds the zygote gone leaves at once.
LEMMA FindsGone ==
  ASSUME Inv, NEW t \in Threads, pc[t] = "idle", CanEnter(t), ~Open, NEW p,
         Post(p), Release(t, "failed"),
         UNCHANGED <<info, child, toHost, zpc, zwant, procs>>
  PROVE  ServiceInv'
<1>1. owner = None /\ info /\ "failed" \notin Inside /\ pc[t] \notin Inside
  BY DEF CanEnter, Inside
<1>2. toHost' = <<>> /\ toZyg' = <<>> /\ zpc' \notin {"body", "fds"} /\ (sockErr' => sockErr)
  BY <1>1 DEF Inv, ServiceInv, AnswerInv, ClosedInv, Post, Open
<1>3. pc'[t] = "failed" /\ \A u \in Threads : u # t => pc'[u] = pc[u]
  BY GotoIs DEF Inv, TypeInv, TypeOK, Release
<1>4. HandleInv' /\ KilledOnlyIfGone'
  <2>1. \A d \in Clients : pc'[d] = pc[d] \/ (d = t /\ pc'[d] = "failed")
    BY <1>3, ClientsAreThreads
  <2>2. \A d \in Clients : pc[d] # "exit_code"
    BY <1>1, ClientsAreThreads DEF Inv, ServiceInv, LockInv, Inside
  <2>3. t \in Clients => child[t].code = None
    BY DEF Inv, ServiceInv, HandleInv
  <2> QED
    BY <2>1, <2>2, <2>3 DEF Inv, ServiceInv, HandleInv, JobOf, NotReaped, Open, KilledOnlyIfGone
<1>5. SpawnsInv' /\ QueriesInv'
  BY <1>2, QuietQueues
<1> QED
  BY <1>1, <1>2, <1>4, <1>5, LeaveKeeps

LEMMA SpawnQuerySteps ==
  ASSUME Inv, NEW c \in Clients, (\E r \in Requests : SpawnQuery(c, r)) \/ SpawnQueryTooLong(c)
  PROVE  ServiceInv'
<1>1. /\ c \in Threads /\ pc[c] = "idle" /\ CanEnter(c) /\ owner = None
      /\ pc[c] \notin Inside
      /\ UNCHANGED <<info, child, toHost, zpc, zwant, procs>>
  BY ClientsAreThreads DEF SpawnQuery, SpawnQueryTooLong, CanEnter, Inside, zygote, kernel
<1>2. CASE \E r \in Requests : SpawnQuery(c, r)
  <2>1. PICK r \in Requests : SpawnQuery(c, r)
    BY <1>2
  <2>2. r \in [stdio : 0..3, extra : Nat]
    BY RequestsAssumption
  <2>3. r.extra \in Int /\ Message("Query", "Spawn", r.extra) \in Seq(Packet)
    <3>1. r.extra \in Int
      BY <2>2
    <3> QED
      BY <3>1, MessageType
  <2>4. CASE Open
    <3>1. /\ owner' = c /\ Goto(c, "send_fds") /\ req' = [req EXCEPT ![c] = r]
          /\ Post(Message("Query", "Spawn", r.extra))
      BY <2>1, <2>4 DEF SpawnQuery
    <3>2. req'[c] = r /\ \A d \in Clients : d # c => req'[d] = req[d]
      BY <3>1 DEF Inv, TypeInv, TypeOK, HostType
    <3> QED
      BY <1>1, <2>2, <2>3, <2>4, <3>1, <3>2, EnterKeeps
  <2>5. CASE ~Open
    <3>1. Release(c, "failed") /\ Post(Message("Query", "Spawn", r.extra))
      BY <2>1, <2>5 DEF SpawnQuery
    <3> QED
      BY <1>1, <2>5, <3>1, FindsGone
  <2> QED
    BY <2>4, <2>5
<1>3. CASE SpawnQueryTooLong(c)
  <2> DEFINE p == <<Hdr("Query")>>
  <2>1. Open /\ Release(c, "failed") /\ toZyg' = toZyg \o p /\ sockErr' = sockErr
    BY <1>3 DEF SpawnQueryTooLong, Post
  <2>2. p \in Seq(Packet) /\ Len(p) = 1 /\ p # <<>> /\ p[1].k = "hdr"
    <3>1. <<Hdr("Query")>> \in Seq(Packet)
      BY MessageType, 0 \in Int
    <3> QED
      BY <3>1 DEF Hdr
  <2> HIDE DEF p
  <2>3. toZyg \in Seq(Packet) /\ Len(toZyg) \in Nat
    BY DEF Inv, TypeInv, TypeOK, SocketType
  <2>4. /\ \A i \in 0..Len(toZyg) : Begins(i)' => Blocked(i)'
        /\ \A i \in 1..Len(toZyg) : toZyg'[i].k = "body" => toZyg'[i].ty = "Spawn"
    BY <1>1, <2>1, <2>2, HeaderBlocks
  <2>5. Len(toZyg') = Len(toZyg) + 1 /\ toZyg'[Len(toZyg) + 1].k = "hdr"
    BY <2>1, <2>2, <2>3, ConcatIs
  <2>6. SpawnsInv'
    <3> SUFFICES ASSUME NEW i \in 0..Len(toZyg'), Begins(i)' PROVE Blocked(i)'
      BY DEF SpawnsInv
    <3>1. i \in 0..Len(toZyg)
      BY <2>3, <2>5 DEF Begins
    <3> QED
      BY <2>4, <3>1
  <2>7. QueriesInv'
    <3> SUFFICES ASSUME NEW i \in 1..Len(toZyg'), toZyg'[i].k = "body", toZyg'[i].ty # "Spawn"
                 PROVE  FALSE
      BY DEF QueriesInv
    <3>1. i \in 1..Len(toZyg)
      BY <2>3, <2>5
    <3> QED
      BY <2>4, <3>1
  <2>8. toHost' = <<>>
    BY <1>1 DEF Inv, ServiceInv, AnswerInv
  <2>9. pc'[c] = "failed" /\ \A u \in Threads : u # c => pc'[u] = pc[u]
    BY <1>1, <2>1, GotoIs DEF Inv, TypeInv, TypeOK, Release
  <2>10. HandleInv' /\ KilledOnlyIfGone'
    <3>1. \A d \in Clients : pc'[d] = pc[d] \/ (d = c /\ pc'[d] = "failed")
      BY <2>9, ClientsAreThreads
    <3>2. \A d \in Clients : pc[d] # "exit_code"
      BY <1>1, ClientsAreThreads DEF Inv, ServiceInv, LockInv, Inside
    <3>3. child[c].code = None
      BY <1>1 DEF Inv, ServiceInv, HandleInv
    <3> QED
      BY <1>1, <3>1, <3>2, <3>3
      DEF Inv, ServiceInv, HandleInv, JobOf, NotReaped, Open, KilledOnlyIfGone
  <2>11. "failed" \notin Inside
    BY DEF Inside
  <2> QED
    BY <1>1, <2>1, <2>6, <2>7, <2>8, <2>10, <2>11, LeaveKeeps
<1> QED
  BY <1>2, <1>3

\* The wait future and the meters ask.
LEMMA QuerySteps ==
  ASSUME Inv, NEW t \in Threads,
         (t \in Clients /\ Poll(t) /\ info) \/ (t \notin Clients /\ MeterQuery(t))
  PROVE  ServiceInv'
<1>1. CASE t \in Clients /\ Poll(t) /\ info
  <2>1. /\ pc[t] = "child" /\ CanEnter(t) /\ owner' = t /\ Goto(t, "exit_code")
        /\ Post(Message("Query", "GetExitCode", child[t].pid))
        /\ UNCHANGED <<info, req, child, toHost, zpc, zwant, procs>>
    BY <1>1 DEF Poll, CanEnter, zygote, kernel
  <2>2. child[t].pid \in Int
    BY <1>1, <2>1 DEF Inv, TypeInv, HandleHasPid
  <2>3. Message("Query", "GetExitCode", child[t].pid) \in Seq(Packet)
    BY <2>2, MessageType
  <2> QED
    BY <1>1, <2>1, <2>2, <2>3, EnterKeeps DEF Inside
<1>2. CASE t \notin Clients /\ MeterQuery(t)
  <2>1. /\ pc[t] = "idle" /\ CanEnter(t)
        /\ IF Open THEN owner' = t /\ Goto(t, "usage") ELSE Release(t, "failed")
        /\ Post(Message("Query", "GetResourceUsage", 0))
        /\ UNCHANGED <<info, req, child, toHost, zpc, zwant, procs>>
    BY <1>2 DEF MeterQuery, zygote, kernel
  <2>2. CASE Open
    <3>1. 0 \in Int /\ Message("Query", "GetResourceUsage", 0) \in Seq(Packet)
      BY MessageType
    <3> QED
      BY <1>2, <2>1, <2>2, <3>1, EnterKeeps DEF Inside
  <2>3. CASE ~Open
    BY <2>1, <2>3, FindsGone
  <2> QED
    BY <2>2, <2>3
<1> QED
  BY <1>1, <1>2

\* Steps outside of a request.
LEMMA OutsideSteps ==
  ASSUME Inv, NEW t \in Threads,
         \/ t \in Clients /\ (SpawnRefused(t) \/ DropChild(t) \/ (Poll(t) /\ ~info))
         \/ t \notin Clients /\ (MeterGone(t) \/ KillCall(t))
  PROVE  ServiceInv'
<1>1. UNCHANGED <<owner, info, req, toZyg, toHost, sockErr, zpc, zwant, procs>>
  BY DEF SpawnRefused, DropChild, Poll, MeterGone, KillCall, socket, zygote, kernel
<1>2. PICK to \in {"refused", "dropped", "done", "calling"} :
        /\ Goto(t, to)
        /\ \/ child' = child
           \/ t \in Clients /\ ~info /\ to = "done" /\ child' = [child EXCEPT ![t].code = KILLED]
  BY DEF SpawnRefused, DropChild, Poll, MeterGone, KillCall
<1>3. pc[t] \notin Inside /\ pc[t] # "done"
  BY DEF SpawnRefused, DropChild, Poll, MeterGone, KillCall, Inside
<1>4. to \notin Inside \cup {"child", "idle"}
  BY DEF Inside
<1> QED
  BY <1>1, <1>2, <1>3, <1>4, OutsideKeeps

\* kill takes the ZygoteInfo out when nobody is inside a request.
LEMMA KillStep ==
  ASSUME Inv, NEW k \in Threads, k \notin Clients, Kill(k)
  PROVE  ServiceInv'
<1>1. /\ owner = None /\ owner' = None /\ info' = FALSE /\ toHost' = <<>> /\ sockErr' = FALSE
      /\ UNCHANGED <<req, child, toZyg, zpc, zwant, procs>>
  BY DEF Kill, kernel
<1>2. pc'[k] = "killed" /\ \A u \in Threads : u # k => pc'[u] = pc[u]
  BY GotoIs DEF Inv, TypeInv, TypeOK, Kill
<1>3. LockInv'
  BY <1>1, <1>2, ClientsAreThreads DEF Inv, ServiceInv, LockInv, Inside
<1>4. SpawnsInv'
  BY <1>1 DEF Inv, ServiceInv, SpawnsInv, Begins, Blocked, Need
<1>5. QueriesInv'
  BY <1>1 DEF Inv, ServiceInv, QueriesInv
<1>6. ClosedInv' /\ AnswerInv' /\ StatusInv'
  BY <1>1 DEF Inv, ServiceInv, ClosedInv, AnswerInv, StatusInv, Open, Running
<1>7. \A c \in Clients : pc'[c] = pc[c] /\ pc[c] # "exit_code"
  BY <1>1, <1>2, ClientsAreThreads DEF Inv, ServiceInv, LockInv, Inside
<1>8. HandleInv' /\ KilledOnlyIfGone'
  BY <1>1, <1>7 DEF Inv, ServiceInv, HandleInv, JobOf, NotReaped, Open, KilledOnlyIfGone
<1> QED
  BY <1>3, <1>4, <1>5, <1>6, <1>8 DEF ServiceInv

(***************************************************************************)
(* Steps of the zygote.                                                    *)
(***************************************************************************)

\* However the zygote stops, what the others have received stays true.
LEMMA StopKeeps ==
  ASSUME Inv, Open, NEW label \in {"panicked", "bad_query", "failed", "killed"}, NEW rest,
         Stop(label, rest), rest # <<>> => toZyg # <<>>,
         UNCHANGED <<host, toHost, procs>>
  PROVE  ServiceInv'
<1>1. /\ toZyg' = <<>> /\ zpc' \notin {"recv", "body", "fds"} /\ ~Open'
      /\ UNCHANGED <<owner, info, pc, req, child, toHost, procs>>
  BY DEF Stop, Open, host
<1>2. SpawnsInv' /\ QueriesInv'
  BY <1>1, QuietQueues
<1>3. sockErr' => toHost = <<>>
  BY DEF Stop, Inv, ServiceInv, ClosedInv, AnswerInv
<1>4. ClosedInv' /\ StatusInv'
  BY <1>1, <1>3 DEF Inv, ServiceInv, ClosedInv, StatusInv, Running
<1>5. LockInv' /\ KilledOnlyIfGone'
  BY <1>1 DEF Inv, ServiceInv, LockInv, KilledOnlyIfGone
<1>6. AnswerInv'
  BY <1>1 DEF Inv, ServiceInv, AnswerInv, JobOf, NotReaped
<1>7. HandleInv'
  BY <1>1 DEF Inv, ServiceInv, HandleInv, JobOf, NotReaped
<1> QED
  BY <1>2, <1>4, <1>5, <1>6, <1>7 DEF ServiceInv

\* One packet less in the queue, and one less to come or one place nearer.
LEMMA Shifted ==
  ASSUME NEW i \in Nat, NEW k \in Nat, NEW n \in {0, 1}, NEW need \in Nat, NEW left \in Nat,
         NEW len \in Nat \ {0}, NEW len2, len2 = len - 1, left = need - n, i + 1 = k + n
  PROVE  /\ len < k + need => len2 < i + left
         /\ len <= k + need => len2 <= i + left
         /\ len = k /\ n = 0 => len2 = i
         /\ \A j \in 1..len : k < j /\ j <= k + need /\ (n = 1 => j # 1 /\ k = 0) =>
              j - 1 \in 1..len2 /\ i < j - 1 /\ j - 1 <= i + left /\ (j - 1) + 1 = j
OBVIOUS

\* The zygote takes a packet and waits for the next.
LEMMA TakeKeeps ==
  ASSUME Inv, Open, zpc' \in {"body", "fds"}, toZyg # <<>>, toZyg' = Tail(toZyg),
         UNCHANGED <<host, toHost, sockErr, procs>>,
         zpc' = "fds" =>
           \/ Begins(1) /\ Need(0)' = Need(1)
           \/ Begins(0) /\ Need(0) > 0 /\ Need(0)' = Need(0) - 1 /\ toZyg[1].k = "fds"
  PROVE  ServiceInv'
<1>1. /\ Open' /\ UNCHANGED <<owner, info, pc, req, child, toHost, procs>>
      /\ toHost = <<>>
  BY DEF Open, host, Inv, ServiceInv, AnswerInv
<1>2. /\ toZyg \in Seq(Packet) /\ Len(toZyg) \in Nat \ {0} /\ Len(toZyg') = Len(toZyg) - 1
      /\ \A i \in 1..(Len(toZyg) - 1) : toZyg'[i] = toZyg[i + 1]
  <2>1. toZyg \in Seq(Packet)
    BY DEF Inv, TypeInv, TypeOK, SocketType
  <2> QED
    BY <2>1, TailIs
\* The place i stands where k was, and so many of its packets were taken.
<1> DEFINE Stands(i, k, n) == /\ k \in 0..Len(toZyg) /\ Begins(k) /\ Need(k) \in Nat
                              /\ Need(i)' = Need(k) - n /\ Need(i)' \in Nat
                              /\ i + 1 = k + n
<1>3. ASSUME NEW i \in 0..Len(toZyg'), Begins(i)'
      PROVE  Stands(i, i + 1, 0) \/ (i = 0 /\ Stands(i, 0, 1) /\ toZyg[1].k = "fds")
  <2>1. CASE i > 0
    <3>1. i \in 1..Len(toZyg') /\ i + 1 \in 1..Len(toZyg) /\ toZyg'[i] = toZyg[i + 1]
      BY <1>2, <2>1
    <3>2. Begins(i + 1) /\ Need(i)' = Need(i + 1)
      BY <1>3, <2>1, <3>1 DEF Begins, Need
    <3>3. Need(i + 1) \in Nat /\ i + 1 \in 0..Len(toZyg)
      BY <3>1, NeedIsNat DEF Inv, TypeInv
    <3> QED
      BY <3>2, <3>3
  <2>2. CASE i = 0
    <3>1. zpc' = "fds"
      BY <1>3, <2>2 DEF Begins
    <3>2. 0 \in 0..Len(toZyg) /\ 1 \in 0..Len(toZyg)
      BY <1>2
    <3>3. Need(0) \in Nat /\ Need(1) \in Nat
      BY <3>2, NeedIsNat DEF Inv, TypeInv
    <3> QED
      BY <2>2, <3>1, <3>2, <3>3
  <2> QED
    BY <1>2, <2>1, <2>2
<1>4. ASSUME NEW i \in 0..Len(toZyg'), Begins(i)', NEW k, NEW n \in {0, 1},
             Stands(i, k, n), n = 1 => i = 0 /\ k = 0 /\ toZyg[1].k = "fds"
      PROVE  \/ Blocked(i)'
             \/ owner' = None /\ Len(toZyg') < i + Need(i)'
             \/ /\ owner' # None /\ pc'[owner'] = "send_fds" /\ Len(toZyg') = i /\ Need(i)' > 0
                /\ Len(FdPackets(req'[owner'].stdio + req'[owner'].extra)) <= Need(i)'
             \/ owner' # None /\ pc'[owner'] = "info" /\ Len(toZyg') <= i + Need(i)'
  <2>0. /\ i \in Nat /\ k \in Nat /\ Need(k) \in Nat /\ Need(i)' \in Nat
        /\ Need(i)' = Need(k) - n /\ i + 1 = k + n
    BY <1>2, <1>4
  <2>1. /\ Len(toZyg) < k + Need(k) => Len(toZyg') < i + Need(i)'
        /\ Len(toZyg) <= k + Need(k) => Len(toZyg') <= i + Need(i)'
        /\ Len(toZyg) = k /\ n = 0 => Len(toZyg') = i
        /\ \A j \in 1..Len(toZyg) : k < j /\ j <= k + Need(k) /\ (n = 1 => j # 1 /\ k = 0) =>
             /\ j - 1 \in 1..Len(toZyg') /\ i < j - 1 /\ j - 1 <= i + Need(i)'
             /\ (j - 1) + 1 = j
    <3> DEFINE need == Need(k)
               left == Need(i)'
               len  == Len(toZyg)
               len2 == Len(toZyg')
    <3>1. /\ i \in Nat /\ k \in Nat /\ need \in Nat /\ left \in Nat /\ len \in Nat \ {0}
          /\ left = need - n /\ i + 1 = k + n /\ len2 = len - 1
      BY <1>2, <2>0
    <3> HIDE DEF need, left, len, len2
    <3>2. /\ len < k + need => len2 < i + left
          /\ len <= k + need => len2 <= i + left
          /\ len = k /\ n = 0 => len2 = i
          /\ \A j \in 1..len : k < j /\ j <= k + need /\ (n = 1 => j # 1 /\ k = 0) =>
               /\ j - 1 \in 1..len2 /\ i < j - 1 /\ j - 1 <= i + left
               /\ (j - 1) + 1 = j
      BY <3>1, Shifted
    <3> QED
      BY <3>2 DEF need, left, len, len2
  <2>2. CASE Blocked(k)
    <3>1. PICK j \in 1..Len(toZyg) : k < j /\ j <= k + Need(k) /\ toZyg[j].k # "fds"
      BY <2>2 DEF Blocked
    <3>2. n = 1 => j # 1 /\ k = 0
      BY <1>4, <3>1
    <3>3. /\ j - 1 \in 1..Len(toZyg') /\ i < j - 1 /\ j - 1 <= i + Need(i)'
          /\ (j - 1) + 1 = j
      BY <2>1, <3>1, <3>2
    <3>4. toZyg'[j - 1] = toZyg[j]
      BY <1>2, <3>3
    <3> QED
      BY <3>1, <3>3, <3>4 DEF Blocked
  <2>3. CASE owner = None /\ Len(toZyg) < k + Need(k)
    BY <1>1, <2>1, <2>3
  <2>4. CASE /\ owner # None /\ pc[owner] = "send_fds" /\ Len(toZyg) = k /\ Need(k) > 0
             /\ Len(FdPackets(req[owner].stdio + req[owner].extra)) <= Need(k)
    <3>1. n = 0
      BY <1>2, <1>4, <2>4
    <3>2. Need(i)' = Need(k)
      BY <2>0, <3>1
    <3> QED
      BY <1>1, <2>1, <2>4, <3>1, <3>2
  <2>5. CASE owner # None /\ pc[owner] = "info" /\ Len(toZyg) <= k + Need(k)
    BY <1>1, <2>1, <2>5
  <2> QED
    BY <1>4, <2>2, <2>3, <2>4, <2>5 DEF Inv, ServiceInv, SpawnsInv
<1> HIDE DEF Stands
<1>5. SpawnsInv'
  <2> SUFFICES ASSUME NEW i \in 0..Len(toZyg'), Begins(i)'
               PROVE  \/ Blocked(i)'
                      \/ owner' = None /\ Len(toZyg') < i + Need(i)'
                      \/ /\ owner' # None /\ pc'[owner'] = "send_fds" /\ Len(toZyg') = i
                         /\ Need(i)' > 0
                         /\ Len(FdPackets(req'[owner'].stdio + req'[owner'].extra)) <= Need(i)'
                      \/ owner' # None /\ pc'[owner'] = "info" /\ Len(toZyg') <= i + Need(i)'
    BY DEF SpawnsInv
  <2>1. CASE Stands(i, i + 1, 0)
    BY <1>4, <2>1
  <2>2. CASE i = 0 /\ Stands(i, 0, 1) /\ toZyg[1].k = "fds"
    BY <1>4, <2>2
  <2> QED
    BY <1>3, <2>1, <2>2
<1>6. QueriesInv'
  <2> SUFFICES ASSUME NEW i \in 1..Len(toZyg'), toZyg'[i].k = "body", toZyg'[i].ty # "Spawn"
               PROVE  /\ i = Len(toZyg') /\ owner' # None
                      /\ \/ pc'[owner'] = "exit_code"
                            /\ toZyg'[i] = Body("GetExitCode", child'[owner'].pid)
                         \/ pc'[owner'] = "usage" /\ toZyg'[i] = Body("GetResourceUsage", 0)
    BY DEF QueriesInv
  <2>1. i \in 1..(Len(toZyg) - 1) /\ toZyg'[i] = toZyg[i + 1]
    BY <1>2
  <2>2. i + 1 \in 1..Len(toZyg) /\ (i + 1 = Len(toZyg) => i = Len(toZyg'))
    <3> DEFINE len  == Len(toZyg)
               len2 == Len(toZyg')
    <3>1. i \in 1..(len - 1) /\ len \in Nat \ {0} /\ len2 = len - 1
      BY <1>2, <2>1
    <3> HIDE DEF len, len2
    <3>2. i + 1 \in 1..len /\ (i + 1 = len => i = len2)
      BY <3>1
    <3> QED
      BY <3>2 DEF len, len2
  <2> QED
    BY <1>1, <2>1, <2>2 DEF Inv, ServiceInv, QueriesInv
<1>7. ClosedInv' /\ StatusInv' /\ LockInv' /\ KilledOnlyIfGone' /\ AnswerInv'
  <2>1. sockErr' = FALSE
    BY DEF Inv, ServiceInv, ClosedInv, TypeInv, TypeOK, SocketType
  <2> QED
    BY <1>1, <2>1
    DEF Inv, ServiceInv, ClosedInv, StatusInv, LockInv, KilledOnlyIfGone, AnswerInv, Running
<1>8. HandleInv'
  BY <1>1 DEF Inv, ServiceInv, HandleInv, JobOf, NotReaped
<1> QED
  BY <1>5, <1>6, <1>7, <1>8 DEF ServiceInv

LEMMA ReceivesKeep ==
  ASSUME Inv,
         \/ ZygoteIterate \/ ZygoteBadQuery \/ ZygoteGotSpawn \/ ZygoteRecvFds
         \/ ZygoteSpawnFails \/ ZygoteDies \/ ZygoteCrash
  PROVE  ServiceInv'
<1>1. CASE ZygoteIterate
  <2>1. /\ zpc = "recv" /\ toZyg # <<>> /\ RecvHeader /\ Open
        /\ UNCHANGED <<host, toHost, procs>>
    BY <1>1, NeverReaps DEF Open, kernel
  <2>2. CASE Head(toZyg) = Hdr("Query")
    <3>1. zpc' = "body" /\ toZyg' = Tail(toZyg) /\ sockErr' = sockErr
      BY <2>1, <2>2 DEF RecvHeader
    <3> QED
      BY <2>1, <3>1, TakeKeeps
  <2>3. CASE Head(toZyg) # Hdr("Query")
    <3>1. Stop("panicked", Tail(toZyg))
      BY <2>1, <2>3 DEF RecvHeader
    <3> QED
      BY <2>1, <3>1, StopKeeps
  <2> QED
    BY <2>2, <2>3
<1>2. CASE ZygoteBadQuery
  <2>1. Open /\ toZyg # <<>> /\ Stop("bad_query", Tail(toZyg)) /\ UNCHANGED <<host, toHost, procs>>
    BY <1>2 DEF ZygoteBadQuery, Open, kernel
  <2> QED
    BY <2>1, StopKeeps
<1>3. CASE ZygoteGotSpawn
  <2>1. /\ Open /\ toZyg # <<>> /\ zpc' = "fds" /\ toZyg' = Tail(toZyg)
        /\ zwant' = Chunks(3 + toZyg[1].v) /\ Begins(1)
        /\ UNCHANGED <<host, toHost, sockErr, procs>>
    BY <1>3 DEF ZygoteGotSpawn, Incoming, Open, Begins, kernel
  <2>2. Need(0)' = Need(1)
    BY <2>1 DEF Need
  <2> QED
    BY <2>1, <2>2, TakeKeeps
<1>4. CASE ZygoteRecvFds
  <2>1. /\ Open /\ toZyg # <<>> /\ zpc = "fds" /\ zwant # <<>>
        /\ UNCHANGED <<host, toHost, procs>>
    BY <1>4 DEF ZygoteRecvFds, Open, kernel
  <2>2. CASE toZyg[1] = Fds(zwant[1])
    <3>1. /\ zpc' = "fds" /\ toZyg' = Tail(toZyg) /\ zwant' = Tail(zwant) /\ sockErr' = sockErr
      BY <1>4, <2>1, <2>2 DEF ZygoteRecvFds
    <3>2. Len(zwant) > 0 /\ Len(zwant') = Len(zwant) - 1
      <4>1. zwant \in Seq(Int)
        BY DEF Inv, TypeInv, TypeOK, ZygoteType
      <4> QED
        BY <2>1, <3>1, <4>1, TailIs
    <3>3. Begins(0) /\ Need(0) > 0 /\ Need(0)' = Need(0) - 1 /\ toZyg[1].k = "fds"
      BY <2>1, <2>2, <3>2 DEF Begins, Need, Fds
    <3> QED
      BY <2>1, <3>1, <3>3, TakeKeeps
  <2>3. CASE toZyg[1] # Fds(zwant[1])
    <3>1. Stop("panicked", Tail(toZyg))
      BY <1>4, <2>3 DEF ZygoteRecvFds
    <3> QED
      BY <2>1, <3>1, StopKeeps
  <2> QED
    BY <2>2, <2>3
<1>5. CASE ZygoteSpawnFails \/ ZygoteDies \/ ZygoteCrash
  <2>1. Open /\ UNCHANGED <<host, toHost, procs>>
    BY <1>5 DEF ZygoteSpawnFails, ZygoteDies, ZygoteCrash, Exited, Open, kernel
  <2>2. Stop("panicked", toZyg) \/ Stop("killed", toZyg)
    BY <1>5 DEF ZygoteSpawnFails, ZygoteDies, ZygoteCrash
  <2> QED
    BY <2>1, <2>2, StopKeeps
<1> QED
  BY <1>1, <1>2, <1>3, <1>4, <1>5

\* A zygote with all descriptors of a job serves the thread that waits for it.
LEMMA SpawnServes ==
  ASSUME Inv, zpc = "fds", zwant = <<>>
  PROVE  /\ owner # None /\ owner \in Clients /\ pc[owner] = "info" /\ info
         /\ toZyg = <<>> /\ toHost = <<>> /\ sockErr = FALSE
<1>1. 0 \in 0..Len(toZyg) /\ Len(toZyg) \in Nat /\ toZyg \in Seq(Packet)
  <2>1. toZyg \in Seq(Packet)
    BY DEF Inv, TypeInv, TypeOK, SocketType
  <2> QED
    BY <2>1
<1>2. Begins(0) /\ Need(0) = 0
  BY DEF Begins, Need
<1>3. ~Blocked(0)
  BY <1>1, <1>2 DEF Blocked
<1>4. owner # None /\ pc[owner] = "info" /\ Len(toZyg) <= 0
  BY <1>1, <1>2, <1>3 DEF Inv, ServiceInv, SpawnsInv
<1>5. owner \in Clients /\ info
  BY <1>4 DEF Inv, ServiceInv, LockInv, TypeInv, TypeOK, HostType
<1>6. toHost = <<>>
  BY DEF Inv, ServiceInv, AnswerInv
<1>7. sockErr = FALSE
  BY DEF Inv, ServiceInv, ClosedInv, Open, TypeInv, TypeOK, SocketType
<1> QED
  BY <1>1, <1>4, <1>5, <1>6, <1>7

LEMMA SpawnKeeps ==
  ASSUME Inv, ZygoteSpawn
  PROVE  ServiceInv'
<1> DEFINE job == Len(procs) + 1
<1>1. PICK pid \in Pids :
        /\ procs' = Append(procs, [pid |-> pid, st |-> "running", status |-> None, by |-> owner])
        /\ Reply(Append(Message("JobStartupInfo", "JobStartupInfo", pid), Fds(job)))
  BY DEF ZygoteSpawn
<1> DEFINE new == [pid |-> pid, st |-> "running", status |-> None, by |-> owner]
<1>2. /\ zpc = "fds" /\ zwant = <<>> /\ zpc' = "recv"
      /\ UNCHANGED <<owner, info, pc, req, child, toZyg, sockErr, zwant>>
  BY DEF ZygoteSpawn, host
<1>3. /\ owner # None /\ owner \in Clients /\ pc[owner] = "info" /\ info
      /\ toZyg = <<>> /\ toHost = <<>> /\ sockErr = FALSE
  BY <1>2, SpawnServes
<1>4. /\ DOMAIN procs' = DOMAIN procs \cup {job} /\ job \notin DOMAIN procs
      /\ procs'[job] = new /\ \A q \in DOMAIN procs : procs'[q] = procs[q]
  <2>1. procs \in Seq(Process) /\ new \in Process
    BY <1>1, <1>2 DEF Inv, TypeInv, TypeOK, KernelType, HostType, Process
  <2> HIDE DEF new
  <2> QED
    BY <1>1, <2>1 DEF new
<1>5. toHost' = <<Hdr("JobStartupInfo"), Body("JobStartupInfo", procs'[job].pid), Fds(job)>>
  <2>1. toHost' = <<>> \o Append(Message("JobStartupInfo", "JobStartupInfo", pid), Fds(job))
    BY <1>1, <1>3 DEF Reply
  <2>2. \A a, b, c : <<>> \o Append(<<a, b>>, c) = <<a, b, c>>
    <3> SUFFICES ASSUME NEW a, NEW b, NEW c PROVE <<>> \o Append(<<a, b>>, c) = <<a, b, c>>
      OBVIOUS
    <3>1. Append(<<a, b>>, c) = <<a, b, c>>
      BY AppendIs
    <3>2. <<a, b, c>> \in Seq({a, b, c})
      OBVIOUS
    <3>3. \A t \in Seq({a, b, c}) : <<>> \o t = t
      OBVIOUS
    <3> QED
      BY <3>1, <3>2, <3>3
  <2>3. procs'[job].pid = pid
    BY <1>4
  <2> QED
    BY <2>1, <2>2, <2>3 DEF Message
<1>6. Open /\ Open'
  BY <1>2 DEF Open
<1>7. SpawnsInv' /\ QueriesInv'
  BY <1>2, <1>3, QuietQueues
<1>8. LockInv' /\ ClosedInv' /\ KilledOnlyIfGone'
  BY <1>2, <1>3, <1>6 DEF Inv, ServiceInv, LockInv, ClosedInv, KilledOnlyIfGone
<1>9. StatusInv'
  BY <1>4 DEF Inv, ServiceInv, StatusInv, Running
<1>10. AnswerInv'
  <2>1. job \in DOMAIN procs' /\ procs'[job].by = owner /\ procs'[job].st # "reaped"
    BY <1>4
  <2> QED
    BY <1>2, <1>3, <1>5, <2>1 DEF AnswerInv, NotReaped
<1>11. HandleInv'
  <2>1. \A c \in Clients : child[c].job # None => child[c].job \in DOMAIN procs
    BY DEF Inv, ServiceInv, HandleInv, JobOf
  <2> QED
    BY <1>2, <1>3, <1>4, <1>6, <2>1 DEF Inv, ServiceInv, HandleInv, JobOf, NotReaped
<1> QED
  BY <1>7, <1>8, <1>9, <1>10, <1>11 DEF ServiceInv

\* A zygote that has a query other than Spawn serves the thread that waits.
LEMMA QueryServes ==
  ASSUME Inv, NEW ty \in {"GetExitCode", "GetResourceUsage"}, Incoming(ty)
  PROVE  /\ owner # None /\ owner \in Threads /\ info
         /\ Tail(toZyg) = <<>> /\ toHost = <<>> /\ sockErr = FALSE /\ Open
         /\ ty = "GetExitCode" => /\ owner \in Clients /\ pc[owner] = "exit_code"
                                  /\ toZyg[1].v = child[owner].pid
         /\ ty = "GetResourceUsage" => pc[owner] = "usage"
<1>1. /\ zpc = "body" /\ toZyg # <<>> /\ toZyg[1].k = "body" /\ toZyg[1].ty = ty /\ Open
  BY DEF Incoming, Open
<1>2. toZyg \in Seq(Packet) /\ 1 \in 1..Len(toZyg)
  <2>1. toZyg \in Seq(Packet)
    BY DEF Inv, TypeInv, TypeOK, SocketType
  <2> QED
    BY <1>1, <2>1
<1>3. /\ 1 = Len(toZyg) /\ owner # None
      /\ \/ pc[owner] = "exit_code" /\ toZyg[1] = Body("GetExitCode", child[owner].pid)
         \/ pc[owner] = "usage" /\ toZyg[1] = Body("GetResourceUsage", 0)
  BY <1>1, <1>2 DEF Inv, ServiceInv, QueriesInv
<1>4. Tail(toZyg) = <<>>
  <2> DEFINE rest == Tail(toZyg)
  <2>1. rest \in Seq(Packet) /\ Len(rest) = 0
    BY <1>1, <1>2, <1>3, TailIs
  <2> HIDE DEF rest
  <2>2. rest = <<>>
    BY <2>1
  <2> QED
    BY <2>2 DEF rest
<1>5. owner \in Threads /\ info /\ (pc[owner] = "exit_code" => owner \in Clients)
  BY <1>3 DEF Inv, ServiceInv, LockInv, TypeInv, TypeOK, HostType
<1>6. toHost = <<>>
  BY <1>1 DEF Inv, ServiceInv, AnswerInv
<1>7. sockErr = FALSE
  BY <1>1 DEF Inv, ServiceInv, ClosedInv, TypeInv, TypeOK, SocketType
<1> QED
  BY <1>1, <1>3, <1>4, <1>5, <1>6, <1>7 DEF Body

LEMMA AnswersKeep ==
  ASSUME Inv, ZygoteResourceUsage \/ ZygoteGetExitCode
  PROVE  ServiceInv'
<1>1. CASE ZygoteResourceUsage
  <2>1. /\ owner # None /\ info /\ Tail(toZyg) = <<>> /\ toHost = <<>> /\ sockErr = FALSE
        /\ Open /\ pc[owner] = "usage"
    BY <1>1, QueryServes DEF ZygoteResourceUsage
  <2> DEFINE answer == Message("ResourceUsageInformation", "ResourceUsageInformation", 0)
  <2>2. /\ toHost' = <<>> \o answer /\ toZyg' = <<>> /\ zpc' = "recv"
        /\ UNCHANGED <<owner, info, pc, req, child, sockErr, procs>>
    BY <1>1, <2>1 DEF ZygoteResourceUsage, Reply, host, kernel
  <2>3. toHost' = answer
    <3>1. answer \in Seq(Packet)
      BY MessageType, 0 \in Int
    <3> HIDE DEF answer
    <3> QED
      BY <2>2, <3>1
  <2>4. SpawnsInv' /\ QueriesInv' /\ Open'
    BY <2>2, QuietQueues DEF Open
  <2>5. LockInv' /\ ClosedInv' /\ StatusInv' /\ KilledOnlyIfGone'
    BY <2>1, <2>2, <2>4
    DEF Inv, ServiceInv, LockInv, ClosedInv, StatusInv, KilledOnlyIfGone, Running
  <2>6. AnswerInv'
    BY <2>1, <2>2, <2>3 DEF AnswerInv
  <2>7. HandleInv'
    <3>1. \A c \in Clients : pc[c] # "exit_code"
      BY <2>1, ClientsAreThreads DEF Inv, ServiceInv, LockInv, Inside
    <3> QED
      BY <2>1, <2>2, <2>4, <3>1 DEF Inv, ServiceInv, HandleInv, JobOf, NotReaped
  <2> QED
    BY <2>4, <2>5, <2>6, <2>7 DEF ServiceInv
<1>2. CASE ZygoteGetExitCode
  <2> DEFINE pid   == toZyg[1].v
             rest  == Tail(toZyg)
             first == First(TasksOf(pid))
             named == {q \in Children : procs[q].pid = pid}
             job   == child[owner].job
  <2>1. /\ owner # None /\ owner \in Clients /\ info /\ rest = <<>> /\ toHost = <<>>
        /\ sockErr = FALSE /\ Open /\ pc[owner] = "exit_code" /\ pid = child[owner].pid
    BY <1>2, QueryServes DEF ZygoteGetExitCode
  <2>2. UNCHANGED host
    BY <1>2 DEF ZygoteGetExitCode
  <2>3. job # None /\ JobOf(owner, job, pid) /\ NotReaped(job)
    BY <2>1 DEF Inv, ServiceInv, HandleInv
  <2>4. CASE TasksOf(pid) = {}
    <3>1. Stop("panicked", rest) /\ UNCHANGED <<toHost, procs>>
      BY <1>2, <2>4 DEF ZygoteGetExitCode
    <3> QED
      BY <2>1, <2>2, <3>1, StopKeeps
  <2>5. CASE TasksOf(pid) # {} /\ named \cap Zombies = {}
    <3>1. first \in DOMAIN tasks /\ tasks[first].code = None
      BY <2>5, OnlyTask DEF Inv, TypeInv, TypeOK, TaskInv, TasksAreChildren
    <3>2. /\ Stop("failed", rest) \/ Stop("panicked", rest)
          /\ UNCHANGED <<toHost, procs>>
      BY <1>2, <2>5, <3>1 DEF ZygoteGetExitCode
    <3> QED
      BY <2>1, <2>2, <3>2, StopKeeps
  <2>6. CASE TasksOf(pid) # {} /\ named \cap Zombies # {}
    <3>1. first \in DOMAIN tasks /\ tasks[first].code = None
      BY <2>6, OnlyTask DEF Inv, TypeInv, TypeOK, TaskInv, TasksAreChildren
    <3>2. ZygoteWaited(pid, rest)
      BY <1>2, <2>6, <3>1 DEF ZygoteGetExitCode
    <3>3. PICK q \in Zombies :
            /\ procs[q].pid = pid
            /\ procs' = [procs EXCEPT ![q].st = "reaped"]
            /\ Reply(Message("i64", "i64", procs[q].status))
            /\ zpc' = "recv" /\ toZyg' = rest /\ sockErr' = sockErr
      BY <3>2 DEF ZygoteWaited
    <3>4. q = job
      BY <2>1, <2>3, <3>3
      DEF Inv, TaskInv, ChildPidsUnique, Children, Zombies, JobOf, NotReaped
    <3>5. procs[job].st = "zombie" /\ procs[job].status \in Int /\ job \in DOMAIN procs
      BY <3>4 DEF Inv, TypeInv, EndedHasStatus, Zombies, Children
    <3>6. /\ DOMAIN procs' = DOMAIN procs
          /\ \A r \in DOMAIN procs : r # job => procs'[r] = procs[r]
          /\ procs'[job].by = procs[job].by /\ procs'[job].pid = procs[job].pid
          /\ procs'[job].status = procs[job].status /\ procs'[job].st = "reaped"
      <4> DEFINE new == [procs[job] EXCEPT !.st = "reaped"]
      <4>1. procs \in Seq(Process) /\ procs[job] \in Process
        BY <3>5 DEF Inv, TypeInv, TypeOK, KernelType
      <4>2. /\ new.by = procs[job].by /\ new.pid = procs[job].pid
            /\ new.status = procs[job].status /\ new.st = "reaped"
        BY <4>1 DEF Process
      <4>3. procs' = [procs EXCEPT ![job] = new]
        BY <3>3, <3>4
      <4> HIDE DEF new
      <4> QED
        BY <3>5, <4>1, <4>2, <4>3
    <3>7. toHost' = Message("i64", "i64", procs'[job].status)
      <4> DEFINE answer == Message("i64", "i64", procs[job].status)
      <4>1. answer \in Seq(Packet)
        BY <3>5, MessageType
      <4>2. toHost' = <<>> \o answer
        BY <2>1, <3>3, <3>4 DEF Reply
      <4> HIDE DEF answer
      <4>3. toHost' = answer
        BY <4>1, <4>2
      <4> QED
        BY <3>6, <4>3 DEF answer
    <3>8. /\ toZyg' = <<>> /\ zpc' = "recv" /\ sockErr' = FALSE /\ Open'
          /\ UNCHANGED <<owner, info, pc, req, child>>
      BY <2>1, <2>2, <3>3 DEF Open, host
    <3>9. SpawnsInv' /\ QueriesInv'
      BY <3>8, QuietQueues
    <3>10. LockInv' /\ ClosedInv' /\ KilledOnlyIfGone'
      BY <2>1, <3>8 DEF Inv, ServiceInv, LockInv, ClosedInv, KilledOnlyIfGone
    <3>11. StatusInv'
      BY <3>5, <3>6 DEF Inv, ServiceInv, StatusInv, Running
    <3>12. AnswerInv'
      <4>1. procs'[job].status # None
        BY <3>5, <3>6, ValuesAssumption
      <4> QED
        BY <2>1, <3>7, <3>8, <4>1 DEF AnswerInv
    <3>13. HandleInv'
      <4> SUFFICES ASSUME NEW c \in Clients
                   PROVE  /\ child[c].job # None => JobOf(c, child[c].job, child[c].pid)'
                          /\ pc[c] = "child" \/ (pc[c] = "exit_code" /\ toHost' = <<>>)
                               => NotReaped(child[c].job)'
                          /\ child[c].code \notin {None, KILLED} =>
                               procs'[child[c].job].status = child[c].code
        BY <3>8 DEF Inv, ServiceInv, HandleInv
      <4>1. child[c].job # None => /\ child[c].job \in DOMAIN procs /\ procs[child[c].job].by = c
                                   /\ procs[child[c].job].pid = child[c].pid
        BY DEF Inv, ServiceInv, HandleInv, JobOf
      <4>2. c # owner => child[c].job # job
        BY <2>3, <4>1 DEF JobOf
      <4>3. toHost' # <<>>
        BY <3>7 DEF Message
      <4>4. JobOf(c, child[c].job, child[c].pid)' <=> JobOf(c, child[c].job, child[c].pid)
        BY <3>6, <3>8 DEF JobOf
      <4>5. CASE c = owner
        BY <2>1, <3>6, <4>3, <4>4, <4>5 DEF Inv, ServiceInv, HandleInv
      <4>6. CASE c # owner
        BY <2>1, <3>6, <3>8, <4>1, <4>2, <4>3, <4>4, <4>6 DEF Inv, ServiceInv, HandleInv, NotReaped
      <4> QED
        BY <4>5, <4>6
    <3> QED
      BY <3>9, <3>10, <3>11, <3>12, <3>13 DEF ServiceInv
  <2> QED
    BY <2>4, <2>5, <2>6
<1> QED
  BY <1>1, <1>2

\* Jobs end, by themselves or with the namespace.  What has a status keeps it.
LEMMA KernelKeeps ==
  ASSUME Inv, (\E q \in DOMAIN procs : JobExit(q)) \/ NamespaceTeardown
  PROVE  ServiceInv'
<1>1. UNCHANGED <<owner, info, pc, req, child, toZyg, toHost, sockErr, zpc, zwant>>
  BY DEF JobExit, NamespaceTeardown, host, socket, zygote
<1>2. /\ DOMAIN procs' = DOMAIN procs
      /\ \A r \in DOMAIN procs :
           /\ procs'[r].by = procs[r].by /\ procs'[r].pid = procs[r].pid
           /\ procs[r].status # None => procs'[r].status = procs[r].status
           /\ procs'[r].st = "reaped" => procs[r].st = "reaped" \/ ~Open
           /\ procs'[r].st = "running" => procs'[r] = procs[r]
           /\ procs'[r].status \in Statuses \cup {KilledStatus, None}
  <2> USE DEF Inv, TypeInv, TypeOK, KernelType
  <2>1. CASE \E q \in DOMAIN procs : JobExit(q)
    <3>1. PICK q \in DOMAIN procs : JobExit(q)
      BY <2>1
    <3>2. PICK s \in Statuses : procs' = [procs EXCEPT ![q].st = "zombie", ![q].status = s]
      BY <3>1 DEF JobExit
    <3>3. procs[q].status = None
      BY <3>1 DEF JobExit, ServiceInv, StatusInv
    <3>4. procs[q] \in Process
      OBVIOUS
    <3>5. /\ DOMAIN procs' = DOMAIN procs /\ \A r \in DOMAIN procs : r # q => procs'[r] = procs[r]
          /\ procs'[q].by = procs[q].by /\ procs'[q].pid = procs[q].pid
          /\ procs'[q].status = s /\ procs'[q].st = "zombie"
      BY <3>2, <3>4 DEF Process
    <3> QED
      BY <3>3, <3>5 DEF ServiceInv, StatusInv
  <2>2. CASE NamespaceTeardown
    <3>1. /\ ~Open
          /\ procs' = [q \in DOMAIN procs |->
                         [procs[q] EXCEPT !.st = "reaped",
                                          !.status = IF @ = None THEN KilledStatus ELSE @]]
      BY <2>2 DEF NamespaceTeardown, Exited
    <3>2. DOMAIN procs' = DOMAIN procs
      BY <3>1
    <3>3. ASSUME NEW r \in DOMAIN procs
          PROVE  /\ procs'[r].by = procs[r].by /\ procs'[r].pid = procs[r].pid
                 /\ procs'[r].status = IF procs[r].status = None THEN KilledStatus
                                                                 ELSE procs[r].status
                 /\ procs'[r].st = "reaped"
      <4>1. procs[r] \in Process
        OBVIOUS
      <4> QED
        BY <3>1, <4>1 DEF Process
    <3>4. \A r \in DOMAIN procs : procs[r].status \in Statuses \cup {KilledStatus, None}
      BY DEF ServiceInv, StatusInv
    <3> QED
      BY <3>1, <3>2, <3>3, <3>4
  <2> QED
    BY <2>1, <2>2
<1>3. SpawnsInv' /\ QueriesInv'
  BY <1>1 DEF Inv, ServiceInv, SpawnsInv, QueriesInv, Begins, Blocked, Need
<1>4. LockInv' /\ ClosedInv' /\ KilledOnlyIfGone'
  BY <1>1 DEF Inv, ServiceInv, LockInv, ClosedInv, KilledOnlyIfGone, Open
<1>5. StatusInv'
  BY <1>2 DEF Inv, ServiceInv, StatusInv, Running
<1>6. \A r \in DOMAIN procs : NotReaped(r) => NotReaped(r)'
  BY <1>1, <1>2 DEF NotReaped, Open
<1>7. AnswerInv'
  <2>1. owner # None /\ pc[owner] = "exit_code" => child[owner].job \in DOMAIN procs
    BY DEF Inv, ServiceInv, HandleInv, LockInv, JobOf, TypeInv, TypeOK, HostType
  <2> SUFFICES ASSUME toHost # <<>>
               PROVE  /\ pc[owner] = "info" =>
                           \E job \in DOMAIN procs' :
                             /\ toHost = <<Hdr("JobStartupInfo"),
                                           Body("JobStartupInfo", procs'[job].pid), Fds(job)>>
                             /\ procs'[job].by = owner /\ NotReaped(job)'
                      /\ pc[owner] = "event" =>
                           \E job \in DOMAIN procs' :
                             /\ toHost = <<Fds(job)>>
                             /\ JobOf(owner, job, child[owner].pid)' /\ NotReaped(job)'
                      /\ pc[owner] = "exit_code" =>
                           /\ procs'[child[owner].job].status # None
                           /\ toHost = Message("i64", "i64", procs'[child[owner].job].status)
    BY <1>1 DEF Inv, ServiceInv, AnswerInv
  <2>2. ASSUME pc[owner] = "info"
        PROVE  \E job \in DOMAIN procs' :
                 /\ toHost = <<Hdr("JobStartupInfo"),
                               Body("JobStartupInfo", procs'[job].pid), Fds(job)>>
                 /\ procs'[job].by = owner /\ NotReaped(job)'
    <3>1. PICK job \in DOMAIN procs :
            /\ toHost = <<Hdr("JobStartupInfo"), Body("JobStartupInfo", procs[job].pid), Fds(job)>>
            /\ procs[job].by = owner /\ NotReaped(job)
      BY <2>2 DEF Inv, ServiceInv, AnswerInv
    <3> QED
      BY <1>2, <1>6, <3>1
  <2>3. ASSUME pc[owner] = "event"
        PROVE  \E job \in DOMAIN procs' :
                 /\ toHost = <<Fds(job)>>
                 /\ JobOf(owner, job, child[owner].pid)' /\ NotReaped(job)'
    <3>1. PICK job \in DOMAIN procs :
            /\ toHost = <<Fds(job)>>
            /\ JobOf(owner, job, child[owner].pid) /\ NotReaped(job)
      BY <2>3 DEF Inv, ServiceInv, AnswerInv
    <3> QED
      BY <1>1, <1>2, <1>6, <3>1 DEF JobOf
  <2>4. ASSUME pc[owner] = "exit_code"
        PROVE  /\ procs'[child[owner].job].status # None
               /\ toHost = Message("i64", "i64", procs'[child[owner].job].status)
    BY <1>2, <2>1, <2>4 DEF Inv, ServiceInv, AnswerInv
  <2> QED
    BY <2>2, <2>3, <2>4
<1>8. HandleInv'
  BY <1>1, <1>2, <1>6 DEF Inv, ServiceInv, HandleInv, JobOf
<1> QED
  BY <1>3, <1>4, <1>5, <1>7, <1>8 DEF ServiceInv

LEMMA StutterKeeps ==
  ASSUME Inv, UNCHANGED vars
  PROVE  ServiceInv'
<1> USE DEF vars, host, socket, zygote, kernel
<1>1. LockInv' /\ QueriesInv' /\ ClosedInv' /\ StatusInv' /\ KilledOnlyIfGone'
  BY DEF Inv, ServiceInv, LockInv, QueriesInv, ClosedInv, StatusInv, KilledOnlyIfGone, Open,
         Running
<1>2. SpawnsInv'
  BY DEF Inv, ServiceInv, SpawnsInv, Begins, Blocked, Need
<1>3. AnswerInv'
  BY DEF Inv, ServiceInv, AnswerInv, JobOf, NotReaped, Open
<1>4. HandleInv'
  BY DEF Inv, ServiceInv, HandleInv, JobOf, NotReaped, Open
<1> QED
  BY <1>1, <1>2, <1>3, <1>4 DEF ServiceInv

LEMMA ServiceInit == Init => ServiceInv
<1> SUFFICES ASSUME Init PROVE ServiceInv
  OBVIOUS
<1>1. LockInv /\ ClosedInv /\ AnswerInv /\ StatusInv
  BY ClientsAreThreads DEF Init, LockInv, ClosedInv, AnswerInv, StatusInv, Inside
<1>2. SpawnsInv /\ QueriesInv
  <2>1. Len(<<>>) = 0
    OBVIOUS
  <2> QED
    BY <2>1 DEF Init, SpawnsInv, QueriesInv, Begins
<1>3. HandleInv /\ KilledOnlyIfGone
  <2>1. \A c \in Clients : pc[c] = "idle" /\ child[c] = NoChild
    BY ClientsAreThreads DEF Init
  <2> QED
    BY <2>1, ValuesAssumption DEF HandleInv, KilledOnlyIfGone, NoChild
<1> QED
  BY <1>1, <1>2, <1>3 DEF ServiceInv

LEMMA InvNext == Inv /\ [Next]_vars => Inv'
<1> SUFFICES ASSUME Inv, [Next]_vars PROVE Inv'
  OBVIOUS
<1>1. TypeInv' /\ TaskInv'
  BY TypeNext DEF Inv
<1>2. ASSUME NEW c \in Clients, ClientStep(c) PROVE ServiceInv'
  <2>1. c \in Threads
    BY ClientsAreThreads
  <2>2. CASE SpawnRefused(c) \/ DropChild(c) \/ (Poll(c) /\ ~info)
    BY <2>1, <2>2, OutsideSteps
  <2>3. CASE Poll(c) /\ info
    <3>1. (c \in Clients /\ Poll(c) /\ info) \/ (c \notin Clients /\ MeterQuery(c))
      BY <2>3
    <3> QED
      BY <2>1, <3>1, QuerySteps
  <2>4. CASE WaitRecv(c) \/ WaitRecvFails(c) \/ SpawnEventFails(c)
    BY <2>1, <2>4, FailingSteps
  <2> QED
    BY <1>2, <2>2, <2>3, <2>4, SpawnQuerySteps, SendSteps, SpawnReceives DEF ClientStep
<1>3. ASSUME NEW m \in Meters, MeterStep(m) PROVE ServiceInv'
  <2>1. m \in Threads /\ m \notin Clients
    BY ThreadsAssumption DEF Threads
  <2> QED
    BY <1>3, <2>1, OutsideSteps, QuerySteps, FailingSteps DEF MeterStep
<1>4. ASSUME NEW t \in Clients \cup Meters, RecvFails(t) \/ RecvPanics(t) PROVE ServiceInv'
  <2>1. t \in Threads
    BY DEF Threads
  <2> QED
    BY <1>4, <2>1, FailingSteps
<1>5. ASSUME NEW k \in Killers, KillerStep(k) PROVE ServiceInv'
  <2>1. k \in Threads /\ k \notin Clients
    BY ThreadsAssumption DEF Threads
  <2> QED
    BY <1>5, <2>1, OutsideSteps, KillStep DEF KillerStep
<1>6. ASSUME ZygoteStep \/ ZygoteSpawnFails \/ ZygoteDies \/ ZygoteCrash PROVE ServiceInv'
  <2>1. CASE ZygoteSpawn
    BY <2>1, SpawnKeeps
  <2>2. CASE ZygoteResourceUsage \/ ZygoteGetExitCode
    BY <2>2, AnswersKeep
  <2>3. CASE \/ ZygoteIterate \/ ZygoteBadQuery \/ ZygoteGotSpawn \/ ZygoteRecvFds
             \/ ZygoteSpawnFails \/ ZygoteDies \/ ZygoteCrash
    BY <2>3, ReceivesKeep
  <2> QED
    BY <1>6, <2>1, <2>2, <2>3 DEF ZygoteStep
<1>7. ASSUME (\E q \in DOMAIN procs : JobExit(q)) \/ NamespaceTeardown PROVE ServiceInv'
  BY <1>7, KernelKeeps
<1>8. ASSUME UNCHANGED vars PROVE ServiceInv'
  BY <1>8, StutterKeeps
<1>9. ServiceInv'
  <2>1. CASE Next
    <3>1. CASE Quiescent
      BY <1>8, <3>1 DEF Quiescent
    <3> QED
      BY <1>2, <1>3, <1>4, <1>5, <1>6, <1>7, <2>1, <3>1 DEF Next
  <2> QED
    BY <1>8, <2>1
<1> QED
  BY <1>1, <1>9 DEF Inv

LEMMA InvHolds == Spec => []Inv
<1>1. Init => Inv
  BY TypeInit, ServiceInit
  DEF Inv, Init, TaskInv, TasksAreChildren, ChildPidsUnique, TasksUnique, Children
<1> QED
  BY <1>1, InvNext, PTL DEF Spec

\* Whatever fails, however many threads use the sandbox and wherever it is
\* killed, wait_for_exit tells a client the exit code of its own job.
THEOREM ExitCodeExactHolds == Spec => []ExitCodeExact
<1>1. Inv => ExitCodeExact
  BY DEF Inv, ServiceInv, HandleInv, JobOf, ExitCodeExact
<1> QED
  BY <1>1, InvHolds, PTL

\* KILLED is told only of a sandbox that was killed, or whose zygote has gone.
THEOREM KilledOnlyIfGoneHolds == Spec => []KilledOnlyIfGone
<1>1. Inv => KilledOnlyIfGone
  BY DEF Inv, ServiceInv
<1> QED
  BY <1>1, InvHolds, PTL

(***************************************************************************)
(* When no call fails: every request is served to its end.                 *)
(***************************************************************************)

\* No system call fails, the zygote has pidfds, and every request brings the
\* three descriptors of stdio.
NoFaults == Faults = {} /\ PidfdSupported /\ \A r \in Requests : r.stdio = 3

\* The zygote has still to take this body, then these packets.
Taking(body, rest) ==
  \/ zpc = "recv" /\ toZyg = <<Hdr("Query"), body>> \o rest
  \/ zpc = "body" /\ toZyg = <<body>> \o rest

\* Packets of so many descriptors each.
Packets(sizes) == [i \in 1..Len(sizes) |-> Fds(sizes[i])]

\* The zygote has taken the whole query and sent the answer.
Served == zpc = "recv" /\ toZyg = <<>> /\ toHost # <<>>

\* How far the query of the thread that holds the mutex is.
Stage(t) ==
  /\ pc[t] = "send_fds" =>
       /\ req[t].stdio = 3 /\ toHost = <<>>
       /\ \/ Taking(Body("Spawn", req[t].extra), <<>>)
          \/ zpc = "fds" /\ toZyg = <<>> /\ zwant = Chunks(3 + req[t].extra)
  /\ pc[t] = "info" =>
       \/ Served
       \/ /\ toHost = <<>>
          /\ \/ \E n \in Nat : Taking(Body("Spawn", n), FdPackets(3 + n))
             \/ zpc = "fds" /\ toZyg = Packets(zwant)
  /\ pc[t] = "event" => Served
  /\ pc[t] = "exit_code" =>
       \/ Served
       \/ /\ toHost = <<>> /\ ~Running(child[t].job)
          /\ Taking(Body("GetExitCode", child[t].pid), <<>>)
  /\ pc[t] = "usage" =>
       Served \/ (toHost = <<>> /\ Taking(Body("GetResourceUsage", 0), <<>>))

\* Whatever the zygote has not waited for it remembers.
ChildrenAreTasks ==
  Open => \A q \in Children :
            \E i \in DOMAIN tasks : tasks[i].job = q /\ tasks[i].pid = procs[q].pid

\* Between requests there is nothing to take, during one nothing is lost.
FlowInv ==
  /\ ~sockErr /\ (sigkill => ~info) /\ ChildrenAreTasks
  /\ owner = None => /\ toZyg = <<>> /\ toHost = <<>>
                     /\ zpc = "recv" \/ (zpc = "killed" /\ ~info)
  /\ owner # None => Open /\ Stage(owner)
  /\ \A t \in Threads : pc[t] \notin {"failed", "panicked"}

LEMMA QueueIs ==
  ASSUME NEW r \in Seq(Packet), NEW a \in Packet, NEW b \in Packet
  PROVE  /\ <<a, b>> \o r \in Seq(Packet) /\ <<a, b>> \o r # <<>>
         /\ Head(<<a, b>> \o r) = a /\ Tail(<<a, b>> \o r) = <<b>> \o r
         /\ <<b>> \o r \in Seq(Packet) /\ <<b>> \o r # <<>>
         /\ (<<b>> \o r)[1] = b /\ Tail(<<b>> \o r) = r
         /\ (<<a, b>> \o <<>>) \o r = <<a, b>> \o r /\ (<<b>> \o <<>>) \o r = <<b>> \o r
         /\ <<>> \o r = r
<1>1. <<a, b>> \in Seq(Packet) /\ Len(<<a, b>>) = 2 /\ <<b>> \in Seq(Packet) /\ Len(<<b>>) = 1
      /\ <<a, b>>[1] = a /\ <<a, b>>[2] = b /\ <<b>>[1] = b
  OBVIOUS
<1> DEFINE ab == <<a, b>>
           bb == <<b>>
           s == ab \o r
           t == bb \o r
<1>2. /\ s \in Seq(Packet) /\ Len(s) = 2 + Len(r) /\ s[1] = a /\ s[2] = b
      /\ \A i \in 1..Len(r) : s[2 + i] = r[i]
  <2> HIDE DEF ab
  <2>1. ab \in Seq(Packet) /\ Len(ab) = 2 /\ ab[1] = a /\ ab[2] = b
    BY <1>1 DEF ab
  <2>2. /\ s \in Seq(Packet) /\ Len(s) = Len(ab) + Len(r)
        /\ \A i \in 1..Len(ab) : s[i] = ab[i]
        /\ \A i \in 1..Len(r) : s[Len(ab) + i] = r[i]
    BY <2>1, ConcatIs
  <2> HIDE DEF s
  <2> QED
    BY <2>1, <2>2
<1>3. /\ t \in Seq(Packet) /\ Len(t) = 1 + Len(r) /\ t[1] = b
      /\ \A i \in 1..Len(r) : t[1 + i] = r[i]
  <2> HIDE DEF bb
  <2>1. bb \in Seq(Packet) /\ Len(bb) = 1 /\ bb[1] = b
    BY <1>1 DEF bb
  <2>2. 1 \in 1..Len(bb)
    BY <2>1
  <2> QED
    BY <2>1, <2>2, ConcatIs
<1>4. Len(r) \in Nat
  OBVIOUS
<1>5. (<<a, b>> \o <<>>) \o r = <<a, b>> \o r /\ (<<b>> \o <<>>) \o r = <<b>> \o r /\ <<>> \o r = r
  <2>1. \A q \in Seq(Packet) : q \o <<>> = q
    OBVIOUS
  <2>2. <<>> \o r = r
    OBVIOUS
  <2> QED
    BY <1>1, <2>1, <2>2
<1> HIDE DEF s, t, ab, bb
<1>6. s # <<>> /\ Head(s) = a
  BY <1>2, <1>4
<1>7. t # <<>> /\ Tail(t) = r
  <2>1. t # <<>>
    BY <1>3, <1>4
  <2>2. /\ Tail(t) \in Seq(Packet) /\ Len(Tail(t)) = Len(r)
        /\ \A i \in 1..Len(r) : Tail(t)[i] = r[i]
    BY <1>3, <1>4, <2>1, TailIs
  <2> QED
    BY <2>1, <2>2
<1>8. Tail(s) = t
  <2>2. /\ Tail(s) \in Seq(Packet) /\ Len(Tail(s)) = Len(t)
        /\ \A i \in 1..Len(t) : Tail(s)[i] = s[i + 1]
    BY <1>2, <1>3, <1>4, <1>6, TailIs
  <2>3. \A i \in 1..Len(t) : s[i + 1] = t[i]
    <3> SUFFICES ASSUME NEW i \in 1..Len(t) PROVE s[i + 1] = t[i]
      OBVIOUS
    <3>1. CASE i = 1
      BY <1>2, <1>3, <3>1
    <3>2. CASE i # 1
      <4>1. i - 1 \in 1..Len(r)
        BY <1>3, <1>4, <3>2
      <4>2. s[2 + (i - 1)] = r[i - 1] /\ t[1 + (i - 1)] = r[i - 1]
        BY <1>2, <1>3, <4>1
      <4> QED
        BY <4>2
    <3> QED
      BY <3>1, <3>2
  <2> QED
    BY <1>3, <2>2, <2>3
<1> QED
  BY <1>2, <1>3, <1>5, <1>6, <1>7, <1>8 DEF s, t, ab, bb

LEMMA PacketsIs ==
  ASSUME NEW w \in Seq(Int)
  PROVE  /\ Packets(w) \in Seq(Packet) /\ (Packets(w) = <<>> <=> w = <<>>)
         /\ w # <<>> => Packets(w)[1] = Fds(w[1]) /\ Tail(Packets(w)) = Packets(Tail(w))
<1>1. ASSUME NEW v \in Seq(Int)
      PROVE  /\ Packets(v) \in Seq(Packet) /\ Len(Packets(v)) = Len(v)
             /\ \A i \in 1..Len(v) : Packets(v)[i] = Fds(v[i])
  <2>1. Len(v) \in Nat /\ \A i \in 1..Len(v) : Fds(v[i]) \in Packet
    BY DEF Fds, Packet
  <2>2. Packets(v) \in [1..Len(v) -> Packet]
    BY <2>1 DEF Packets
  <2> QED
    BY <2>1, <2>2 DEF Packets
<1> DEFINE p == Packets(w)
<1>2. p \in Seq(Packet) /\ Len(p) = Len(w) /\ \A i \in 1..Len(w) : p[i] = Fds(w[i])
  BY <1>1
<1>3. p = <<>> <=> w = <<>>
  <2> HIDE DEF p
  <2> QED
    BY <1>2
<1>4. ASSUME w # <<>> PROVE p[1] = Fds(w[1]) /\ Tail(p) = Packets(Tail(w))
  <2> DEFINE v == Tail(w)
             r == Packets(v)
             q == Tail(p)
  <2>1. Len(w) \in Nat \ {0} /\ Len(v) = Len(w) - 1 /\ v \in Seq(Int)
        /\ \A i \in 1..(Len(w) - 1) : v[i] = w[i + 1]
    BY <1>4, TailIs
  <2>2. r \in Seq(Packet) /\ Len(r) = Len(w) - 1 /\ \A i \in 1..(Len(w) - 1) : r[i] = Fds(w[i + 1])
    <3> HIDE DEF v
    <3>1. r \in Seq(Packet) /\ Len(r) = Len(v) /\ \A i \in 1..Len(v) : r[i] = Fds(v[i])
      BY <1>1, <2>1
    <3> HIDE DEF r
    <3> QED
      BY <2>1, <3>1
  <2> HIDE DEF p, r, v
  <2>3. q \in Seq(Packet) /\ Len(q) = Len(w) - 1 /\ \A i \in 1..(Len(w) - 1) : q[i] = p[i + 1]
    BY <1>2, <1>3, <1>4, TailIs
  <2> HIDE DEF q
  <2>4. \A i \in 1..(Len(w) - 1) : q[i] = r[i]
    BY <1>2, <2>1, <2>2, <2>3
  <2>5. q = r
    BY <2>1, <2>2, <2>3, <2>4
  <2> QED
    BY <1>2, <2>1, <2>5 DEF q, r, v, p
<1> QED
  BY <1>2, <1>3, <1>4

\* How far a query is does not depend on the other threads.
LEMMA StageKeeps ==
  ASSUME NEW t, Stage(t), pc'[t] = pc[t], UNCHANGED <<toZyg, toHost, zpc, zwant>>,
         pc[t] = "send_fds" => req'[t] = req[t],
         pc[t] = "exit_code" => /\ child'[t].pid = child[t].pid /\ child'[t].job = child[t].job
                                /\ Running(child[t].job)' => Running(child[t].job)
  PROVE  Stage(t)'
BY DEF Stage, Served, Taking, Running

\* A thread moves where it does not hold the mutex.
LEMMA QuietMoves ==
  ASSUME Inv, FlowInv, NEW t \in Threads, pc[t] \notin Inside, NEW to,
         to \notin {"failed", "panicked"}, Goto(t, to),
         UNCHANGED <<owner, info, req, socket, zygote, kernel>>,
         \A c \in Clients : child'[c].pid = child[c].pid /\ child'[c].job = child[c].job
  PROVE  FlowInv'
<1>1. pc'[t] = to /\ \A u \in Threads : u # t => pc'[u] = pc[u]
  BY GotoIs DEF Inv, TypeInv, TypeOK
<1>2. owner # t /\ owner \in Threads \cup {None} /\ (owner # None => pc[owner] \in Inside)
      /\ (owner # None /\ pc[owner] = "exit_code" => owner \in Clients)
  BY DEF Inv, TypeInv, TypeOK, HostType, ServiceInv, LockInv
<1>3. owner # None => Stage(owner)'
  <2> SUFFICES ASSUME owner # None PROVE Stage(owner)'
    OBVIOUS
  <2>1. pc'[owner] = pc[owner] /\ Stage(owner)
    BY <1>1, <1>2 DEF FlowInv
  <2>2. pc[owner] = "exit_code" => /\ child'[owner].pid = child[owner].pid
                                   /\ child'[owner].job = child[owner].job
                                   /\ Running(child[owner].job)' => Running(child[owner].job)
    BY <1>2 DEF Running, kernel
  <2> DEFINE o == owner
  <2>3. Stage(o) /\ pc'[o] = pc[o] /\ o' = o
    BY <2>1
  <2> QED
    BY <2>1, <2>2 DEF Stage, Served, Taking, Running, socket, zygote, kernel
<1>4. ChildrenAreTasks'
  BY DEF FlowInv, ChildrenAreTasks, Children, Open, zygote, kernel
<1> QED
  BY <1>1, <1>2, <1>3, <1>4 DEF FlowInv, Open, socket, zygote

\* A thread locks the mutex: nothing is in the way of its query.
LEMMA QuietEnters ==
  ASSUME Inv, FlowInv, NEW t \in Threads, CanEnter(t), NEW to, to \notin {"failed", "panicked"},
         Goto(t, to), owner' = t, NEW ty, NEW v, Message("Query", ty, v) \in Seq(Packet),
         Post(Message("Query", ty, v)), UNCHANGED <<info, child, toHost, zygote, kernel>>,
         \/ to = "send_fds" /\ ty = "Spawn" /\ req'[t].stdio = 3 /\ v = req'[t].extra
         \/ to = "exit_code" /\ ty = "GetExitCode" /\ v = child[t].pid /\ ~Running(child[t].job)
         \/ to = "usage" /\ ty = "GetResourceUsage" /\ v = 0
  PROVE  FlowInv'
<1>1. pc'[t] = to /\ \A u \in Threads : u # t => pc'[u] = pc[u]
  BY GotoIs DEF Inv, TypeInv, TypeOK
<1>2. t # None /\ toZyg = <<>> /\ toHost = <<>> /\ zpc = "recv" /\ Open
  BY ClientsAreThreads DEF CanEnter, FlowInv, Open
<1> DEFINE p == <<Hdr("Query"), Body(ty, v)>>
<1>3. toZyg' = p \o <<>> /\ sockErr' = sockErr
  <2>1. p \in Seq(Packet)
    BY DEF Message
  <2>2. toZyg' = <<>> \o p /\ sockErr' = sockErr
    BY <1>2 DEF Post, Message
  <2> HIDE DEF p
  <2>3. <<>> \o p = p /\ p \o <<>> = p
    BY <2>1
  <2> QED
    BY <2>2, <2>3
<1>4. Taking(Body(ty, v), <<>>)'
  BY <1>2, <1>3 DEF Taking, zygote
<1>5. Stage(t)'
  <2>1. toHost' = <<>>
    BY <1>2
  <2>2. CASE to = "send_fds" /\ ty = "Spawn" /\ req'[t].stdio = 3 /\ v = req'[t].extra
    <3>1. Taking(Body("Spawn", req[t].extra), <<>>)'
      BY <1>4, <2>2 DEF Taking
    <3> QED
      BY <1>1, <2>1, <2>2, <3>1 DEF Stage
  <2>3. CASE to = "exit_code" /\ ty = "GetExitCode" /\ v = child[t].pid /\ ~Running(child[t].job)
    <3>1. Taking(Body("GetExitCode", child[t].pid), <<>>)' /\ ~Running(child[t].job)'
      BY <1>4, <2>3 DEF Taking, Running, kernel
    <3> QED
      BY <1>1, <2>1, <2>3, <3>1 DEF Stage
  <2>4. CASE to = "usage" /\ ty = "GetResourceUsage" /\ v = 0
    BY <1>1, <1>4, <2>1, <2>4 DEF Stage, Taking
  <2> QED
    BY <2>2, <2>3, <2>4
<1>6. ChildrenAreTasks'
  BY DEF FlowInv, ChildrenAreTasks, Children, Open, zygote, kernel
<1> QED
  BY <1>1, <1>2, <1>3, <1>5, <1>6 DEF FlowInv, Open, zygote

\* A thread leaves with the answer.
LEMMA QuietLeaves ==
  ASSUME Inv, FlowInv, NEW t \in Threads, pc[t] \in Inside, toHost # <<>>, toHost' = <<>>,
         NEW to, to \notin {"failed", "panicked"}, Release(t, to),
         UNCHANGED <<info, toZyg, sockErr, zygote, kernel>>
  PROVE  FlowInv'
<1>1. pc'[t] = to /\ (\A u \in Threads : u # t => pc'[u] = pc[u]) /\ owner' = None
  BY GotoIs DEF Inv, TypeInv, TypeOK, Release
<1>2. owner = t /\ t # None
  BY InsideFacts
<1>3. zpc = "recv" /\ toZyg = <<>>
  BY <1>2 DEF FlowInv, Stage, Served, Inside
<1>4. ChildrenAreTasks'
  BY DEF FlowInv, ChildrenAreTasks, Children, Open, zygote, kernel
<1> QED
  BY <1>1, <1>3, <1>4 DEF FlowInv, zygote

\* The thread that holds the mutex goes on with its request.
LEMMA QuietStays ==
  ASSUME Inv, FlowInv, NEW t \in Threads, pc[t] \in Inside, NEW to, to \notin {"failed", "panicked"},
         Goto(t, to), UNCHANGED <<owner, info, sockErr, zygote, kernel>>, Stage(t)'
  PROVE  FlowInv'
<1>1. pc'[t] = to /\ (\A u \in Threads : u # t => pc'[u] = pc[u])
  BY GotoIs DEF Inv, TypeInv, TypeOK
<1>2. owner = t /\ t # None
  BY InsideFacts
<1>3. ChildrenAreTasks'
  BY DEF FlowInv, ChildrenAreTasks, Children, Open, zygote, kernel
<1>4. Stage(owner)'
  BY <1>2
<1> QED
  BY <1>1, <1>2, <1>3, <1>4 DEF FlowInv, Open, zygote

\* No request fails: what is expected is there, and nothing else.
LEMMA NothingFails ==
  ASSUME NoFaults, Inv, FlowInv, NEW t \in Threads
  PROVE  /\ ~RecvFails(t) /\ ~RecvPanics(t)
         /\ ~SpawnQueryTooLong(t) /\ ~SpawnSendFdsFails(t) /\ ~SpawnEventFails(t)
         /\ ~WaitRecvFails(t)
<1>1. ~RecvFails(t) /\ ~WaitRecvFails(t) /\ ~SpawnQueryTooLong(t) /\ ~SpawnSendFdsFails(t)
  BY DEF NoFaults, FlowInv, RecvFails, WaitRecvFails, SpawnQueryTooLong, SpawnSendFdsFails
<1>2. pc[t] \in Inside => owner = t /\ owner # None /\ Open
  BY InsideFacts DEF FlowInv
<1>3. ~SpawnEventFails(t)
  BY <1>2 DEF NoFaults, FlowInv, SpawnEventFails, Inside
<1>4. ~RecvPanics(t)
  <2> SUFFICES ASSUME RecvPanics(t) PROVE FALSE
    OBVIOUS
  <2>1. pc[t] \in DOMAIN Expected /\ WrongType(Expected[pc[t]])
    BY DEF RecvPanics
  <2>2. pc[t] \in {"info", "exit_code", "usage"}
    BY <2>1 DEF Expected
  <2>3. pc[t] \in Inside
    BY <2>2 DEF Inside
  <2>4. toHost # <<>> /\ toHost[1] # Hdr(Expected[pc[t]])
    BY <1>2, <2>1, <2>3 DEF WrongType
  <2>5. CASE pc[t] = "info"
    BY <2>3, <2>4, <2>5, AnswerIs DEF Expected
  <2>6. CASE pc[t] = "exit_code"
    BY <2>3, <2>4, <2>6, AnswerIs DEF Expected, Message
  <2>7. CASE pc[t] = "usage"
    BY <2>3, <2>4, <2>7, AnswerIs DEF Expected, Message
  <2> QED
    BY <2>2, <2>5, <2>6, <2>7
<1> QED
  BY <1>1, <1>3, <1>4

LEMMA SpawnFlows ==
  ASSUME NoFaults, Inv, FlowInv, NEW c \in Clients,
         \/ \E r \in Requests : SpawnQuery(c, r)
         \/ SpawnSendFds(c) \/ SpawnRecvInfo(c) \/ SpawnRecvEvent(c)
  PROVE  FlowInv'
<1>0. c \in Threads
  BY ClientsAreThreads
<1>1. ASSUME NEW r \in Requests, SpawnQuery(c, r) PROVE FlowInv'
  <2>1. CanEnter(c) /\ UNCHANGED <<info, child, toHost, zygote, kernel>>
        /\ Post(Message("Query", "Spawn", r.extra))
    BY <1>1 DEF SpawnQuery
  <2>2. Open
    BY <2>1 DEF FlowInv, CanEnter, Open
  <2>3. owner' = c /\ Goto(c, "send_fds") /\ req' = [req EXCEPT ![c] = r]
    BY <1>1, <2>2 DEF SpawnQuery
  <2>4. r \in [stdio : 0..3, extra : Nat] /\ r.stdio = 3 /\ req'[c] = r
    BY <2>3, RequestsAssumption DEF NoFaults, Inv, TypeInv, TypeOK, HostType
  <2>5. Message("Query", "Spawn", r.extra) \in Seq(Packet)
    BY <2>4, MessageType
  <2> QED
    BY <1>0, <2>1, <2>3, <2>4, <2>5, QuietEnters
<1>2. CASE SpawnSendFds(c)
  <2>4. PICK k \in Nat : req[c].extra = k
    BY DEF Inv, TypeInv, TypeOK, HostType
  <2> DEFINE n == 3 + k
             b == Body("Spawn", k)
             s == FdPackets(n)
  <2>1. pc[c] = "send_fds" /\ UNCHANGED <<info, child, toHost, zygote, kernel>>
    BY <1>2 DEF SpawnSendFds
  <2>2. owner = c /\ c # None /\ pc[c] \in Inside
    BY <1>0, <2>1, InsideFacts DEF Inside
  <2>3. Open /\ ~sockErr /\ req[c].stdio = 3 /\ toHost = <<>>
        /\ \/ Taking(b, <<>>)
           \/ zpc = "fds" /\ toZyg = <<>> /\ zwant = Chunks(n)
    BY <2>1, <2>2, <2>4 DEF FlowInv, Stage
  <2>5. s \in Seq(Packet) /\ s # <<>> /\ s = Packets(Chunks(n)) /\ n \in Nat
    <3>1. n \in Nat /\ n > 0 /\ n <= n
      OBVIOUS
    <3> HIDE DEF n
    <3>2. Chunks(n) \in Seq(Int) /\ s \in Seq(Packet) /\ Len(Chunks(n)) > 0
      BY <3>1, ChunksType, ChunksGrow
    <3>3. s = Packets(Chunks(n))
      BY DEF FdPackets, Packets
    <3>4. Chunks(n) # <<>>
      BY <3>2
    <3> QED
      BY <3>1, <3>2, <3>3, <3>4, PacketsIs
  <2>6. owner' = owner /\ Goto(c, "info") /\ toZyg' = toZyg \o s /\ sockErr' = sockErr
    BY <1>2, <2>3, <2>4, <2>5 DEF SpawnSendFds, Post
  <2>7. Stage(c)'
    <3>1. pc'[c] = "info" /\ zpc' = zpc /\ zwant' = zwant /\ toHost' = <<>>
      BY <1>0, <2>1, <2>3, <2>6, GotoIs DEF Inv, TypeInv, TypeOK, zygote
    <3>2. CASE Taking(b, <<>>)
      <4>1. Hdr("Query") \in Packet /\ b \in Packet
        BY DEF Hdr, Body, Packet
      <4> HIDE DEF b, s
      <4>2. \/ zpc = "recv" /\ toZyg' = (<<Hdr("Query"), b>> \o <<>>) \o s
            \/ zpc = "body" /\ toZyg' = (<<b>> \o <<>>) \o s
        BY <2>6, <3>2 DEF Taking
      <4>3. /\ (<<Hdr("Query"), b>> \o <<>>) \o s = <<Hdr("Query"), b>> \o s
            /\ (<<b>> \o <<>>) \o s = <<b>> \o s
        BY <2>5, <4>1, QueueIs
      <4>4. Taking(b, s)'
        BY <3>1, <4>2, <4>3 DEF Taking
      <4> QED
        BY <3>1, <4>4 DEF Stage, b, s
    <3>3. CASE zpc = "fds" /\ toZyg = <<>> /\ zwant = Chunks(n)
      <4>1. toZyg' = s
        <5> HIDE DEF s
        <5> QED
          BY <2>5, <2>6, <3>3
      <4>2. toZyg' = Packets(zwant)'
        BY <2>5, <3>1, <3>3, <4>1 DEF Packets
      <4> QED
        BY <3>1, <3>3, <4>2 DEF Stage
    <3> QED
      BY <2>3, <3>2, <3>3
  <2> QED
    BY <1>0, <2>1, <2>2, <2>6, <2>7, QuietStays
<1>3. CASE SpawnRecvInfo(c)
  <2>1. pc[c] = "info" /\ toHost # <<>> /\ toHost' = SubSeq(toHost, 3, Len(toHost))
        /\ Goto(c, "event") /\ UNCHANGED <<owner, info, toZyg, sockErr, zygote, kernel>>
    BY <1>3 DEF SpawnRecvInfo, Answered
  <2>2. owner = c /\ c # None /\ pc[c] \in Inside
    BY <1>0, <2>1, InsideFacts DEF Inside
  <2>3. PICK job \in DOMAIN procs :
          toHost = <<Hdr("JobStartupInfo"), Body("JobStartupInfo", procs[job].pid), Fds(job)>>
    BY <1>0, <2>1, <2>2, AnswerIs
  <2>4. toHost' = <<Fds(job)>>
    BY <2>1, <2>3, ReadIs
  <2>5. zpc = "recv" /\ toZyg = <<>>
    BY <2>1, <2>2 DEF FlowInv, Stage, Served
  <2>6. pc'[c] = "event"
    BY <1>0, <2>1, GotoIs DEF Inv, TypeInv, TypeOK
  <2>7. Stage(c)'
    <3>1. toHost' # <<>>
      BY <2>4
    <3>2. Served'
      BY <2>1, <2>5, <3>1 DEF Served, zygote
    <3> QED
      BY <2>6, <3>2 DEF Stage
  <2> QED
    BY <1>0, <2>1, <2>2, <2>7, QuietStays
<1>4. CASE SpawnRecvEvent(c)
  <2>1. pc[c] = "event" /\ toHost # <<>> /\ toHost' = Tail(toHost)
        /\ Release(c, "child") /\ UNCHANGED <<info, toZyg, sockErr, zygote, kernel>>
    BY <1>4 DEF SpawnRecvEvent
  <2>2. pc[c] \in Inside
    BY <2>1 DEF Inside
  <2>3. PICK job \in DOMAIN procs : toHost = <<Fds(job)>>
    BY <1>0, <2>1, <2>2, AnswerIs
  <2>4. toHost' = <<>>
    BY <2>1, <2>3, ReadIs
  <2> QED
    BY <1>0, <2>1, <2>2, <2>4, QuietLeaves
<1> QED
  BY <1>1, <1>2, <1>3, <1>4

LEMMA WaitFlows ==
  ASSUME NoFaults, Inv, FlowInv, NEW c \in Clients,
         SpawnRefused(c) \/ Poll(c) \/ WaitRecv(c) \/ DropChild(c)
  PROVE  FlowInv'
<1>0. c \in Threads
  BY ClientsAreThreads
<1>1. CASE SpawnRefused(c)
  <2>1. pc[c] \notin Inside /\ Goto(c, "refused") /\ child' = child
        /\ UNCHANGED <<owner, info, req, socket, zygote, kernel>>
    BY <1>1 DEF SpawnRefused, Inside
  <2> QED
    BY <1>0, <2>1, QuietMoves
<1>2. CASE DropChild(c)
  <2>1. pc[c] \notin Inside /\ Goto(c, "dropped") /\ child' = child
        /\ UNCHANGED <<owner, info, req, socket, zygote, kernel>>
    BY <1>2 DEF DropChild, Inside
  <2> QED
    BY <1>0, <2>1, QuietMoves
<1>3. CASE Poll(c) /\ ~info
  <2>1. pc[c] \notin Inside /\ Goto(c, "done") /\ child' = [child EXCEPT ![c].code = KILLED]
        /\ UNCHANGED <<owner, info, req, socket, zygote, kernel>>
    BY <1>3 DEF Poll, Inside, socket
  <2>2. \A d \in Clients : child'[d].pid = child[d].pid /\ child'[d].job = child[d].job
    BY <2>1 DEF Inv, TypeInv, TypeOK, HostType
  <2> QED
    BY <1>0, <2>1, <2>2, QuietMoves
<1>4. CASE Poll(c) /\ info
  <2>1. pc[c] = "child" /\ EventReady(c) /\ CanEnter(c) /\ owner' = c /\ Goto(c, "exit_code")
        /\ Post(Message("Query", "GetExitCode", child[c].pid))
        /\ UNCHANGED <<info, child, toHost, zygote, kernel>>
    BY <1>4 DEF Poll, CanEnter
  <2>2. child[c].pid \in Int
    BY <2>1 DEF Inv, TypeInv, HandleHasPid
  <2>3. Message("Query", "GetExitCode", child[c].pid) \in Seq(Packet)
    BY <2>2, MessageType
  <2>4. ~Running(child[c].job)
    BY <2>1 DEF EventReady, NoFaults
  <2> QED
    BY <1>0, <2>1, <2>3, <2>4, QuietEnters
<1>5. CASE WaitRecv(c)
  <2>1. pc[c] = "exit_code" /\ toHost # <<>> /\ toHost' = SubSeq(toHost, 3, Len(toHost))
        /\ Release(c, "done") /\ UNCHANGED <<info, toZyg, sockErr, zygote, kernel>>
    BY <1>5 DEF WaitRecv, Answered
  <2>2. pc[c] \in Inside
    BY <2>1 DEF Inside
  <2>3. toHost' = <<>>
    BY <1>0, <2>1, <2>2, AnswerIs, ReadIs DEF Message
  <2> QED
    BY <1>0, <2>1, <2>2, <2>3, QuietLeaves
<1> QED
  BY <1>1, <1>2, <1>3, <1>4, <1>5

LEMMA MeterFlows ==
  ASSUME NoFaults, Inv, FlowInv, NEW m \in Meters, MeterStep(m)
  PROVE  FlowInv'
<1>0. m \in Threads
  BY DEF Threads
<1>1. CASE MeterGone(m)
  <2>1. pc[m] \notin Inside /\ Goto(m, "refused") /\ child' = child
        /\ UNCHANGED <<owner, info, req, socket, zygote, kernel>>
    BY <1>1 DEF MeterGone, Inside
  <2> QED
    BY <1>0, <2>1, QuietMoves
<1>2. CASE MeterQuery(m)
  <2>1. CanEnter(m) /\ Post(Message("Query", "GetResourceUsage", 0))
        /\ UNCHANGED <<info, child, toHost, zygote, kernel>>
    BY <1>2 DEF MeterQuery
  <2>2. Open
    BY <2>1 DEF FlowInv, CanEnter, Open
  <2>3. owner' = m /\ Goto(m, "usage")
    BY <1>2, <2>2 DEF MeterQuery
  <2>4. Message("Query", "GetResourceUsage", 0) \in Seq(Packet)
    BY MessageType
  <2> QED
    BY <1>0, <2>1, <2>3, <2>4, QuietEnters
<1>3. CASE MeterRecv(m)
  <2>1. pc[m] = "usage" /\ toHost # <<>> /\ toHost' = SubSeq(toHost, 3, Len(toHost))
        /\ Release(m, "done") /\ UNCHANGED <<info, toZyg, sockErr, zygote, kernel>>
    BY <1>3 DEF MeterRecv, Answered
  <2>2. pc[m] \in Inside
    BY <2>1 DEF Inside
  <2>3. toHost' = <<>>
    BY <1>0, <2>1, <2>2, AnswerIs, ReadIs DEF Message
  <2> QED
    BY <1>0, <2>1, <2>2, <2>3, QuietLeaves
<1> QED
  BY <1>1, <1>2, <1>3 DEF MeterStep

LEMMA KillerFlows ==
  ASSUME Inv, FlowInv, NEW k \in Killers, KillerStep(k)
  PROVE  FlowInv'
<1>0. k \in Threads
  BY DEF Threads
<1>1. CASE KillCall(k)
  <2>1. pc[k] \notin Inside /\ Goto(k, "calling") /\ child' = child
        /\ UNCHANGED <<owner, info, req, socket, zygote, kernel>>
    BY <1>1 DEF KillCall, Inside
  <2> QED
    BY <1>0, <2>1, QuietMoves
<1>2. CASE Kill(k)
  <2>1. /\ owner = None /\ owner' = None /\ info' = FALSE /\ Goto(k, "killed") /\ toHost' = <<>>
        /\ sockErr' = FALSE /\ UNCHANGED <<toZyg, zpc, tasks, procs>>
    BY <1>2 DEF Kill, kernel
  <2>2. pc'[k] = "killed" /\ \A u \in Threads : u # k => pc'[u] = pc[u]
    BY <1>0, <2>1, GotoIs DEF Inv, TypeInv, TypeOK
  <2>3. ChildrenAreTasks'
    BY <2>1 DEF FlowInv, ChildrenAreTasks, Children, Open
  <2> QED
    BY <2>1, <2>2, <2>3 DEF FlowInv
<1> QED
  BY <1>1, <1>2 DEF KillerStep

\* The query of thread t: this body, then these packets.
Asks(t, b, r) ==
  \/ /\ pc[t] = "send_fds" /\ req[t].stdio = 3
     /\ b = Body("Spawn", req[t].extra) /\ r = <<>>
  \/ /\ pc[t] = "info"
     /\ \E n \in Nat : b = Body("Spawn", n) /\ r = FdPackets(3 + n)
  \/ /\ pc[t] = "exit_code" /\ ~Running(child[t].job)
     /\ b = Body("GetExitCode", child[t].pid) /\ r = <<>>
  \/ pc[t] = "usage" /\ b = Body("GetResourceUsage", 0) /\ r = <<>>

\* What the zygote receives is the query of the thread that holds the mutex.
LEMMA QueryIs ==
  ASSUME Inv, FlowInv, zpc = "body" \/ (zpc = "recv" /\ toZyg # <<>>)
  PROVE  /\ owner \in Threads /\ owner # None /\ pc[owner] \in Inside /\ info /\ toHost = <<>>
         /\ \E b \in Packet, r \in Seq(Packet) :
              b.k = "body" /\ Taking(b, r) /\ Asks(owner, b, r)
<1>1. owner # None /\ owner \in Threads
  BY DEF FlowInv, Inv, TypeInv, TypeOK, HostType
<1>2. pc[owner] \in Inside /\ info /\ Stage(owner) /\ ~Served
  BY <1>1 DEF Inv, ServiceInv, LockInv, FlowInv, Served
<1>3. \A t \in Clients : req[t].extra \in Int /\ (pc[t] = "exit_code" => child[t].pid \in Int)
  BY DEF Inv, TypeInv, TypeOK, HostType, HandleHasPid
<1>4. /\ \A v \in Int : \A ty \in {"Spawn", "GetExitCode", "GetResourceUsage"} :
             Body(ty, v) \in Packet /\ Body(ty, v).k = "body"
      /\ <<>> \in Seq(Packet) /\ \A n \in Nat : FdPackets(3 + n) \in Seq(Packet)
  <2>1. ASSUME NEW n \in Nat PROVE FdPackets(3 + n) \in Seq(Packet)
    <3>1. 3 + n \in Int
      OBVIOUS
    <3> QED
      BY <3>1, ChunksType
  <2> QED
    BY <2>1 DEF Body, Packet
<1>5. pc[owner] \in {"send_fds", "exit_code", "info", "event"} => owner \in Clients
  BY <1>1 DEF Inv, ServiceInv, LockInv
<1>6. CASE pc[owner] = "send_fds"
  <2>1. zpc # "fds"
    OBVIOUS
  <2>2. Taking(Body("Spawn", req[owner].extra), <<>>) /\ toHost = <<>> /\ req[owner].stdio = 3
    BY <1>2, <1>6 DEF Stage
  <2> QED
    BY <1>1, <1>2, <1>3, <1>4, <1>5, <1>6, <2>2 DEF Asks
<1>7. CASE pc[owner] = "info"
  <2>1. PICK n \in Nat : Taking(Body("Spawn", n), FdPackets(3 + n))
    BY <1>2, <1>7 DEF Stage
  <2>2. toHost = <<>>
    BY <1>2, <1>7 DEF Stage
  <2> QED
    BY <1>1, <1>2, <1>4, <1>7, <2>1, <2>2 DEF Asks
<1>8. CASE pc[owner] = "exit_code"
  <2>1. /\ toHost = <<>> /\ ~Running(child[owner].job)
        /\ Taking(Body("GetExitCode", child[owner].pid), <<>>)
    BY <1>2, <1>8 DEF Stage
  <2> QED
    BY <1>1, <1>2, <1>3, <1>4, <1>5, <1>8, <2>1 DEF Asks
<1>9. CASE pc[owner] = "usage"
  <2>1. toHost = <<>> /\ Taking(Body("GetResourceUsage", 0), <<>>)
    BY <1>2, <1>9 DEF Stage
  <2> DEFINE b == Body("GetResourceUsage", 0)
  <2>2. b \in Packet /\ b.k = "body" /\ <<>> \in Seq(Packet)
    BY <1>4
  <2>3. Asks(owner, b, <<>>)
    BY <1>9 DEF Asks
  <2> HIDE DEF b
  <2> QED
    BY <1>1, <1>2, <2>1, <2>2, <2>3 DEF b
<1>10. pc[owner] # "event"
  BY <1>2 DEF Stage
<1> QED
  BY <1>2, <1>6, <1>7, <1>8, <1>9, <1>10 DEF Inside

\* The zygote goes on with the query.
LEMMA ServerFlows ==
  ASSUME Inv, FlowInv, owner # None, Open', Stage(owner)', ChildrenAreTasks',
         UNCHANGED <<host, sockErr, sigkill>>
  PROVE  FlowInv'
BY DEF FlowInv, host

LEMMA HeaderFlows ==
  ASSUME Inv, FlowInv, ZygoteIterate
  PROVE  FlowInv'
<1>1. /\ zpc = "recv" /\ toZyg # <<>> /\ RecvHeader
      /\ UNCHANGED <<tasks, kernel, host, toHost, zwant, sigkill>>
  BY NeverReaps
<1>2. PICK t \in Threads, b \in Packet, r \in Seq(Packet) :
        owner = t /\ t # None /\ toHost = <<>> /\ Taking(b, r) /\ Asks(t, b, r)
  BY <1>1, QueryIs
<1>3. toZyg = <<Hdr("Query"), b>> \o r
  BY <1>1, <1>2 DEF Taking
<1>4. Head(toZyg) = Hdr("Query") /\ Tail(toZyg) = <<b>> \o r
  <2>1. Hdr("Query") \in Packet
    BY DEF Hdr, Packet
  <2> QED
    BY <1>3, <2>1, QueueIs
<1>5. zpc' = "body" /\ toZyg' = <<b>> \o r /\ sockErr' = sockErr
  BY <1>1, <1>4 DEF RecvHeader
<1>6. Taking(b, r)' /\ toHost' = <<>>
  BY <1>1, <1>2, <1>5 DEF Taking
<1>7. Asks(t, b, r)'
  BY <1>1, <1>2 DEF Asks, host, kernel, Running
<1>8. Stage(t)'
  BY <1>6, <1>7 DEF Asks, Stage
<1>9. ChildrenAreTasks' /\ Open'
  BY <1>1, <1>5 DEF FlowInv, ChildrenAreTasks, Children, Open, kernel
<1> QED
  BY <1>1, <1>2, <1>5, <1>8, <1>9, ServerFlows DEF host

\* The packet after the header can be parsed.
LEMMA NeverBad ==
  ASSUME Inv, FlowInv
  PROVE  ~ZygoteBadQuery
<1> SUFFICES ASSUME ZygoteBadQuery PROVE FALSE
  OBVIOUS
<1>1. zpc = "body" /\ toZyg[1].k # "body"
  BY DEF ZygoteBadQuery
<1>2. PICK b \in Packet, r \in Seq(Packet) : b.k = "body" /\ Taking(b, r)
  BY <1>1, QueryIs
<1>3. toZyg = <<b>> \o r
  BY <1>1, <1>2 DEF Taking
<1> QED
  BY <1>1, <1>2, <1>3, QueueIs

LEMMA SpawnBodyFlows ==
  ASSUME Inv, FlowInv, ZygoteGotSpawn
  PROVE  FlowInv'
<1>1. /\ zpc = "body" /\ toZyg[1].ty = "Spawn" /\ zpc' = "fds" /\ toZyg' = Tail(toZyg)
      /\ zwant' = Chunks(3 + toZyg[1].v)
      /\ UNCHANGED <<host, toHost, sockErr, tasks, sigkill, kernel>>
  BY DEF ZygoteGotSpawn, Incoming
<1>2. PICK t \in Threads, b \in Packet, r \in Seq(Packet) :
        owner = t /\ t # None /\ toHost = <<>> /\ Taking(b, r) /\ Asks(t, b, r)
  BY <1>1, QueryIs
<1>3. toZyg = <<b>> \o r
  BY <1>1, <1>2 DEF Taking
<1>4. toZyg[1] = b /\ toZyg' = r
  BY <1>1, <1>2, <1>3, QueueIs
<1>5. UNCHANGED <<pc, req, child, owner, procs>> /\ toHost' = <<>>
  BY <1>1, <1>2 DEF host, kernel
<1>6. CASE pc[t] = "send_fds"
  <2>1. req[t].stdio = 3 /\ b = Body("Spawn", req[t].extra) /\ r = <<>>
    BY <1>2, <1>6 DEF Asks
  <2>2. toZyg' = <<>> /\ zwant' = Chunks(3 + req[t].extra)
    BY <1>1, <1>4, <2>1 DEF Body
  <2>3. Stage(t)'
    BY <1>1, <1>5, <1>6, <2>1, <2>2 DEF Stage
  <2> QED
    BY <1>1, <1>2, <2>3, ServerFlows DEF host, Open, FlowInv, ChildrenAreTasks, Children, kernel
<1>7. CASE pc[t] = "info"
  <2>1. PICK n \in Nat : b = Body("Spawn", n) /\ r = FdPackets(3 + n)
    BY <1>2, <1>7 DEF Asks
  <2>2. zwant' = Chunks(3 + n)
    BY <1>1, <1>4, <2>1 DEF Body
  <2>3. r = Packets(Chunks(3 + n))
    BY <2>1 DEF FdPackets, Packets
  <2>4. toZyg' = Packets(zwant')
    BY <1>4, <2>2, <2>3
  <2>5. Packets(zwant)' = Packets(zwant')
    BY DEF Packets
  <2>6. Stage(t)'
    BY <1>1, <1>5, <1>7, <2>4, <2>5 DEF Stage
  <2> QED
    BY <1>1, <1>2, <2>6, ServerFlows DEF host, Open, FlowInv, ChildrenAreTasks, Children, kernel
<1>8. pc[t] \in {"send_fds", "info"}
  BY <1>1, <1>2, <1>4 DEF Asks, Body
<1> QED
  BY <1>6, <1>7, <1>8

\* Where the zygote waits for descriptors.
LEMMA FdsAre ==
  ASSUME Inv, FlowInv, zpc = "fds"
  PROVE  /\ owner \in Threads /\ owner # None /\ pc[owner] \in Inside /\ info /\ toHost = <<>>
         /\ \/ pc[owner] = "send_fds" /\ toZyg = <<>> /\ zwant # <<>>
            \/ pc[owner] = "info" /\ toZyg = Packets(zwant)
<1>1. owner # None /\ owner \in Threads
  BY DEF FlowInv, Inv, TypeInv, TypeOK, HostType
<1>2. pc[owner] \in Inside /\ info /\ Stage(owner) /\ ~Served
  BY <1>1 DEF Inv, ServiceInv, LockInv, FlowInv, Served
<1>3. CASE pc[owner] = "send_fds"
  <2>1. toHost = <<>> /\ toZyg = <<>> /\ zwant = Chunks(3 + req[owner].extra)
    BY <1>2, <1>3 DEF Stage, Taking
  <2>2. PICK k \in Nat : req[owner].extra = k
    BY <1>1, <1>3 DEF Inv, TypeInv, TypeOK, HostType, ServiceInv, LockInv
  <2> DEFINE n == 3 + k
  <2>3. zwant = Chunks(n) /\ n \in Nat /\ n > 0 /\ n <= n
    BY <2>1, <2>2
  <2> HIDE DEF n
  <2>4. Len(Chunks(n)) > 0
    BY <2>3, ChunksGrow
  <2>5. Chunks(n) # <<>>
    BY <2>4
  <2> QED
    BY <1>1, <1>2, <1>3, <2>1, <2>3, <2>5
<1>4. CASE pc[owner] # "send_fds"
  BY <1>1, <1>2, <1>4 DEF Stage, Taking, Inside
<1> QED
  BY <1>3, <1>4

LEMMA FdsFlow ==
  ASSUME Inv, FlowInv, ZygoteRecvFds
  PROVE  FlowInv'
<1>1. zpc = "fds" /\ zwant # <<>> /\ toZyg # <<>>
      /\ UNCHANGED <<host, toHost, tasks, sigkill, kernel>>
  BY DEF ZygoteRecvFds
<1>2. PICK t \in Threads : owner = t /\ t # None /\ pc[t] = "info" /\ toZyg = Packets(zwant)
                           /\ toHost = <<>>
  BY <1>1, FdsAre
<1>3. toZyg[1] = Fds(zwant[1]) /\ Tail(toZyg) = Packets(Tail(zwant))
  BY <1>1, <1>2, PacketsIs DEF Inv, TypeInv, TypeOK, ZygoteType
<1>4. zwant' = Tail(zwant) /\ toZyg' = Tail(toZyg) /\ UNCHANGED <<zpc, sockErr>>
  BY <1>3 DEF ZygoteRecvFds
<1>5. toZyg' = Packets(zwant)'
  BY <1>3, <1>4 DEF Packets
<1>6. Stage(t)'
  BY <1>1, <1>2, <1>4, <1>5 DEF Stage, host
<1> QED
  BY <1>1, <1>2, <1>4, <1>6, ServerFlows
  DEF host, Open, FlowInv, ChildrenAreTasks, Children, kernel

\* An answer that is sent is there.
LEMMA AnswerSent ==
  ASSUME TypeOK, info, NEW p \in Seq(Packet), p # <<>>, toHost = <<>>, Reply(p)
  PROVE  toHost' = p
BY DEF Reply

LEMMA SpawnFlow ==
  ASSUME Inv, FlowInv, ZygoteSpawn
  PROVE  FlowInv'
<1> DEFINE job == Len(procs) + 1
<1>1. PICK pid \in Pids :
        /\ procs' = Append(procs, [pid |-> pid, st |-> "running", status |-> None, by |-> owner])
        /\ tasks' = Append(tasks, [pid |-> pid, job |-> job, code |-> None])
        /\ Reply(Append(Message("JobStartupInfo", "JobStartupInfo", pid), Fds(job)))
  BY DEF ZygoteSpawn
<1>2. /\ zpc = "fds" /\ zwant = <<>> /\ zpc' = "recv"
      /\ UNCHANGED <<host, toZyg, sockErr, zwant, sigkill>>
  BY DEF ZygoteSpawn
<1>3. PICK t \in Threads : owner = t /\ t # None /\ pc[t] = "info" /\ toZyg = Packets(zwant)
                           /\ toHost = <<>> /\ info
  BY <1>2, FdsAre
<1>4. toZyg' = <<>>
  BY <1>2, <1>3, PacketsIs DEF Inv, TypeInv, TypeOK, ZygoteType
<1> DEFINE answer == Append(Message("JobStartupInfo", "JobStartupInfo", pid), Fds(job))
<1>5. toHost' # <<>>
  <2>1. pid \in Int /\ job \in Nat
    BY ValuesAssumption DEF Inv, TypeInv, TypeOK, KernelType
  <2> DEFINE msg == Message("JobStartupInfo", "JobStartupInfo", pid)
  <2>2. msg \in Seq(Packet) /\ Fds(job) \in Packet
    BY <2>1, MessageType
  <2> HIDE DEF job, msg
  <2>3. Append(msg, Fds(job)) \in Seq(Packet) /\ Append(msg, Fds(job)) # <<>>
    <3>1. \A q \in Seq(Packet), e \in Packet :
            Append(q, e) \in Seq(Packet) /\ Len(Append(q, e)) = Len(q) + 1 /\ Len(q) \in Nat
      OBVIOUS
    <3>2. \A q \in Seq(Packet), e \in Packet : Append(q, e) # <<>>
      BY <3>1
    <3> QED
      BY <2>2, <3>1, <3>2
  <2>4. toHost' = Append(msg, Fds(job))
    BY <1>1, <1>3, <2>3, AnswerSent DEF Inv, TypeInv, msg
  <2> QED
    BY <2>3, <2>4
<1>6. Stage(t)'
  BY <1>2, <1>3, <1>4, <1>5 DEF Stage, Served, host
<1>7. ChildrenAreTasks'
  <2>1. procs \in Seq(Process) /\ tasks \in Seq(Task) /\ Len(procs) \in Nat /\ Len(tasks) \in Nat
    BY DEF Inv, TypeInv, TypeOK, KernelType, ZygoteType
  <2>2. /\ Len(procs') = Len(procs) + 1 /\ DOMAIN procs' = 1..job
        /\ procs'[job].pid = pid /\ \A q \in DOMAIN procs : procs'[q] = procs[q]
    BY <1>1, <2>1
  <2>3. /\ DOMAIN tasks' = 1..(Len(tasks) + 1)
        /\ tasks'[Len(tasks) + 1].pid = pid /\ tasks'[Len(tasks) + 1].job = job
        /\ \A i \in DOMAIN tasks : tasks'[i] = tasks[i]
    BY <1>1, <2>1
  <2> SUFFICES ASSUME NEW q \in Children'
               PROVE  \E i \in DOMAIN tasks' : tasks'[i].job = q /\ tasks'[i].pid = procs'[q].pid
    BY DEF ChildrenAreTasks
  <2>4. CASE q = job
    BY <2>1, <2>2, <2>3, <2>4
  <2>5. CASE q # job
    <3>1. q \in DOMAIN procs
      BY <2>1, <2>2, <2>5 DEF Children
    <3>2. q \in Children
      BY <2>2, <3>1 DEF Children
    <3>3. PICK i \in DOMAIN tasks : tasks[i].job = q /\ tasks[i].pid = procs[q].pid
      BY <1>2, <3>2 DEF FlowInv, ChildrenAreTasks, Open
    <3>4. i \in DOMAIN tasks'
      BY <2>1, <2>3, <3>3
    <3> QED
      BY <2>2, <2>3, <3>1, <3>3, <3>4
  <2> QED
    BY <2>4, <2>5
<1> QED
  BY <1>2, <1>3, <1>6, <1>7, ServerFlows DEF host, Open

LEMMA UsageFlow ==
  ASSUME Inv, FlowInv, ZygoteResourceUsage
  PROVE  FlowInv'
<1> DEFINE answer == Message("ResourceUsageInformation", "ResourceUsageInformation", 0)
<1>1. /\ zpc = "body" /\ toZyg[1].ty = "GetResourceUsage" /\ zpc' = "recv" /\ toZyg' = Tail(toZyg)
      /\ Reply(answer) /\ UNCHANGED <<host, sockErr, zwant, tasks, sigkill, kernel>>
  BY DEF ZygoteResourceUsage, Incoming
<1>2. PICK t \in Threads, b \in Packet, r \in Seq(Packet) :
        owner = t /\ t # None /\ info /\ toHost = <<>> /\ Taking(b, r) /\ Asks(t, b, r)
  BY <1>1, QueryIs
<1>3. toZyg = <<b>> \o r
  BY <1>1, <1>2 DEF Taking
<1>4. toZyg[1] = b /\ toZyg' = r
  BY <1>1, <1>2, <1>3, QueueIs
<1>5. pc[t] = "usage" /\ r = <<>>
  BY <1>1, <1>2, <1>4 DEF Asks, Body
<1>6. toHost' # <<>>
  <2>1. answer \in Seq(Packet) /\ answer # <<>>
    BY MessageType DEF Message
  <2> HIDE DEF answer
  <2>2. toHost' = answer
    BY <1>1, <1>2, <2>1, AnswerSent DEF Inv, TypeInv
  <2> QED
    BY <2>1, <2>2
<1>7. Stage(t)'
  BY <1>1, <1>4, <1>5, <1>6 DEF Stage, Served, host
<1> QED
  BY <1>1, <1>2, <1>7, ServerFlows DEF host, Open, FlowInv, ChildrenAreTasks, Children, kernel

\* The task of the job that a client waits for is there, the job has ended,
\* and nobody has waited for it.
LEMMA ExitCodeFlow ==
  ASSUME Inv, FlowInv, ZygoteGetExitCode
  PROVE  FlowInv'
<1>1. /\ zpc = "body" /\ toZyg[1].ty = "GetExitCode"
      /\ UNCHANGED <<host, zwant, sigkill, written>>
  BY DEF ZygoteGetExitCode, Incoming
<1>2. PICK t \in Threads, b \in Packet, r \in Seq(Packet) :
        owner = t /\ t # None /\ info /\ toHost = <<>> /\ Taking(b, r) /\ Asks(t, b, r)
  BY <1>1, QueryIs
<1>3. toZyg = <<b>> \o r
  BY <1>1, <1>2 DEF Taking
<1>4. toZyg[1] = b /\ Tail(toZyg) = r
  BY <1>1, <1>2, <1>3, QueueIs
<1>5. pc[t] = "exit_code" /\ ~Running(child[t].job) /\ toZyg[1].v = child[t].pid /\ Tail(toZyg) = <<>>
  BY <1>1, <1>2, <1>4 DEF Asks, Body
<1>6. t \in Clients
  BY <1>2, <1>5 DEF Inv, ServiceInv, LockInv
<1> DEFINE pid   == child[t].pid
           job   == child[t].job
           first == First(TasksOf(pid))
<1>7. /\ job \in DOMAIN procs /\ procs[job].pid = pid /\ procs[job].st # "reaped"
  BY <1>1, <1>2, <1>5, <1>6 DEF Inv, ServiceInv, HandleInv, JobOf, NotReaped, Open
<1>8. job \in Zombies /\ \A q \in Children : procs[q].pid = pid => q = job
  <2>1. procs[job] \in Process
    BY <1>7 DEF Inv, TypeInv, TypeOK, KernelType
  <2>2. procs[job].st = "zombie"
    BY <1>5, <1>7, <2>1 DEF Process, Running
  <2>3. job \in Children
    BY <1>7 DEF Children
  <2> QED
    BY <1>7, <2>2, <2>3 DEF Zombies, Inv, TaskInv, ChildPidsUnique
<1>9. first \in DOMAIN tasks /\ tasks[first].pid = pid /\ TasksOf(pid) = {first}
      /\ tasks[first].code = None
  <2>1. PICK i \in DOMAIN tasks : tasks[i].pid = pid
    BY <1>1, <1>7, <1>8 DEF FlowInv, ChildrenAreTasks, Open, Zombies
  <2>2. TasksOf(pid) # {}
    BY <2>1 DEF TasksOf
  <2>3. first \in DOMAIN tasks /\ tasks[first].pid = pid /\ TasksOf(pid) = {first}
    BY <2>2, OnlyTask DEF Inv, TypeInv, TypeOK, TaskInv
  <2> QED
    BY <2>3 DEF Inv, TaskInv, TasksAreChildren
<1>10. tasks' = SwapRemove(tasks, first) /\ ZygoteWaited(pid, <<>>)
  <2>1. TasksOf(pid) # {}
    BY <1>9
  <2>2. {q \in Children : procs[q].pid = pid} \cap Zombies # {}
    BY <1>7, <1>8 DEF Zombies
  <2>3. tasks[First(TasksOf(toZyg[1].v))].code = None /\ TasksOf(toZyg[1].v) # {}
    BY <1>5, <1>9, <2>1
  <2> QED
    BY <1>5, <2>2, <2>3 DEF ZygoteGetExitCode
<1>11. /\ procs' = [procs EXCEPT ![job].st = "reaped"]
       /\ Reply(Message("i64", "i64", procs[job].status))
       /\ zpc' = "recv" /\ toZyg' = <<>> /\ sockErr' = sockErr
  BY <1>8, <1>10 DEF ZygoteWaited, Zombies
<1>12. toHost' # <<>>
  <2>1. procs[job].status \in Int
    BY <1>8 DEF Inv, TypeInv, EndedHasStatus, Zombies, Children
  <2> DEFINE answer == Message("i64", "i64", procs[job].status)
  <2>2. answer \in Seq(Packet) /\ answer # <<>>
    BY <2>1, MessageType DEF Message
  <2> HIDE DEF answer
  <2>3. toHost' = answer
    BY <1>2, <1>11, <2>2, AnswerSent DEF Inv, TypeInv, answer
  <2> QED
    BY <2>2, <2>3
<1>13. Stage(t)'
  BY <1>1, <1>5, <1>11, <1>12 DEF Stage, Served, host
<1>14. ChildrenAreTasks'
  <2>1. tasks \in Seq(Task) /\ procs \in Seq(Process)
    BY DEF Inv, TypeInv, TypeOK, KernelType, ZygoteType
  <2> SUFFICES ASSUME NEW q \in Children'
               PROVE  \E i \in DOMAIN tasks' : tasks'[i].job = q /\ tasks'[i].pid = procs'[q].pid
    BY DEF ChildrenAreTasks
  <2>2. q \in Children /\ q # job /\ procs'[q].pid = procs[q].pid
    BY <1>7, <1>11, <2>1 DEF Children
  <2>3. PICK i \in DOMAIN tasks : tasks[i].job = q /\ tasks[i].pid = procs[q].pid
    BY <1>1, <2>2 DEF FlowInv, ChildrenAreTasks, Open
  <2>4. i # first
    BY <1>8, <1>9, <2>2, <2>3
  <2>5. \E j \in DOMAIN tasks' : tasks'[j] = tasks[i]
    <3> HIDE DEF first
    <3>1. Len(tasks) \in Nat /\ DOMAIN tasks = 1..Len(tasks)
      BY <2>1
    <3>2. /\ DOMAIN tasks' = 1..(Len(tasks) - 1)
          /\ \A j \in 1..(Len(tasks) - 1) : tasks'[j] = IF j = first THEN tasks[Len(tasks)] ELSE tasks[j]
      BY <1>10 DEF SwapRemove
    <3>3. CASE i = Len(tasks)
      <4>1. first \in 1..(Len(tasks) - 1)
        BY <1>9, <2>4, <3>1, <3>3
      <4> QED
        BY <3>2, <3>3, <4>1
    <3>4. CASE i # Len(tasks)
      <4>1. i \in 1..(Len(tasks) - 1)
        BY <3>1, <3>4
      <4> QED
        BY <2>4, <3>2, <4>1
    <3> QED
      BY <3>3, <3>4
  <2> QED
    BY <2>2, <2>3, <2>5
<1> QED
  BY <1>1, <1>2, <1>11, <1>13, <1>14, ServerFlows DEF host, Open

\* What else the zygote and the kernel do.
LEMMA KernelFlows ==
  ASSUME NoFaults, Inv, FlowInv,
         \/ ZygoteSpawnFails \/ ZygoteDies \/ ZygoteCrash
         \/ (\E q \in DOMAIN procs : JobExit(q)) \/ NamespaceTeardown
  PROVE  FlowInv'
<1>1. ~ZygoteSpawnFails /\ ~ZygoteCrash
  BY DEF NoFaults, ZygoteSpawnFails, ZygoteCrash
<1>2. CASE ZygoteDies
  <2>1. sigkill /\ Stop("killed", toZyg) /\ UNCHANGED <<host, toHost, sigkill>>
    BY <1>2 DEF ZygoteDies
  <2>2. ~info /\ owner = None
    BY <2>1 DEF FlowInv, Inv, ServiceInv, LockInv
  <2>3. zpc' = "killed" /\ toZyg' = <<>> /\ sockErr' = FALSE
    BY <2>1, <2>2 DEF Stop, FlowInv
  <2> QED
    BY <2>1, <2>2, <2>3 DEF FlowInv, ChildrenAreTasks, Open, host
<1>3. ASSUME NEW q \in DOMAIN procs, JobExit(q) PROVE FlowInv'
  <2>1. /\ UNCHANGED <<host, socket, zygote>> /\ procs[q].st = "running"
        /\ \E s \in Statuses : procs' = [procs EXCEPT ![q].st = "zombie", ![q].status = s]
    BY <1>3 DEF JobExit, Running
  <2>2. /\ DOMAIN procs' = DOMAIN procs
        /\ \A j \in DOMAIN procs : /\ procs'[j].pid = procs[j].pid
                                   /\ procs'[j].st = "running" => procs[j].st = "running"
                                   /\ procs'[j].st = "reaped" <=> procs[j].st = "reaped"
    BY <2>1 DEF Inv, TypeInv, TypeOK, KernelType, Process
  <2>3. ChildrenAreTasks'
    BY <2>1, <2>2 DEF FlowInv, ChildrenAreTasks, Children, Open, zygote
  <2>4. owner # None => Stage(owner)'
    <3> SUFFICES ASSUME NEW t \in Threads, owner = t, t # None PROVE Stage(t)'
      BY <2>1 DEF Inv, TypeInv, TypeOK, HostType, host
    <3>1. pc[t] = "exit_code" => child[t].job \in DOMAIN procs
      BY DEF Inv, ServiceInv, LockInv, HandleInv, JobOf
    <3>2. pc[t] = "exit_code" => (Running(child[t].job)' => Running(child[t].job))
      BY <2>1, <2>2, <3>1 DEF Running, host
    <3>3. Stage(t)
      BY DEF FlowInv
    <3> QED
      BY <2>1, <3>2, <3>3, StageKeeps DEF host, socket, zygote
  <2> QED
    BY <2>1, <2>3, <2>4 DEF FlowInv, host, socket, zygote, Open
<1>4. CASE NamespaceTeardown
  <2>1. ~Open /\ UNCHANGED <<host, socket, zygote>>
    BY <1>4 DEF NamespaceTeardown, Exited
  <2>2. owner = None
    BY <2>1 DEF FlowInv
  <2> QED
    BY <2>1, <2>2 DEF FlowInv, ChildrenAreTasks, Open, host, socket, zygote
<1> QED
  BY <1>1, <1>2, <1>3, <1>4

LEMMA FlowInit == Init => FlowInv
BY DEF Init, FlowInv, ChildrenAreTasks, Children

LEMMA FlowNext ==
  ASSUME NoFaults, Inv, FlowInv, [Next]_vars
  PROVE  FlowInv'
<1>1. ASSUME NEW c \in Clients, ClientStep(c) PROVE FlowInv'
  <2>1. c \in Threads
    BY ClientsAreThreads
  <2> QED
    BY <1>1, <2>1, NothingFails, SpawnFlows, WaitFlows DEF ClientStep
<1>2. ASSUME NEW m \in Meters, MeterStep(m) PROVE FlowInv'
  BY <1>2, MeterFlows
<1>3. ASSUME NEW t \in Clients \cup Meters, RecvFails(t) \/ RecvPanics(t) PROVE FlowInv'
  <2>1. t \in Threads
    BY DEF Threads
  <2> QED
    BY <1>3, <2>1, NothingFails
<1>4. ASSUME NEW k \in Killers, KillerStep(k) PROVE FlowInv'
  BY <1>4, KillerFlows
<1>5. ASSUME ZygoteStep PROVE FlowInv'
  BY <1>5, HeaderFlows, NeverBad, SpawnBodyFlows, FdsFlow, SpawnFlow, UsageFlow, ExitCodeFlow
  DEF ZygoteStep
<1>6. CASE \/ ZygoteSpawnFails \/ ZygoteDies \/ ZygoteCrash
           \/ (\E q \in DOMAIN procs : JobExit(q)) \/ NamespaceTeardown
  BY <1>6, KernelFlows
<1>7. ASSUME UNCHANGED vars PROVE FlowInv'
  <2>1. UNCHANGED <<owner, info, pc, req, child, toZyg, toHost, sockErr, zpc, zwant, sigkill,
                    tasks, procs>>
    BY <1>7 DEF vars, host, socket, zygote, kernel
  <2>2. owner # None => Stage(owner)'
    BY <2>1 DEF FlowInv, Stage, Served, Taking, Running, Packets
  <2> QED
    BY <2>1, <2>2 DEF FlowInv, ChildrenAreTasks, Children, Open
<1> QED
  <2>1. CASE Next
    <3>1. CASE Quiescent
      BY <1>7, <3>1 DEF Quiescent
    <3> QED
      BY <1>1, <1>2, <1>3, <1>4, <1>5, <1>6, <2>1, <3>1 DEF Next
  <2> QED
    BY <1>7, <2>1

LEMMA FlowHolds ==
  ASSUME NoFaults
  PROVE  Spec => [](Inv /\ FlowInv)
<1>1. Init => Inv /\ FlowInv
  BY TypeInit, ServiceInit, FlowInit
  DEF Inv, Init, TaskInv, TasksAreChildren, ChildPidsUnique, TasksUnique, Children
<1>2. Inv /\ FlowInv /\ [Next]_vars => Inv' /\ FlowInv'
  BY InvNext, FlowNext
<1> QED
  BY <1>1, <1>2, PTL DEF Spec

\* When no call fails, between two requests the zygote expects a header and
\* nothing is on its way: whoever locks the mutex next finds a clean stream.
THEOREM InSyncHolds ==
  ASSUME NoFaults
  PROVE  Spec => []InSync
<1>1. FlowInv => InSync
  BY DEF FlowInv, InSync
<1> QED
  BY <1>1, FlowHolds, PTL

\* When no call fails, no thread and no zygote panics or gives up, wherever the
\* sandbox is killed: the expects, asserts and unreachables of both ends hold.
THEOREM NeverFailsHolds ==
  ASSUME NoFaults
  PROVE  Spec => []NeverFails
<1>1. FlowInv => NeverFails
  BY DEF FlowInv, NeverFails, Open
<1> QED
  BY <1>1, FlowHolds, PTL

(***************************************************************************)
(* When no call fails, the sandbox implements JobService.                  *)
(***************************************************************************)

\* Each client has at most one job, which exists from the answer to its
\* request on, and a status as soon as it has ended.
JobInv ==
  /\ \A q \in DOMAIN procs :
       /\ procs[q].by \in Clients
       /\ procs[q].st # "running" => procs[q].status # None
       /\ pc[procs[q].by] \notin {"idle", "send_fds", "refused"}
       /\ pc[procs[q].by] = "info" => toHost # <<>>
  /\ \A q, r \in DOMAIN procs : procs[q].by = procs[r].by => q = r

LEMMA JobInit == Init => JobInv
BY DEF Init, JobInv

\* Steps that start no job: clients do not go back, and the answer to a
\* request for a job is taken by the client that gets it.
LEMMA NoNewJob ==
  ASSUME Inv, JobInv, DOMAIN procs' = DOMAIN procs,
         \A q \in DOMAIN procs : /\ procs'[q].by = procs[q].by
                                 /\ procs'[q].st # "running" => procs'[q].status # None,
         \A c \in Clients :
           \/ pc'[c] = pc[c] /\ (pc[c] = "info" /\ toHost # <<>> => toHost' # <<>>)
           \/ pc'[c] \in {"send_fds", "refused"} /\ pc[c] = "idle"
           \/ pc'[c] = "info" /\ pc[c] = "send_fds"
           \/ pc'[c] \notin {"idle", "send_fds", "refused", "info"}
  PROVE  JobInv'
BY DEF JobInv

\* A step of a thread that is no client's, or of the zygote, with the queue to
\* the host as it was.
LEMMA HostMoves ==
  ASSUME Inv, FlowInv, JobInv, NEW t \in Threads, NEW to, Goto(t, to), procs' = procs,
         \/ toHost' = toHost
         \/ owner = t \/ owner = None,
         t \in Clients =>
           \/ to \in {"send_fds", "refused"} /\ pc[t] = "idle"
           \/ to = "info" /\ pc[t] = "send_fds"
           \/ to \notin {"idle", "send_fds", "refused", "info"}
  PROVE  JobInv'
<1>1. pc'[t] = to /\ \A u \in Threads : u # t => pc'[u] = pc[u]
  BY GotoIs DEF Inv, TypeInv, TypeOK
<1>2. \A c \in Clients : c \in Threads /\ (pc[c] = "info" => owner = c /\ owner # None)
  BY ClientsAreThreads DEF Inv, ServiceInv, LockInv, Inside
<1>3. \A q \in DOMAIN procs : procs'[q].st # "running" => procs'[q].status # None
  BY DEF JobInv
<1> QED
  BY <1>1, <1>2, <1>3, NoNewJob

\* The one job of a client, and none.
LEMMA OnlyJob ==
  ASSUME NEW ps, NEW c, NEW q \in DOMAIN ps, ps[q].by = c,
         \A r \in DOMAIN ps : ps[r].by = c => r = q
  PROVE  /\ {r \in DOMAIN ps : ps[r].by = c} = {q}
         /\ (CHOOSE r \in {s \in DOMAIN ps : ps[s].by = c} : TRUE) = q
<1>1. {r \in DOMAIN ps : ps[r].by = c} = {q}
  OBVIOUS
<1>2. (CHOOSE r \in {q} : TRUE) = q
  OBVIOUS
<1> QED
  BY <1>1, <1>2

LEMMA Mapped ==
  ASSUME JobInv, NEW c \in Clients
  PROVE  /\ (\A q \in DOMAIN procs : procs[q].by # c) => absJob[c] = "none" /\ absStatus[c] = None
         /\ \A q \in DOMAIN procs : procs[q].by = c =>
              /\ absJob[c] = IF procs[q].st = "running" THEN "running" ELSE "ended"
              /\ absStatus[c] = procs[q].status
<1>1. ASSUME \A q \in DOMAIN procs : procs[q].by # c PROVE absJob[c] = "none" /\ absStatus[c] = None
  BY <1>1 DEF absJob, absStatus, JobsOf
<1>2. ASSUME NEW q \in DOMAIN procs, procs[q].by = c
      PROVE  /\ absJob[c] = IF procs[q].st = "running" THEN "running" ELSE "ended"
             /\ absStatus[c] = procs[q].status
  <2>1. \A r \in DOMAIN procs : procs[r].by = c => r = q
    BY <1>2 DEF JobInv
  <2>2. JobsOf(c) = {q} /\ (CHOOSE r \in JobsOf(c) : TRUE) = q
    BY <1>2, <2>1, OnlyJob DEF JobsOf
  <2> QED
    BY <2>2 DEF absJob, absStatus, Running
<1> QED
  BY <1>1, <1>2

\* The same of the state after a step.
LEMMA MappedNext ==
  ASSUME JobInv', NEW c \in Clients
  PROVE  /\ (\A q \in DOMAIN procs' : procs'[q].by # c) => absJob'[c] = "none" /\ absStatus'[c] = None
         /\ \A q \in DOMAIN procs' : procs'[q].by = c =>
              /\ absJob'[c] = IF procs'[q].st = "running" THEN "running" ELSE "ended"
              /\ absStatus'[c] = procs'[q].status
<1>1. ASSUME \A q \in DOMAIN procs' : procs'[q].by # c PROVE absJob'[c] = "none" /\ absStatus'[c] = None
  BY <1>1 DEF absJob, absStatus, JobsOf
<1>2. ASSUME NEW q \in DOMAIN procs', procs'[q].by = c
      PROVE  /\ absJob'[c] = IF procs'[q].st = "running" THEN "running" ELSE "ended"
             /\ absStatus'[c] = procs'[q].status
  <2>1. \A r \in DOMAIN procs' : procs'[r].by = c => r = q
    BY <1>2 DEF JobInv
  <2>2. JobsOf(c)' = {q} /\ (CHOOSE r \in JobsOf(c)' : TRUE) = q
    BY <1>2, <2>1, OnlyJob DEF JobsOf
  <2> QED
    BY <2>2 DEF absJob, absStatus, Running
<1> QED
  BY <1>1, <1>2

LEMMA SameJobs ==
  ASSUME procs' = procs
  PROVE  absJob' = absJob /\ absStatus' = absStatus
BY DEF absJob, absStatus, JobsOf, Running

\* What a thread's move shows of it.
LEMMA ViewMoves ==
  ASSUME Inv, NEW t \in Threads, NEW to, Goto(t, to)
  PROVE  /\ t \notin Clients \/ View[to] = View[pc[t]] => absView' = absView
         /\ t \in Clients => absView' = [absView EXCEPT ![t] = View[to]] /\ absView[t] = View[pc[t]]
<1>1. pc'[t] = to /\ \A u \in Threads : u # t => pc'[u] = pc[u]
  BY GotoIs DEF Inv, TypeInv, TypeOK
<1> QED
  BY <1>1, ClientsAreThreads DEF absView

\* A step of the system is one of the service, or none.
Simulates == Service!Next \/ UNCHANGED Service!vars

LEMMA SpawnSimulates ==
  ASSUME NoFaults, Inv, FlowInv, JobInv, NEW c \in Clients,
         \/ \E r \in Requests : SpawnQuery(c, r)
         \/ SpawnRefused(c) \/ SpawnSendFds(c) \/ SpawnRecvInfo(c) \/ SpawnRecvEvent(c)
  PROVE  JobInv' /\ Simulates
<1>0. c \in Threads
  BY ClientsAreThreads
<1>1. ASSUME NEW r \in Requests, SpawnQuery(c, r) PROVE JobInv' /\ Simulates
  <2>1. pc[c] = "idle" /\ UNCHANGED <<info, child, toHost, procs>> /\ Open
    BY <1>1 DEF SpawnQuery, kernel, CanEnter, FlowInv, Open
  <2>2. Goto(c, "send_fds")
    BY <1>1, <2>1 DEF SpawnQuery
  <2>3. JobInv'
    BY <1>0, <2>1, <2>2, HostMoves
  <2>4. absView' = absView
    BY <1>0, <2>1, <2>2, ViewMoves DEF View
  <2> QED
    BY <2>1, <2>3, <2>4, SameJobs DEF Simulates, Service!vars, absCode
<1>2. CASE SpawnRefused(c)
  <2>1. pc[c] = "idle" /\ ~info /\ Goto(c, "refused") /\ UNCHANGED <<info, child, toHost, procs>>
    BY <1>2 DEF SpawnRefused, kernel, socket
  <2>2. JobInv'
    BY <1>0, <2>1, HostMoves
  <2>3. absView' = [absView EXCEPT ![c] = "refused"] /\ absView[c] = "idle"
    BY <1>0, <2>1, ViewMoves DEF View
  <2>4. absJob[c] = "none"
    BY <2>1, Mapped DEF JobInv
  <2>5. Service!Refuse(c)
    BY <2>1, <2>3, <2>4, SameJobs DEF Service!Refuse, absCode
  <2> QED
    BY <2>2, <2>5 DEF Simulates, Service!Next
<1>3. CASE SpawnSendFds(c)
  <2>1. pc[c] = "send_fds" /\ UNCHANGED <<info, child, toHost, procs>>
    BY <1>3 DEF SpawnSendFds, kernel
  <2>2. owner = c /\ c # None
    BY <1>0, <2>1, InsideFacts DEF Inside
  <2>3. Open
    BY <2>2 DEF FlowInv
  <2>4. Goto(c, "info")
    BY <1>3, <2>3 DEF SpawnSendFds
  <2>5. JobInv'
    BY <1>0, <2>1, <2>4, HostMoves
  <2>6. absView' = absView
    BY <1>0, <2>1, <2>4, ViewMoves DEF View
  <2> QED
    BY <2>1, <2>5, <2>6, SameJobs DEF Simulates, Service!vars, absCode
<1>4. CASE SpawnRecvInfo(c)
  <2>1. pc[c] = "info" /\ Goto(c, "event") /\ UNCHANGED <<info, procs>>
        /\ child' = [child EXCEPT ![c].pid = toHost[2].v]
    BY <1>4 DEF SpawnRecvInfo, kernel
  <2>2. owner = c
    BY <1>0, <2>1, InsideFacts DEF Inside
  <2>3. JobInv'
    BY <1>0, <2>1, <2>2, HostMoves
  <2>4. absView' = absView
    BY <1>0, <2>1, ViewMoves DEF View
  <2>5. absCode' = absCode
    BY <2>1 DEF absCode, Inv, TypeInv, TypeOK, HostType
  <2> QED
    BY <2>1, <2>3, <2>4, <2>5, SameJobs DEF Simulates, Service!vars
<1>5. CASE SpawnRecvEvent(c)
  <2>1. pc[c] = "event" /\ toHost # <<>> /\ Goto(c, "child") /\ UNCHANGED <<info, procs>>
        /\ child' = [child EXCEPT ![c].job = toHost[1].v]
    BY <1>5 DEF SpawnRecvEvent, kernel, Release
  <2>2. owner = c /\ info /\ pc[c] \in Inside
    BY <1>0, <2>1, InsideFacts DEF Inside
  <2>3. JobInv'
    BY <1>0, <2>1, <2>2, HostMoves
  <2>4. absView' = [absView EXCEPT ![c] = "handle"] /\ absView[c] = "idle"
    BY <1>0, <2>1, ViewMoves DEF View
  <2>5. absCode' = absCode
    BY <2>1 DEF absCode, Inv, TypeInv, TypeOK, HostType
  <2>6. PICK job \in DOMAIN procs : procs[job].by = c
    BY <1>0, <2>1, <2>2, AnswerIs DEF JobOf
  <2>7. absJob[c] # "none"
    BY <2>6, Mapped
  <2>8. Service!Handle(c)
    BY <2>1, <2>2, <2>4, <2>5, <2>7, SameJobs DEF Service!Handle
  <2> QED
    BY <2>3, <2>8 DEF Simulates, Service!Next
<1> QED
  BY <1>1, <1>2, <1>3, <1>4, <1>5

LEMMA WaitSimulates ==
  ASSUME NoFaults, Inv, FlowInv, JobInv, NEW c \in Clients, Poll(c) \/ WaitRecv(c) \/ DropChild(c)
  PROVE  JobInv' /\ Simulates
<1>0. c \in Threads /\ child \in [Clients -> [pid : Int \cup {None}, job : Int \cup {None},
                                             code : Int \cup {None}]]
  BY ClientsAreThreads DEF Inv, TypeInv, TypeOK, HostType
<1>1. CASE Poll(c) /\ ~info
  <2>1. /\ pc[c] = "child" /\ ~Running(child[c].job) /\ Goto(c, "done") /\ UNCHANGED <<info, procs>>
        /\ toHost' = toHost /\ child' = [child EXCEPT ![c].code = KILLED]
    BY <1>1 DEF Poll, EventReady, NoFaults, kernel
  <2>2. JobInv'
    BY <1>0, <2>1, HostMoves
  <2>3. absView' = [absView EXCEPT ![c] = "reported"] /\ absView[c] = "handle"
    BY <1>0, <2>1, ViewMoves DEF View
  <2>4. absJob[c] = "ended"
    <3>1. JobOf(c, child[c].job, child[c].pid)
      BY <2>1 DEF Inv, ServiceInv, HandleInv
    <3> QED
      BY <2>1, <3>1, Mapped DEF JobOf, Running
  <2>5. absCode' = [absCode EXCEPT ![c] = KILLED]
    BY <1>0, <2>1 DEF absCode
  <2>6. Service!ReportKilled(c)
    BY <1>1, <2>1, <2>3, <2>4, <2>5, SameJobs DEF Service!ReportKilled
  <2> QED
    BY <2>2, <2>6 DEF Simulates, Service!Next
<1>2. CASE Poll(c) /\ info
  <2>1. pc[c] = "child" /\ Goto(c, "exit_code") /\ UNCHANGED <<info, procs, toHost, child>>
    BY <1>2 DEF Poll, kernel
  <2>2. JobInv'
    BY <1>0, <2>1, HostMoves
  <2>3. absView' = absView
    BY <1>0, <2>1, ViewMoves DEF View
  <2> QED
    BY <2>1, <2>2, <2>3, SameJobs DEF Simulates, Service!vars, absCode
<1>3. CASE WaitRecv(c)
  <2>1. /\ pc[c] = "exit_code" /\ toHost # <<>> /\ Goto(c, "done") /\ UNCHANGED <<info, procs>>
        /\ child' = [child EXCEPT ![c].code = toHost[2].v]
    BY <1>3 DEF WaitRecv, Answered, Release, kernel
  <2>2. owner = c /\ info /\ pc[c] \in Inside
    BY <1>0, <2>1, InsideFacts DEF Inside
  <2>3. JobInv'
    BY <1>0, <2>1, <2>2, HostMoves
  <2>4. absView' = [absView EXCEPT ![c] = "reported"] /\ absView[c] = "handle"
    BY <1>0, <2>1, ViewMoves DEF View
  <2> DEFINE job == child[c].job
  <2>5. procs[job].status # None /\ toHost[2].v = procs[job].status
    BY <1>0, <2>1, <2>2, AnswerIs DEF Message, Body
  <2>6. JobOf(c, job, child[c].pid)
    BY <2>1 DEF Inv, ServiceInv, HandleInv
  <2>7. absJob[c] = "ended" /\ absStatus[c] = procs[job].status
    <3>1. procs[job].st # "running"
      BY <2>5, <2>6 DEF Inv, ServiceInv, StatusInv, JobOf, Running
    <3> QED
      BY <2>6, <3>1, Mapped DEF JobOf
  <2>8. absCode' = [absCode EXCEPT ![c] = absStatus[c]]
    BY <1>0, <2>1, <2>5, <2>7 DEF absCode
  <2>9. Service!Report(c)
    BY <2>1, <2>2, <2>4, <2>7, <2>8, SameJobs DEF Service!Report
  <2> QED
    BY <2>3, <2>9 DEF Simulates, Service!Next
<1>4. CASE DropChild(c)
  <2>1. pc[c] = "child" /\ Goto(c, "dropped") /\ UNCHANGED <<info, procs, toHost, child>>
    BY <1>4 DEF DropChild, kernel, socket
  <2>2. JobInv'
    BY <1>0, <2>1, HostMoves
  <2>3. absView' = [absView EXCEPT ![c] = "dropped"] /\ absView[c] = "handle"
    BY <1>0, <2>1, ViewMoves DEF View
  <2>4. Service!Forget(c)
    BY <2>1, <2>3, SameJobs DEF Service!Forget, absCode
  <2> QED
    BY <2>2, <2>4 DEF Simulates, Service!Next
<1> QED
  BY <1>1, <1>2, <1>3, <1>4

LEMMA OthersSimulate ==
  ASSUME NoFaults, Inv, FlowInv, JobInv,
         \/ \E m \in Meters : MeterStep(m)
         \/ \E k \in Killers : KillerStep(k)
  PROVE  JobInv' /\ Simulates
<1>1. ASSUME NEW t \in Threads, t \notin Clients, NEW to, Goto(t, to), UNCHANGED <<child, procs>>,
             toHost' = toHost \/ owner = t \/ owner = None, info' = info \/ info' = FALSE
      PROVE  JobInv' /\ Simulates
  <2>1. JobInv'
    BY <1>1, HostMoves
  <2>2. absView' = absView /\ absCode' = absCode /\ absJob' = absJob /\ absStatus' = absStatus
    BY <1>1, ViewMoves, SameJobs DEF absCode
  <2>3. CASE info' = FALSE
    BY <2>1, <2>2, <2>3 DEF Simulates, Service!Next, Service!Kill
  <2>4. CASE info' = info
    BY <2>1, <2>2, <2>4 DEF Simulates, Service!vars
  <2> QED
    BY <1>1, <2>3, <2>4
<1>2. ASSUME NEW m \in Meters, MeterStep(m) PROVE JobInv' /\ Simulates
  <2>1. m \in Threads /\ m \notin Clients
    BY ThreadsAssumption DEF Threads
  <2>2. \E to : Goto(m, to)
    BY <1>2 DEF MeterStep, MeterGone, MeterQuery, MeterRecv, Release
  <2>3. UNCHANGED <<child, procs, info>>
    BY <1>2 DEF MeterStep, MeterGone, MeterQuery, MeterRecv, kernel
  <2>4. toHost' = toHost \/ owner = m
    <3>1. MeterRecv(m) => pc[m] \in Inside
      BY DEF MeterRecv, Inside
    <3>2. MeterRecv(m) => owner = m
      BY <2>1, <3>1, InsideFacts
    <3> QED
      BY <1>2, <3>2 DEF MeterStep, MeterGone, MeterQuery, socket
  <2> QED
    BY <1>1, <2>1, <2>2, <2>3, <2>4
<1>3. ASSUME NEW k \in Killers, KillerStep(k) PROVE JobInv' /\ Simulates
  <2>1. k \in Threads /\ k \notin Clients
    BY ThreadsAssumption DEF Threads
  <2>2. \E to : Goto(k, to)
    BY <1>3 DEF KillerStep, KillCall, Kill
  <2>3. UNCHANGED <<child, procs>> /\ (info' = info \/ info' = FALSE)
        /\ (toHost' = toHost \/ owner = None)
    BY <1>3 DEF KillerStep, KillCall, Kill, kernel, socket
  <2> QED
    BY <1>1, <2>1, <2>2, <2>3
<1> QED
  BY <1>2, <1>3

\* The zygote and the kernel move no thread.
LEMMA ServerMoves ==
  ASSUME Inv, JobInv, UNCHANGED host, DOMAIN procs' = DOMAIN procs,
         toHost # <<>> => toHost' # <<>>,
         \A q \in DOMAIN procs : /\ procs'[q].by = procs[q].by
                                 /\ procs'[q].st # "running" => procs'[q].status # None
  PROVE  JobInv' /\ absView' = absView /\ absCode' = absCode /\ info' = info
<1>1. JobInv'
  BY NoNewJob DEF host
<1> QED
  BY <1>1 DEF absView, absCode, host

\* A reaped job has ended before.
LEMMA SameMap ==
  ASSUME JobInv, JobInv', DOMAIN procs' = DOMAIN procs,
         \A q \in DOMAIN procs : /\ procs'[q].by = procs[q].by
                                 /\ procs'[q].status = procs[q].status
                                 /\ procs'[q].st = "running" <=> procs[q].st = "running"
  PROVE  absJob' = absJob /\ absStatus' = absStatus
<1>1. ASSUME NEW c \in Clients PROVE absJob'[c] = absJob[c] /\ absStatus'[c] = absStatus[c]
  <2>1. CASE \A q \in DOMAIN procs : procs[q].by # c
    BY <2>1, Mapped, MappedNext
  <2>2. ASSUME NEW q \in DOMAIN procs, procs[q].by = c
        PROVE  absJob'[c] = absJob[c] /\ absStatus'[c] = absStatus[c]
    BY <2>2, Mapped, MappedNext
  <2> QED
    BY <2>1, <2>2
<1>2. /\ absJob = [c \in Clients |-> absJob[c]] /\ absJob' = [c \in Clients |-> absJob'[c]]
      /\ absStatus = [c \in Clients |-> absStatus[c]] /\ absStatus' = [c \in Clients |-> absStatus'[c]]
  BY DEF absJob, absStatus
<1> QED
  BY <1>1, <1>2

LEMMA ZygoteSimulates ==
  ASSUME NoFaults, Inv, FlowInv, JobInv, ZygoteStep
  PROVE  JobInv' /\ Simulates
<1>1. ASSUME UNCHANGED <<host, procs>>, toHost # <<>> => toHost' # <<>>
      PROVE  JobInv' /\ Simulates
  <2>1. \A q \in DOMAIN procs : procs'[q].st # "running" => procs'[q].status # None
    BY <1>1 DEF JobInv
  <2>2. JobInv' /\ absView' = absView /\ absCode' = absCode /\ info' = info
    BY <1>1, <2>1, ServerMoves
  <2> QED
    BY <1>1, <2>2, SameJobs DEF Simulates, Service!vars
<1>2. CASE ZygoteIterate \/ ZygoteGotSpawn \/ ZygoteRecvFds
  BY <1>1, <1>2, NeverReaps DEF ZygoteGotSpawn, ZygoteRecvFds, kernel
<1>3. CASE ZygoteResourceUsage
  <2>1. UNCHANGED <<host, procs>> /\ zpc = "body"
    BY <1>3 DEF ZygoteResourceUsage, kernel, Incoming
  <2>2. toHost = <<>>
    BY <2>1, QueryIs
  <2> QED
    BY <1>1, <2>1, <2>2
<1>4. CASE ZygoteSpawn
  <2> DEFINE job == Len(procs) + 1
  <2>1. /\ \E pid \in Pids :
             procs' = Append(procs, [pid |-> pid, st |-> "running", status |-> None, by |-> owner])
        /\ zpc = "fds" /\ zwant = <<>> /\ UNCHANGED host
    BY <1>4 DEF ZygoteSpawn
  <2>2. PICK c \in Clients : owner = c /\ c # None /\ pc[c] = "info" /\ info /\ toHost = <<>>
    BY <2>1, FdsAre DEF Inv, ServiceInv, LockInv
  <2>3. toHost' # <<>>
    <3>1. FlowInv' /\ owner' = c /\ pc'[c] = "info" /\ zpc' = "recv" /\ toZyg' = toZyg
      BY <1>4, <2>2, SpawnFlow DEF host, ZygoteSpawn
    <3>2. toZyg = <<>>
      BY <2>1, <2>2, FdsAre, PacketsIs DEF Inv, TypeInv, TypeOK, ZygoteType
    <3>3. ASSUME NEW b \in Packet, NEW r \in Seq(Packet), <<Hdr("Query"), b>> \o r = <<>> PROVE FALSE
      <4>1. Hdr("Query") \in Packet
        BY DEF Hdr, Packet
      <4> QED
        BY <3>3, <4>1, QueueIs
    <3>4. ASSUME NEW n \in Nat PROVE ~(toZyg = <<Hdr("Query"), Body("Spawn", n)>> \o FdPackets(3 + n))
      <4>1. Body("Spawn", n) \in Packet
        BY DEF Body, Packet
      <4>2. 3 + n \in Int
        OBVIOUS
      <4>3. FdPackets(3 + n) \in Seq(Packet)
        BY <4>2, ChunksType
      <4> QED
        BY <3>2, <3>3, <4>1, <4>3
    <3>5. Stage(c)'
      BY <2>2, <3>1 DEF FlowInv
    <3> QED
      BY <3>1, <3>4, <3>5 DEF Stage, Served, Taking
  <2>4. procs \in Seq(Process) /\ Len(procs) \in Nat
    BY DEF Inv, TypeInv, TypeOK, KernelType
  <2>5. /\ DOMAIN procs = 1..Len(procs) /\ DOMAIN procs' = 1..job /\ job \notin DOMAIN procs
        /\ procs'[job].by = c /\ procs'[job].st = "running"
        /\ procs'[job].status = None /\ \A q \in DOMAIN procs : procs'[q] = procs[q]
    BY <2>1, <2>2, <2>4
  <2>6. \A q \in DOMAIN procs' : q = job \/ q \in DOMAIN procs
    BY <2>4, <2>5
  <2>7. \A q \in DOMAIN procs : procs[q].by # c
    BY <2>2 DEF JobInv
  <2> HIDE DEF job
  <2>8. JobInv'
    BY <2>1, <2>2, <2>3, <2>5, <2>6, <2>7 DEF JobInv, host
  <2>9. job \in DOMAIN procs'
    BY <2>4, <2>5 DEF job
  <2>10. absJob[c] = "none" /\ absStatus[c] = None /\ absJob'[c] = "running" /\ absStatus'[c] = None
    BY <2>5, <2>7, <2>8, <2>9, Mapped, MappedNext
  <2>11. ASSUME NEW d \in Clients, d # c PROVE absJob'[d] = absJob[d] /\ absStatus'[d] = absStatus[d]
    <3>1. CASE \A q \in DOMAIN procs : procs[q].by # d
      BY <2>5, <2>6, <2>8, <2>11, <3>1, Mapped, MappedNext
    <3>2. ASSUME NEW q \in DOMAIN procs, procs[q].by = d
          PROVE  absJob'[d] = absJob[d] /\ absStatus'[d] = absStatus[d]
      <4>1. q \in DOMAIN procs' /\ procs'[q] = procs[q]
        BY <2>4, <2>5 DEF job
      <4> QED
        BY <2>8, <3>2, <4>1, Mapped, MappedNext
    <3> QED
      BY <3>1, <3>2
  <2>12. absJob' = [absJob EXCEPT ![c] = "running"] /\ absStatus' = absStatus
    <3>1. /\ absJob = [d \in Clients |-> absJob[d]] /\ absJob' = [d \in Clients |-> absJob'[d]]
          /\ absStatus = [d \in Clients |-> absStatus[d]]
          /\ absStatus' = [d \in Clients |-> absStatus'[d]]
      BY DEF absJob, absStatus
    <3> QED
      BY <2>10, <2>11, <3>1
  <2>13. absView' = absView /\ absCode' = absCode /\ info' = info /\ absView[c] = "idle"
    BY <2>1, <2>2 DEF absView, absCode, host, View
  <2>14. Service!Start(c)
    BY <2>2, <2>10, <2>12, <2>13 DEF Service!Start
  <2> QED
    BY <2>8, <2>14 DEF Simulates, Service!Next
<1>5. CASE ZygoteGetExitCode
  <2>1. UNCHANGED host /\ zpc = "body"
    BY <1>5 DEF ZygoteGetExitCode, Incoming
  <2>2. toHost = <<>>
    BY <2>1, QueryIs
  <2>3. procs' = procs \/ \E q \in Zombies : procs' = [procs EXCEPT ![q].st = "reaped"]
    BY <1>5 DEF ZygoteGetExitCode, ZygoteWaited
  <2>4. CASE procs' = procs
    BY <1>1, <2>1, <2>2, <2>4
  <2>5. ASSUME NEW q \in Zombies, procs' = [procs EXCEPT ![q].st = "reaped"] PROVE JobInv' /\ Simulates
    <3>1. q \in DOMAIN procs /\ procs[q].st = "zombie" /\ procs \in Seq(Process)
      BY DEF Zombies, Children, Inv, TypeInv, TypeOK, KernelType
    <3>2. /\ DOMAIN procs' = DOMAIN procs
          /\ \A r \in DOMAIN procs : /\ procs'[r].by = procs[r].by
                                     /\ procs'[r].status = procs[r].status
                                     /\ procs'[r].st = "running" <=> procs[r].st = "running"
      BY <2>5, <3>1 DEF Process
    <3>3. JobInv' /\ absView' = absView /\ absCode' = absCode /\ info' = info
      <4>1. \A r \in DOMAIN procs : procs'[r].st # "running" => procs'[r].status # None
        BY <3>2 DEF JobInv
      <4> QED
        BY <2>1, <2>2, <3>2, <4>1, ServerMoves
    <3>4. absJob' = absJob /\ absStatus' = absStatus
      BY <3>2, <3>3, SameMap
    <3> QED
      BY <3>3, <3>4 DEF Simulates, Service!vars
  <2> QED
    BY <2>3, <2>4, <2>5
<1> QED
  BY <1>2, <1>3, <1>4, <1>5, NeverBad DEF ZygoteStep

LEMMA KernelSimulates ==
  ASSUME NoFaults, Inv, FlowInv, JobInv,
         \/ ZygoteSpawnFails \/ ZygoteDies \/ ZygoteCrash
         \/ (\E q \in DOMAIN procs : JobExit(q)) \/ NamespaceTeardown
  PROVE  JobInv' /\ Simulates
<1>0. procs \in Seq(Process) /\ None \notin Int /\ Statuses \subseteq Int /\ KilledStatus \in Int
  BY ValuesAssumption DEF Inv, TypeInv, TypeOK, KernelType
<1>1. ~ZygoteSpawnFails /\ ~ZygoteCrash
  BY DEF NoFaults, ZygoteSpawnFails, ZygoteCrash
<1>2. CASE ZygoteDies
  <2>1. UNCHANGED <<host, toHost, procs>>
    BY <1>2 DEF ZygoteDies, kernel
  <2>2. \A q \in DOMAIN procs : procs'[q].st # "running" => procs'[q].status # None
    BY <2>1 DEF JobInv
  <2>3. JobInv' /\ absView' = absView /\ absCode' = absCode /\ info' = info
    BY <2>1, <2>2, ServerMoves
  <2> QED
    BY <2>1, <2>3, SameJobs DEF Simulates, Service!vars
<1>3. ASSUME NEW q \in DOMAIN procs, JobExit(q) PROVE JobInv' /\ Simulates
  <2>1. PICK s \in Statuses : procs' = [procs EXCEPT ![q].st = "zombie", ![q].status = s]
    BY <1>3 DEF JobExit
  <2>2. UNCHANGED <<host, toHost>> /\ procs[q].st = "running"
    BY <1>3 DEF JobExit, Running, socket
  <2>3. /\ DOMAIN procs' = DOMAIN procs
        /\ procs'[q].by = procs[q].by /\ procs'[q].st = "zombie" /\ procs'[q].status = s
        /\ \A r \in DOMAIN procs : r # q => procs'[r] = procs[r]
    <3>1. procs[q] \in Process
      BY <1>0
    <3>2. DOMAIN procs' = DOMAIN procs /\ \A r \in DOMAIN procs : r # q => procs'[r] = procs[r]
      BY <1>0, <2>1
    <3>3. procs'[q] = [[procs[q] EXCEPT !.st = "zombie"] EXCEPT !.status = s]
      BY <1>0, <2>1
    <3> QED
      BY <3>1, <3>2, <3>3 DEF Process
  <2>4. JobInv' /\ absView' = absView /\ absCode' = absCode /\ info' = info
    <3>1. \A r \in DOMAIN procs : /\ procs'[r].by = procs[r].by
                                  /\ procs'[r].st # "running" => procs'[r].status # None
      BY <1>0, <2>3 DEF JobInv
    <3> QED
      BY <2>2, <2>3, <3>1, ServerMoves
  <2>5. PICK c \in Clients : procs[q].by = c
    BY DEF JobInv
  <2>6. absJob[c] = "running" /\ absJob'[c] = "ended" /\ absStatus'[c] = s
    BY <2>2, <2>3, <2>4, <2>5, Mapped, MappedNext
  <2>7. ASSUME NEW d \in Clients, d # c PROVE absJob'[d] = absJob[d] /\ absStatus'[d] = absStatus[d]
    <3>1. CASE \A r \in DOMAIN procs : procs[r].by # d
      BY <2>3, <2>4, <2>5, <2>7, <3>1, Mapped, MappedNext
    <3>2. ASSUME NEW r \in DOMAIN procs, procs[r].by = d
          PROVE  absJob'[d] = absJob[d] /\ absStatus'[d] = absStatus[d]
      <4>1. procs'[r] = procs[r]
        BY <2>3, <2>5, <2>7, <3>2
      <4> QED
        BY <2>3, <2>4, <3>2, <4>1, Mapped, MappedNext
    <3> QED
      BY <3>1, <3>2
  <2>8. absJob' = [absJob EXCEPT ![c] = "ended"] /\ absStatus' = [absStatus EXCEPT ![c] = s]
    <3>1. /\ absJob = [d \in Clients |-> absJob[d]] /\ absJob' = [d \in Clients |-> absJob'[d]]
          /\ absStatus = [d \in Clients |-> absStatus[d]]
          /\ absStatus' = [d \in Clients |-> absStatus'[d]]
      BY DEF absJob, absStatus
    <3> QED
      BY <2>6, <2>7, <3>1
  <2>9. Service!Finish(c)
    BY <2>4, <2>6, <2>8 DEF Service!Finish
  <2> QED
    BY <2>4, <2>9 DEF Simulates, Service!Next
<1>4. CASE NamespaceTeardown
  <2>1. /\ UNCHANGED <<host, toHost>> /\ ~Open
        /\ procs' = [q \in DOMAIN procs |->
             [procs[q] EXCEPT !.st = "reaped", !.status = IF @ = None THEN KilledStatus ELSE @]]
    BY <1>4 DEF NamespaceTeardown, Exited, socket
  <2>2. ~info
    BY <2>1 DEF FlowInv, Open
  <2>3. /\ DOMAIN procs' = DOMAIN procs
        /\ \A q \in DOMAIN procs :
             /\ procs'[q].by = procs[q].by /\ procs'[q].st = "reaped"
             /\ procs'[q].status = IF procs[q].status = None THEN KilledStatus ELSE procs[q].status
    <3>1. DOMAIN procs' = DOMAIN procs
      BY <2>1
    <3>2. ASSUME NEW q \in DOMAIN procs
          PROVE  /\ procs'[q].by = procs[q].by /\ procs'[q].st = "reaped"
                 /\ procs'[q].status = IF procs[q].status = None THEN KilledStatus
                                                                ELSE procs[q].status
      <4>1. procs[q] \in Process
        BY <1>0
      <4>2. procs'[q] = [procs[q] EXCEPT !.st = "reaped",
                                         !.status = IF @ = None THEN KilledStatus ELSE @]
        BY <2>1
      <4> QED
        BY <4>1, <4>2 DEF Process
    <3> QED
      BY <3>1, <3>2
  <2>4. JobInv' /\ absView' = absView /\ absCode' = absCode /\ info' = info
    <3>1. \A q \in DOMAIN procs : /\ procs'[q].by = procs[q].by
                                  /\ procs'[q].st # "running" => procs'[q].status # None
      BY <1>0, <2>3
    <3> QED
      BY <2>1, <2>3, <3>1, ServerMoves
  <2>5. ASSUME NEW d \in Clients
        PROVE  /\ absJob'[d] = IF absJob[d] = "running" THEN "ended" ELSE absJob[d]
               /\ absStatus'[d] = IF absJob[d] = "running" THEN KilledStatus ELSE absStatus[d]
    <3>1. CASE \A q \in DOMAIN procs : procs[q].by # d
      BY <2>3, <2>4, <3>1, Mapped, MappedNext
    <3>2. ASSUME NEW q \in DOMAIN procs, procs[q].by = d
          PROVE  /\ absJob'[d] = IF absJob[d] = "running" THEN "ended" ELSE absJob[d]
                 /\ absStatus'[d] = IF absJob[d] = "running" THEN KilledStatus ELSE absStatus[d]
      <4>1. absJob'[d] = "ended" /\ absStatus'[d] = procs'[q].status
        BY <2>3, <2>4, <3>2, MappedNext
      <4>2. /\ absJob[d] = IF procs[q].st = "running" THEN "running" ELSE "ended"
            /\ absStatus[d] = procs[q].status
        BY <3>2, Mapped
      <4>3. procs[q].st = "running" <=> procs[q].status = None
        BY DEF JobInv, Inv, ServiceInv, StatusInv, Running
      <4> QED
        BY <2>3, <4>1, <4>2, <4>3
    <3> QED
      BY <3>1, <3>2
  <2>6. /\ absJob' = [d \in Clients |-> IF absJob[d] = "running" THEN "ended" ELSE absJob[d]]
        /\ absStatus' = [d \in Clients |-> IF absJob[d] = "running" THEN KilledStatus ELSE absStatus[d]]
    <3>1. /\ absJob' = [d \in Clients |-> absJob'[d]]
          /\ absStatus' = [d \in Clients |-> absStatus'[d]]
      BY DEF absJob, absStatus
    <3> QED
      BY <2>5, <3>1
  <2>7. Service!Teardown
    BY <2>2, <2>4, <2>6 DEF Service!Teardown
  <2> QED
    BY <2>4, <2>7 DEF Simulates, Service!Next
<1> QED
  BY <1>1, <1>2, <1>3, <1>4

LEMMA ServiceStart == Init => Service!Init
<1> SUFFICES ASSUME Init PROVE Service!Init
  OBVIOUS
<1>1. \A c \in Clients : JobsOf(c) = {} /\ pc[c] = "idle" /\ child[c] = NoChild
  BY ClientsAreThreads DEF Init, JobsOf
<1>2. absJob = [c \in Clients |-> "none"] /\ absStatus = [c \in Clients |-> None]
  BY <1>1 DEF absJob, absStatus
<1>3. absView = [c \in Clients |-> "idle"] /\ absCode = [c \in Clients |-> None]
  BY <1>1 DEF absView, absCode, View, NoChild
<1> QED
  BY <1>2, <1>3 DEF Init, Service!Init

LEMMA SimulationNext ==
  ASSUME NoFaults, Inv, FlowInv, JobInv, [Next]_vars
  PROVE  JobInv' /\ [Service!Next]_(Service!vars)
<1>1. ASSUME NEW c \in Clients, ClientStep(c) PROVE JobInv' /\ Simulates
  <2>1. c \in Threads
    BY ClientsAreThreads
  <2> QED
    BY <1>1, <2>1, NothingFails, SpawnSimulates, WaitSimulates DEF ClientStep
<1>2. ASSUME NEW t \in Clients \cup Meters, RecvFails(t) \/ RecvPanics(t) PROVE JobInv' /\ Simulates
  <2>1. t \in Threads
    BY DEF Threads
  <2> QED
    BY <1>2, <2>1, NothingFails
<1>3. ASSUME UNCHANGED vars PROVE JobInv' /\ Simulates
  <2>1. UNCHANGED <<info, pc, child, procs, toHost>>
    BY <1>3 DEF vars, host, socket, kernel
  <2>2. absJob' = absJob /\ absStatus' = absStatus /\ absView' = absView /\ absCode' = absCode
    BY <2>1, SameJobs DEF absView, absCode
  <2> QED
    BY <2>1, <2>2 DEF JobInv, Simulates, Service!vars
<1>4. JobInv' /\ Simulates
  <2>1. CASE Next
    <3>1. CASE Quiescent
      BY <1>3, <3>1 DEF Quiescent
    <3> QED
      BY <1>1, <1>2, <2>1, <3>1, OthersSimulate, ZygoteSimulates, KernelSimulates DEF Next
  <2> QED
    BY <1>3, <2>1
<1> QED
  BY <1>4 DEF Simulates

\* When no call fails, for any number of threads and wherever the sandbox is
\* killed: every behaviour of host, zygote and kernel is one of the service.
\* A handle is given only for a job that was started, spawn is refused only
\* after a kill, and a wait reports the job's own status or, after a kill,
\* KILLED, but never before the job has ended.
THEOREM ServiceImplemented ==
  ASSUME NoFaults
  PROVE  Spec => ImplementsJobService
<1>1. Init => Inv /\ FlowInv /\ JobInv /\ Service!Init
  BY TypeInit, ServiceInit, FlowInit, JobInit, ServiceStart
  DEF Inv, Init, TaskInv, TasksAreChildren, ChildPidsUnique, TasksUnique, Children
<1>2. Inv /\ FlowInv /\ JobInv /\ [Next]_vars =>
        Inv' /\ FlowInv' /\ JobInv' /\ [Service!Next]_(Service!vars)
  BY InvNext, FlowNext, SimulationNext
<1> QED
  BY <1>1, <1>2, PTL DEF Spec, ImplementsJobService, Service!Spec

-----------------------------------------------------------------------------
(***************************************************************************)
(* The zygote mutex, with every fault: SandboxJobs implements ZygoteLock.  *)
(***************************************************************************)

\* The zygote is not signalled while its ZygoteInfo is in the mutex.
SignalInv == sigkill => ~info

\* The only sandbox, seen through the mapping, in a step.
LEMMA OneBox ==
  ASSUME NEW a, NEW b
  PROVE  /\ [s \in Boxes |-> a]["sandbox"] = a
         /\ [[s \in Boxes |-> a] EXCEPT !["sandbox"] = b] = [s \in Boxes |-> b]
BY DEF Boxes

LEMMA StepsOfLock ==
  ASSUME \/ Lock!Lock("sandbox") \/ Lock!Unlock("sandbox") \/ Lock!Spawn("sandbox")
         \/ Lock!Kill("sandbox") \/ Lock!Die("sandbox") \/ Lock!End("sandbox")
         \/ UNCHANGED <<owner, info, absZyg, Busy>>
  PROVE  [Lock!Next]_(Lock!vars)
<1>1. "sandbox" \in Boxes
  BY DEF Boxes
<1>2. UNCHANGED <<owner, info, absZyg, Busy>> => UNCHANGED Lock!vars
  BY DEF Lock!vars
<1> QED
  BY <1>1, <1>2 DEF Lock!Next

\* A step of a thread that changes the owner of the mutex only.
LEMMA OwnerMoves ==
  ASSUME UNCHANGED <<info, absZyg, Busy>>,
         owner = None /\ owner' # None => info
  PROVE  [Lock!Next]_(Lock!vars)
<1>1. CASE owner = None /\ owner' # None
  <2>1. (owner # None) = FALSE /\ (owner' # None) = TRUE
    BY <1>1
  <2>2. ~[s \in Boxes |-> owner # None]["sandbox"]
    BY <2>1, OneBox
  <2>3. [s \in Boxes |-> info]["sandbox"]
    BY <1>1, OneBox
  <2>4. [s \in Boxes |-> owner' # None] = [[s \in Boxes |-> owner # None] EXCEPT !["sandbox"] = TRUE]
    <3>1. [s \in Boxes |-> owner' # None] = [s \in Boxes |-> TRUE]
      BY <2>1
    <3>2. [s \in Boxes |-> owner # None] = [s \in Boxes |-> FALSE]
      BY <2>1
    <3> QED
      BY <3>1, <3>2, OneBox
  <2>5. Lock!Lock("sandbox")
    BY <2>2, <2>3, <2>4 DEF Lock!Lock
  <2> QED
    BY <2>5, StepsOfLock
<1>2. CASE owner # None /\ owner' = None
  <2>1. Lock!Unlock("sandbox")
    BY <1>2, OneBox DEF Lock!Unlock
  <2> QED
    BY <2>1, StepsOfLock
<1>3. CASE (owner # None) = (owner' # None)
  BY <1>3 DEF Lock!vars
<1> QED
  BY <1>1, <1>2, <1>3

\* A step of the zygote or the kernel that changes the zygote only.
LEMMA ZygoteMoves ==
  ASSUME UNCHANGED <<owner, info, sigkill, Busy>>, ~Open => ~Open'
  PROVE  [Lock!Next]_(Lock!vars)
<1>1. CASE Open /\ ~Open'
  <2>1. absZyg \in {"running", "signalled"} /\ absZyg' = "dead"
    BY <1>1 DEF absZyg, Exited
  <2>2. [s \in Boxes |-> absZyg]["sandbox"] \in {"running", "signalled"}
    BY <2>1, OneBox
  <2>3. [s \in Boxes |-> absZyg'] = [[s \in Boxes |-> absZyg] EXCEPT !["sandbox"] = "dead"]
    <3>1. [s \in Boxes |-> absZyg'] = [s \in Boxes |-> "dead"]
      BY <2>1
    <3> QED
      BY <3>1, OneBox
  <2>4. Lock!Die("sandbox")
    BY <2>2, <2>3 DEF Lock!Die
  <2> QED
    BY <2>4, StepsOfLock
<1>2. CASE Open = Open'
  <2>1. absZyg' = absZyg
    BY <1>2 DEF absZyg, Exited
  <2> QED
    BY <2>1, StepsOfLock
<1> QED
  BY <1>1, <1>2 DEF Open

LEMMA HostStepsLock ==
  ASSUME Inv, NEW t \in Threads,
         \/ t \in Clients /\ ClientStep(t)
         \/ MeterStep(t) \/ RecvFails(t) \/ RecvPanics(t) \/ KillCall(t)
  PROVE  [Lock!Next]_(Lock!vars) /\ UNCHANGED <<info, sigkill>>
<1>1. UNCHANGED <<info, zygote, kernel>> /\ (owner = None /\ owner' # None => info)
  <2>1. CASE t \in Clients /\ ClientStep(t)
    <3>1. ASSUME NEW r \in Requests, SpawnQuery(t, r)
          PROVE  UNCHANGED <<info, zygote, kernel>> /\ (owner = None /\ owner' # None => info)
      BY <3>1 DEF SpawnQuery, CanEnter, Release
    <3>2. CASE SpawnRefused(t) \/ SpawnQueryTooLong(t) \/ DropChild(t)
      BY <3>2 DEF SpawnRefused, SpawnQueryTooLong, DropChild, CanEnter, Release
    <3>3. CASE SpawnSendFds(t) \/ SpawnSendFdsFails(t)
      BY <3>3 DEF SpawnSendFds, SpawnSendFdsFails, Release
    <3>4. CASE SpawnRecvInfo(t) \/ SpawnRecvEvent(t) \/ SpawnEventFails(t)
      BY <3>4 DEF SpawnRecvInfo, SpawnRecvEvent, SpawnEventFails, Release
    <3>5. CASE Poll(t) \/ WaitRecv(t) \/ WaitRecvFails(t)
      BY <3>5 DEF Poll, WaitRecv, WaitRecvFails, Release
    <3> QED
      BY <2>1, <3>1, <3>2, <3>3, <3>4, <3>5 DEF ClientStep
  <2>2. CASE MeterStep(t) \/ RecvFails(t) \/ RecvPanics(t) \/ KillCall(t)
    BY <2>2 DEF MeterStep, MeterGone, MeterQuery, MeterRecv, RecvFails, RecvPanics, KillCall,
                CanEnter, Release
  <2> QED
    BY <2>1, <2>2
<1>2. UNCHANGED <<info, sigkill, absZyg, Busy>>
  BY <1>1 DEF zygote, kernel, absZyg, Exited, Open, Busy, Running
<1> QED
  BY <1>1, <1>2, OwnerMoves

LEMMA KillStepsLock ==
  ASSUME Inv, SignalInv, NEW k \in Threads, Kill(k)
  PROVE  [Lock!Next]_(Lock!vars) /\ SignalInv'
<1>0. info \in BOOLEAN /\ sigkill \in BOOLEAN
  BY DEF Inv, TypeInv, TypeOK, HostType, ZygoteType
<1>1. /\ owner = None /\ owner' = None /\ info' = FALSE
      /\ sigkill' = (sigkill \/ info)
      /\ Exited' = Exited /\ Busy' = Busy
  BY DEF Kill, kernel, Exited, Open, Busy, Running
<1>2. CASE info
  <2>1. absZyg' = IF absZyg = "running" THEN "signalled" ELSE absZyg
    BY <1>1, <1>2 DEF absZyg, SignalInv
  <2>2. (owner # None) = FALSE /\ (owner' # None) = FALSE
    BY <1>1
  <2>3. ~[s \in Boxes |-> owner # None]["sandbox"] /\ [s \in Boxes |-> info]["sandbox"]
    BY <1>2, <2>2, OneBox
  <2>4. [s \in Boxes |-> info'] = [[s \in Boxes |-> info] EXCEPT !["sandbox"] = FALSE]
    <3>1. [s \in Boxes |-> info'] = [s \in Boxes |-> FALSE]
      BY <1>1
    <3> QED
      BY <3>1, OneBox
  <2>5. [s \in Boxes |-> absZyg'] =
          [[s \in Boxes |-> absZyg] EXCEPT !["sandbox"] =
             IF @ = "running" THEN "signalled" ELSE @]
    BY <2>1, OneBox
  <2>6. /\ [s \in Boxes |-> owner' # None] = [s \in Boxes |-> owner # None]
        /\ [s \in Boxes |-> Busy'] = [s \in Boxes |-> Busy]
    BY <1>1, <2>2
  <2>7. Lock!Kill("sandbox")
    BY <2>3, <2>4, <2>5, <2>6 DEF Lock!Kill
  <2> QED
    BY <1>1, <2>7, StepsOfLock DEF SignalInv
<1>3. CASE ~info
  <2>1. info' = info /\ absZyg' = absZyg
    BY <1>0, <1>1, <1>3 DEF absZyg
  <2> QED
    BY <1>1, <2>1, StepsOfLock DEF SignalInv
<1> QED
  BY <1>2, <1>3

\* Reaping a process ends none.
LEMMA ReapingKeepsBusy ==
  ASSUME DOMAIN procs' = DOMAIN procs,
         \A q \in DOMAIN procs : procs'[q].st = "running" <=> procs[q].st = "running"
  PROVE  Busy' = Busy
BY DEF Busy, Running

LEMMA SpawnStepsLock ==
  ASSUME Inv, SignalInv, ZygoteSpawn
  PROVE  [Lock!Next]_(Lock!vars) /\ SignalInv'
<1>1. zpc = "fds" /\ zwant = <<>> /\ zpc' = "recv" /\ UNCHANGED <<owner, info, sigkill>>
  BY DEF ZygoteSpawn, host
<1>2. owner # None /\ info
  BY <1>1, SpawnServes
<1>3. absZyg = "running" /\ absZyg' = "running"
  BY <1>1, <1>2 DEF absZyg, Exited, Open, SignalInv
<1>4. Busy'
  <2>1. PICK pid \in Pids :
          procs' = Append(procs, [pid |-> pid, st |-> "running", status |-> None, by |-> owner])
    BY DEF ZygoteSpawn
  <2>2. procs \in Seq(Process)
    BY DEF Inv, TypeInv, TypeOK, KernelType
  <2>3. Len(procs) + 1 \in DOMAIN procs' /\ procs'[Len(procs) + 1].st = "running"
    BY <2>1, <2>2
  <2> QED
    BY <2>3 DEF Busy, Running
<1>5. Lock!Spawn("sandbox")
  <2>1. (owner # None) = TRUE /\ (owner' # None) = TRUE /\ Busy' = TRUE
    BY <1>1, <1>2, <1>4 DEF Busy
  <2>2. /\ [s \in Boxes |-> owner # None]["sandbox"] /\ [s \in Boxes |-> info]["sandbox"]
        /\ [s \in Boxes |-> absZyg]["sandbox"] = "running"
    BY <1>2, <1>3, <2>1, OneBox
  <2>3. [s \in Boxes |-> Busy'] = [[s \in Boxes |-> Busy] EXCEPT !["sandbox"] = TRUE]
    <3>1. [s \in Boxes |-> Busy'] = [s \in Boxes |-> TRUE]
      BY <2>1
    <3> QED
      BY <3>1, OneBox
  <2>4. [s \in Boxes |-> owner' # None] = [[s \in Boxes |-> owner # None] EXCEPT !["sandbox"] = TRUE]
    <3>1. [s \in Boxes |-> owner' # None] = [s \in Boxes |-> TRUE]
      BY <2>1
    <3>2. [s \in Boxes |-> owner # None] = [s \in Boxes |-> TRUE]
      BY <2>1
    <3> QED
      BY <3>1, <3>2, OneBox
  <2>5. [s \in Boxes |-> info'] = [s \in Boxes |-> info]
        /\ [s \in Boxes |-> absZyg'] = [s \in Boxes |-> absZyg]
    BY <1>1, <1>3
  <2> QED
    BY <2>2, <2>3, <2>4, <2>5 DEF Lock!Spawn
<1> QED
  BY <1>1, <1>5, StepsOfLock DEF SignalInv

LEMMA ServerStepsLock ==
  ASSUME Inv, SignalInv,
         ZygoteStep \/ ZygoteSpawnFails \/ ZygoteDies \/ ZygoteCrash
  PROVE  [Lock!Next]_(Lock!vars) /\ SignalInv'
<1>0. procs \in Seq(Process)
  BY DEF Inv, TypeInv, TypeOK, KernelType
<1>1. CASE ZygoteSpawn
  BY <1>1, SpawnStepsLock
<1>2. CASE \/ ZygoteIterate \/ ZygoteBadQuery \/ ZygoteGotSpawn \/ ZygoteRecvFds \/ ZygoteResourceUsage
           \/ ZygoteSpawnFails \/ ZygoteDies \/ ZygoteCrash
  <2>1. UNCHANGED <<owner, info, sigkill, procs>> /\ Open
    BY <1>2, NeverReaps DEF ZygoteBadQuery, ZygoteGotSpawn, ZygoteRecvFds, ZygoteResourceUsage,
                ZygoteSpawnFails, ZygoteDies, ZygoteCrash, Incoming, Open, Exited, host, kernel
  <2>2. Busy' = Busy
    BY <2>1, ReapingKeepsBusy
  <2> QED
    BY <2>1, <2>2, ZygoteMoves DEF SignalInv
<1>3. CASE ZygoteGetExitCode
  <2>1. UNCHANGED <<owner, info, sigkill>> /\ Open
    BY <1>3 DEF ZygoteGetExitCode, Incoming, host, Open
  <2>2. UNCHANGED procs \/ \E q \in Zombies : procs' = [procs EXCEPT ![q].st = "reaped"]
    BY <1>3 DEF ZygoteGetExitCode, ZygoteWaited
  <2>3. ASSUME NEW q \in Zombies, procs' = [procs EXCEPT ![q].st = "reaped"] PROVE Busy' = Busy
    <3>1. q \in DOMAIN procs /\ procs[q].st = "zombie" /\ procs[q] \in Process
      BY <1>0, <2>3 DEF Zombies, Children
    <3>2. DOMAIN procs' = DOMAIN procs /\ procs'[q].st = "reaped"
          /\ \A r \in DOMAIN procs : r # q => procs'[r] = procs[r]
      BY <1>0, <2>3, <3>1 DEF Process
    <3> QED
      BY <3>1, <3>2, ReapingKeepsBusy
  <2>4. Busy' = Busy
    BY <2>2, <2>3, ReapingKeepsBusy
  <2> QED
    BY <2>1, <2>4, ZygoteMoves DEF SignalInv
<1> QED
  BY <1>1, <1>2, <1>3 DEF ZygoteStep

\* Processes only end.
LEMMA EndingStepsLock ==
  ASSUME Inv, SignalInv, UNCHANGED <<owner, info, sigkill, zpc>>, Busy' => Busy
  PROVE  [Lock!Next]_(Lock!vars) /\ SignalInv'
<1>1. absZyg' = absZyg
  BY DEF absZyg, Exited, Open
<1>2. CASE Busy' = Busy
  BY <1>1, <1>2, StepsOfLock DEF SignalInv
<1>3. CASE Busy /\ ~Busy'
  <2>1. Busy = TRUE /\ Busy' = FALSE
    BY <1>3 DEF Busy
  <2>2. [s \in Boxes |-> Busy]["sandbox"]
    BY <2>1, OneBox
  <2>3. [s \in Boxes |-> Busy'] = [[s \in Boxes |-> Busy] EXCEPT !["sandbox"] = FALSE]
    <3>1. [s \in Boxes |-> Busy'] = [s \in Boxes |-> FALSE]
      BY <2>1
    <3> QED
      BY <3>1, OneBox
  <2>4. Lock!End("sandbox")
    BY <1>1, <2>2, <2>3 DEF Lock!End
  <2> QED
    BY <2>4, StepsOfLock DEF SignalInv
<1> QED
  BY <1>2, <1>3 DEF Busy

LEMMA LockSteps ==
  ASSUME Inv, SignalInv, [Next]_vars
  PROVE  [Lock!Next]_(Lock!vars) /\ SignalInv'
<1>0. procs \in Seq(Process)
  BY DEF Inv, TypeInv, TypeOK, KernelType
<1>1. ASSUME NEW c \in Clients, ClientStep(c) PROVE [Lock!Next]_(Lock!vars) /\ SignalInv'
  BY <1>1, ClientsAreThreads, HostStepsLock DEF SignalInv
<1>2. ASSUME NEW t \in Threads, MeterStep(t) \/ RecvFails(t) \/ RecvPanics(t) \/ KillerStep(t)
      PROVE  [Lock!Next]_(Lock!vars) /\ SignalInv'
  BY <1>2, HostStepsLock, KillStepsLock DEF KillerStep, SignalInv
<1>3. ASSUME ZygoteStep \/ ZygoteSpawnFails \/ ZygoteDies \/ ZygoteCrash
      PROVE  [Lock!Next]_(Lock!vars) /\ SignalInv'
  BY <1>3, ServerStepsLock
<1>4. ASSUME NEW q \in DOMAIN procs, JobExit(q) PROVE [Lock!Next]_(Lock!vars) /\ SignalInv'
  <2>1. UNCHANGED <<owner, info, sigkill, zpc>> /\ Busy
    BY <1>4 DEF JobExit, host, zygote, Busy
  <2> QED
    BY <2>1, EndingStepsLock
<1>5. ASSUME NamespaceTeardown PROVE [Lock!Next]_(Lock!vars) /\ SignalInv'
  <2>1. UNCHANGED <<owner, info, sigkill, zpc>>
    BY <1>5 DEF NamespaceTeardown, host, zygote
  <2>2. procs' = [q \in DOMAIN procs |->
                    [procs[q] EXCEPT !.st = "reaped",
                                     !.status = IF @ = None THEN KilledStatus ELSE @]]
    BY <1>5 DEF NamespaceTeardown
  <2>3. ASSUME NEW q \in DOMAIN procs PROVE procs'[q].st = "reaped"
    <3>1. procs[q] \in Process
      BY <1>0
    <3> QED
      BY <2>2, <3>1 DEF Process
  <2>4. DOMAIN procs' = DOMAIN procs
    BY <2>2
  <2>5. ~Busy'
    BY <2>3, <2>4 DEF Busy, Running
  <2> QED
    BY <2>1, <2>5, EndingStepsLock
<1>6. ASSUME UNCHANGED vars PROVE [Lock!Next]_(Lock!vars) /\ SignalInv'
  <2>1. UNCHANGED <<owner, info, sigkill, zpc, procs>>
    BY <1>6 DEF vars, host, zygote, kernel
  <2>2. Busy' = Busy
    BY <2>1, ReapingKeepsBusy
  <2> QED
    BY <2>1, <2>2, EndingStepsLock
<1> QED
  BY <1>1, <1>2, <1>3, <1>4, <1>5, <1>6, StepKinds

LEMMA LockStart == Init => SignalInv /\ Lock!Init
<1> SUFFICES ASSUME Init PROVE SignalInv /\ Lock!Init
  OBVIOUS
<1>1. SignalInv
  BY DEF Init, SignalInv
<1>2. (owner # None) = FALSE /\ info = TRUE /\ absZyg = "running" /\ Busy = FALSE
  BY DEF Init, absZyg, Exited, Open, Busy
<1>3. /\ [s \in Boxes |-> owner # None] = [s \in Boxes |-> FALSE]
      /\ [s \in Boxes |-> Busy] = [s \in Boxes |-> FALSE]
      /\ [s \in Boxes |-> info] = [s \in Boxes |-> TRUE]
      /\ [s \in Boxes |-> absZyg] = [s \in Boxes |-> "running"]
  BY <1>2
<1>4. Lock!Init
  BY <1>3 DEF Lock!Init
<1> QED
  BY <1>1, <1>4

\* For any number of threads, whatever fails and wherever the sandbox is killed: a
\* process is started only for the thread that has the mutex and by a zygote that
\* was not signalled; a kill waits for the whole exchange of packets, and what
\* is left of it in the queues starts nothing afterwards.
THEOREM ZygoteLockImplemented == Spec => ImplementsZygoteLock
<1>1. Init => Inv /\ SignalInv /\ Lock!Init
  BY TypeInit, ServiceInit, LockStart
  DEF Inv, Init, TaskInv, TasksAreChildren, ChildPidsUnique, TasksUnique, Children
<1>2. Inv /\ SignalInv /\ [Next]_vars => Inv' /\ SignalInv' /\ [Lock!Next]_(Lock!vars)
  BY InvNext, LockSteps
<1> QED
  BY <1>1, <1>2, PTL DEF Spec, ImplementsZygoteLock, Lock!Spec
=============================================================================
