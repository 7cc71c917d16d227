------------------------------ MODULE Startup ------------------------------
(***************************************************************************)
(* start_zygote: three processes, a socket pair and two pipes.             *)
(*                                                                         *)
(* The host process (thread A in src/src/linux/zygote.rs) forks an         *)
(* intermediate process, which unshares its namespaces and forks the       *)
(* zygote (thread C) into them, tells the host its pid and exits.  The     *)
(* host writes the zygote's uid and gid maps and lets it go on; the zygote *)
(* sets the jail up and serves requests.  Everybody has whatever was open  *)
(* in its parent when it was forked, and the zygote never leaves           *)
(* start_zygote, so it keeps all of it.  A pipe or a socket ends for its   *)
(* reader only when no process has the other end open.                     *)
(*                                                                         *)
(* Sandboxes are created by threads of one host, at the same time.         *)
(***************************************************************************)
EXTENDS Integers, FiniteSets

CONSTANTS
  Boxes,   \* sandboxes that are created, each by a thread of its own
  Faults   \* what may go wrong

ASSUME StartFaultsAssumption ==
  Faults \subseteq {"host", "unshare", "mapping", "setup", "crash"}

VARIABLES
  caller,   \* where the thread that creates each sandbox is
  mid,      \* the intermediate process of each sandbox
  zyg,      \* its zygote
  holders,  \* processes that have an end open
  sent,     \* pipes of each sandbox something was written to
  mapped,   \* the zygote's user namespace has its maps
  during    \* sandboxes whose fork fell into the creation of this one

vars == <<caller, mid, zyg, holders, sent, mapped, during>>

\* client_socket, zyg_sock, zygote_pid_w and uid_mapping_done_w.
Ends == {"client", "zygote", "pid", "done"}

Host      == <<"host">>
Mid(s)    == <<"mid", s>>
Zygote(s) == <<"zygote", s>>
Procs     == {Host} \cup {Mid(s) : s \in Boxes} \cup {Zygote(s) : s \in Boxes}

InStart == {"open", "reading", "mapping", "notify"}

-----------------------------------------------------------------------------
(* Ends.                                                                   *)

\* A fork gives the child what its parent has.
Inherit(parent, child) ==
  holders' = [e \in Ends \X Boxes |->
                IF parent \in holders[e] THEN holders[e] \cup {child} ELSE holders[e]]

\* A process ends, or closes what it has of one sandbox.
CloseAll(p) == holders' = [e \in Ends \X Boxes |-> holders[e] \ {p}]
CloseOf(p, s, ends) ==
  holders' = [e \in Ends \X Boxes |->
                IF e \in ends \X {s} THEN holders[e] \ {p} ELSE holders[e]]

\* A read returns: there is something to read, or nobody can write any more.
Readable(pipe, s) == holders[<<pipe, s>>] # {} => pipe \in sent[s]

-----------------------------------------------------------------------------
(* The host.                                                               *)

At(s, from, to) == caller[s] = from /\ caller' = [caller EXCEPT ![s] = to]

\* The socket pair and the pipes.
OpenChannels(s) ==
  /\ At(s, "new", "open")
  /\ holders' = [e \in Ends \X Boxes |-> IF e[2] = s THEN {Host} ELSE holders[e]]
  /\ UNCHANGED <<mid, zyg, sent, mapped, during>>

\* The first fork.
ForkMid(s) ==
  /\ At(s, "open", "reading")
  /\ mid' = [mid EXCEPT ![s] = "started"]
  /\ Inherit(Host, Mid(s))
  /\ during' = [r \in Boxes |-> IF r # s /\ caller[r] \in InStart
                                THEN during[r] \cup {s} ELSE during[r]]
  /\ UNCHANGED <<zyg, sent, mapped>>

\* It fails: everything is closed, and start_zygote is an error.
ForkMidFails(s) ==
  /\ "host" \in Faults
  /\ At(s, "open", "err")
  /\ CloseOf(Host, s, Ends)
  /\ UNCHANGED <<mid, zyg, sent, mapped, during>>

\* A pid is expected; the end of the pipe instead of it is a panic.
ReadPid(s) ==
  /\ Readable("pid", s)
  /\ IF "pid" \in sent[s]
       THEN At(s, "reading", "mapping") /\ UNCHANGED holders
       ELSE At(s, "reading", "panicked") /\ CloseOf(Host, s, Ends)
  /\ UNCHANGED <<mid, zyg, sent, mapped, during>>

\* Mutant: the zygote is let go before its maps are written.
WriteMapsLate(s) ==
  /\ At(s, "mapping", "notify")
  /\ sent' = [sent EXCEPT ![s] = @ \cup {"done"}]
  /\ UNCHANGED <<mid, zyg, holders, mapped, during>>

\* setgroups, uid_map and gid_map.
WriteMaps(s) ==
  /\ At(s, "mapping", "notify")
  /\ mapped' = [mapped EXCEPT ![s] = TRUE]
  /\ UNCHANGED <<mid, zyg, holders, sent, during>>

\* One of them cannot be written, because the host may not or because the
\* zygote is gone: a panic.
WriteMapsFails(s) ==
  /\ "mapping" \in Faults \/ zyg[s] = "dead"
  /\ At(s, "mapping", "panicked")
  /\ CloseOf(Host, s, Ends)
  /\ UNCHANGED <<mid, zyg, sent, mapped, during>>

\* Mutants: the zygote is not told; zyg_sock stays open in the host.
NotifyForgets(s) ==
  /\ At(s, "notify", "ok")
  /\ CloseOf(Host, s, {"zygote", "pid", "done"})
  /\ UNCHANGED <<mid, zyg, sent, mapped, during>>
NotifyKeeps(s) ==
  /\ At(s, "notify", "ok")
  /\ sent' = [sent EXCEPT ![s] = @ \cup {"done"}]
  /\ CloseOf(Host, s, {"pid", "done"})
  /\ UNCHANGED <<mid, zyg, mapped, during>>

\* The zygote is let go; on return everything but client_socket is closed.
Notify(s) ==
  /\ At(s, "notify", "ok")
  /\ sent' = [sent EXCEPT ![s] = @ \cup {"done"}]
  /\ CloseOf(Host, s, {"zygote", "pid", "done"})
  /\ UNCHANGED <<mid, zyg, mapped, during>>

\* ZygoteInfo is dropped: the socket is closed, the zygote gets SIGKILL.
DropInfo(s) ==
  /\ At(s, "ok", "dropped")
  /\ CloseOf(Host, s, {"client"})
  /\ UNCHANGED <<mid, zyg, sent, mapped, during>>

-----------------------------------------------------------------------------
(* The intermediate process.                                               *)

Unshare(s) ==
  /\ mid[s] = "started"
  /\ mid' = [mid EXCEPT ![s] = "unshared"]
  /\ UNCHANGED <<caller, zyg, holders, sent, mapped, during>>

\* unshare or the second fork fails, and `?` returns: from start_zygote, in
\* this copy of the host.
MidReturns(s) ==
  /\ "unshare" \in Faults
  /\ mid[s] \in {"started", "unshared"}
  /\ mid' = [mid EXCEPT ![s] = "returned"]
  /\ CloseOf(Mid(s), s, Ends)
  /\ UNCHANGED <<caller, zyg, sent, mapped, during>>

\* Mutant: the zygote does not keep the end of the pipe it reads from.
ForkZygoteTidy(s) ==
  /\ mid[s] = "unshared"
  /\ mid' = [mid EXCEPT ![s] = "parent"]
  /\ zyg' = [zyg EXCEPT ![s] = "waiting"]
  /\ holders' = [e \in Ends \X Boxes |->
                   IF Mid(s) \in holders[e] /\ e # <<"done", s>>
                   THEN holders[e] \cup {Zygote(s)} ELSE holders[e]]
  /\ UNCHANGED <<caller, sent, mapped, during>>

\* The second fork, into the new PID namespace.
ForkZygote(s) ==
  /\ mid[s] = "unshared"
  /\ mid' = [mid EXCEPT ![s] = "parent"]
  /\ zyg' = [zyg EXCEPT ![s] = "waiting"]
  /\ Inherit(Mid(s), Zygote(s))
  /\ UNCHANGED <<caller, sent, mapped, during>>

\* Mutant: it does not tell the pid.
SendPidForgets(s) ==
  /\ mid[s] = "parent"
  /\ mid' = [mid EXCEPT ![s] = "exited"]
  /\ CloseAll(Mid(s))
  /\ UNCHANGED <<caller, zyg, sent, mapped, during>>

\* It tells the pid and exits.
SendPid(s) ==
  /\ mid[s] = "parent"
  /\ mid' = [mid EXCEPT ![s] = "exited"]
  /\ sent' = [sent EXCEPT ![s] = @ \cup {"pid"}]
  /\ CloseAll(Mid(s))
  /\ UNCHANGED <<caller, zyg, mapped, during>>

-----------------------------------------------------------------------------
(* The zygote.                                                             *)

\* setup waits for the maps; what read returned is not looked at.
ReadDone(s) ==
  /\ zyg[s] = "waiting" /\ Readable("done", s)
  /\ zyg' = [zyg EXCEPT ![s] = "setup"]
  /\ UNCHANGED <<caller, mid, holders, sent, mapped, during>>

\* configure_dir, mounts, procfs and chroot, then the main loop.
SetUp(s) ==
  /\ zyg[s] = "setup"
  /\ zyg' = [zyg EXCEPT ![s] = "serving"]
  /\ UNCHANGED <<caller, mid, holders, sent, mapped, during>>

\* A step of the set-up fails or panics, the process is killed, or its socket
\* ended, which is an unprocessable query.
Doomed(s) ==
  \/ zyg[s] = "setup" /\ "setup" \in Faults
  \/ zyg[s] = "serving" /\ holders[<<"client", s>>] = {}
  \/ caller[s] = "dropped" \/ "crash" \in Faults

ZygoteExits(s) ==
  /\ zyg[s] \in {"waiting", "setup", "serving"} /\ Doomed(s)
  /\ zyg' = [zyg EXCEPT ![s] = "dead"]
  /\ CloseAll(Zygote(s))
  /\ UNCHANGED <<caller, mid, sent, mapped, during>>

-----------------------------------------------------------------------------

Init ==
  /\ caller = [s \in Boxes |-> "new"] /\ mid = [s \in Boxes |-> "none"]
  /\ zyg = [s \in Boxes |-> "none"]
  /\ holders = [e \in Ends \X Boxes |-> {}]
  /\ sent = [s \in Boxes |-> {}] /\ mapped = [s \in Boxes |-> FALSE]
  /\ during = [s \in Boxes |-> {}]

HostStep(s)   == \/ ForkMid(s) \/ ForkMidFails(s) \/ ReadPid(s)
                 \/ WriteMaps(s) \/ WriteMapsFails(s) \/ Notify(s)
MidStep(s)    == Unshare(s) \/ MidReturns(s) \/ ForkZygote(s) \/ SendPid(s)
ZygoteStep(s) == ReadDone(s) \/ SetUp(s) \/ ZygoteExits(s)

\* Every creation came to an end, or its host waits for a pid in vain.
Settled ==
  /\ \A s \in Boxes : caller[s] \notin {"new", "ok"} \cup InStart \/ mid[s] = "returned"
  /\ UNCHANGED vars

Next ==
  \/ \E s \in Boxes : OpenChannels(s) \/ HostStep(s) \/ DropInfo(s)
  \/ \E s \in Boxes : MidStep(s) \/ ZygoteStep(s)
  \/ Settled

(***************************************************************************)
(* Processes and threads run.  Nobody has to create or drop a sandbox, and *)
(* a zygote that is not killed may live for ever.                          *)
(***************************************************************************)
Fairness ==
  \A s \in Boxes :
    /\ WF_vars(HostStep(s)) /\ WF_vars(MidStep(s)) /\ WF_vars(ReadDone(s) \/ SetUp(s))
    /\ WF_vars(caller[s] = "dropped" /\ ZygoteExits(s))

Spec     == Init /\ [][Next]_vars
FairSpec == Spec /\ Fairness

-----------------------------------------------------------------------------
(***************************************************************************)
(* Properties.                                                             *)
(***************************************************************************)

\* Every variable has its type, and a process that ended has nothing open.
TypeOK ==
  /\ caller \in [Boxes -> {"new", "ok", "err", "panicked", "dropped"} \cup InStart]
  /\ mid \in [Boxes -> {"none", "started", "unshared", "parent", "returned", "exited"}]
  /\ zyg \in [Boxes -> {"none", "waiting", "setup", "serving", "dead"}]
  /\ holders \in [Ends \X Boxes -> SUBSET Procs]
  /\ sent \in [Boxes -> SUBSET {"pid", "done"}]
  /\ mapped \in [Boxes -> BOOLEAN]
  /\ during \in [Boxes -> SUBSET Boxes]
  /\ \A s \in Boxes, e \in Ends \X Boxes :
       /\ mid[s] \in {"none", "exited"} => Mid(s) \notin holders[e]
       /\ zyg[s] \in {"none", "dead"} => Zygote(s) \notin holders[e]

\* The zygote touches the jail (chown, mounts, chroot) only with its uids mapped
\* (setup.rs: "must be done before `configure_dir`"), even when the host panics
\* between the fork and the maps.
MappedBeforeSetup == \A s \in Boxes : zyg[s] \in {"setup", "serving"} => mapped[s]

\* What create learns is what there is: no zygote after an error, one that has
\* its maps after success, and after a panic one that waits, if any.
Outcomes ==
  \A s \in Boxes :
    /\ caller[s] = "err" => zyg[s] = "none"
    /\ caller[s] \in {"ok", "dropped"} => zyg[s] # "none" /\ mapped[s]
    /\ caller[s] = "panicked" => zyg[s] \in {"waiting", "dead"}

\* start_zygote returns in the host, unless the intermediate process could not
\* make the zygote: the host has the pipe's other end open itself, and waits for
\* a pid that nobody sends.
StartReturns ==
  \A s \in Boxes :
    caller[s] \in InStart ~> caller[s] \notin InStart \/ mid[s] = "returned"

\* A zygote does not wait for its maps for ever, unless its creator panicked.
ZygoteProceeds ==
  \A s \in Boxes : zyg[s] = "waiting" ~> zyg[s] # "waiting" \/ caller[s] = "panicked"

\* When a zygote dies, its client sees the end of the socket instead of an
\* answer, unless another sandbox was forked while this one was created: then
\* that one's processes have the zygote's end as well.
DeathSeen ==
  \A s \in Boxes :
    zyg[s] = "dead" ~>
      holders[<<"zygote", s>>] \subseteq
        UNION {{Mid(r), Zygote(r)} : r \in during[s]}
=============================================================================
