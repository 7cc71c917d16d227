----------------------------- MODULE Watchdog -----------------------------
(***************************************************************************)
(* The watchdog of one sandbox, its clock and its verdicts.                *)
(*                                                                         *)
(* The task (src/src/linux/sandbox/watchdog.rs) wakes up once a second,    *)
(* measures, decides, reports the decision through a channel and then      *)
(* takes the ZygoteInfo out of its mutex, as Sandbox::kill does.  The      *)
(* owner polls the channel into two flags when it asks for a verdict.      *)
(* CPU time is what the driver accounts for: a cgroup counts what its      *)
(* processes use, prlimit asks the zygote for RUSAGE_CHILDREN, which       *)
(* counts children that were waited for, user and system time apart, and   *)
(* sets RLIMIT_CPU for every job.  Time is counted in parts of a second.   *)
(***************************************************************************)
EXTENDS Integers

CONSTANTS
  Drivers,    \* a subset of {"prlimit", "cgroup"}
  CpuLimits,  \* values of cpu_time_limit
  RealLimits, \* values of real_time_limit, one of them may be out of reach
  Second,     \* units of time in a second
  Faults,     \* what may fail: "zygote" (it dies), "measure" (a call)
  MaxTime     \* bound: clocks stop here

ASSUME DriversAssumption == Drivers \subseteq {"prlimit", "cgroup"}
ASSUME FaultsAssumption == Faults \subseteq {"zygote", "measure"}
ASSUME TimesAssumption ==
  /\ CpuLimits \subseteq Nat /\ RealLimits \subseteq Nat
  /\ MaxTime \in Nat /\ \A n \in CpuLimits : n < MaxTime
  /\ Second \in Nat \ {0}

VARIABLES
  driver, cpuLimit, realLimit,
  now,      \* time since the watchdog started
  user,     \* user time of the sandbox's processes
  system,   \* and system time
  reaped,   \* the part of either that belongs to children the zygote waited for
  began,    \* the total when the last job was started
  job,      \* the job that runs in the sandbox, if any
  info,     \* the zygote mutex holds Some(ZygoteInfo)
  by,       \* who took it out: "nobody", "owner" or "watchdog"
  up,       \* the zygote has not died by itself
  dropped,  \* the owner dropped the sandbox, and the channel's receiver
  chan,     \* verdicts in the channel; heartbeats change nothing
  flags,    \* SandboxState: verdicts the owner has polled
  pc,       \* where the watchdog is
  elapsed,  \* its last reading of the clock
  usage,    \* its last measurement
  lost      \* a measurement failed that could have been made

config  == <<driver, cpuLimit, realLimit>>
sandbox == <<user, system, reaped, began, job>>
zygote  == <<info, by, up, dropped>>
verdict == <<chan, flags>>
task    == <<pc, elapsed, usage, lost>>
vars    == <<config, now, sandbox, zygote, verdict, task>>

used    == user + system
Unknown == 2 * MaxTime + 1   \* u64::max_value()

Inc(n) == IF n < MaxTime THEN n + 1 ELSE n

-----------------------------------------------------------------------------
(* The jobs and the owner.                                                 *)

\* Mutant: seconds are rounded down.
RlimitCpuDown == (cpuLimit \div Second) * Second

\* PrlimitEnter::join: whole seconds, rounded up.  The subtraction wraps around
\* for a limit of zero, which then is none (debug builds end the job instead).
RlimitCpu == IF cpuLimit = 0 THEN Unknown ELSE ((cpuLimit - 1) \div Second + 1) * Second

\* A job at its RLIMIT_CPU gets SIGKILL and uses no more.
AtRlimit == driver = "prlimit" /\ used - began >= RlimitCpu

\* Time passes, and a running job may use the processor all the while.
TimePasses ==
  LET runs == job = "running" /\ ~AtRlimit /\ used < MaxTime
  IN  /\ now < MaxTime \/ runs
      /\ now' = Inc(now)
      /\ \/ UNCHANGED <<user, system>>
         \/ runs /\ user' = user + 1 /\ UNCHANGED system
         \/ runs /\ system' = system + 1 /\ UNCHANGED user
      /\ UNCHANGED <<config, reaped, began, job, zygote, verdict, task>>

\* The zygote answers requests.
Serves == info /\ up

StartJob ==
  /\ Serves /\ job \in {"none", "reaped"}
  /\ job' = "running" /\ began' = used
  /\ UNCHANGED <<config, now, user, system, reaped, zygote, verdict, task>>

\* It ends by itself, at its limit, or as the zygote was killed or died.
JobEnds ==
  /\ job = "running"
  /\ job' = "zombie"
  /\ UNCHANGED <<config, now, user, system, reaped, began, zygote, verdict, task>>

\* wait_for_exit: the zygote waits for the job.
WaitForJob ==
  /\ Serves /\ job = "zombie"
  /\ job' = "reaped" /\ reaped' = [user |-> user, system |-> system]
  /\ UNCHANGED <<config, now, user, system, began, zygote, verdict, task>>

\* A request that panics in the zygote, or no memory.
ZygoteDies ==
  /\ "zygote" \in Faults
  /\ up /\ up' = FALSE
  /\ UNCHANGED <<config, now, sandbox, info, by, dropped, verdict, task>>

Take(who) == info' = FALSE /\ by' = IF info THEN who ELSE by

OwnerKills ==
  /\ info /\ Take("owner")
  /\ UNCHANGED <<config, now, sandbox, up, dropped, verdict, task>>

\* LinuxSandbox::drop kills, and the receiver goes with it.
OwnerDrops ==
  /\ ~dropped /\ dropped' = TRUE
  /\ Take("owner")
  /\ UNCHANGED <<config, now, sandbox, up, verdict, task>>

\* check_cpu_tle and check_real_tle: poll_state drains the channel.  One thread
\* asks: a second one could find the verdict taken out and not stored yet.
PollState ==
  /\ ~dropped /\ chan # {}
  /\ flags' = flags \cup chan /\ chan' = {}
  /\ UNCHANGED <<config, now, sandbox, zygote, task>>

-----------------------------------------------------------------------------
(* The watchdog.                                                           *)

Goto(from, to) == pc = from /\ pc' = to

\* A second later: the sandbox is there, and the clock is read.
Wake ==
  /\ ~dropped /\ Goto("sleep", "measure")
  /\ elapsed' = now
  /\ UNCHANGED <<config, now, sandbox, zygote, verdict, usage, lost>>

\* The heartbeat cannot be sent.
WakeAlone ==
  /\ dropped /\ Goto("sleep", "done")
  /\ UNCHANGED <<config, now, sandbox, zygote, verdict, elapsed, usage, lost>>

\* Mutant: a part of a second counts as a second.
ParseTimevalUp(t) ==
  IF t % Second = 0 THEN t ELSE (t \div Second + 1) * Second

\* parse_timeval, in whole units.  Microseconds are added to nanoseconds as they
\* are: all that is left of a part of a second is that it is more than nothing,
\* and limits are compared with nothing finer.
ParseTimeval(t) == (t \div Second) * Second

\* GetResourceUsage: getrusage of the children.
Rusage ==
  ParseTimeval(reaped.user) + ParseTimeval(reaped.system)
    + IF reaped.user % Second > 0 \/ reaped.system % Second > 0 THEN 1 ELSE 0

\* Driver::resource_usage; an error counts as any amount of time.  Under prlimit
\* it is SandboxGone, or that nothing can be sent to a zygote that has died.
Usage == IF driver = "cgroup" THEN used ELSE IF Serves THEN Rusage ELSE Unknown

Measure ==
  /\ Goto("measure", "decide")
  /\ usage' = Usage
  /\ UNCHANGED <<config, now, sandbox, zygote, verdict, elapsed, lost>>

\* A file of the cgroup cannot be read, or a send or recv fails.  The files are
\* not there any more when drop has removed the cgroup.
MeasureFails ==
  /\ "measure" \in Faults \/ (driver = "cgroup" /\ dropped)
  /\ Goto("measure", "decide")
  /\ usage' = Unknown /\ lost' = TRUE
  /\ UNCHANGED <<config, now, sandbox, zygote, verdict, elapsed>>

\* Prlimit::resource_usage finds no group, as drop has removed it, or the zygote
\* dies after it was asked: recv asserts that the end of file is a header.
MeasurePanics ==
  /\ driver = "prlimit" /\ (dropped \/ (info /\ ~up))
  /\ Goto("measure", "done")
  /\ UNCHANGED <<config, now, sandbox, zygote, verdict, elapsed, usage, lost>>

\* At most one verdict, CPU time first.
Verdict ==
  IF usage > cpuLimit THEN {"CpuTle"} ELSE IF elapsed > realLimit THEN {"RealTle"} ELSE {}

Report == chan' = IF dropped THEN chan ELSE chan \cup Verdict

\* Mutant: the sandbox is killed before the verdict is reported.
DecideLate ==
  \/ /\ pc = "decide" /\ Verdict = {} /\ pc' = "sleep"
     /\ UNCHANGED <<config, now, sandbox, zygote, verdict, elapsed, usage, lost>>
  \/ /\ pc = "decide" /\ Verdict # {} /\ pc' = "report" /\ Take("watchdog")
     /\ UNCHANGED <<config, now, sandbox, up, dropped, verdict, elapsed, usage, lost>>
  \/ /\ Goto("report", "done")
     /\ Report
     /\ UNCHANGED <<config, now, sandbox, zygote, flags, elapsed, usage, lost>>

\* Mutant: a sandbox that is over its limit is reported and not killed.
DecideOnly ==
  /\ pc = "decide"
  /\ pc' = IF Verdict = {} THEN "sleep" ELSE "done"
  /\ Report /\ elapsed' = 0 /\ usage' = 0
  /\ UNCHANGED <<config, now, sandbox, zygote, flags, lost>>

\* The verdict is sent before the kill.  The readings are local to this wake-up.
Decide ==
  /\ pc = "decide"
  /\ pc' = IF Verdict = {} THEN "sleep" ELSE "kill"
  /\ Report /\ elapsed' = 0 /\ usage' = 0
  /\ UNCHANGED <<config, now, sandbox, zygote, flags, lost>>

Kill ==
  /\ Goto("kill", "done")
  /\ Take("watchdog")
  /\ UNCHANGED <<config, now, sandbox, up, dropped, verdict, elapsed, usage, lost>>

-----------------------------------------------------------------------------

Init ==
  /\ driver \in Drivers /\ cpuLimit \in CpuLimits /\ realLimit \in RealLimits
  /\ now = 0 /\ user = 0 /\ system = 0 /\ began = 0
  /\ reaped = [user |-> 0, system |-> 0] /\ job = "none"
  /\ info = TRUE /\ by = "nobody" /\ up = TRUE /\ dropped = FALSE
  /\ chan = {} /\ flags = {}
  /\ pc = "sleep" /\ elapsed = 0 /\ usage = 0 /\ lost = FALSE

Task == Wake \/ WakeAlone \/ Measure \/ MeasureFails \/ MeasurePanics \/ Decide \/ Kill

\* The watchdog has ended and nothing else can happen.
Ended == pc = "done" /\ ~Serves /\ UNCHANGED vars

Next ==
  \/ TimePasses \/ StartJob \/ JobEnds \/ WaitForJob \/ OwnerKills \/ OwnerDrops
  \/ ZygoteDies \/ PollState \/ Task \/ Ended

(***************************************************************************)
(* Timers fire and blocking tasks run; jobs of a zygote that was killed or *)
(* died and jobs at their RLIMIT_CPU end; time passes.  Nobody has to      *)
(* start, wait for or kill anything.                                       *)
(***************************************************************************)
Fairness ==
  /\ WF_vars(Task) /\ WF_vars((~Serves \/ AtRlimit) /\ JobEnds) /\ WF_vars(TimePasses)

Spec     == Init /\ [][Next]_vars
FairSpec == Spec /\ Fairness

-----------------------------------------------------------------------------
(* Properties.                                                             *)

Verdicts == {"CpuTle", "RealTle"}

\* Every variable has its type, and a reading is never ahead of what it reads.
TypeOK ==
  /\ driver \in Drivers /\ cpuLimit \in CpuLimits /\ realLimit \in RealLimits
  /\ now \in 0..MaxTime /\ user \in Nat /\ system \in Nat /\ used <= MaxTime
  /\ reaped \in [user : 0..user, system : 0..system] /\ began \in 0..used
  /\ job \in {"none", "running", "zombie", "reaped"}
  /\ info \in BOOLEAN /\ by \in {"nobody", "owner", "watchdog"} 
  /\ up \in BOOLEAN /\ dropped \in BOOLEAN /\ lost \in BOOLEAN
  /\ chan \subseteq Verdicts /\ flags \subseteq Verdicts
  /\ pc \in {"sleep", "measure", "decide", "kill", "report", "done"}
  /\ elapsed \in 0..now /\ usage \in 0..used \cup {Unknown}

\* What check_cpu_tle and check_real_tle answer when they are called now.
Reported == chan \cup flags

\* An owner who finds the sandbox killed by its watchdog and asks for the reason
\* is told: the verdict is in the channel before any process dies.
ReasonBeforeKill == by = "watchdog" => Reported # {}

\* "Returns true if sandbox exceeded CPU time limit" (lib.rs).  Whatever is rounded
\* off and whenever usage, kill and verdict interleave, it is false only if the
\* usage could not be had: a call failed, or under prlimit the owner had killed
\* the sandbox or the zygote had died.
NoFalseCpuTle ==
  "CpuTle" \in Reported =>
    used > cpuLimit \/ lost \/ (driver = "prlimit" /\ (by = "owner" \/ ~up))

\* "Returns true if sandbox exceeded wall-clock time limit" (lib.rs).
NoFalseRealTle == "RealTle" \in Reported => now > realLimit

\* What check_cpu_tle and check_real_tle say is true, but for failed measurements.
NoFalseTle == NoFalseCpuTle /\ NoFalseRealTle

\* RLIMIT_CPU, a limit of each process, neither stops a job of one process below
\* the sandbox's limit nor lets it run a second longer, whatever the sandbox used
\* before; a limit of zero is not enforced by it.
RlimitFits ==
  driver = "prlimit" /\ cpuLimit > 0 =>
    /\ AtRlimit => used - began >= cpuLimit
    /\ used - began < cpuLimit + Second

\* CPU time the driver is sure to see.  Under prlimit it is that of children that
\* were waited for, and less than a second is lost of user and system time each.
Seen == IF driver = "cgroup" THEN used ELSE reaped.user + reaped.system - 2 * (Second - 1)

\* A sandbox that is over one of its limits, also one without a limit on the
\* other clock, is killed and its job ends, whatever fails, although a watchdog
\* that finds the zygote dead may panic and never kill.
LimitsEnforced ==
  Seen > cpuLimit \/ now > realLimit ~> ~Serves /\ job # "running"
=============================================================================
