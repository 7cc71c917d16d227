--------------------------- MODULE WatchdogProofs ---------------------------
(***************************************************************************)
(* Theorems about Watchdog, for all limits.                                *)
(***************************************************************************)
EXTENDS Watchdog, TLAPS

\* The verdict is sent in the step that decides to kill, unless nobody is left
\* to receive it.
DecidedReported == pc = "kill" => Reported # {} \/ dropped

\* A sandbox that was taken was taken by somebody, and dropping it takes it.
TakenBy == /\ info <=> by = "nobody"
           /\ dropped => ~info
           /\ by = "watchdog" => pc = "done"

VerdictInv ==
  TypeOK /\ TakenBy /\ DecidedReported /\ ReasonBeforeKill /\ NoFalseRealTle

LEMMA SumsAreNat == \A m, n \in Nat : m + n \in Nat
OBVIOUS

LEMMA SumsGrow == \A m, n, k, l \in Nat : m <= k /\ n <= l => m + n <= k + l
OBVIOUS

\* Whole seconds are no more than what they are of, and less where something was
\* rounded off.
LEMMA WholeSeconds ==
  ASSUME NEW t \in Nat
  PROVE  /\ ParseTimeval(t) \in Nat /\ ParseTimeval(t) <= t
         /\ t % Second > 0 => ParseTimeval(t) < t
<1> DEFINE q == t \div Second
<1>1. q \in Nat /\ t % Second \in Nat /\ t = Second * q + (t % Second)
  BY TimesAssumption
<1>2. Second * q \in Nat /\ ParseTimeval(t) = Second * q
  BY <1>1, TimesAssumption DEF ParseTimeval
<1> QED
  BY <1>1, <1>2

LEMMA TypeInit == Init => TypeOK
<1> SUFFICES ASSUME Init PROVE TypeOK
  OBVIOUS
<1>1. /\ used = 0 /\ user = 0 /\ system = 0 /\ now = 0 /\ elapsed = 0 /\ usage = 0
      /\ began = 0 /\ MaxTime \in Nat
  BY TimesAssumption DEF Init, used
<1>2. reaped \in [user : 0..user, system : 0..system]
  BY <1>1 DEF Init
<1>3. /\ used <= MaxTime /\ began \in 0..used /\ usage \in 0..used /\ elapsed \in 0..now
      /\ now \in 0..MaxTime /\ user \in Nat /\ system \in Nat
  BY <1>1
<1>4. chan \subseteq Verdicts /\ flags \subseteq Verdicts
  BY DEF Init
<1> QED
  BY <1>2, <1>3, <1>4 DEF Init, TypeOK

\* The zygote never answers more than its children used.
LEMMA RusageSmall == TypeOK => Rusage \in 0..used
<1> SUFFICES ASSUME TypeOK PROVE Rusage \in 0..used
  OBVIOUS
<1> DEFINE u == reaped.user
           s == reaped.system
<1>1. u \in Nat /\ s \in Nat /\ user \in Nat /\ system \in Nat /\ u <= user /\ s <= system
  BY DEF TypeOK
<1>2. /\ ParseTimeval(u) \in Nat /\ ParseTimeval(u) <= u
      /\ u % Second > 0 => ParseTimeval(u) < u
  BY <1>1, WholeSeconds
<1>3. /\ ParseTimeval(s) \in Nat /\ ParseTimeval(s) <= s
      /\ s % Second > 0 => ParseTimeval(s) < s
  BY <1>1, WholeSeconds
<1> HIDE DEF u, s
<1>4. Rusage = ParseTimeval(u) + ParseTimeval(s)
                 + (IF u % Second > 0 \/ s % Second > 0 THEN 1 ELSE 0)
  BY DEF Rusage, u, s
<1> QED
  BY <1>1, <1>2, <1>3, <1>4 DEF used

\* Every step of the jobs, the owner and the watchdog.
LEMMA TypeNext == TypeOK /\ [Next]_vars => TypeOK'
<1> SUFFICES ASSUME TypeOK, [Next]_vars PROVE TypeOK'
  OBVIOUS
<1> USE TimesAssumption DEF TypeOK, config, used
<1>1. CASE TimePasses
  <2>1. now' \in 0..MaxTime /\ now <= now'
    BY <1>1 DEF TimePasses, Inc
  <2>2. /\ user' \in Nat /\ user <= user' /\ system' \in Nat /\ system <= system'
        /\ user' + system' <= MaxTime
    BY <1>1 DEF TimePasses
  <2>3. UNCHANGED <<config, reaped, began, job, zygote, verdict, task>>
    BY <1>1 DEF TimePasses
  <2>4. reaped' \in [user : 0..user', system : 0..system']
    BY <2>2, <2>3
  <2>5. /\ user \in Nat /\ system \in Nat /\ now \in Nat /\ elapsed \in 0..now
        /\ began \in 0..used /\ usage \in 0..used \cup {Unknown}
    OBVIOUS
  <2> QED
    <3> HIDE DEF TypeOK
    <3>1. used <= used' /\ used' <= MaxTime /\ used \in Nat /\ used' \in Nat
      BY <2>2, <2>5, SumsAreNat, SumsGrow
    <3> HIDE DEF used
    <3>2. began' \in 0..used' /\ elapsed' \in 0..now' /\ usage' \in 0..used' \cup {Unknown}
      BY <2>1, <2>3, <2>5, <3>1 DEF task, Unknown
    <3> USE DEF TypeOK
    <3> QED
      BY <2>1, <2>2, <2>3, <2>4, <3>1, <3>2 DEF zygote, verdict, task
<1>2. CASE StartJob
  BY <1>2 DEF StartJob, zygote, verdict, task
<1>3. CASE JobEnds
  BY <1>3 DEF JobEnds, zygote, verdict, task
<1>4. CASE WaitForJob
  BY <1>4 DEF WaitForJob, zygote, verdict, task
<1>5. CASE OwnerKills \/ OwnerDrops
  BY <1>5 DEF OwnerKills, OwnerDrops, Take, sandbox, verdict, task
<1>6. CASE PollState
  BY <1>6 DEF PollState, sandbox, zygote, task
<1>7. CASE Wake
  BY <1>7 DEF Wake, Goto, sandbox, zygote, verdict
<1>8. CASE WakeAlone \/ MeasurePanics
  BY <1>8 DEF WakeAlone, MeasurePanics, Goto, sandbox, zygote, verdict
<1>14. CASE ZygoteDies
  BY <1>14 DEF ZygoteDies, sandbox, verdict, task
<1>9. CASE Measure
  <2>1. usage' \in 0..used \cup {Unknown}
    BY <1>9, RusageSmall DEF Measure, Usage
  <2> QED
    BY <1>9, <2>1 DEF Measure, Goto, Unknown, sandbox, zygote, verdict
<1>13. CASE MeasureFails
  BY <1>13 DEF MeasureFails, Goto, Unknown, sandbox, zygote, verdict
<1>10. CASE Decide
  <2>1. usage' \in 0..used' \cup {Unknown} /\ elapsed' \in 0..now'
    <3>1. user' \in Nat /\ system' \in Nat /\ now' \in Nat /\ usage' = 0 /\ elapsed' = 0
      BY <1>10 DEF Decide, sandbox
    <3> HIDE DEF TypeOK, used
    <3>2. used' \in Nat
      BY <3>1, SumsAreNat DEF used
    <3>3. 0 \in 0..used' /\ 0 \in 0..now'
      BY <3>1, <3>2
    <3> QED
      BY <3>1, <3>3
  <2> QED
    BY <1>10, <2>1 DEF Decide, Report, Verdict, Verdicts, sandbox, zygote, Unknown
<1>11. CASE Kill
  BY <1>11 DEF Kill, Goto, Take, sandbox, verdict
<1>12. CASE UNCHANGED vars
  BY <1>12 DEF vars, sandbox, zygote, verdict, task
<1> QED
  BY <1>1, <1>2, <1>3, <1>4, <1>5, <1>6, <1>7, <1>8, <1>9, <1>10, <1>11, <1>12,
     <1>13, <1>14
     DEF Next, Task, Ended

\* A verdict that was reported stays, and clocks do not run backwards.
LEMMA Monotone ==
  ASSUME TypeOK, [Next]_vars
  PROVE  /\ Reported \subseteq Reported' /\ now <= now' /\ used <= used'
         /\ UNCHANGED config
<1> USE TimesAssumption DEF TypeOK, Reported, config, used
<1>1. CASE TimePasses
  BY <1>1 DEF TimePasses, Inc, verdict
<1>2. CASE StartJob \/ JobEnds \/ WaitForJob \/ ZygoteDies \/ OwnerKills \/ OwnerDrops
  BY <1>2 DEF StartJob, JobEnds, WaitForJob, ZygoteDies, OwnerKills, OwnerDrops, sandbox, verdict
<1>3. CASE PollState \/ Wake \/ WakeAlone \/ Measure \/ MeasureFails \/ MeasurePanics
  BY <1>3 DEF PollState, Wake, WakeAlone, Measure, MeasureFails, MeasurePanics, sandbox, verdict
<1>4. CASE Decide \/ Kill
  BY <1>4 DEF Decide, Report, Kill, sandbox, verdict
<1>5. CASE UNCHANGED vars
  BY <1>5 DEF vars, sandbox, verdict
<1> QED
  BY <1>1, <1>2, <1>3, <1>4, <1>5 DEF Next, Task, Ended

\* Only Decide reports and goes on to kill.
LEMMA OnlyDecideReports ==
  ASSUME [Next]_vars, ~Decide
  PROVE  Reported' = Reported /\ (pc' = "kill" => pc = "kill")
<1> USE DEF Reported
<1>1. CASE \/ TimePasses \/ StartJob \/ JobEnds \/ WaitForJob \/ ZygoteDies \/ OwnerKills
           \/ OwnerDrops \/ PollState
  BY <1>1 DEF TimePasses, StartJob, JobEnds, WaitForJob, ZygoteDies, OwnerKills, OwnerDrops,
              PollState, verdict, task
<1>2. CASE Wake \/ WakeAlone \/ Measure \/ MeasureFails \/ MeasurePanics \/ Kill
  BY <1>2 DEF Wake, WakeAlone, Measure, MeasureFails, MeasurePanics, Kill, Goto, verdict
<1>3. CASE UNCHANGED vars
  BY <1>3 DEF vars, verdict, task
<1> QED
  BY <1>1, <1>2, <1>3 DEF Next, Task, Ended

\* A measurement is made, fails, or is dropped when it has been used.
LEMMA OnlyMeasureReads ==
  ASSUME [Next]_vars, ~Measure
  PROVE  usage' = usage \/ usage' = 0 \/ (MeasureFails /\ lost')
BY DEF Next, Task, Ended, vars, task, TimePasses, StartJob, JobEnds, WaitForJob, ZygoteDies,
       OwnerKills, OwnerDrops, PollState, Wake, WakeAlone, MeasureFails, MeasurePanics, Decide,
       Kill

\* What went wrong does not go right again.
LEMMA FailuresStay ==
  ASSUME TypeOK, [Next]_vars
  PROVE  (lost => lost') /\ (~up => ~up')
BY DEF TypeOK, Next, Task, Ended, vars, task, zygote, TimePasses, StartJob, JobEnds, WaitForJob,
       ZygoteDies, OwnerKills, OwnerDrops, PollState, Wake, WakeAlone, Measure, MeasureFails,
       MeasurePanics, Decide, Kill

\* The ZygoteInfo is taken once, and the watchdog takes it in Kill.
LEMMA OnlyKillTakes ==
  ASSUME TypeOK, TakenBy, [Next]_vars
  PROVE  /\ TakenBy'
         /\ by # "nobody" => by' = by
         /\ by' = "watchdog" => by = "watchdog" \/ (Kill /\ pc = "kill" /\ ~dropped)
         /\ dropped => dropped'
<1> USE DEF TakenBy, TypeOK
<1>1. CASE TimePasses \/ StartJob \/ JobEnds \/ WaitForJob \/ ZygoteDies \/ PollState
  BY <1>1 DEF TimePasses, StartJob, JobEnds, WaitForJob, ZygoteDies, PollState, zygote, task
<1>2. CASE OwnerKills \/ OwnerDrops
  BY <1>2 DEF OwnerKills, OwnerDrops, Take, task
<1>3. CASE Wake \/ WakeAlone \/ Measure \/ MeasureFails \/ MeasurePanics \/ Decide
  BY <1>3 DEF Wake, WakeAlone, Measure, MeasureFails, MeasurePanics, Decide, Goto, zygote
<1>4. CASE Kill
  BY <1>4 DEF Kill, Goto, Take
<1>5. CASE UNCHANGED vars
  BY <1>5 DEF vars, zygote, task
<1> QED
  BY <1>1, <1>2, <1>3, <1>4, <1>5 DEF Next, Task, Ended

LEMMA VerdictInvInit == Init => VerdictInv
BY TypeInit
   DEF Init, VerdictInv, TakenBy, DecidedReported, ReasonBeforeKill, NoFalseRealTle, Reported

LEMMA VerdictInvNext == VerdictInv /\ [Next]_vars => VerdictInv'
<1> SUFFICES ASSUME VerdictInv, [Next]_vars PROVE VerdictInv'
  OBVIOUS
<1>1. TypeOK /\ TypeOK' /\ TakenBy
  BY TypeNext DEF VerdictInv
<1>2. DecidedReported'
  <2>1. CASE Decide
    BY <2>1 DEF Decide, Report, zygote, Reported, DecidedReported
  <2>2. CASE ~Decide
    BY <1>1, <2>2, OnlyDecideReports, OnlyKillTakes DEF VerdictInv, DecidedReported
  <2> QED
    BY <2>1, <2>2
<1>3. ReasonBeforeKill'
  BY <1>1, OnlyKillTakes, Monotone DEF VerdictInv, DecidedReported, ReasonBeforeKill
<1>4. NoFalseRealTle'
  <2> SUFFICES ASSUME "RealTle" \in Reported' PROVE now' > realLimit'
    BY DEF NoFalseRealTle
  <2>0. realLimit' = realLimit /\ realLimit \in Nat
    BY <1>1, Monotone, TimesAssumption DEF config, TypeOK
  <2>1. CASE "RealTle" \in Reported
    BY <1>1, <2>0, <2>1, Monotone, TimesAssumption DEF VerdictInv, NoFalseRealTle, TypeOK
  <2>2. CASE "RealTle" \notin Reported
    <3>1. Decide /\ "RealTle" \in Verdict
      BY <2>2, OnlyDecideReports DEF Decide, Report, Reported
    <3>2. elapsed > realLimit
      BY <3>1 DEF Verdict
    <3> QED
      BY <1>1, <2>0, <3>2, Monotone, TimesAssumption DEF TypeOK
  <2> QED
    BY <2>1, <2>2
<1> QED
  BY <1>1, <1>2, <1>3, <1>4, OnlyKillTakes DEF VerdictInv

LEMMA VerdictInvHolds == Spec => []VerdictInv
BY VerdictInvInit, VerdictInvNext, PTL DEF Spec

\* check_cpu_tle or check_real_tle already answers true when the first process
\* of a sandbox that its watchdog kills dies.
THEOREM ReasonBeforeKillHolds == Spec => []ReasonBeforeKill
<1>1. VerdictInv => ReasonBeforeKill
  BY DEF VerdictInv
<1> QED
  BY VerdictInvHolds, <1>1, PTL

\* The wall-clock verdict is never given before the limit has passed.
THEOREM NoFalseRealTleHolds == Spec => []NoFalseRealTle
<1>1. VerdictInv => NoFalseRealTle
  BY DEF VerdictInv
<1> QED
  BY VerdictInvHolds, <1>1, PTL

\* Why a reading may be none of CPU time.
Unmeasured == lost \/ (driver = "prlimit" /\ (by = "owner" \/ ~up))

ReadingTrue == usage <= used \/ Unmeasured

\* The CPU verdict is exact, whatever prlimit rounds off and at any moment at which
\* calls fail or the zygote dies: nobody who stayed below the limit is reported,
\* unless the usage could not be had.
THEOREM NoFalseCpuTleHolds == Spec => []NoFalseCpuTle
<1> DEFINE Inv == NoFalseCpuTle /\ ReadingTrue
<1>1. Init => Inv
  BY TypeInit, TimesAssumption DEF Init, NoFalseCpuTle, ReadingTrue, Reported, TypeOK, used
<1>2. VerdictInv /\ Inv /\ [Next]_vars => Inv'
  <2> SUFFICES ASSUME VerdictInv, Inv, [Next]_vars PROVE Inv'
    OBVIOUS
  <2>1. TypeOK /\ TypeOK' /\ TakenBy
    BY TypeNext DEF VerdictInv
  <2>2. /\ used \in Nat /\ used' \in Nat /\ used <= used' /\ usage \in Nat /\ usage' \in Nat
        /\ cpuLimit \in Nat /\ cpuLimit' = cpuLimit /\ driver' = driver
    <3>1. used \in Nat /\ used' \in Nat /\ usage \in Nat /\ usage' \in Nat /\ cpuLimit \in Nat
      <4>1. /\ used \in Nat /\ used' \in Nat /\ Unknown \in Nat /\ Unknown' = Unknown
            /\ cpuLimit \in Nat
        <5>1. user \in Nat /\ system \in Nat /\ user' \in Nat /\ system' \in Nat
          BY <2>1 DEF TypeOK
        <5>2. Unknown \in Nat /\ cpuLimit \in Nat
          BY <2>1, TimesAssumption DEF TypeOK, Unknown
        <5> QED
          BY <5>1, <5>2, SumsAreNat DEF used, Unknown
      <4>2. usage \in 0..used \cup {Unknown} /\ usage' \in 0..used' \cup {Unknown}
        BY <2>1, <4>1 DEF TypeOK
      <4> QED
        BY <4>1, <4>2
    <3>2. used <= used' /\ cpuLimit' = cpuLimit /\ driver' = driver
      BY <2>1, Monotone DEF config
    <3> QED
      BY <3>1, <3>2
  <2>3. Unmeasured => Unmeasured'
    BY <2>1, <2>2, OnlyKillTakes, FailuresStay DEF Unmeasured
  <2>4. ReadingTrue'
    <3>1. CASE Measure
      <4>1. UNCHANGED <<used, driver, by>> /\ usage' = Usage
        BY <3>1 DEF Measure, config, sandbox, zygote, used
      <4>6. up' = up
        BY <3>1 DEF Measure, zygote
      <4>2. by # "watchdog"
        BY <3>1, <2>1 DEF Measure, Goto, TakenBy
      <4>3. CASE driver = "cgroup"
        BY <2>2, <4>1, <4>3 DEF Usage, ReadingTrue
      <4>4. CASE driver = "prlimit" /\ Serves
        BY <2>1, <2>2, <4>1, <4>4, RusageSmall DEF Usage, ReadingTrue
      <4>5. CASE driver = "prlimit" /\ ~Serves
        BY <2>1, <4>1, <4>2, <4>5, <4>6 DEF ReadingTrue, Unmeasured, Serves, TakenBy, TypeOK
      <4> QED
        BY <2>1, <4>3, <4>4, <4>5, DriversAssumption DEF TypeOK
    <3>2. CASE ~Measure
      BY <2>2, <2>3, <3>2, OnlyMeasureReads DEF ReadingTrue, Unmeasured
    <3> QED
      BY <3>1, <3>2
  <2>5. NoFalseCpuTle'
    <3> SUFFICES ASSUME "CpuTle" \in Reported'
                 PROVE  used' > cpuLimit' \/ Unmeasured'
      BY DEF NoFalseCpuTle, Unmeasured
    <3>1. CASE "CpuTle" \in Reported
      BY <2>2, <2>3, <3>1 DEF NoFalseCpuTle, Unmeasured
    <3>2. CASE "CpuTle" \notin Reported
      <4>1. Decide /\ "CpuTle" \in Verdict
        BY <3>2, OnlyDecideReports DEF Decide, Report, Reported
      <4>2. usage > cpuLimit
        BY <4>1 DEF Verdict
      <4> QED
        BY <2>2, <2>3, <4>2 DEF ReadingTrue
    <3> QED
      BY <3>1, <3>2
  <2> QED
    BY <2>4, <2>5
<1>3. Inv => NoFalseCpuTle
  OBVIOUS
<1> HIDE DEF Inv
<1> QED
  BY VerdictInvHolds, <1>1, <1>2, <1>3, PTL DEF Spec

\* Both verdicts are true, for all limits and drivers, but for measurements that
\* failed.
THEOREM NoFalseTleHolds == Spec => []NoFalseTle
<1>1. NoFalseCpuTle /\ NoFalseRealTle => NoFalseTle
  BY DEF NoFalseTle
<1> QED
  BY NoFalseCpuTleHolds, NoFalseRealTleHolds, <1>1, PTL

\* RLIMIT_CPU is the limit or less than a second more.
LEMMA RlimitRounds ==
  ASSUME cpuLimit \in Nat \ {0}
  PROVE  RlimitCpu \in Nat /\ cpuLimit <= RlimitCpu /\ RlimitCpu < cpuLimit + Second
<1> DEFINE q == (cpuLimit - 1) \div Second
           r == (cpuLimit - 1) % Second
<1>1. /\ Second \in Nat \ {0} /\ q \in Nat /\ r \in 0..(Second - 1)
      /\ cpuLimit - 1 = Second * q + r
  BY TimesAssumption
<1>2. Second * q \in Nat /\ (q + 1) * Second = Second * q + Second
  BY <1>1
<1>3. RlimitCpu = Second * q + Second
  BY <1>2 DEF RlimitCpu
<1> QED
  BY <1>1, <1>2, <1>3

LEMMA SpanIsZero == \A m, n \in Nat : m = n => m - n = 0
OBVIOUS

LEMMA SpanIsLong == \A m, n, k, l \in Nat : m - n >= k /\ l <= k => m - n >= l
OBVIOUS

\* RLIMIT_CPU takes up where the sandbox's limit ends: a job is stopped neither
\* before it nor a second after it, for every limit and length of a second.
THEOREM RlimitFitsHolds == Spec => []RlimitFits
<1>1. Init => RlimitFits
  <2> SUFFICES ASSUME Init, driver = "prlimit", cpuLimit > 0
               PROVE  /\ AtRlimit => used - began >= cpuLimit
                      /\ used - began < cpuLimit + Second
    BY DEF RlimitFits
  <2>1. used - began = 0 /\ cpuLimit \in Nat \ {0} /\ Second \in Nat \ {0}
    BY TimesAssumption DEF Init, used
  <2> QED
    BY <2>1, RlimitRounds DEF AtRlimit
<1>2. VerdictInv /\ RlimitFits /\ [Next]_vars => RlimitFits'
  <2> SUFFICES ASSUME VerdictInv, RlimitFits, [Next]_vars, driver' = "prlimit", cpuLimit' > 0
               PROVE  /\ AtRlimit' => used' - began' >= cpuLimit'
                      /\ used' - began' < cpuLimit' + Second
    BY DEF RlimitFits
  <2>1. driver' = driver /\ cpuLimit' = cpuLimit /\ RlimitCpu' = RlimitCpu
    BY Monotone DEF VerdictInv, config, RlimitCpu, Unknown
  <2>2. cpuLimit \in Nat \ {0} /\ Second \in Nat \ {0}
    BY <2>1, TimesAssumption DEF VerdictInv, TypeOK
  <2>3. /\ RlimitCpu \in Nat /\ cpuLimit <= RlimitCpu /\ RlimitCpu < cpuLimit + Second
    BY <2>2, RlimitRounds
  <2>4. used \in Nat /\ used' \in Nat /\ began \in Nat /\ began' \in Nat
    <3>1. user \in Nat /\ system \in Nat /\ user' \in Nat /\ system' \in Nat
      BY TypeNext DEF VerdictInv, TypeOK
    <3>2. used \in Nat /\ used' \in Nat
      BY <3>1, SumsAreNat DEF used
    <3> QED
      BY <3>2, TypeNext DEF VerdictInv, TypeOK
  <2>5. used' - began' < cpuLimit + Second
    <3>1. used - began < cpuLimit + Second
      BY <2>1, <2>2 DEF RlimitFits
    <3>2. CASE UNCHANGED <<used, began>>
      BY <3>1, <3>2
    <3>3. CASE StartJob
      <4>1. began' = used'
        BY <3>3 DEF StartJob, used
      <4>2. used' - began' = 0
        BY <2>4, <4>1, SpanIsZero
      <4>3. cpuLimit + Second > 0
        BY <2>2
      <4> QED
        BY <4>2, <4>3
    <3>4. CASE TimePasses /\ used' # used
      <4>1. ~AtRlimit /\ began' = began /\ used' = used + 1
        <5>1. user \in Nat /\ system \in Nat
          BY DEF VerdictInv, TypeOK
        <5> QED
          BY <3>4, <5>1 DEF TimePasses, used
      <4>2. used - began < RlimitCpu
        BY <2>1, <2>3, <2>4, <4>1 DEF AtRlimit
      <4> QED
        BY <2>2, <2>3, <2>4, <4>1, <4>2
    <3>5. StartJob \/ (TimePasses /\ used' # used) \/ UNCHANGED <<used, began>>
      BY DEF Next, Task, Ended, vars, sandbox, used, TimePasses, StartJob, JobEnds, WaitForJob,
             ZygoteDies, OwnerKills, OwnerDrops, PollState, Wake, WakeAlone, Measure,
             MeasureFails, MeasurePanics, Decide, Kill
    <3> QED
      BY <3>2, <3>3, <3>4, <3>5
  <2>6. AtRlimit' => used' - began' >= RlimitCpu
    BY <2>1 DEF AtRlimit
  <2>7. AtRlimit' => used' - began' >= cpuLimit
    BY <2>2, <2>3, <2>4, <2>6, SpanIsLong
  <2> QED
    BY <2>1, <2>5, <2>7
<1> QED
  BY VerdictInvHolds, <1>1, <1>2, PTL DEF Spec
=============================================================================
