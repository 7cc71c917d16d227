---------------------------- MODULE CApiProofs ----------------------------
(***************************************************************************)
(* Theorems about CApi, for any number of sandboxes and children, in and   *)
(* out of a runtime, and for every fault.                                  *)
(***************************************************************************)
EXTENDS CApi, TLAPS

\* The Arc of a sandbox is shared exactly by the pointers the program has and
\* by the calls of minion_cp_wait that run.
Shared ==
  \A s \in Boxes :
    /\ Box \in arc[s] <=> box[s] = "open"
    /\ \A c \in Children : /\ Child(c) \in arc[s] <=> cp[c] = "open" /\ of[c] = s
                           /\ Future(c) \in arc[s] <=> wait[c] \in Modes /\ of[c] = s

\* A call that waits keeps its child, and a child was spawned in a sandbox.
Order ==
  \A c \in Children :
    /\ wait[c] # "none" => cp[c] = "open"
    /\ cp[c] # "none" => of[c] \in Boxes /\ box[of[c]] # "none"
    /\ cp[c] = "none" => told[c] = {}

\* A sandbox whose zygote is up is shared by somebody, unless the program was
\* aborted while it was created.
UpIsShared == \A s \in Boxes : aborted = "no" /\ zyg[s] = "up" => arc[s] # {}

\* The descriptor of an open child was taken by a call that waits or returned.
Taken ==
  \A c \in Children : cp[c] = "open" => fd[c] \/ wait[c] \in Modes \/ told[c] # {}

ArcInv == TypeOK /\ Shared /\ Order /\ UpIsShared /\ Taken

LEMMA SharersAre ==
  /\ Box \in Sharers
  /\ \A c \in Children : /\ Child(c) \in Sharers /\ Future(c) \in Sharers
                         /\ Child(c) # Box /\ Future(c) # Box
  /\ \A c, d \in Children : /\ Child(c) # Future(d)
                            /\ Child(c) = Child(d) => c = d
                            /\ Future(c) = Future(d) => c = d
  /\ \A x \in Sharers : x = Box \/ \E c \in Children : x = Child(c) \/ x = Future(c)
BY DEF Sharers, Box, Child, Future

LEMMA ArcInvInit == Init => ArcInv
BY SharersAre
   DEF Init, ArcInv, TypeOK, Shared, Order, UpIsShared, Taken, Modes

\* A share that is released is gone, the others stay, and if there is none left
\* the sandbox is killed.
LEMMA Released ==
  ASSUME TypeOK, NEW s \in Boxes, NEW who \in Sharers, Release(s, who)
  PROVE  /\ arc' \in [Boxes -> SUBSET Sharers]
         /\ zyg' \in [Boxes -> {"none", "up", "killed"}]
         /\ arc'[s] = arc[s] \ {who}
         /\ \A r \in Boxes \ {s} : arc'[r] = arc[r] /\ zyg'[r] = zyg[r]
         /\ zyg'[s] = "up" => zyg[s] = "up" /\ arc'[s] # {}
         /\ zyg'[s] = "killed" /\ zyg[s] = "up" => arc'[s] = {}
BY DEF TypeOK, Release

\* The backend and the sandboxes.
LEMMA ArcInvBoxes ==
  ASSUME ArcInv,
         \/ BackendCreate \/ BackendCreateFails \/ BackendFree
         \/ \E s \in Boxes : BoxStep(s)
  PROVE  ArcInv'
<1> USE SharersAre DEF ArcInv, TypeOK, Shared, Order, UpIsShared, Taken, Modes
<1>1. CASE BackendCreate \/ BackendCreateFails \/ BackendFree
  BY <1>1 DEF BackendCreate, BackendCreateFails, BackendFree, boxes, children, waits
<1>2. ASSUME NEW s \in Boxes, NEW t \in Contexts, SandboxCreate(s, t) PROVE ArcInv'
  <2>1. /\ arc' \in [Boxes -> SUBSET Sharers] /\ arc'[s] = {Box}
        /\ \A r \in Boxes \ {s} : arc'[r] = arc[r] /\ box'[r] = box[r] /\ zyg'[r] = zyg[r]
        /\ box'[s] = "open" /\ box[s] = "none" /\ zyg'[s] = "up"
        /\ box' \in [Boxes -> {"none", "open", "freed"}]
        /\ zyg' \in [Boxes -> {"none", "up", "killed"}]
    BY <1>2 DEF SandboxCreate
  <2>2. UNCHANGED <<cp, of, fd, job, wait, told, aborted>> /\ backend' = backend
    BY <1>2 DEF SandboxCreate, children, waits
  <2>3. \A c \in Children : cp[c] # "none" => of[c] # s
    BY <2>1
  <2>4. Shared'
    BY <2>1, <2>2, <2>3
  <2> QED
    BY <2>1, <2>2, <2>3, <2>4
<1>3. ASSUME NEW s \in Boxes, NEW t \in Contexts, SandboxCreatePanics(s, t) PROVE ArcInv'
  BY <1>3 DEF SandboxCreatePanics, Panic, boxes, children, waits
<1>6. ASSUME NEW s \in Boxes, SandboxCreateFails(s) PROVE ArcInv'
  BY <1>6 DEF SandboxCreateFails, Panic, boxes, children, waits
<1>4. ASSUME NEW s \in Boxes, SandboxFree(s) PROVE ArcInv'
  <2>1. Release(s, Box) /\ box' = [box EXCEPT ![s] = "freed"]
    BY <1>4 DEF SandboxFree
  <2>2. UNCHANGED <<backend, cp, of, fd, job, wait, told, aborted>>
    BY <1>4 DEF SandboxFree, children, waits
  <2>3. /\ arc' \in [Boxes -> SUBSET Sharers]
        /\ zyg' \in [Boxes -> {"none", "up", "killed"}]
        /\ arc'[s] = arc[s] \ {Box}
        /\ \A r \in Boxes \ {s} : arc'[r] = arc[r] /\ zyg'[r] = zyg[r]
        /\ zyg'[s] = "up" => zyg[s] = "up" /\ arc'[s] # {}
    BY <2>1, Released
  <2>4. Shared'
    BY <2>1, <2>2, <2>3
  <2>5. TypeOK'
    BY <2>1, <2>2, <2>3
  <2>6. Order' /\ UpIsShared' /\ Taken'
    BY <2>1, <2>2, <2>3
  <2> QED
    BY <2>4, <2>5, <2>6
<1>5. ASSUME NEW s \in Boxes, SandboxKill(s) \/ WatchdogKills(s) PROVE ArcInv'
  BY <1>5 DEF SandboxKill, WatchdogKills, children, waits
<1> QED
  BY <1>1, <1>2, <1>3, <1>4, <1>5, <1>6 DEF BoxStep

\* The children and the calls that wait for them.
LEMMA ArcInvChildren ==
  ASSUME ArcInv, NEW c \in Children, ChildStep(c) \/ WaitStep(c) \/ WaitBreaks(c) \/ JobEnds(c)
  PROVE  ArcInv'
<1> USE SharersAre DEF ArcInv, TypeOK, Shared, Order, UpIsShared, Taken, Modes
<1>1. ASSUME NEW s \in Boxes, Spawn(c, s) PROVE ArcInv'
  <2>1. /\ arc' = [arc EXCEPT ![s] = @ \cup {Child(c)}]
        /\ cp' = [cp EXCEPT ![c] = "open"] /\ of' = [of EXCEPT ![c] = s]
        /\ fd' = [fd EXCEPT ![c] = TRUE] /\ job' = [job EXCEPT ![c] = "running"]
        /\ UNCHANGED <<backend, box, zyg, wait, told, aborted>>
        /\ cp[c] = "none" /\ box[s] = "open"
    BY <1>1 DEF Spawn, waits
  <2>2. wait[c] = "none"
    BY <2>1
  <2>3. Shared'
    BY <2>1, <2>2
  <2> QED
    BY <2>1, <2>2, <2>3
<1>2. ASSUME NEW s \in Boxes, SpawnPanics(c, s) PROVE ArcInv'
  BY <1>2 DEF SpawnPanics, Panic, boxes, children, waits
<1>3. ASSUME NEW mode \in Modes, NEW t \in Contexts, CpWait(c, mode, t) PROVE ArcInv'
  <2>1. /\ arc' = [arc EXCEPT ![of[c]] = @ \cup {Future(c)}]
        /\ fd' = [fd EXCEPT ![c] = FALSE] /\ wait' = [wait EXCEPT ![c] = mode]
        /\ UNCHANGED <<backend, box, zyg, cp, of, job, told, aborted>>
        /\ cp[c] = "open" /\ wait[c] = "none" /\ of[c] \in Boxes
    BY <1>3 DEF CpWait
  <2>2. Shared'
    BY <2>1
  <2> QED
    BY <2>1, <2>2
<1>4. ASSUME NEW t \in Contexts, CpWaitFails(c, t) PROVE ArcInv'
  <2>1. /\ fd' = [fd EXCEPT ![c] = FALSE]
        /\ told' = [told EXCEPT ![c] = @ \cup {"Minion"}]
        /\ UNCHANGED <<backend, box, arc, zyg, cp, of, job, wait, aborted>>
        /\ cp[c] = "open"
    BY <1>4 DEF CpWaitFails, boxes
  <2>2. /\ told' \in [Children -> SUBSET {"Exited", "Timeout", "Minion"}]
        /\ \A d \in Children : told[d] \subseteq told'[d] /\ (d # c => told'[d] = told[d])
        /\ told'[c] # {}
    BY <2>1
  <2>3. TypeOK' /\ Shared' /\ UpIsShared'
    BY <2>1, <2>2
  <2>4. Order'
    BY <2>1, <2>2
  <2>5. ASSUME NEW d \in Children, cp'[d] = "open"
        PROVE  fd'[d] \/ wait'[d] \in Modes \/ told'[d] # {}
    <3>1. CASE d = c
      BY <2>2, <3>1
    <3>2. CASE d # c
      <4>1. fd[d] \/ wait[d] \in Modes \/ told[d] # {}
        BY <2>1, <2>5
      <4>2. fd'[d] = fd[d] /\ wait'[d] = wait[d] /\ told'[d] = told[d]
        BY <2>1, <2>2, <3>2
      <4> QED
        BY <4>1, <4>2
    <3> QED
      BY <3>1, <3>2
  <2> QED
    BY <2>3, <2>4, <2>5
<1>5. ASSUME NEW t \in Contexts, CpWaitPanics(c, t) PROVE ArcInv'
  <2>1. /\ aborted' \in {"build", "wait", "runtime", "nested"}
        /\ wait' = [wait EXCEPT ![c] = "panicked"] /\ wait[c] = "none" /\ cp[c] = "open"
        /\ UNCHANGED <<backend, box, arc, zyg, cp, of, fd, job, told>>
    BY <1>5 DEF CpWaitPanics, PanicsFor, boxes, children
  <2>2. Shared' /\ Order'
    BY <2>1
  <2> QED
    BY <2>1, <2>2
<1>6. CASE CpFree(c)
  <2>1. /\ Release(of[c], Child(c)) /\ of[c] \in Boxes
        /\ cp' = [cp EXCEPT ![c] = "freed"] /\ fd' = [fd EXCEPT ![c] = FALSE]
        /\ UNCHANGED <<backend, box, of, job, wait, told, aborted>>
        /\ cp[c] = "open" /\ wait[c] = "none"
    BY <1>6 DEF CpFree, waits
  <2>2. /\ arc' \in [Boxes -> SUBSET Sharers]
        /\ zyg' \in [Boxes -> {"none", "up", "killed"}]
        /\ arc'[of[c]] = arc[of[c]] \ {Child(c)}
        /\ \A r \in Boxes \ {of[c]} : arc'[r] = arc[r] /\ zyg'[r] = zyg[r]
        /\ zyg'[of[c]] = "up" => zyg[of[c]] = "up" /\ arc'[of[c]] # {}
    BY <2>1, Released
  <2>3. Shared'
    BY <2>1, <2>2
  <2>4. /\ TypeOK'
        /\ UpIsShared'
    <3>1. TypeOK'
      BY <2>1, <2>2
    <3>2. \A s \in Boxes : zyg'[s] = "up" => zyg[s] = "up"
      BY <2>2
    <3>3. \A s \in Boxes : arc[s] # {} /\ zyg'[s] = "up" => arc'[s] # {}
      BY <2>2
    <3> QED
      BY <2>1, <3>1, <3>2, <3>3
  <2>5. Order'
    BY <2>1
  <2>6. Taken'
    BY <2>1
  <2> QED
    BY <2>3, <2>4, <2>5, <2>6
<1>7. ASSUME NEW outcome \in {"Exited", "Timeout", "Minion"}, Return(c, outcome),
             wait[c] \in Modes,
             UNCHANGED fd
      PROVE  ArcInv'
  <2>1. /\ Release(of[c], Future(c)) /\ of[c] \in Boxes
        /\ wait' = [wait EXCEPT ![c] = "none"]
        /\ told' = [told EXCEPT ![c] = @ \cup {outcome}]
        /\ UNCHANGED <<backend, box, cp, of, fd, job, aborted>>
        /\ cp[c] = "open"
    BY <1>7 DEF Return
  <2>2. /\ arc' \in [Boxes -> SUBSET Sharers]
        /\ zyg' \in [Boxes -> {"none", "up", "killed"}]
        /\ arc'[of[c]] = arc[of[c]] \ {Future(c)}
        /\ \A r \in Boxes \ {of[c]} : arc'[r] = arc[r] /\ zyg'[r] = zyg[r]
        /\ zyg'[of[c]] = "up" => zyg[of[c]] = "up" /\ arc'[of[c]] # {}
    BY <2>1, Released
  <2>3. Shared'
    BY <2>1, <2>2
  <2>4. /\ told' \in [Children -> SUBSET {"Exited", "Timeout", "Minion"}]
        /\ \A d \in Children : told[d] \subseteq told'[d] /\ (d # c => told'[d] = told[d])
        /\ told'[c] # {}
    BY <2>1
  <2>5. TypeOK'
    BY <2>1, <2>2, <2>4
  <2>6. Order'
    BY <2>1, <2>4
  <2>7. UpIsShared'
    BY <2>1, <2>2
  <2>8. ASSUME NEW d \in Children, cp'[d] = "open"
        PROVE  fd'[d] \/ wait'[d] \in Modes \/ told'[d] # {}
    <3>1. CASE d = c
      BY <2>4, <3>1
    <3>2. CASE d # c
      <4>1. fd[d] \/ wait[d] \in Modes \/ told[d] # {}
        BY <2>1, <2>8
      <4>2. fd'[d] = fd[d] /\ wait'[d] = wait[d] /\ told'[d] = told[d]
        BY <2>1, <2>4, <3>2
      <4> QED
        BY <4>1, <4>2
    <3> QED
      BY <3>1, <3>2
  <2> QED
    BY <2>3, <2>5, <2>6, <2>7, <2>8
<1>8. CASE WaitStep(c) \/ WaitBreaks(c)
  BY <1>7, <1>8 DEF WaitStep, WaitTimeout, WaitExited, WaitBreaks
<1>9. CASE JobEnds(c)
  BY <1>9 DEF JobEnds, boxes, waits
<1> QED
  BY <1>1, <1>2, <1>3, <1>4, <1>5, <1>6, <1>8, <1>9 DEF ChildStep

LEMMA ArcInvNext == ArcInv /\ [Next]_vars => ArcInv'
<1> SUFFICES ASSUME ArcInv, [Next]_vars PROVE ArcInv'
  OBVIOUS
<1>1. CASE UNCHANGED vars
  BY <1>1 DEF vars, boxes, children, waits, ArcInv, TypeOK, Shared, Order, UpIsShared, Taken
<1> QED
  BY <1>1, ArcInvBoxes, ArcInvChildren DEF Next, Finished

LEMMA ArcInvHolds == Spec => []ArcInv
BY ArcInvInit, ArcInvNext, PTL DEF Spec

\* A C program that has freed a sandbox and all of its children leaves nothing
\* running: whoever shares the Arc is one of its pointers, or a call that keeps
\* one in use.
THEOREM FreedIsKilledHolds == Spec => []FreedIsKilled
<1>1. ArcInv => FreedIsKilled
  <2> SUFFICES ASSUME ArcInv, NEW s \in Boxes, aborted = "no", zyg[s] = "up"
               PROVE  Pointers(s)
    BY DEF FreedIsKilled
  <2>1. PICK x \in Sharers : x \in arc[s]
    BY DEF ArcInv, UpIsShared, TypeOK
  <2>2. CASE x = Box
    BY <2>1, <2>2 DEF ArcInv, Shared, Pointers
  <2>3. ASSUME NEW c \in Children, x = Child(c) \/ x = Future(c) PROVE Pointers(s)
    BY <2>1, <2>3 DEF ArcInv, Shared, Order, Pointers, Modes
  <2> QED
    BY <2>1, <2>2, <2>3, SharersAre
<1> QED
  BY ArcInvHolds, <1>1, PTL

\* A sandbox is killed by kill, by its watchdog, or with the last pointer the
\* program has into it: freeing one pointer never ends what another is used for.
THEOREM KilledWithReasonHolds == Spec => KilledWithReason
<1> DEFINE Killed(s) == zyg[s] = "up" /\ zyg'[s] = "killed"
           Reason(s) == SandboxKill(s) \/ WatchdogKills(s) \/ ~Pointers(s)'
<1>1. ArcInv /\ ArcInv' /\ [Next]_vars => [\A s \in Boxes : Killed(s) => Reason(s)]_vars
  <2> SUFFICES ASSUME ArcInv, ArcInv', Next, NEW s \in Boxes, Killed(s) PROVE Reason(s)
    OBVIOUS
  <2>0. zyg \in [Boxes -> {"none", "up", "killed"}] /\ Order
    BY DEF ArcInv, TypeOK
  <2>1. ASSUME NEW r \in Boxes, BoxStep(r) PROVE Reason(s)
    <3>1. ASSUME NEW t \in Contexts, SandboxCreate(r, t) \/ SandboxCreatePanics(r, t)
          PROVE  Reason(s)
      BY <2>0, <3>1 DEF SandboxCreate, SandboxCreatePanics
    <3>4. CASE SandboxCreateFails(r)
      BY <2>0, <3>4 DEF SandboxCreateFails, boxes
    <3>2. CASE SandboxFree(r)
      <4>1. Release(r, Box)
        BY <3>2 DEF SandboxFree
      <4>2. r = s /\ arc'[s] = {}
        BY <4>1, Released, SharersAre DEF ArcInv
      <4> QED
        BY <4>2 DEF ArcInv, Shared, Pointers
    <3>3. CASE SandboxKill(r) \/ WatchdogKills(r)
      <4>1. r = s
        BY <2>0, <3>3 DEF SandboxKill, WatchdogKills
      <4> QED
        BY <3>3, <4>1
    <3> QED
      BY <2>1, <3>1, <3>2, <3>3, <3>4 DEF BoxStep
  <2>2. ASSUME NEW c \in Children, CpFree(c) \/ WaitStep(c) \/ WaitBreaks(c) PROVE Reason(s)
    <3>1. PICK who \in Sharers : Release(of[c], who)
      BY <2>2, SharersAre DEF CpFree, WaitStep, WaitTimeout, WaitExited, WaitBreaks, Return
    <3>2. of[c] \in Boxes
      BY <2>0, <2>2 DEF Order, CpFree, WaitStep, WaitTimeout, WaitExited, WaitBreaks, Modes
    <3>3. of[c] = s /\ arc'[s] = {}
      BY <3>1, <3>2, Released DEF ArcInv
    <3> QED
      BY <3>3 DEF ArcInv, Shared, Pointers
  <2>3. ASSUME NEW c \in Children, ChildStep(c) \/ JobEnds(c), ~CpFree(c) PROVE zyg' = zyg
    BY <2>3 DEF ChildStep, JobEnds, Spawn, SpawnPanics, CpWait, CpWaitFails, CpWaitPanics, boxes
  <2> QED
    BY <2>1, <2>2, <2>3
       DEF Next, BackendCreate, BackendCreateFails, BackendFree, Finished, vars, boxes
<1> QED
  BY ArcInvHolds, <1>1, PTL DEF Spec, KilledWithReason

\* What minion_cp_wait wrote is true, and it aborts the program only for a child
\* for which an earlier call of it has returned, or because of the runtime: its own
\* that cannot be built, none around the call, or one that the thread drives.
THEOREM OutcomesTrueHolds == Spec => []OutcomesTrue
<1>1. Init => OutcomesTrue
  BY DEF Init, OutcomesTrue
<1>2. ArcInv /\ OutcomesTrue /\ [Next]_vars => OutcomesTrue'
  <2> SUFFICES ASSUME ArcInv, OutcomesTrue, [Next]_vars PROVE OutcomesTrue'
    OBVIOUS
  <2> USE DEF OutcomesTrue
  <2>0. /\ told \in [Children -> SUBSET {"Exited", "Timeout", "Minion"}]
        /\ job \in [Children -> {"none", "running", "ended"}]
        /\ cp \in [Children -> {"none", "open", "freed"}]
        /\ wait \in [Children -> {"none", "panicked"} \cup Modes]
    BY DEF ArcInv, TypeOK
  <2>1. CASE BackendCreate \/ BackendCreateFails \/ BackendFree \/ UNCHANGED vars
    BY <2>1 DEF BackendCreate, BackendCreateFails, BackendFree, vars, children, waits
  <2>2. ASSUME NEW s \in Boxes, BoxStep(s) PROVE OutcomesTrue'
    BY <2>2 DEF BoxStep, SandboxCreate, SandboxCreatePanics, SandboxCreateFails, SandboxFree,
                SandboxKill, WatchdogKills, Panic, Calls, children, waits
  <2>3. ASSUME NEW c \in Children, NEW s \in Boxes, Spawn(c, s) \/ SpawnPanics(c, s)
        PROVE  OutcomesTrue'
    BY <2>0, <2>3 DEF Spawn, SpawnPanics, Panic, Calls, children, waits, ArcInv, Order
  <2>4. ASSUME NEW c \in Children, CpFree(c) \/ \E t \in Contexts : CpWaitFails(c, t)
        PROVE  OutcomesTrue'
    BY <2>0, <2>4 DEF CpFree, CpWaitFails, Calls, waits
  <2>5. ASSUME NEW c \in Children, NEW mode \in Modes, NEW t \in Contexts, CpWait(c, mode, t)
        PROVE  OutcomesTrue'
    BY <2>0, <2>5 DEF CpWait, Calls, Modes
  <2>6. ASSUME NEW c \in Children, NEW t \in Contexts, CpWaitPanics(c, t) PROVE OutcomesTrue'
    <3>1. /\ aborted = "no" /\ cp[c] = "open" /\ wait[c] = "none"
          /\ aborted' \in {"build", "runtime", "nested"} \/ ~fd[c]
          /\ wait' = [wait EXCEPT ![c] = "panicked"] /\ UNCHANGED <<job, told>>
      BY <2>6 DEF CpWaitPanics, PanicsFor, Calls, children
    <3>2. ~fd[c] => told[c] # {}
      BY <3>1 DEF ArcInv, Taken, Modes
    <3> QED
      BY <2>0, <3>1, <3>2
  <2>7. ASSUME NEW c \in Children, WaitStep(c) \/ WaitBreaks(c) PROVE OutcomesTrue'
    BY <2>0, <2>7 DEF WaitStep, WaitTimeout, WaitExited, WaitBreaks, Return, Calls
  <2>8. ASSUME NEW c \in Children, JobEnds(c) PROVE OutcomesTrue'
    BY <2>0, <2>8 DEF JobEnds, waits
  <2> QED
    BY <2>1, <2>2, <2>3, <2>4, <2>5, <2>6, <2>7, <2>8 DEF Next, ChildStep, Finished
<1> QED
  BY ArcInvHolds, <1>1, <1>2, PTL DEF Spec
=============================================================================
