------------------------ MODULE LimitDriverProofs ------------------------
(***************************************************************************)
(* Theorems about LimitDriver: for any number of sandboxes, any list of    *)
(* drivers, and every call that fails.                                     *)
(***************************************************************************)
EXTENDS LimitDriver, TLAPS

\* The calls of create_group and delete_group.
Calls ==
  [op  : {"mkdir", "write", "enable", "open", "insert", "rmdir"},
   arg : {"cpuacct", "pids", "memory", "swappiness", "unified", "groups"}]

\* What the proofs need of the types, and who has a driver.
Shape ==
  /\ pc \in [Callers -> Pcs] /\ job \in [Boxes -> Jobs]
  /\ todo = [c \in Callers |-> todo[c]] /\ confined = [s \in Boxes |-> confined[s]]
  /\ \A s \in Boxes : todo[s] \in Seq(Calls)
  /\ pc[Probe] = "creating" => driver = None
  /\ \A s \in Boxes : pc[s] # "new" => driver \in Drivers

\* The limit is written, and its controller is enabled.
Set(s, limit) == <<limit, <<s, 0>>>> \in limits /\ (driver = "v2" => enabled)

\* The call to write it is still to come.
ToCome(s, limit) == \E i \in DOMAIN todo[s] : todo[s][i] = Call("write", limit)

\* While a group is created each limit is written or to come, afterwards written.
Written ==
  \A s \in Boxes : \A limit \in {"pids", "memory"} : driver \in {"v1", "v2"} =>
    /\ pc[s] = "creating" => ToCome(s, limit) \/ Set(s, limit)
    /\ pc[s] \in {"live", "deleting", "deleted"} => Set(s, limit)

\* A job runs in a sandbox that was created, and when it has joined every place.
Joined ==
  \A s \in Boxes :
    /\ job[s] # "none" => pc[s] \in {"live", "deleting", "deleted"}
    /\ job[s] = "runs" => Pending(s) = {}

EnforcedInv == Shape /\ Written /\ Joined

\* Every sandbox is a caller of its own, and has one group.
LEMMA BoxesAre ==
  /\ \A s \in Boxes : s \in Callers /\ s # Probe /\ Group(s) = <<s, 0>> /\ DriverOf(s) = driver
  /\ Probe \in Callers /\ Group(Probe)[1] = Probe
  /\ \A c \in Callers : c # Probe => c \in Boxes
  /\ \A c, d \in Callers : Group(c) = Group(d) => c = d
BY BoxesAssumption DEF Callers, Group, DriverOf

\* create_group of a driver writes both limits.
LEMMA CreateCallsWrite ==
  ASSUME NEW d \in Drivers
  PROVE  /\ CreateCalls(d) \in Seq(Calls)
         /\ d \in {"v1", "v2"} => \A limit \in {"pids", "memory"} :
              \E i \in DOMAIN CreateCalls(d) : CreateCalls(d)[i] = Call("write", limit)
<1>1. CASE d = "v1"
  <2>1. CreateCalls(d) \in Seq(Calls)
    BY <1>1 DEF CreateCalls, Call, Calls
  <2>2. CreateCalls(d)[3] = Call("write", "pids") /\ CreateCalls(d)[6] = Call("write", "memory")
    BY <1>1 DEF CreateCalls
  <2>3. DOMAIN CreateCalls(d) = 1..9
    BY <1>1 DEF CreateCalls
  <2> QED
    BY <2>1, <2>2, <2>3
<1>2. CASE d = "v2"
  <2>1. CreateCalls(d) \in Seq(Calls)
    BY <1>2 DEF CreateCalls, Call, Calls
  <2>2. CreateCalls(d)[3] = Call("write", "pids") /\ CreateCalls(d)[4] = Call("write", "memory")
    BY <1>2 DEF CreateCalls
  <2>3. DOMAIN CreateCalls(d) = 1..5
    BY <1>2 DEF CreateCalls
  <2> QED
    BY <2>1, <2>2, <2>3
<1>3. CASE d = "prlimit"
  BY <1>3 DEF CreateCalls, Call, Calls
<1> QED
  BY <1>1, <1>2, <1>3 DEF Drivers

LEMMA DeleteCallsAre == ASSUME NEW d \in Drivers PROVE DeleteCalls(d) \in Seq(Calls)
<1>1. CASE d = "v1"
  BY <1>1 DEF DeleteCalls, Call, Calls
<1>2. CASE d = "v2"
  BY <1>2 DEF DeleteCalls, Call, Calls
<1>3. CASE d = "prlimit"
  BY <1>3 DEF DeleteCalls, Call, Calls
<1> QED
  BY <1>1, <1>2, <1>3 DEF Drivers

\* A call that is to come is the next one or to come after it.
LEMMA Later ==
  ASSUME NEW q \in Seq(Calls), q # <<>>, NEW call, \E i \in DOMAIN q : q[i] = call
  PROVE  call = Head(q) \/ \E i \in DOMAIN Tail(q) : Tail(q)[i] = call
<1>1. PICK i \in 1..Len(q) : q[i] = call
  OBVIOUS
<1>2. CASE i = 1
  BY <1>1, <1>2
<1>3. CASE i > 1
  <2>1. i - 1 \in DOMAIN Tail(q) /\ Tail(q)[i - 1] = call
    BY <1>1, <1>3
  <2> QED
    BY <2>1
<1> QED
  BY <1>2, <1>3

-----------------------------------------------------------------------------

LEMMA EnforcedInit == Init => EnforcedInv
<1> SUFFICES ASSUME Init PROVE EnforcedInv
  OBVIOUS
<1>1. Shape
  BY BoxesAre DEF Init, Shape, Pcs, Jobs
<1>2. Written /\ Joined
  BY BoxesAre DEF Init, Written, Joined
<1> QED
  BY <1>1, <1>2 DEF EnforcedInv

\* A step that changes nothing the invariant is about.
LEMMA Untouched ==
  ASSUME EnforcedInv, UNCHANGED <<driver, pc, todo, limits, enabled, job, confined>>
  PROVE  EnforcedInv'
<1>1. Shape'
  BY DEF EnforcedInv, Shape
<1>2. \A s, limit : (ToCome(s, limit)' <=> ToCome(s, limit)) /\ (Set(s, limit)' <=> Set(s, limit))
  BY DEF ToCome, Set
<1>3. Written'
  BY <1>2 DEF EnforcedInv, Written
<1>4. Joined'
  BY DEF EnforcedInv, Joined, Pending
<1> QED
  BY <1>1, <1>3, <1>4 DEF EnforcedInv

\* A call of create_group that succeeds: if it was to write a limit, it did.
LEMMA CallSucceeds ==
  ASSUME EnforcedInv, NEW c \in Callers, pc[c] = "creating", todo[c] # <<>>, Proceed(c),
         UNCHANGED <<driver, pc, job, confined>>,
         limits \subseteq limits', enabled => enabled',
         c \in Boxes => \A limit \in {"pids", "memory"} :
           Head(todo[c]) = Call("write", limit) => Set(c, limit)'
  PROVE  EnforcedInv'
<1>1. \A s \in Boxes : todo'[s] = IF s = c THEN Tail(todo[s]) ELSE todo[s]
  BY BoxesAre DEF EnforcedInv, Shape, Proceed
<1>2. Shape'
  <2>1. \A s \in Boxes : todo'[s] \in Seq(Calls)
    <3> SUFFICES ASSUME NEW s \in Boxes PROVE todo'[s] \in Seq(Calls)
      OBVIOUS
    <3>1. todo[s] \in Seq(Calls)
      BY DEF EnforcedInv, Shape
    <3>2. CASE s = c
      <4>1. todo[s] # <<>> /\ todo'[s] = Tail(todo[s])
        BY <1>1, <3>2
      <4> QED
        BY <3>1, <4>1
    <3>3. CASE s # c
      BY <1>1, <3>1, <3>3
    <3> QED
      BY <3>2, <3>3
  <2>2. todo' = [d \in Callers |-> todo'[d]]
    BY DEF Proceed, EnforcedInv, Shape
  <2>3. pc' \in [Callers -> Pcs] /\ job' \in [Boxes -> Jobs]
        /\ confined' = [s \in Boxes |-> confined'[s]]
    BY DEF EnforcedInv, Shape
  <2>4. (pc[Probe] = "creating" => driver = None)' /\ (\A s \in Boxes : pc[s] # "new" => driver \in Drivers)'
    BY DEF EnforcedInv, Shape
  <2> QED
    BY <2>1, <2>2, <2>3, <2>4 DEF Shape
<1>3. \A s, limit : Set(s, limit) => Set(s, limit)'
  BY DEF Set
<1>4. ASSUME NEW s \in Boxes, NEW limit \in {"pids", "memory"}, driver \in {"v1", "v2"},
             pc[s] = "creating"
      PROVE  ToCome(s, limit)' \/ Set(s, limit)'
  <2>1. CASE ToCome(s, limit) /\ s = c
    <3>1. todo[s] \in Seq(Calls) /\ \E i \in DOMAIN todo[s] : todo[s][i] = Call("write", limit)
      BY <2>1 DEF EnforcedInv, Shape, ToCome
    <3>2. Call("write", limit) = Head(todo[s])
          \/ \E i \in DOMAIN Tail(todo[s]) : Tail(todo[s])[i] = Call("write", limit)
      BY <3>1, <2>1, Later
    <3> QED
      BY <3>2, <2>1, <1>1 DEF ToCome
  <2>2. CASE ToCome(s, limit) /\ s # c
    BY <2>2, <1>1 DEF ToCome
  <2>3. CASE Set(s, limit)
    BY <2>3, <1>3
  <2> QED
    BY <1>4, <2>1, <2>2, <2>3 DEF EnforcedInv, Written
<1>5. Written'
  BY <1>3, <1>4 DEF EnforcedInv, Written
<1>6. Joined'
  BY DEF EnforcedInv, Joined, Pending
<1> QED
  BY <1>2, <1>5, <1>6 DEF EnforcedInv

\* A call that fails ends the creation of its group.
LEMMA CallFailsKeeps ==
  ASSUME EnforcedInv, NEW c \in Callers, CallFails(c) PROVE EnforcedInv'
<1>1. pc[c] = "creating" /\ \A s \in Boxes : (s = c => pc'[s] = "failed") /\ (s # c => pc'[s] = pc[s])
  BY BoxesAre DEF CallFails, Calling, GiveUp, EnforcedInv, Shape
<1>2. todo' = [todo EXCEPT ![c] = <<>>] /\ UNCHANGED <<driver, limits, enabled, job, confined>>
  BY DEF CallFails, fs, procs
<1>3. \A s \in Boxes : s # c => todo'[s] = todo[s]
  BY <1>2, BoxesAre DEF EnforcedInv, Shape
<1>4. Shape'
  <2>1. pc' \in [Callers -> Pcs]
    BY DEF CallFails, GiveUp, EnforcedInv, Shape, Pcs
  <2>2. (pc[Probe] = "creating" => driver = None)'
    BY <1>2, BoxesAre DEF CallFails, GiveUp, EnforcedInv, Shape
  <2>3. \A s \in Boxes : todo'[s] \in Seq(Calls)
    <3>1. todo'[c] = <<>> /\ <<>> \in Seq(Calls)
      BY <1>2 DEF EnforcedInv, Shape
    <3> QED
      BY <1>3, <3>1 DEF EnforcedInv, Shape
  <2> QED
    BY <1>1, <1>2, <2>1, <2>2, <2>3 DEF EnforcedInv, Shape
<1>5. Written'
  <2> SUFFICES ASSUME NEW s \in Boxes, NEW limit \in {"pids", "memory"}, driver \in {"v1", "v2"}
               PROVE  /\ pc'[s] = "creating" => ToCome(s, limit)' \/ Set(s, limit)'
                      /\ pc'[s] \in {"live", "deleting", "deleted"} => Set(s, limit)'
    BY <1>2 DEF Written
  <2>1. Set(s, limit)' <=> Set(s, limit)
    BY <1>2 DEF Set
  <2>2. CASE s = c
    BY <1>1, <2>2
  <2>3. CASE s # c
    <3>1. ToCome(s, limit)' <=> ToCome(s, limit)
      BY <1>3, <2>3 DEF ToCome
    <3> QED
      BY <1>1, <2>1, <2>3, <3>1 DEF EnforcedInv, Written
  <2> QED
    BY <2>2, <2>3
<1>6. Joined'
  BY <1>1, <1>2 DEF EnforcedInv, Joined, Pending
<1> QED
  BY <1>4, <1>5, <1>6 DEF EnforcedInv

\* Selection: as long as there is no driver there are no sandboxes.
LEMMA SelectKeeps ==
  ASSUME EnforcedInv, Select PROVE EnforcedInv'
<1>1. driver = None /\ \A s \in Boxes : pc[s] = "new" /\ job[s] = "none"
  <2>1. driver = None
    BY DEF Select, TryConfig, ProbeWorks, ProbeDenied, NoneWorks, Created, EnforcedInv, Shape
  <2>2. \A s \in Boxes : pc[s] = "new"
    BY <2>1, NoneAssumption DEF EnforcedInv, Shape
  <2> QED
    BY <2>1, <2>2 DEF EnforcedInv, Joined, Shape, Jobs
<1>2. UNCHANGED <<job, confined>> /\ \A s \in Boxes : pc'[s] = pc[s] /\ todo'[s] = todo[s]
  BY BoxesAre
  DEF Select, TryConfig, ProbeWorks, ProbeDenied, NoneWorks, Begin, GiveUp, procs, EnforcedInv, Shape
<1>3. pc' \in [Callers -> Pcs] /\ todo' = [c \in Callers |-> todo'[c]]
  BY DEF Select, TryConfig, ProbeWorks, ProbeDenied, NoneWorks, Begin, GiveUp, EnforcedInv, Shape, Pcs
<1>4. (pc[Probe] = "creating" => driver = None)'
  BY <1>1, BoxesAre
  DEF Select, TryConfig, ProbeWorks, ProbeDenied, NoneWorks, Begin, GiveUp, choice, EnforcedInv, Shape
<1>5. Shape'
  BY <1>1, <1>2, <1>3, <1>4 DEF EnforcedInv, Shape
<1>6. Written' /\ Joined'
  BY <1>1, <1>2 DEF Written, Joined
<1> QED
  BY <1>5, <1>6 DEF EnforcedInv

\* A sandbox has its driver, and its calls are to come.
LEMMA CreateKeeps ==
  ASSUME EnforcedInv, NEW s \in Boxes, Create(s) PROVE EnforcedInv'
<1>1. driver \in Drivers /\ pc[s] = "new" /\ UNCHANGED <<driver, limits, enabled, job, confined>>
      /\ pc' = [pc EXCEPT ![s] = "creating"] /\ todo' = [todo EXCEPT ![s] = CreateCalls(driver)]
  BY BoxesAre DEF Create, Begin, choice, fs, procs
<1>2. \A b \in Boxes : b # s => pc'[b] = pc[b] /\ todo'[b] = todo[b]
  BY <1>1 DEF EnforcedInv, Shape
<1>3. pc'[s] = "creating" /\ todo'[s] = CreateCalls(driver)
  BY <1>1, BoxesAre DEF EnforcedInv, Shape
<1>4. Shape'
  <2>1. \A b \in Boxes : todo'[b] \in Seq(Calls)
    BY <1>1, <1>2, <1>3, CreateCallsWrite DEF EnforcedInv, Shape
  <2>2. pc' \in [Callers -> Pcs] /\ pc'[Probe] = pc[Probe]
    BY <1>1, BoxesAre DEF EnforcedInv, Shape, Pcs
  <2> QED
    BY <1>1, <1>2, <2>1, <2>2 DEF EnforcedInv, Shape
<1>5. Written'
  <2> SUFFICES ASSUME NEW b \in Boxes, NEW limit \in {"pids", "memory"}, driver \in {"v1", "v2"}
               PROVE  /\ pc'[b] = "creating" => ToCome(b, limit)' \/ Set(b, limit)'
                      /\ pc'[b] \in {"live", "deleting", "deleted"} => Set(b, limit)'
    BY <1>1 DEF Written
  <2>1. CASE b = s
    <3>1. \E i \in DOMAIN CreateCalls(driver) : CreateCalls(driver)[i] = Call("write", limit)
      BY <1>1, CreateCallsWrite
    <3>2. ToCome(b, limit)'
      BY <3>1, <1>3, <2>1 DEF ToCome
    <3> QED
      BY <3>2, <1>3, <2>1
  <2>2. CASE b # s
    <3>1. (ToCome(b, limit)' <=> ToCome(b, limit)) /\ (Set(b, limit)' <=> Set(b, limit))
      BY <1>1, <1>2, <2>2 DEF ToCome, Set
    <3> QED
      BY <1>2, <2>2, <3>1 DEF EnforcedInv, Written
  <2> QED
    BY <2>1, <2>2
<1>6. Joined'
  BY <1>1, <1>2 DEF EnforcedInv, Joined, Pending
<1> QED
  BY <1>4, <1>5, <1>6 DEF EnforcedInv

\* create_group has returned: nothing is to come, so both limits are set.  After
\* that the limits stay as they are.
LEMMA PhaseKeeps ==
  ASSUME EnforcedInv, NEW s \in Boxes,
         Created(s) \/ pc[s] \in {"live", "deleting"},
         UNCHANGED <<driver, limits, enabled, job, confined>>,
         NEW to \in {"live", "deleting", "deleted", "abandoned"}, to = "abandoned" => Created(s),
         pc' = [pc EXCEPT ![s] = to],
         NEW calls \in Seq(Calls), todo' = [todo EXCEPT ![s] = calls]
  PROVE  EnforcedInv'
<1>1. \A b \in Boxes : b # s => pc'[b] = pc[b] /\ todo'[b] = todo[b]
  BY DEF EnforcedInv, Shape
<1>2. pc'[s] = to /\ todo'[s] = calls
  BY BoxesAre DEF EnforcedInv, Shape
<1>3. Shape'
  <2>1. \A b \in Boxes : todo'[b] \in Seq(Calls)
    BY <1>1, <1>2 DEF EnforcedInv, Shape
  <2>2. pc' \in [Callers -> Pcs] /\ pc'[Probe] = pc[Probe]
    BY BoxesAre DEF EnforcedInv, Shape, Pcs
  <2>3. pc[s] # "new"
    BY DEF Created
  <2> QED
    BY <1>1, <2>1, <2>2, <2>3 DEF EnforcedInv, Shape
<1>4. Written'
  <2> SUFFICES ASSUME NEW b \in Boxes, NEW limit \in {"pids", "memory"}, driver \in {"v1", "v2"}
               PROVE  /\ pc'[b] = "creating" => ToCome(b, limit)' \/ Set(b, limit)'
                      /\ pc'[b] \in {"live", "deleting", "deleted"} => Set(b, limit)'
    BY DEF Written
  <2>0. Set(b, limit)' <=> Set(b, limit)
    BY DEF Set
  <2>1. CASE b = s
    <3>1. CASE Created(s)
      <4>1. ~ ToCome(s, limit)
        BY <3>1 DEF Created, ToCome
      <4>2. Set(s, limit)
        BY <3>1, <4>1 DEF Created, EnforcedInv, Written
      <4> QED
        BY <4>2, <2>0, <2>1, <1>2
    <3>2. CASE pc[s] \in {"live", "deleting"}
      <4>1. Set(s, limit)
        BY <3>2 DEF EnforcedInv, Written
      <4> QED
        BY <4>1, <2>0, <2>1, <1>2
    <3> QED
      BY <3>1, <3>2
  <2>2. CASE b # s
    <3>1. ToCome(b, limit)' <=> ToCome(b, limit)
      BY <1>1, <2>2 DEF ToCome
    <3> QED
      BY <1>1, <2>0, <2>2, <3>1 DEF EnforcedInv, Written
  <2> QED
    BY <2>1, <2>2
<1>5. Joined'
  BY <1>1, <1>2 DEF EnforcedInv, Joined, Pending, Created
<1> QED
  BY <1>3, <1>4, <1>5 DEF EnforcedInv

\* A job may run when it has joined every place.
LEMMA JobKeeps ==
  ASSUME EnforcedInv, NEW s \in Boxes, Spawn(s) \/ Join(s) \/ JoinFails(s) \/ Exec(s) \/ Exit(s)
  PROVE  EnforcedInv'
<1>1. UNCHANGED <<driver, pc, todo, limits, enabled>>
  BY DEF Spawn, Join, JoinFails, Exec, Exit, choice, fs
<1>2. Shape'
  BY <1>1 DEF Spawn, Join, JoinFails, Exec, Exit, EnforcedInv, Shape, Jobs
<1>3. \A b, limit : (ToCome(b, limit)' <=> ToCome(b, limit)) /\ (Set(b, limit)' <=> Set(b, limit))
  BY <1>1 DEF ToCome, Set
<1>4. Written'
  BY <1>1, <1>3 DEF EnforcedInv, Written
<1>5. Joined'
  <2>1. CASE Join(s)
    <3>1. job' = job /\ job[s] = "joining"
          /\ \A b \in Boxes : b # s => confined'[b] = confined[b]
      BY <2>1 DEF Join, EnforcedInv, Shape
    <3> QED
      BY <1>1, <3>1 DEF EnforcedInv, Joined, Pending
  <2>2. CASE Spawn(s) \/ JoinFails(s) \/ Exec(s) \/ Exit(s)
    <3>1. confined' = confined /\ \A b \in Boxes : b # s => job'[b] = job[b]
      BY <2>2 DEF Spawn, JoinFails, Exec, Exit, EnforcedInv, Shape
    <3>2. pc[s] \in {"live", "deleting", "deleted"}
      BY <2>2 DEF Spawn, JoinFails, Exec, Exit, EnforcedInv, Joined
    <3>3. job'[s] = "runs" => Pending(s) = {}
      BY <2>2 DEF Spawn, JoinFails, Exec, Exit, EnforcedInv, Shape
    <3> QED
      BY <1>1, <3>1, <3>2, <3>3 DEF EnforcedInv, Joined, Pending
  <2> QED
    BY <2>1, <2>2
<1> QED
  BY <1>2, <1>4, <1>5 DEF EnforcedInv

LEMMA EnforcedNext == EnforcedInv /\ [Next]_vars => EnforcedInv'
<1> SUFFICES ASSUME EnforcedInv, [Next]_vars PROVE EnforcedInv'
  OBVIOUS
<1>1. CASE Select
  BY <1>1, SelectKeeps
<1>2. ASSUME NEW c \in Callers, CreateStep(c) PROVE EnforcedInv'
  <2>1. CASE CallFails(c)
    BY <2>1, CallFailsKeeps
  <2>2. CASE Mkdir(c) \/ Open(c) \/ Insert(c)
    <3>1. pc[c] = "creating" /\ todo[c] # <<>> /\ Head(todo[c]).op \in {"mkdir", "open", "insert"}
          /\ Proceed(c) /\ UNCHANGED <<driver, pc, limits, enabled, job, confined>>
      BY <2>2 DEF Mkdir, Open, Insert, Calling, choice, fs, procs
    <3>2. \A limit : Head(todo[c]) # Call("write", limit)
      BY <3>1 DEF Call
    <3> QED
      BY <3>1, <3>2, CallSucceeds
  <2>3. CASE Enable(c)
    <3>1. pc[c] = "creating" /\ todo[c] # <<>> /\ Head(todo[c]).op = "enable"
          /\ Proceed(c) /\ UNCHANGED <<driver, pc, limits, job, confined>>
      BY <2>3 DEF Enable, Calling, choice, procs
    <3>2. enabled => enabled'
      BY <2>3, Zenon DEF Enable
    <3>3. \A limit : Head(todo[c]) # Call("write", limit)
      BY <3>1 DEF Call
    <3> QED
      BY <3>1, <3>2, <3>3, CallSucceeds
  <2>4. CASE WriteLimit(c)
    <3>1. pc[c] = "creating" /\ todo[c] # <<>> /\ limits' = limits \cup {<<Arg(c), Group(c)>>}
          /\ (DriverOf(c) = "v2" => enabled)
          /\ Proceed(c) /\ UNCHANGED <<driver, pc, enabled, job, confined>>
      BY <2>4 DEF WriteLimit, Calling, choice, procs
    <3>2. ASSUME c \in Boxes, NEW limit, Head(todo[c]) = Call("write", limit)
          PROVE  Set(c, limit)'
      <4>1. Arg(c) = limit /\ Group(c) = <<c, 0>> /\ DriverOf(c) = driver
        BY <3>2, BoxesAre DEF Arg, Call
      <4> QED
        BY <3>1, <4>1 DEF Set
    <3> QED
      BY <3>1, <3>2, CallSucceeds
  <2> QED
    BY <1>2, <2>1, <2>2, <2>3, <2>4 DEF CreateStep
<1>3. ASSUME NEW s \in Boxes, Life(s) PROVE EnforcedInv'
  <2>1. CASE Create(s)
    BY <2>1, CreateKeeps
  <2>2. CASE ZygoteStarted(s) \/ ZygoteFails(s)
    <3>1. PICK to \in {"live", "abandoned"} : pc' = [pc EXCEPT ![s] = to]
      BY <2>2 DEF ZygoteStarted, ZygoteFails
    <3>2. Created(s) /\ todo' = todo /\ UNCHANGED <<driver, limits, enabled, job, confined>>
      BY <2>2 DEF ZygoteStarted, ZygoteFails, choice, fs, procs
    <3>3. todo[s] \in Seq(Calls) /\ todo' = [todo EXCEPT ![s] = todo[s]]
      BY <3>2 DEF EnforcedInv, Shape
    <3> QED
      BY <3>1, <3>2, <3>3, PhaseKeeps
  <2>3. CASE Spawn(s) \/ Join(s) \/ JoinFails(s) \/ Exec(s) \/ Exit(s)
    BY <2>3, JobKeeps
  <2>4. CASE DeleteGroup(s)
    <3>1. pc[s] = "live" /\ pc' = [pc EXCEPT ![s] = "deleting"]
          /\ todo' = [todo EXCEPT ![s] = DeleteCalls(driver)]
          /\ UNCHANGED <<driver, limits, enabled, job, confined>>
      BY <2>4 DEF DeleteGroup, choice, fs, procs
    <3>2. DeleteCalls(driver) \in Seq(Calls)
      BY <3>1, DeleteCallsAre DEF EnforcedInv, Shape
    <3> QED
      BY <3>1, <3>2, PhaseKeeps
  <2>5. CASE Rmdir(s)
    <3>1. pc[s] = "deleting" /\ todo[s] # <<>> /\ todo' = [todo EXCEPT ![s] = Tail(todo[s])]
          /\ UNCHANGED <<driver, pc, limits, enabled, job, confined>>
      BY <2>5 DEF Rmdir, Proceed, choice, procs
    <3>2. pc' = [pc EXCEPT ![s] = "deleting"]
      BY <3>1 DEF EnforcedInv, Shape
    <3>3. Tail(todo[s]) \in Seq(Calls)
      <4>1. todo[s] \in Seq(Calls)
        BY DEF EnforcedInv, Shape
      <4> QED
        BY <3>1, <4>1
    <3> QED
      BY <3>1, <3>2, <3>3, PhaseKeeps
  <2>6. CASE Deleted(s)
    <3>1. pc[s] = "deleting" /\ pc' = [pc EXCEPT ![s] = "deleted"]
          /\ UNCHANGED <<driver, todo, limits, enabled, job, confined>>
      BY <2>6 DEF Deleted, choice, fs, procs
    <3>2. todo[s] \in Seq(Calls) /\ todo' = [todo EXCEPT ![s] = todo[s]]
      BY <3>1 DEF EnforcedInv, Shape
    <3> QED
      BY <3>1, <3>2, PhaseKeeps
  <2> QED
    BY <1>3, <2>1, <2>2, <2>3, <2>4, <2>5, <2>6 DEF Life
<1>4. CASE UNCHANGED vars
  BY <1>4, Untouched DEF vars, choice, fs, procs
<1> QED
  BY <1>1, <1>2, <1>3, <1>4 DEF Next, Finished

\* Whichever driver was selected and whichever calls failed, a program that runs
\* is under the limits of its sandbox and is measured, although an error of
\* subtree_control is ignored: writing a limit fails where its controller is off.
THEOREM EnforcedHolds == Spec => []Enforced
<1>1. EnforcedInv => Enforced
  <2> SUFFICES ASSUME EnforcedInv, NEW s \in Boxes, job[s] = "runs"
               PROVE  InForce(s, "pids") /\ InForce(s, "memory") /\ Measured(s)
    BY DEF Enforced
  <2>1. pc[s] \in {"live", "deleting", "deleted"} /\ Pending(s) = {}
    BY DEF EnforcedInv, Joined
  <2>2. driver \in Drivers
    BY <2>1 DEF EnforcedInv, Shape
  <2>3. \A i \in DOMAIN JoinPlaces(driver) : JoinPlaces(driver)[i] \in confined[s]
    BY <2>1 DEF Pending
  <2>4. driver \in {"v1", "v2"} => Set(s, "pids") /\ Set(s, "memory")
    BY <2>1 DEF EnforcedInv, Written
  <2>5. CASE driver = "v1"
    <3>1. {"cpuacct", "memory", "pids"} \subseteq confined[s]
      <4>1. DOMAIN JoinPlaces(driver) = 1..3 /\ JoinPlaces(driver) = <<"cpuacct", "memory", "pids">>
        BY <2>5 DEF JoinPlaces
      <4> QED
        BY <2>3, <4>1
    <3> QED
      BY <2>4, <2>5, <3>1, BoxesAre DEF InForce, Measured, UsageV1, Set
  <2>6. CASE driver = "v2"
    <3>1. "unified" \in confined[s]
      <4>1. DOMAIN JoinPlaces(driver) = 1..1 /\ JoinPlaces(driver) = <<"unified">>
        BY <2>6 DEF JoinPlaces
      <4> QED
        BY <2>3, <4>1
    <3> QED
      BY <2>4, <2>6, <3>1, BoxesAre DEF InForce, Measured, UsageV2, Set
  <2>7. CASE driver = "prlimit"
    <3>1. {"data", "nproc", "cpu"} \subseteq confined[s]
      <4>1. DOMAIN JoinPlaces(driver) = 1..3 /\ JoinPlaces(driver) = <<"data", "nproc", "cpu">>
        BY <2>7 DEF JoinPlaces
      <4> QED
        BY <2>3, <4>1
    <3> QED
      BY <2>7, <3>1 DEF InForce, Measured
  <2> QED
    BY <2>2, <2>5, <2>6, <2>7 DEF Drivers
<1> QED
  BY EnforcedInit, EnforcedNext, <1>1, PTL DEF Spec

-----------------------------------------------------------------------------

\* Where handles appear and disappear.
HandlesInv == pc \in [Callers -> Pcs] /\ HandlesClosed

LEMMA HandlesNext == HandlesInv /\ [Next]_vars => HandlesInv'
<1> SUFFICES ASSUME HandlesInv, [Next]_vars PROVE HandlesInv'
  OBVIOUS
<1> DEFINE Closed(c) == pc[c] \in {"live", "deleting", "deleted", "abandoned"} => Handle(c) = {}
<1>1. pc' \in [Callers -> Pcs]
  BY DEF HandlesInv, Next, Select, TryConfig, ProbeWorks, ProbeDenied, NoneWorks, Begin, GiveUp,
         CreateStep, Mkdir, WriteLimit, Enable, Open, Insert, CallFails, Life, Create,
         ZygoteStarted, ZygoteFails, Spawn, Join, JoinFails, Exec, Exit, DeleteGroup, Rmdir,
         Deleted, Finished, vars, Pcs
<1> SUFFICES ASSUME NEW d \in Callers PROVE Closed(d)'
  BY <1>1 DEF HandlesInv, HandlesClosed
<1>2. Closed(d)
  BY DEF HandlesInv, HandlesClosed
<1>3. CASE Select
  <2>1. Group(d)' = Group(d) \/ pc'[d] = "new"
    BY <1>3 DEF Select, TryConfig, ProbeWorks, ProbeDenied, NoneWorks, Begin, GiveUp, choice, Group,
                HandlesInv
  <2>2. CASE ProbeWorks \/ ProbeDenied
    <3>1. files' = files \ Handle(Probe) /\ (d # Probe => pc'[d] = pc[d])
      BY <2>2 DEF ProbeWorks, ProbeDenied, GiveUp, DropHandle, HandlesInv
    <3> QED
      BY <1>2, <2>1, <3>1 DEF Handle
  <2>3. CASE TryConfig \/ NoneWorks
    <3>1. files' = files /\ (pc'[d] \in {"creating", pc[d]})
      BY <2>3 DEF TryConfig, NoneWorks, Begin, HandlesInv
    <3> QED
      BY <1>2, <2>1, <3>1 DEF Handle
  <2> QED
    BY <1>3, <2>2, <2>3 DEF Select
<1>4. ASSUME NEW c \in Callers, CreateStep(c) PROVE Closed(d)'
  <2>1. pc[c] = "creating"
    BY <1>4 DEF CreateStep, Mkdir, WriteLimit, Enable, Open, Insert, CallFails, Calling
  <2>2. CASE d = c
    <3>1. pc'[d] \in {"creating", "new", "failed"}
      BY <1>4, <2>1, <2>2 DEF CreateStep, Mkdir, WriteLimit, Enable, Open, Insert, CallFails, GiveUp,
                              HandlesInv
    <3> QED
      BY <3>1
  <2>3. CASE d # c
    <3>1. pc'[d] = pc[d]
      BY <1>4, <2>3 DEF CreateStep, Mkdir, WriteLimit, Enable, Open, Insert, CallFails, GiveUp,
                        HandlesInv
    <3>2. Group(d)' = Group(d) /\ Group(c)[1] = c /\ Group(d)[1] = d
      BY <1>4, <2>3 DEF CreateStep, Mkdir, WriteLimit, Enable, Open, Insert, CallFails, GiveUp,
                        choice, Group
    <3>3. files' \subseteq files \cup {<<"file", Arg(c), Group(c)>>, <<"handle", Arg(c), Group(c)>>}
      BY <1>4 DEF CreateStep, Mkdir, WriteLimit, Enable, Open, Insert, CallFails, fs
    <3> QED
      BY <1>2, <2>3, <3>1, <3>2, <3>3 DEF Handle
  <2> QED
    BY <2>2, <2>3
<1>5. ASSUME NEW s \in Boxes, Life(s) PROVE Closed(d)'
  <2>1. Group(d)' = Group(d)
    BY <1>5 DEF Life, Create, Begin, ZygoteStarted, ZygoteFails, Spawn, Join, JoinFails, Exec, Exit,
                DeleteGroup, Rmdir, Deleted, choice, Group
  <2>2. CASE ZygoteStarted(s) \/ ZygoteFails(s)
    <3>1. files' = files \ Handle(s) /\ (d # s => pc'[d] = pc[d])
      BY <2>2 DEF ZygoteStarted, ZygoteFails, DropHandle, HandlesInv
    <3> QED
      BY <1>2, <2>1, <3>1 DEF Handle
  <2>3. CASE \/ Create(s) \/ Spawn(s) \/ Join(s) \/ JoinFails(s) \/ Exec(s) \/ Exit(s)
             \/ DeleteGroup(s) \/ Rmdir(s) \/ Deleted(s)
    <3>1. files' = files
      BY <2>3 DEF Create, Begin, Spawn, Join, JoinFails, Exec, Exit, DeleteGroup, Rmdir, Deleted
    <3>2. pc'[d] = pc[d] \/ pc'[d] = "creating" \/ pc[d] \in {"live", "deleting"}
      BY <2>3 DEF Create, Begin, Spawn, Join, JoinFails, Exec, Exit, DeleteGroup, Rmdir, Deleted,
                  HandlesInv
    <3> QED
      BY <1>2, <2>1, <3>1, <3>2 DEF Handle
  <2> QED
    BY <1>5, <2>2, <2>3 DEF Life
<1>6. CASE UNCHANGED vars
  BY <1>2, <1>6 DEF vars, choice, Handle, Group
<1> QED
  BY <1>3, <1>4, <1>5, <1>6 DEF Next, Finished

\* A handle with which a process can join a group is open in the host only while
\* its group is created: in whatever order sandboxes are created and dropped, no
\* zygote but its own inherits it.
THEOREM HandlesClosedHolds == Spec => []HandlesClosed
<1>1. Init => HandlesInv
  BY DEF Init, HandlesInv, HandlesClosed, Handle, Pcs
<1>2. HandlesInv => HandlesClosed
  BY DEF HandlesInv
<1> QED
  BY <1>1, <1>2, HandlesNext, PTL DEF Spec

-----------------------------------------------------------------------------

\* delete_group removes the group from hierarchy h, or is still to do so.
Removes(h)   == \E i \in DOMAIN DeleteCalls(driver) : DeleteCalls(driver)[i] = Call("rmdir", h)
Removing(s, h) == \E i \in DOMAIN todo[s] : todo[s][i] = Call("rmdir", h)

\* What is and will be made for a sandbox is removed with it, but for places its
\* job is confined to.
Accounted(s) ==
  /\ pc[s] = "creating" =>
       \A i \in DOMAIN todo[s] : todo[s][i].op \in {"mkdir", "insert"} => Removes(todo[s][i].arg)
  /\ \A d \in dirs : d[2] = <<s, 0>> =>
       /\ pc[s] # "new"
       /\ pc[s] \in {"creating", "live"} => Removes(d[1])
       /\ pc[s] = "deleting" => d[1] \in confined[s] \/ Removing(s, d[1])
       /\ pc[s] = "deleted" => d[1] \in confined[s]

RemovalInv ==
  /\ EnforcedInv
  /\ \A d \in dirs : d = <<d[1], d[2]>>
  /\ \A s \in Boxes : Accounted(s)

\* Every directory or entry that create_group makes, delete_group removes.
LEMMA CreatedIsRemoved ==
  ASSUME driver \in Drivers, NEW i \in DOMAIN CreateCalls(driver),
         CreateCalls(driver)[i].op \in {"mkdir", "insert"}
  PROVE  Removes(CreateCalls(driver)[i].arg)
<1>1. CASE driver = "v1"
  <2>1. DOMAIN CreateCalls(driver) = 1..9
    BY <1>1 DEF CreateCalls
  <2>2. CreateCalls(driver)[i].arg \in {"cpuacct", "pids", "memory"}
    BY <1>1, <2>1 DEF CreateCalls, Call
  <2>3. /\ DOMAIN DeleteCalls(driver) = 1..3
        /\ DeleteCalls(driver)[1] = Call("rmdir", "pids")
        /\ DeleteCalls(driver)[2] = Call("rmdir", "memory")
        /\ DeleteCalls(driver)[3] = Call("rmdir", "cpuacct")
    BY <1>1 DEF DeleteCalls
  <2> QED
    BY <2>2, <2>3 DEF Removes
<1>2. CASE driver = "v2"
  <2>1. DOMAIN CreateCalls(driver) = 1..5
    BY <1>2 DEF CreateCalls
  <2>2. CreateCalls(driver)[i].arg = "unified"
    BY <1>2, <2>1 DEF CreateCalls, Call
  <2>3. DOMAIN DeleteCalls(driver) = 1..1 /\ DeleteCalls(driver)[1] = Call("rmdir", "unified")
    BY <1>2 DEF DeleteCalls
  <2> QED
    BY <2>2, <2>3 DEF Removes
<1>3. CASE driver = "prlimit"
  <2>1. DOMAIN CreateCalls(driver) = 1..1 /\ CreateCalls(driver)[1].arg = "groups"
    BY <1>3 DEF CreateCalls, Call
  <2>2. DOMAIN DeleteCalls(driver) = 1..1 /\ DeleteCalls(driver)[1] = Call("rmdir", "groups")
    BY <1>3 DEF DeleteCalls
  <2> QED
    BY <2>1, <2>2 DEF Removes
<1> QED
  BY <1>1, <1>2, <1>3 DEF Drivers

\* What a call of create_group changes.
LEMMA CallMakes ==
  ASSUME NEW c \in Callers, CreateStep(c)
  PROVE  /\ pc[c] = "creating" /\ todo[c] # <<>> /\ driver' = driver /\ confined' = confined
         /\ \/ dirs' = dirs
            \/ Head(todo[c]).op \in {"mkdir", "insert"} /\ dirs' = dirs \cup {<<Arg(c), Group(c)>>}
         /\ CallFails(c) \/ (pc' = pc /\ Proceed(c))
<1>1. CASE Mkdir(c)
  BY <1>1 DEF Mkdir, Calling, choice, procs
<1>2. CASE Insert(c)
  BY <1>2 DEF Insert, Calling, choice, procs
<1>3. CASE WriteLimit(c) \/ Enable(c)
  BY <1>3 DEF WriteLimit, Enable, Calling, choice, procs
<1>4. CASE Open(c)
  BY <1>4 DEF Open, Calling, choice, procs, fs
<1>5. CASE CallFails(c)
  BY <1>5 DEF CallFails, Calling, procs, fs
<1> QED
  BY <1>1, <1>2, <1>3, <1>4, <1>5 DEF CreateStep

\* A step that makes nothing for a sandbox and leaves it where it is.
LEMMA OthersKeep ==
  ASSUME RemovalInv, NEW b \in Boxes,
         pc'[b] = pc[b], todo'[b] = todo[b], confined[b] \subseteq confined'[b],
         driver' = driver \/ pc[b] = "new",
         \A d \in dirs' : d[2] = <<b, 0>> => d \in dirs
  PROVE  Accounted(b)'
<1>1. Accounted(b)
  BY DEF RemovalInv
<1>2. CASE pc[b] = "new"
  BY <1>1, <1>2 DEF Accounted
<1>3. CASE driver' = driver
  <2>1. \A h : (Removes(h)' <=> Removes(h)) /\ (Removing(b, h)' <=> Removing(b, h))
    BY <1>3 DEF Removes, Removing
  <2> QED
    BY <1>1, <2>1 DEF Accounted
<1> QED
  BY <1>2, <1>3

\* create_group makes what will be removed.
LEMMA CreatingKeeps ==
  ASSUME RemovalInv, NEW b \in Boxes, CreateStep(b)
  PROVE  Accounted(b)'
<1>1. /\ pc[b] = "creating" /\ driver' = driver /\ Accounted(b) /\ todo[b] \in Seq(Calls)
      /\ todo[b] # <<>> /\ Group(b) = <<b, 0>>
  BY BoxesAre, CallMakes DEF RemovalInv, EnforcedInv, Shape
<1>2. \A h : Removes(h)' <=> Removes(h)
  BY <1>1 DEF Removes
<1>3. CASE CallFails(b)
  <2>1. pc'[b] = "failed"
    BY <1>3, BoxesAre DEF CallFails, GiveUp, RemovalInv, EnforcedInv, Shape
  <2> QED
    BY <2>1 DEF Accounted
<1>4. CASE ~ CallFails(b)
  <2>1. pc' = pc /\ todo'[b] = Tail(todo[b])
    <3>1. pc' = pc /\ Proceed(b)
      BY <1>4, BoxesAre, CallMakes
    <3> QED
      BY <3>1, BoxesAre DEF Proceed, RemovalInv, EnforcedInv, Shape
  <2>2. \A i \in DOMAIN Tail(todo[b]) : i + 1 \in DOMAIN todo[b] /\ Tail(todo[b])[i] = todo[b][i + 1]
    BY <1>1
  <2>3. \A i \in DOMAIN todo'[b] : todo'[b][i].op \in {"mkdir", "insert"} => Removes(todo'[b][i].arg)
    BY <1>1, <2>1, <2>2 DEF Accounted
  <2>4. ASSUME NEW d \in dirs'
        PROVE  d \in dirs \/ (Head(todo[b]).op \in {"mkdir", "insert"} /\ d = <<Arg(b), Group(b)>>)
    <3>1. \/ dirs' = dirs
          \/ Head(todo[b]).op \in {"mkdir", "insert"} /\ dirs' = dirs \cup {<<Arg(b), Group(b)>>}
      BY BoxesAre, CallMakes
    <3> QED
      BY <3>1, Zenon
  <2>5. Head(todo[b]).op \in {"mkdir", "insert"} => Removes(Arg(b))
    <3>1. 1 \in DOMAIN todo[b] /\ Head(todo[b]) = todo[b][1]
      BY <1>1
    <3> QED
      BY <1>1, <3>1 DEF Accounted, Arg
  <2>6. \A d \in dirs' : d[2] = <<b, 0>> => Removes(d[1])
    BY <1>1, <2>4, <2>5 DEF Accounted
  <2> QED
    BY <1>1, <1>2, <2>1, <2>3, <2>6 DEF Accounted
<1> QED
  BY <1>3, <1>4

LEMMA LifeRemoves ==
  ASSUME NEW s \in Boxes, Life(s)
  PROVE  driver' = driver /\ dirs' \subseteq dirs
<1>1. CASE Rmdir(s)
  BY <1>1 DEF Rmdir, choice
<1>2. CASE ~ Rmdir(s)
  BY <1>2 DEF Life, Create, Begin, ZygoteStarted, ZygoteFails, Spawn, Join, JoinFails, Exec, Exit,
              DeleteGroup, Deleted, choice, fs
<1> QED
  BY <1>1, <1>2

\* The life of a sandbox: only a group that is busy is left out by delete_group.
LEMMA LifeKeeps ==
  ASSUME RemovalInv, NEW b \in Boxes, Life(b)
  PROVE  Accounted(b)'
<1>1. driver' = driver /\ Accounted(b) /\ todo[b] \in Seq(Calls) /\ Group(b) = <<b, 0>>
  BY BoxesAre
  DEF Life, Create, Begin, ZygoteStarted, ZygoteFails, Spawn, Join, JoinFails, Exec, Exit,
      DeleteGroup, Rmdir, Deleted, choice, RemovalInv, EnforcedInv, Shape
<1>2. \A h : Removes(h)' <=> Removes(h)
  BY <1>1 DEF Removes
<1>3. CASE Create(b)
  <2>1. pc[b] = "new" /\ driver \in Drivers /\ dirs' = dirs
        /\ pc'[b] = "creating" /\ todo'[b] = CreateCalls(driver)
    BY <1>3, BoxesAre DEF Create, Begin, fs, RemovalInv, EnforcedInv, Shape
  <2> QED
    BY <1>1, <1>2, <2>1, CreatedIsRemoved DEF Accounted
<1>4. CASE ZygoteStarted(b) \/ ZygoteFails(b)
  <2>1. pc[b] = "creating" /\ dirs' = dirs /\ pc'[b] \in {"live", "abandoned"}
    BY <1>4, BoxesAre DEF ZygoteStarted, ZygoteFails, Created, fs, RemovalInv, EnforcedInv, Shape
  <2> QED
    BY <1>1, <1>2, <2>1 DEF Accounted
<1>5. CASE Spawn(b) \/ Join(b) \/ JoinFails(b) \/ Exec(b) \/ Exit(b)
  <2>1. pc' = pc /\ todo' = todo /\ dirs' = dirs
    BY <1>5 DEF Spawn, Join, JoinFails, Exec, Exit, fs
  <2>2. confined[b] \subseteq confined'[b]
    BY <1>5 DEF Spawn, Join, JoinFails, Exec, Exit, RemovalInv, EnforcedInv, Shape
  <2> QED
    BY <1>1, <2>1, <2>2, OthersKeep
<1>6. CASE DeleteGroup(b)
  <2>1. pc[b] = "live" /\ dirs' = dirs /\ pc'[b] = "deleting" /\ todo'[b] = DeleteCalls(driver)
    BY <1>6, BoxesAre DEF DeleteGroup, fs, RemovalInv, EnforcedInv, Shape
  <2>2. \A h : Removing(b, h)' <=> Removes(h)
    BY <2>1 DEF Removing, Removes
  <2> QED
    BY <1>1, <2>1, <2>2 DEF Accounted
<1>7. CASE Rmdir(b)
  <2>1. /\ pc[b] = "deleting" /\ todo[b] # <<>> /\ pc' = pc /\ confined' = confined
        /\ todo'[b] = Tail(todo[b]) /\ dirs' \subseteq dirs
    BY <1>7, BoxesAre DEF Rmdir, Proceed, procs, RemovalInv, EnforcedInv, Shape
  <2> SUFFICES ASSUME NEW d \in dirs', d[2] = <<b, 0>>, d[1] \notin confined[b]
               PROVE  Removing(b, d[1])'
    BY <2>1 DEF Accounted
  <2>2. d = <<d[1], Group(b)>> /\ Removing(b, d[1])
    BY <1>1, <2>1 DEF RemovalInv, Accounted
  <2>3. CASE Call("rmdir", d[1]) = Head(todo[b])
    <3>1. Arg(b) = d[1] /\ ~ Busy(Arg(b), b)
      BY <2>3 DEF Arg, Call, Busy
    <3> QED
      BY <1>7, <2>2, <3>1 DEF Rmdir
  <2>4. CASE \E i \in DOMAIN Tail(todo[b]) : Tail(todo[b])[i] = Call("rmdir", d[1])
    BY <2>1, <2>4 DEF Removing
  <2> QED
    BY <1>1, <2>1, <2>2, <2>3, <2>4, Later DEF Removing
<1>8. CASE Deleted(b)
  <2>1. /\ pc[b] = "deleting" /\ todo[b] = <<>> /\ pc'[b] = "deleted"
        /\ dirs' = dirs /\ confined' = confined
    BY <1>8, BoxesAre DEF Deleted, fs, procs, RemovalInv, EnforcedInv, Shape
  <2>2. \A h : ~ Removing(b, h)
    BY <2>1 DEF Removing
  <2> QED
    BY <1>1, <2>1, <2>2 DEF Accounted
<1> QED
  BY <1>3, <1>4, <1>5, <1>6, <1>7, <1>8 DEF Life

LEMMA RemovalNext == RemovalInv /\ [Next]_vars => RemovalInv'
<1> SUFFICES ASSUME RemovalInv, [Next]_vars PROVE RemovalInv'
  OBVIOUS
<1>1. EnforcedInv'
  BY EnforcedNext DEF RemovalInv
<1>2. \A d \in dirs' : d = <<d[1], d[2]>>
  <2>1. CASE Select \/ UNCHANGED vars
    BY <2>1
    DEF Select, TryConfig, ProbeWorks, ProbeDenied, NoneWorks, Begin, vars, fs, RemovalInv
  <2>2. ASSUME NEW c \in Callers, CreateStep(c) PROVE \A d \in dirs' : d = <<d[1], d[2]>>
    BY <2>2, CallMakes DEF RemovalInv
  <2>3. ASSUME NEW s \in Boxes, Life(s) PROVE \A d \in dirs' : d = <<d[1], d[2]>>
    BY <2>3, LifeRemoves DEF RemovalInv
  <2> QED
    BY <2>1, <2>2, <2>3 DEF Next, Finished
<1> SUFFICES ASSUME NEW b \in Boxes PROVE Accounted(b)'
  BY <1>1, <1>2 DEF RemovalInv
<1>3. CASE Select
  <2>1. driver = None
    BY <1>3
    DEF Select, TryConfig, ProbeWorks, ProbeDenied, NoneWorks, Created, RemovalInv, EnforcedInv, Shape
  <2>2. pc[b] = "new"
    BY <2>1, NoneAssumption DEF RemovalInv, EnforcedInv, Shape
  <2>3. UNCHANGED <<dirs, confined>> /\ pc'[b] = pc[b] /\ todo'[b] = todo[b]
    BY <1>3, BoxesAre
    DEF Select, TryConfig, ProbeWorks, ProbeDenied, NoneWorks, Begin, GiveUp, procs, fs, RemovalInv,
        EnforcedInv, Shape
  <2> QED
    BY <2>2, <2>3, OthersKeep
<1>4. ASSUME NEW c \in Callers, CreateStep(c) PROVE Accounted(b)'
  <2>1. CASE c = b
    BY <1>4, <2>1, CreatingKeeps
  <2>2. CASE c # b
    <3>1. Group(c) # <<b, 0>>
      BY <2>2, BoxesAre
    <3>2. \A d \in dirs' : d \in dirs \/ d = <<Arg(c), Group(c)>>
      BY <1>4, CallMakes
    <3>3. driver' = driver /\ confined' = confined
      BY <1>4, CallMakes
    <3>4. pc'[b] = pc[b] /\ todo'[b] = todo[b]
      <4>1. CASE CallFails(c)
        BY <2>2, <4>1, BoxesAre DEF CallFails, GiveUp, RemovalInv, EnforcedInv, Shape
      <4>2. CASE pc' = pc /\ Proceed(c)
        BY <2>2, <4>2, BoxesAre DEF Proceed, RemovalInv, EnforcedInv, Shape
      <4> QED
        BY <1>4, <4>1, <4>2, CallMakes
    <3> QED
      BY <3>1, <3>2, <3>3, <3>4, OthersKeep
  <2> QED
    BY <2>1, <2>2
<1>5. ASSUME NEW s \in Boxes, Life(s) PROVE Accounted(b)'
  <2>1. CASE s = b
    BY <1>5, <2>1, LifeKeeps
  <2>2. CASE s # b
    <3>1. driver' = driver /\ dirs' \subseteq dirs
      BY <1>5, LifeRemoves
    <3>3. pc'[b] = pc[b] /\ todo'[b] = todo[b]
      BY <1>5, <2>2, BoxesAre
      DEF Life, Create, Begin, ZygoteStarted, ZygoteFails, Spawn, Join, JoinFails, Exec, Exit,
          DeleteGroup, Rmdir, Deleted, Proceed, RemovalInv, EnforcedInv, Shape
    <3>2. confined'[b] = confined[b]
      BY <1>5, <2>2
      DEF Life, Create, Begin, ZygoteStarted, ZygoteFails, Spawn, Join, JoinFails, Exec, Exit,
          DeleteGroup, Rmdir, Deleted, procs, RemovalInv, EnforcedInv, Shape
    <3> QED
      BY <3>1, <3>2, <3>3, OthersKeep
  <2> QED
    BY <2>1, <2>2
<1>6. CASE UNCHANGED vars
  BY <1>6, OthersKeep DEF vars, choice, fs, procs
<1> QED
  BY <1>3, <1>4, <1>5, <1>6 DEF Next, Finished

\* Whichever of the calls of create_group failed and however delete_group meets
\* jobs that join or die, only directories a job was confined to are left.
THEOREM NothingLeftHolds == Spec => []NothingLeft
<1>1. Init => RemovalInv
  BY EnforcedInit, BoxesAre DEF Init, RemovalInv, Accounted
<1>2. RemovalInv => NothingLeft
  BY BoxesAre DEF RemovalInv, Accounted, NothingLeft
<1> QED
  BY <1>1, <1>2, RemovalNext, PTL DEF Spec
=============================================================================
