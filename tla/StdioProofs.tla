---------------------------- MODULE StdioProofs ----------------------------
(***************************************************************************)
(* Theorems about Stdio, for any number of clients, threads and bytes.     *)
(***************************************************************************)
EXTENDS Stdio, TLAPS

Fresh == {"new", "created", "io_open"}

\* A client that has not spawned has no job, and a job that was not started has
\* nothing open and wrote nothing.
NotStarted ==
  \A b \in Boxes :
    /\ pc[b] \in Fresh => job[b] = "none"
    /\ job[b] = "none" => /\ holds[Job(b)] = {} /\ holds[Child(b)] = {}
                          /\ written[b] = 0

\* Clients that read have a stream, and the offset of a buffer is behind all that
\* was written, for who writes moves it and who reads finds nothing but NUL bytes.
Streams ==
  \A b \in Boxes :
    /\ plan[b] # "cli" \/ pc[b] = "read" => output[b] \in {"pipe", "buffer"}
    /\ output[b] = "buffer" => /\ got[b] = 0 /\ offset[b] = written[b] + nul[b]
                               /\ \A i \in file[b] : i < offset[b]

\* What a client that saw the end relies on: WholeOutput alone is not
\* inductive, as a job that reads its stdin is no writer but may have stdout.
ReadAll ==
  \A b \in Boxes :
    HasRead(b) /\ output[b] = "pipe" =>
      /\ got[b] = written[b]
      /\ End(b, "out_w") \notin holds[Job(b)] \cup holds[Child(b)]

\* A client that saw the end of a buffer read past its size.
PastSize ==
  \A b \in Boxes :
    HasRead(b) /\ output[b] = "buffer" /\ job[b] # "none" => offset[b] >= size[b]

StdioInv == TypeOK /\ Streams /\ NotStarted /\ ReadAll /\ PastSize

LEMMA ProcessFacts ==
  /\ Host \in Processes
  /\ \A b \in Boxes : /\ Zygote(b) \in Processes /\ Job(b) \in Processes
                      /\ Child(b) \in Processes
                      /\ Job(b) # Host /\ Child(b) # Host /\ Zygote(b) # Host
  /\ \A b, c \in Boxes : /\ Job(b) # Child(c) /\ Job(b) # Zygote(c) /\ Child(b) # Zygote(c)
                         /\ (b # c => Job(b) # Job(c) /\ Child(b) # Child(c))
  /\ \A b \in Boxes, n \in {"in_r", "in_w", "out_r", "out_w"} : End(b, n) \in Ends
BY DEF Host, Processes, Zygote, Job, Child, End, Ends

LEMMA StdioInvInit == Init => StdioInv
<1> SUFFICES ASSUME Init PROVE StdioInv
  OBVIOUS
<1>1. TypeOK
  <2>1. 0 \in 0..MaxOut /\ 0 \in Nat
    BY BoundsAssumption
  <2>2. /\ workers \in Workers /\ plan \in [Boxes -> AllPlans]
        /\ output \in [Boxes -> {"none", "pipe", "buffer"}] 
    BY PlansAssumption DEF Init
  <2>4. size \in [Boxes -> Nat]
    <3>1. Sizes \cup {0} \subseteq Nat
      BY BoundsAssumption
    <3> QED
      BY <3>1 DEF Init
  <2>3. \A b \in Boxes : got[b] <= written[b]
    BY DEF Init
  <2> QED
    BY <2>1, <2>2, <2>3, <2>4 DEF Init, TypeOK
<1>2. Streams
  BY <1>1, PlansAssumption DEF Init, TypeOK, Streams
<1>3. NotStarted
  BY ProcessFacts DEF Init, NotStarted
<1>4. ReadAll
  BY DEF Init, ReadAll, HasRead
<1>5. PastSize
  BY DEF Init, PastSize, HasRead
<1> QED
  BY <1>1, <1>2, <1>3, <1>4, <1>5 DEF StdioInv

LEMMA Static == [Next]_vars => program' = program
BY DEF Next, ClientStep, JobStep, WatchdogStep, Finished, vars, NewSandbox, OpenStdio, SpawnJob,
       SpawnFails, SpawnReturns, CloseStdin, Read, ReadEnd, WaitResolves, DropAll, JobReads,
       JobSeesEnd, JobWrites, JobForks, JobExits, ChildExits, WatchdogWakes, WatchdogKills

LEMMA TypeNext ==
  ASSUME TypeOK, Streams, [Next]_vars
  PROVE  TypeOK' /\ Streams'
<1> USE PlansAssumption, BoundsAssumption, ProcessFacts DEF TypeOK, Streams
<1>1. ASSUME NEW b \in Boxes, NewSandbox(b) PROVE TypeOK' /\ Streams'
  BY <1>1 DEF NewSandbox, Goto, program, stream
<1>2. ASSUME NEW b \in Boxes, OpenStdio(b) PROVE TypeOK' /\ Streams'
  BY <1>2 DEF OpenStdio, OpenedEnds, Goto, program, stream
<1>3. ASSUME NEW b \in Boxes, SpawnJob(b) PROVE TypeOK' /\ Streams'
  BY <1>3 DEF SpawnJob, Goto, program, stream
<1>13. ASSUME NEW b \in Boxes, SpawnFails(b) PROVE TypeOK' /\ Streams'
  BY <1>13 DEF SpawnFails, Close, Goto, program, stream
<1>14. ASSUME NEW b \in Boxes, SpawnReturns(b) PROVE TypeOK' /\ Streams'
  BY <1>14 DEF SpawnReturns, Close, Goto, program, stream
<1>4. ASSUME NEW b \in Boxes, CloseStdin(b) PROVE TypeOK' /\ Streams'
  BY <1>4 DEF CloseStdin, Close, Goto, program, stream
<1>5. ASSUME NEW b \in Boxes, Read(b) PROVE TypeOK' /\ Streams'
  <2>1. CASE output[b] = "pipe"
    <3>1. /\ got[b] < written[b] /\ got' = [got EXCEPT ![b] = @ + 1]
          /\ UNCHANGED <<nul, offset, file, written, program>>
      BY <1>5, <2>1 DEF Read, Readable, Advance
    <3>2. \A c \in Boxes : got'[c] \in 0..MaxOut /\ got'[c] <= written[c]
      BY <3>1
    <3> QED
      BY <1>5, <2>1, <3>1, <3>2 DEF Read, program
  <2>2. CASE output[b] = "buffer"
    <3>1. offset[b] \notin file[b]
      BY <2>2
    <3>2. /\ nul' = [nul EXCEPT ![b] = @ + 1] /\ offset' = [offset EXCEPT ![b] = @ + 1]
          /\ UNCHANGED <<got, file, written, program>>
      BY <1>5, <2>2, <3>1 DEF Read, Advance
    <3>3. Streams'
      BY <1>5, <2>2, <3>2 DEF Read, program
    <3> QED
      BY <1>5, <3>2, <3>3 DEF Read, program
  <2> QED
    BY <1>5, <2>1, <2>2 DEF Read
<1>6. ASSUME NEW b \in Boxes, ReadEnd(b) PROVE TypeOK' /\ Streams'
  BY <1>6 DEF ReadEnd, AfterRead, Goto, program, stream
<1>18. ASSUME NEW b \in Boxes, WaitResolves(b) PROVE TypeOK' /\ Streams'
  BY <1>18 DEF WaitResolves, AfterWait, Goto, program, stream
<1>7. ASSUME NEW b \in Boxes, DropAll(b) PROVE TypeOK' /\ Streams'
  BY <1>7 DEF DropAll, Ended, Goto, program, stream
<1>8. ASSUME NEW b \in Boxes, JobReads(b) \/ JobSeesEnd(b) PROVE TypeOK' /\ Streams'
  BY <1>8 DEF JobReads, JobSeesEnd, program, stream
<1>9. ASSUME NEW b \in Boxes, JobWrites(b) PROVE TypeOK' /\ Streams'
  <2>1. /\ written' = [written EXCEPT ![b] = @ + 1] /\ written[b] < MaxOut
        /\ UNCHANGED <<got, nul, program, pc>>
    BY <1>9 DEF JobWrites
  <2>2. CASE output[b] = "buffer"
    <3>1. /\ file' = [file EXCEPT ![b] = @ \cup {offset[b]}]
          /\ offset' = [offset EXCEPT ![b] = @ + 1]
      BY <1>9, <2>2 DEF JobWrites, Advance
    <3>2. Streams'
      BY <2>1, <2>2, <3>1 DEF program
    <3> QED
      BY <1>9, <2>1, <3>1, <3>2 DEF JobWrites, program
  <2>3. CASE output[b] # "buffer"
    BY <1>9, <2>1, <2>3 DEF JobWrites, Advance, program
  <2> QED
    BY <2>2, <2>3
<1>10. ASSUME NEW b \in Boxes, JobForks(b) PROVE TypeOK' /\ Streams'
  BY <1>10 DEF JobForks, program, stream
<1>15. ASSUME NEW b \in Boxes, JobExits(b) PROVE TypeOK' /\ Streams'
  BY <1>15 DEF JobExits, program, stream
<1>16. ASSUME NEW b \in Boxes, ChildExits(b) PROVE TypeOK' /\ Streams'
  BY <1>16 DEF ChildExits, program, stream
<1>17. ASSUME NEW b \in Boxes, WatchdogWakes(b) PROVE TypeOK' /\ Streams'
  BY <1>17 DEF WatchdogWakes, program, stream
<1>11. ASSUME NEW b \in Boxes, WatchdogKills(b) PROVE TypeOK' /\ Streams'
  BY <1>11 DEF WatchdogKills, Ended, program, stream
<1>12. CASE UNCHANGED vars
  BY <1>12 DEF vars, program, stream
<1> QED
  BY <1>1, <1>2, <1>3, <1>4, <1>5, <1>6, <1>7, <1>8, <1>9, <1>10, <1>11, <1>12,
     <1>13, <1>14, <1>15, <1>16, <1>17, <1>18
     DEF Next, ClientStep, JobStep, WatchdogStep, Finished

\* Only spawn_job and fork give a job or its child an end, and only the spawn
\* of a client that has not spawned.
LEMMA HoldsStep ==
  ASSUME TypeOK, [Next]_vars, NEW b \in Boxes
  PROVE  \/ holds'[Job(b)] \cup holds'[Child(b)] \subseteq holds[Job(b)] \cup holds[Child(b)]
         \/ SpawnJob(b)
<1> USE ProcessFacts DEF TypeOK
<1> DEFINE Kept == holds'[Job(b)] \cup holds'[Child(b)] \subseteq holds[Job(b)] \cup holds[Child(b)]
<1>1. ASSUME NEW c \in Boxes, NewSandbox(c) PROVE Kept
  BY <1>1 DEF NewSandbox
<1>2. ASSUME NEW c \in Boxes, OpenStdio(c) PROVE Kept
  BY <1>2 DEF OpenStdio
<1>3. ASSUME NEW c \in Boxes, SpawnJob(c) PROVE Kept \/ SpawnJob(b)
  BY <1>3 DEF SpawnJob
<1>4. ASSUME NEW c \in Boxes, SpawnFails(c) \/ SpawnReturns(c) \/ CloseStdin(c) PROVE Kept
  BY <1>4 DEF SpawnFails, SpawnReturns, CloseStdin, Close
<1>5. ASSUME NEW c \in Boxes, Read(c) \/ ReadEnd(c) \/ WaitResolves(c) PROVE Kept
  BY <1>5 DEF Read, ReadEnd, WaitResolves
<1>6. ASSUME NEW c \in Boxes, DropAll(c) \/ WatchdogKills(c) PROVE Kept
  BY <1>6 DEF DropAll, WatchdogKills, Ended
<1>7. ASSUME NEW c \in Boxes, JobReads(c) \/ JobSeesEnd(c) \/ JobWrites(c) \/ WatchdogWakes(c)
      PROVE  Kept
  BY <1>7 DEF JobReads, JobSeesEnd, JobWrites, WatchdogWakes
<1>8. ASSUME NEW c \in Boxes, JobForks(c) PROVE Kept
  BY <1>8 DEF JobForks
<1>9. ASSUME NEW c \in Boxes, JobExits(c) \/ ChildExits(c) PROVE Kept
  BY <1>9 DEF JobExits, ChildExits
<1>10. CASE UNCHANGED vars
  BY <1>10 DEF vars
<1> QED
  BY <1>1, <1>2, <1>3, <1>4, <1>5, <1>6, <1>7, <1>8, <1>9, <1>10
     DEF Next, ClientStep, JobStep, WatchdogStep, Finished

\* A job is started by its spawn, and its client leaves the first places by it.
LEMMA JobStarts ==
  ASSUME TypeOK, [Next]_vars, NEW b \in Boxes
  PROVE  /\ job'[b] = "none" <=> job[b] = "none" /\ ~SpawnJob(b)
         /\ pc'[b] \in Fresh => pc[b] \in Fresh /\ ~SpawnJob(b)
<1> USE ProcessFacts DEF TypeOK, Fresh
<1> DEFINE Goal == /\ job'[b] = "none" <=> job[b] = "none" /\ ~SpawnJob(b)
                   /\ pc'[b] \in Fresh => pc[b] \in Fresh /\ ~SpawnJob(b)
<1>1. ASSUME NEW c \in Boxes, NewSandbox(c) \/ OpenStdio(c) PROVE Goal
  BY <1>1 DEF NewSandbox, OpenStdio, Goto, SpawnJob
<1>2. ASSUME NEW c \in Boxes, SpawnJob(c) PROVE Goal
  BY <1>2 DEF SpawnJob, Goto
<1>3. ASSUME NEW c \in Boxes, SpawnFails(c) \/ SpawnReturns(c) \/ CloseStdin(c) PROVE Goal
  BY <1>3 DEF SpawnFails, SpawnReturns, CloseStdin, Goto, SpawnJob
<1>4. ASSUME NEW c \in Boxes, Read(c) PROVE Goal
  BY <1>4 DEF Read, SpawnJob, Goto
<1>5. ASSUME NEW c \in Boxes, ReadEnd(c) \/ WaitResolves(c) PROVE Goal
  BY <1>5 DEF ReadEnd, WaitResolves, AfterRead, AfterWait, Goto, SpawnJob
<1>6. ASSUME NEW c \in Boxes, DropAll(c) PROVE Goal
  BY <1>6 DEF DropAll, Ended, Goto, SpawnJob
<1>7. ASSUME NEW c \in Boxes, JobReads(c) \/ JobSeesEnd(c) \/ JobExits(c) PROVE Goal
  BY <1>7 DEF JobReads, JobSeesEnd, JobExits, SpawnJob, Goto
<1>8. ASSUME NEW c \in Boxes, JobWrites(c) \/ JobForks(c) \/ ChildExits(c) \/ WatchdogWakes(c)
      PROVE  Goal
  BY <1>8 DEF JobWrites, JobForks, ChildExits, WatchdogWakes, SpawnJob, Goto
<1>9. ASSUME NEW c \in Boxes, WatchdogKills(c) PROVE Goal
  BY <1>9 DEF WatchdogKills, Ended, SpawnJob, Goto
<1>10. CASE UNCHANGED vars
  BY <1>10 DEF vars, SpawnJob, Goto
<1> QED
  BY <1>1, <1>2, <1>3, <1>4, <1>5, <1>6, <1>7, <1>8, <1>9, <1>10
     DEF Next, ClientStep, JobStep, WatchdogStep, Finished

\* Only who has stdout writes, only a client that reads has more, and nobody seeks.
LEMMA StreamStep ==
  ASSUME TypeOK, [Next]_vars, NEW b \in Boxes
  PROVE  /\ written'[b] = written[b] \/ End(b, "out_w") \in holds[Job(b)] \cup holds[Child(b)]
         /\ got'[b] = got[b] \/ pc[b] = "read"
         /\ offset'[b] >= offset[b]
<1> USE ProcessFacts DEF TypeOK
<1> DEFINE Goal ==
      /\ written'[b] = written[b] \/ End(b, "out_w") \in holds[Job(b)] \cup holds[Child(b)]
      /\ got'[b] = got[b] \/ pc[b] = "read"
      /\ offset'[b] >= offset[b]
<1>0. \A c \in Boxes : offset[b] \in Nat /\ Advance(c)[b] >= offset[b]
  BY DEF Advance
<1>1. ASSUME NEW c \in Boxes, Read(c) PROVE Goal
  BY <1>0, <1>1 DEF Read
<1>2. ASSUME NEW c \in Boxes, JobWrites(c) PROVE Goal
  BY <1>0, <1>2 DEF JobWrites, Writers
<1>3. CASE stream' = stream
  BY <1>0, <1>3 DEF stream
<1>4. ASSUME NEW c \in Boxes, ClientStep(c), ~Read(c) PROVE stream' = stream
  BY <1>4 DEF ClientStep, OpenStdio, SpawnJob, SpawnFails, SpawnReturns, CloseStdin, ReadEnd,
              WaitResolves, DropAll
<1>5. ASSUME NEW c \in Boxes, JobStep(c), ~JobWrites(c) PROVE stream' = stream
  BY <1>5 DEF JobStep, JobReads, JobSeesEnd, JobForks, JobExits, ChildExits
<1>6. ASSUME NEW c \in Boxes, NewSandbox(c) \/ WatchdogStep(c) PROVE stream' = stream
  BY <1>6 DEF NewSandbox, WatchdogStep, WatchdogWakes, WatchdogKills
<1>7. ASSUME UNCHANGED vars PROVE stream' = stream
  BY <1>7 DEF vars
<1> QED
  BY <1>1, <1>2, <1>3, <1>4, <1>5, <1>6, <1>7 DEF Next, Finished

\* A client sees the end, or gives up a spawn, before it has read everything.
LEMMA ReadStep ==
  ASSUME TypeOK, [Next]_vars, NEW b \in Boxes, HasRead(b)'
  PROVE  HasRead(b) \/ ReadEnd(b) \/ SpawnFails(b)
<1> USE ProcessFacts DEF TypeOK, HasRead
<1>1. ASSUME NEW c \in Boxes, NewSandbox(c) \/ OpenStdio(c) PROVE HasRead(b)
  BY <1>1 DEF NewSandbox, OpenStdio, Goto, program
<1>2. ASSUME NEW c \in Boxes, SpawnJob(c) \/ SpawnReturns(c) \/ CloseStdin(c) PROVE HasRead(b)
  BY <1>2 DEF SpawnJob, SpawnReturns, CloseStdin, Goto, program
<1>3. ASSUME NEW c \in Boxes, SpawnFails(c) PROVE HasRead(b) \/ SpawnFails(b)
  BY <1>3 DEF SpawnFails, Goto, program
<1>4. ASSUME NEW c \in Boxes, ReadEnd(c) PROVE HasRead(b) \/ ReadEnd(b)
  BY <1>4 DEF ReadEnd, AfterRead, Goto, program
<1>5. ASSUME NEW c \in Boxes, WaitResolves(c) PROVE HasRead(b)
  BY <1>5 DEF WaitResolves, AfterWait, Goto, program
<1>6. ASSUME NEW c \in Boxes, DropAll(c) PROVE HasRead(b)
  BY <1>6 DEF DropAll, Goto, program
<1>7. ASSUME NEW c \in Boxes, JobStep(c) \/ WatchdogStep(c) \/ Read(c) PROVE HasRead(b)
  BY <1>7 DEF JobStep, WatchdogStep, JobReads, JobSeesEnd, JobWrites, JobForks, JobExits,
              ChildExits, WatchdogWakes, WatchdogKills, Read, program
<1>8. ASSUME UNCHANGED vars PROVE HasRead(b)
  BY <1>8 DEF vars, program
<1> QED
  BY <1>1, <1>2, <1>3, <1>4, <1>5, <1>6, <1>7, <1>8 DEF Next, ClientStep, Finished

LEMMA StdioInvNext == StdioInv /\ [Next]_vars => StdioInv'
<1> SUFFICES ASSUME StdioInv, [Next]_vars PROVE StdioInv'
  OBVIOUS
<1>1. TypeOK /\ TypeOK' /\ Streams /\ Streams'
  BY TypeNext DEF StdioInv
<1>2. ASSUME NEW b \in Boxes PROVE pc'[b] \in Fresh => job'[b] = "none"
  BY <1>1, JobStarts DEF StdioInv, NotStarted
<1>3. ASSUME NEW b \in Boxes, job'[b] = "none"
      PROVE  holds'[Job(b)] = {} /\ holds'[Child(b)] = {} /\ written'[b] = 0
  <2>1. job[b] = "none" /\ ~SpawnJob(b)
    BY <1>1, <1>3, JobStarts
  <2>2. holds[Job(b)] = {} /\ holds[Child(b)] = {} /\ written[b] = 0
    BY <2>1 DEF StdioInv, NotStarted
  <2> QED
    BY <1>1, <2>1, <2>2, HoldsStep, StreamStep
<1>4. ASSUME NEW b \in Boxes, HasRead(b)', output'[b] = "pipe"
      PROVE  /\ got'[b] = written'[b]
             /\ End(b, "out_w") \notin holds'[Job(b)] \cup holds'[Child(b)]
  <2>0. output[b] = "pipe"
    BY <1>4, Static DEF program
  <2>1. /\ got[b] = written[b]
        /\ End(b, "out_w") \notin holds[Job(b)] \cup holds[Child(b)]
        /\ ~SpawnJob(b) /\ got'[b] = got[b]
    <3>1. CASE HasRead(b)
      BY <1>1, <2>0, <3>1, StreamStep DEF StdioInv, ReadAll, HasRead, SpawnJob, Goto
    <3>2. CASE ReadEnd(b)
      <4>1. pc[b] = "read" /\ ~Readable(b) /\ ~Held(End(b, "out_w")) /\ output[b] = "pipe"
        BY <1>1, <2>0, <3>2 DEF ReadEnd, Goto
      <4>2. got[b] = written[b]
        <5>1. got[b] \in Int /\ written[b] \in Int /\ got[b] <= written[b]
          BY <1>1, BoundsAssumption DEF TypeOK
        <5>2. ~(got[b] < written[b])
          BY <4>1 DEF Readable
        <5> QED
          BY <5>1, <5>2
      <4>3. got'[b] = got[b] /\ ~SpawnJob(b)
        BY <3>2, <4>1 DEF ReadEnd, stream, SpawnJob, Goto
      <4> QED
        BY <4>1, <4>2, <4>3, ProcessFacts DEF Held
    <3>3. CASE SpawnFails(b)
      <4>1. pc[b] = "io_open" /\ job[b] = "none" /\ got'[b] = got[b] /\ zyg[b] = "dead"
        BY <1>1, <3>3 DEF SpawnFails, Goto, stream, StdioInv, NotStarted, Fresh
      <4>2. holds[Job(b)] = {} /\ holds[Child(b)] = {} /\ written[b] = 0
        BY <4>1 DEF StdioInv, NotStarted
      <4>3. got[b] = 0
        BY <1>1, <4>2, BoundsAssumption DEF TypeOK
      <4> QED
        BY <4>1, <4>2, <4>3 DEF SpawnJob
    <3> QED
      BY <1>1, <1>4, <3>1, <3>2, <3>3, ReadStep
  <2> QED
    BY <1>1, <2>1, HoldsStep, StreamStep
<1>5. ASSUME NEW b \in Boxes, HasRead(b)', output'[b] = "buffer", job'[b] # "none"
      PROVE  offset'[b] >= size'[b]
  <2>0. output[b] = "buffer" /\ size'[b] = size[b]
    BY <1>5, Static DEF program
  <2>1. offset[b] \in Nat /\ offset'[b] \in Nat /\ size[b] \in Nat /\ offset'[b] >= offset[b]
    BY <1>1, StreamStep DEF TypeOK
  <2>2. offset[b] >= size[b]
    <3>1. CASE HasRead(b)
      <4>1. ~SpawnJob(b)
        BY <3>1 DEF HasRead, SpawnJob, Goto
      <4> QED
        BY <1>1, <1>5, <2>0, <3>1, <4>1, JobStarts DEF StdioInv, PastSize
    <3>2. CASE ReadEnd(b)
      BY <2>0, <2>1, <3>2 DEF ReadEnd, Readable, InFile
    <3>3. CASE SpawnFails(b)
      BY <1>1, <1>5, <3>3 DEF SpawnFails, Goto, StdioInv, NotStarted, Fresh
    <3> QED
      BY <1>1, <1>5, <3>1, <3>2, <3>3, ReadStep
  <2> QED
    BY <2>0, <2>1, <2>2
<1> QED
  BY <1>1, <1>2, <1>3, <1>4, <1>5 DEF StdioInv, NotStarted, ReadAll, PastSize

\* A client that was told that its job's stdout is at its end has all that was
\* written to the pipe, for any number of clients and threads, any pipe, and
\* whoever is killed in the middle; a reader of a buffer gets nothing of it, and
\* NUL bytes for the rest of the size that the buffer was given.
THEOREM WholeOutputHolds == Spec => []WholeOutput
<1>1. StdioInv => WholeOutput
  <2> SUFFICES ASSUME StdioInv, NEW b \in Boxes
      PROVE  IF output[b] = "buffer"
             THEN got[b] = 0 /\ (HasRead(b) /\ job[b] # "none" => written[b] + nul[b] >= size[b])
             ELSE HasRead(b) => got[b] = written[b] /\ Writers(b) = {}
    BY DEF WholeOutput
  <2>1. CASE output[b] = "buffer"
    BY <2>1 DEF StdioInv, Streams, PastSize
  <2>2. CASE output[b] # "buffer"
    BY <2>2 DEF StdioInv, TypeOK, Streams, ReadAll, Writers, HasRead
  <2> QED
    BY <2>1, <2>2
<1> QED
  BY StdioInvInit, StdioInvNext, <1>1, PTL DEF Spec

=============================================================================
