----------------------------- MODULE ZygoteLock -----------------------------
(***************************************************************************)
(* What Mutex<Option<ZygoteInfo>> of a sandbox guarantees about its zygote *)
(* and processes, whoever uses it: a process is started only while a       *)
(* thread has the mutex and finds a ZygoteInfo in it, and the ZygoteInfo   *)
(* is taken out only while nobody has the mutex.  So a kill waits for the  *)
(* request that is being served, and nothing is started after it.          *)
(*                                                                         *)
(* Sandboxes, where a request only begins and ends, and SandboxJobs, where *)
(* it is a sequence of packets, both implement this.                       *)
(***************************************************************************)
CONSTANT Boxes  \* sandboxes

VARIABLES
  held,  \* a thread has the mutex of the sandbox
  info,  \* there is a ZygoteInfo in it
  zyg,   \* the zygote: "none", "running", "signalled", "dead", or "orphan" if
         \* its creation failed
  jobs   \* a process it started runs

vars == <<held, info, zyg, jobs>>

Init ==
  /\ held = [s \in Boxes |-> FALSE] /\ jobs = [s \in Boxes |-> FALSE]
  /\ \E alive \in BOOLEAN :
       /\ info = [s \in Boxes |-> alive]
       /\ zyg = [s \in Boxes |-> IF alive THEN "running" ELSE "none"]

\* The sandbox is created, or its creation fails with the zygote left behind.
Start(s) ==
  /\ zyg[s] = "none"
  /\ \/ zyg' = [zyg EXCEPT ![s] = "running"] /\ info' = [info EXCEPT ![s] = TRUE]
     \/ zyg' = [zyg EXCEPT ![s] = "orphan"] /\ info' = info
  /\ UNCHANGED <<held, jobs>>

\* A request begins only with a zygote to ask, ...
Lock(s) ==
  /\ ~held[s] /\ info[s]
  /\ held' = [held EXCEPT ![s] = TRUE]
  /\ UNCHANGED <<info, zyg, jobs>>

\* ... and ends.
Unlock(s) ==
  /\ held[s]
  /\ held' = [held EXCEPT ![s] = FALSE]
  /\ UNCHANGED <<info, zyg, jobs>>

\* The zygote starts a process for the request; that may be its last step.
Spawn(s) ==
  /\ held[s] /\ info[s] /\ zyg[s] = "running"
  /\ jobs' = [jobs EXCEPT ![s] = TRUE]
  /\ \E more \in BOOLEAN : held' = [held EXCEPT ![s] = more]
  /\ UNCHANGED <<info, zyg>>

\* The ZygoteInfo is taken out and dropped, between requests.
Kill(s) ==
  /\ ~held[s] /\ info[s]
  /\ info' = [info EXCEPT ![s] = FALSE]
  /\ zyg' = [zyg EXCEPT ![s] = IF @ = "running" THEN "signalled" ELSE @]
  /\ UNCHANGED <<held, jobs>>

\* The zygote ends, because of the signal or by itself.
Die(s) ==
  /\ zyg[s] \in {"running", "signalled"}
  /\ zyg' = [zyg EXCEPT ![s] = "dead"]
  /\ UNCHANGED <<held, info, jobs>>

\* The last process ends.
End(s) ==
  /\ jobs[s]
  /\ jobs' = [jobs EXCEPT ![s] = FALSE]
  /\ UNCHANGED <<held, info, zyg>>

Next == \E s \in Boxes : \/ Start(s) \/ Lock(s) \/ Unlock(s) \/ Spawn(s)
                         \/ Kill(s) \/ Die(s) \/ End(s)

Spec == Init /\ [][Next]_vars
=============================================================================
