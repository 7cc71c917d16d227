----------------------------- MODULE JobService -----------------------------
(***************************************************************************)
(* What a sandbox promises to the threads that use it, without mutex,      *)
(* socket or zygote: each client starts at most one job, and what it is    *)
(* told about that job is true.  SandboxJobs implements it.                *)
(***************************************************************************)
EXTENDS Integers

CONSTANTS Clients, Statuses, KilledStatus, KILLED, None

VARIABLES
  up,      \* the sandbox was not killed
  job,     \* "none", "running" or "ended"
  status,  \* how the job ended
  view,    \* what the client knows
  code     \* the exit code it was told

vars == <<up, job, status, view, code>>

Init ==
  /\ up = TRUE
  /\ job = [c \in Clients |-> "none"]
  /\ status = [c \in Clients |-> None]
  /\ view = [c \in Clients |-> "idle"]
  /\ code = [c \in Clients |-> None]

\* A job is started while the sandbox is up, before its client has a handle.
Start(c) ==
  /\ up /\ view[c] = "idle" /\ job[c] = "none"
  /\ job' = [job EXCEPT ![c] = "running"]
  /\ UNCHANGED <<up, status, view, code>>

\* spawn returns a child process.
Handle(c) ==
  /\ up /\ view[c] = "idle" /\ job[c] # "none"
  /\ view' = [view EXCEPT ![c] = "handle"]
  /\ UNCHANGED <<up, job, status, code>>

\* spawn returns SandboxGone: only after a kill, and no job was started.
Refuse(c) ==
  /\ ~up /\ view[c] = "idle" /\ job[c] = "none"
  /\ view' = [view EXCEPT ![c] = "refused"]
  /\ UNCHANGED <<up, job, status, code>>

Finish(c) ==
  /\ job[c] = "running"
  /\ job' = [job EXCEPT ![c] = "ended"]
  /\ \E s \in Statuses : status' = [status EXCEPT ![c] = s]
  /\ UNCHANGED <<up, view, code>>

\* wait_for_exit resolves with the job's own status while the sandbox is up ...
Report(c) ==
  /\ up /\ view[c] = "handle" /\ job[c] = "ended"
  /\ view' = [view EXCEPT ![c] = "reported"]
  /\ code' = [code EXCEPT ![c] = status[c]]
  /\ UNCHANGED <<up, job, status>>

\* ... and with KILLED afterwards, never before the job has ended.
ReportKilled(c) ==
  /\ ~up /\ view[c] = "handle" /\ job[c] = "ended"
  /\ view' = [view EXCEPT ![c] = "reported"]
  /\ code' = [code EXCEPT ![c] = KILLED]
  /\ UNCHANGED <<up, job, status>>

Forget(c) ==
  /\ view[c] = "handle"
  /\ view' = [view EXCEPT ![c] = "dropped"]
  /\ UNCHANGED <<up, job, status, code>>

Kill ==
  /\ up' = FALSE
  /\ UNCHANGED <<job, status, view, code>>

\* All jobs of a killed sandbox end.
Teardown ==
  /\ ~up
  /\ job' = [c \in Clients |-> IF job[c] = "running" THEN "ended" ELSE job[c]]
  /\ status' = [c \in Clients |-> IF job[c] = "running" THEN KilledStatus ELSE status[c]]
  /\ UNCHANGED <<up, view, code>>

Next ==
  \/ \E c \in Clients : \/ Start(c) \/ Handle(c) \/ Refuse(c) \/ Finish(c)
                        \/ Report(c) \/ ReportKilled(c) \/ Forget(c)
  \/ Kill \/ Teardown

Spec == Init /\ [][Next]_vars
=============================================================================
