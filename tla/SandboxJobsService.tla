------------------------- MODULE SandboxJobsService -------------------------
(***************************************************************************)
(* SandboxJobs implements JobService: the refinement mapping.  `by` names  *)
(* the client a process was forked for.                                    *)
(***************************************************************************)
EXTENDS SandboxJobs

JobsOf(c) == {q \in DOMAIN procs : procs[q].by = c}

absJob ==
  [c \in Clients |-> IF JobsOf(c) = {} THEN "none"
                     ELSE IF \E q \in JobsOf(c) : Running(q) THEN "running" ELSE "ended"]

absStatus ==
  [c \in Clients |-> IF JobsOf(c) = {} THEN None
                     ELSE procs[CHOOSE q \in JobsOf(c) : TRUE].status]

View == [idle |-> "idle", send_fds |-> "idle", info |-> "idle", event |-> "idle",
         child |-> "handle", exit_code |-> "handle", refused |-> "refused",
         failed |-> "failed", panicked |-> "failed", done |-> "reported",
         dropped |-> "dropped"]

absView == [c \in Clients |-> View[pc[c]]]
absCode == [c \in Clients |-> child[c].code]

Service == INSTANCE JobService WITH
             up <- info, job <- absJob, status <- absStatus,
             view <- absView, code <- absCode

\* When no system call fails, the sandbox implements the abstract service: a
\* handle is given only for a job that was started, spawn is refused only
\* after a kill, and a wait reports the job's own status or, after a kill,
\* KILLED.
ImplementsJobService == Service!Spec

\* The one sandbox, for ZygoteLock.
Boxes == {"sandbox"}

Busy == \E q \in DOMAIN procs : Running(q)

absZyg == IF Exited THEN "dead" ELSE IF sigkill THEN "signalled" ELSE "running"

Lock == INSTANCE ZygoteLock WITH
          held <- [s \in Boxes |-> owner # None], info <- [s \in Boxes |-> info],
          zyg <- [s \in Boxes |-> absZyg],
          jobs <- [s \in Boxes |-> Busy]

\* With every fault: a process is started only for a thread that has the mutex,
\* kill waits for that thread, and nothing is started afterwards.
ImplementsZygoteLock == Lock!Spec
=============================================================================
