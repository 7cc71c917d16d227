--------------------------- MODULE MCSandboxJobs ---------------------------
(***************************************************************************)
(* SandboxJobs on small instances.                                         *)
(***************************************************************************)
EXTENDS SandboxJobsService

\* All three stdio descriptors are given, with or without an extra one.  With
\* chunks of two descriptors a request takes two packets either way.
FullRequests == {[stdio |-> 3, extra |-> 0], [stdio |-> 3, extra |-> 1]}
OneRequest   == {[stdio |-> 3, extra |-> 0]}

MCStatuses == {0, 1}
MCPids2    == 2..3
MCPids3    == 2..4

=============================================================================
