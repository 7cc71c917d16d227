------------------------------ MODULE MCJobFds ------------------------------
(***************************************************************************)
(* JobFds on small instances.                                              *)
(***************************************************************************)
EXTENDS JobFds

\* In the order they are opened: 0..2, the three tasks files of cgroup v1, each
\* with its duplicate (the handle), the socket pair, and two pipes.
MCInherited == 0..3 \cup {5, 7} \cup 9..14

\* The driver is prlimit, or cgroup v1.
MCHandles == {<<>>, <<4, 6, 8>>}

\* With cgroup v2 there is one file to write to.
V2Inherited == 0..3 \cup 5..10
V2Handles   == {<<4>>}

\* Up to two extra descriptors.  4 and 16 are numbers the zygote uses for a job's
\* descriptors, 30 and 31 are apart, 1 is stdout.
MCNames == {<<>>, <<30>>, <<30, 31>>, <<31, 30>>, <<16>>, <<4, 16>>, <<1>>, <<16, 30>>}

\* A program that reads nothing, one that is fed and whose output is captured in
\* a buffer or thrown away, and one that uses its caller's files.
MCStdio == {[stdin |-> "empty", stdout |-> "pipe", stderr |-> "pipe"],
            [stdin |-> "pipe", stdout |-> "buffer", stderr |-> "ignore"],
            [stdin |-> "reading", stdout |-> "writing", stderr |-> "reading"]}

MCRequests == {[stdin |-> io.stdin, stdout |-> io.stdout, stderr |-> io.stderr,
                names |-> s, rw |-> {}] : io \in MCStdio, s \in MCNames}
=============================================================================
