------------------------------ MODULE MCStdio ------------------------------
(***************************************************************************)
(* Two clients with a pipe that is full after one write, on one thread or  *)
(* on one thread more than there are clients.                              *)
(***************************************************************************)
EXTENDS Stdio

MCWorkers  == {1, 3}
MCAllPlans == AllPlans

\* Clients differ in nothing but their plan: one order of the two is enough.
Rank(p) == CASE p = "cli" -> 1 [] p = "wait_read" -> 2 [] p = "read_wait" -> 3

\* With three threads, two different clients that use pipes, or one.
\* One client at most uses a buffer, of two bytes or of no size.
MCInit ==
  /\ Init
  /\ Rank(plan["a"]) <= Rank(plan["b"])
  /\ workers = 3 => plan["a"] = "cli" \/ plan["a"] # plan["b"]
  /\ output["a"] # "buffer" /\ (output["b"] = "buffer" => plan["a"] = "cli" /\ workers = 1)

MCSpec == MCInit /\ [][Next]_vars /\ Fairness
=============================================================================
