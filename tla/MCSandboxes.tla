---------------------------- MODULE MCSandboxes ----------------------------
(***************************************************************************)
(* Sandboxes on small instances.                                           *)
(***************************************************************************)
EXTENDS Sandboxes, TLC

\* Sandboxes are interchangeable where no liveness property is checked.
BoxSymmetry == Permutations(Boxes)
=============================================================================
