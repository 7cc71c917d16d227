------------------------------ MODULE MCCApi ------------------------------
(***************************************************************************)
(* The C interface on a small instance: two sandboxes, two children in     *)
(* either of them.                                                         *)
(***************************************************************************)
EXTENDS CApi
=============================================================================
