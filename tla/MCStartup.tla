----------------------------- MODULE MCStartup -----------------------------
(***************************************************************************)
(* Startup on small instances: one thread, or two that create sandboxes at *)
(* the same time.                                                          *)
(***************************************************************************)
EXTENDS Startup
=============================================================================
