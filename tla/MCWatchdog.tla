----------------------------- MODULE MCWatchdog -----------------------------
(***************************************************************************)
(* Watchdog on small instances: half seconds, CPU limits of none, one and  *)
(* two of them, and a wall-clock limit that is passed or out of reach.     *)
(***************************************************************************)
EXTENDS Watchdog
=============================================================================
