---------------------------- MODULE MCWatchdog ----------------------------
(***************************************************************************)
(* Watchdog for TLC.  The limits keep their order (Grace < Patience < Gap  *)
(* < Day) and shrink; the clock reaches far enough for a third recovery,   *)
(* which is the first one that the rolling window can refuse or admit.     *)
(***************************************************************************)
EXTENDS Watchdog
=============================================================================
