---------------------------- MODULE MCConfigTxn ----------------------------
(***************************************************************************)
(* ConfigTxn for TLC.  The empty list and the one the validator refuses    *)
(* already tell an old list, a new one and none apart; the oldest form     *)
(* carries the fewest keys and the newest the most.                        *)
(***************************************************************************)
EXTENDS ConfigTxnInductive
=============================================================================
