----------------------------- MODULE MCCoreTxn -----------------------------
(***************************************************************************)
(* CoreTxn for TLC.  Three cores make the interesting case possible: an    *)
(* update away from a core that itself has one to go back to.              *)
(***************************************************************************)
EXTENDS CoreTxnInductive
=============================================================================
