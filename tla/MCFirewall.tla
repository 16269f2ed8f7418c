----------------------------- MODULE MCFirewall -----------------------------
(***************************************************************************)
(* Firewall for TLC.  Two NAT events can hit one refresh and the marker of *)
(* the other, or an address can change between its sample and its rule.    *)
(***************************************************************************)
EXTENDS Firewall
=============================================================================
