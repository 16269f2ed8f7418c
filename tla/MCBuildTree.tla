---------------------------- MODULE MCBuildTree ----------------------------
(***************************************************************************)
(* BuildTree for TLC: a released core, another one with the same identity  *)
(* and a newer one; a package with both architectures and one with arm.    *)
(***************************************************************************)
EXTENDS BuildTree

CONSTANTS released, other, newer, universal, hnd

Identities == [l \in Lock |-> IF l = newer THEN 2 ELSE 1]
Contents == [p \in Platform |-> IF p = universal THEN Arch ELSE {"arm"}]
=============================================================================
