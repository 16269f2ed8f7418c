----------------------------- MODULE MCCoreLock -----------------------------
(***************************************************************************)
(* CoreLock for TLC: a recipe, and one with the same build number that     *)
(* pins c1 as d1; a third text, where a run has one, has its own number.   *)
(***************************************************************************)
EXTENDS CoreLock, TLC

CONSTANTS c1, d1

Builds == [t \in Text |-> IF t = 3 THEN 2 ELSE 1]
Pins == [t \in Text |-> IF t = 2 THEN [commit |-> c1, digest |-> d1] ELSE None]
=============================================================================
