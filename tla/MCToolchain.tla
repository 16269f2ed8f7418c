---------------------------- MODULE MCToolchain ----------------------------
(***************************************************************************)
(* Toolchain for TLC: a source whose go line decides, one whose toolchain  *)
(* line does, and one that the baseline of the recipe lifts to a version   *)
(* the catalog does not offer, with a go line that the first one's         *)
(* compiler refuses.                                                       *)
(***************************************************************************)
EXTENDS Toolchain, TLC

Runs == Permutations(Run)
Sources == {[go |-> 1, toolchain |-> None, upstream |-> None],
            [go |-> 1, toolchain |-> 2, upstream |-> 1],
            [go |-> 2, toolchain |-> None, upstream |-> 3]}
=============================================================================
