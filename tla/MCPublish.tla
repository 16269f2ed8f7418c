----------------------------- MODULE MCPublish -----------------------------
(***************************************************************************)
(* Publish for TLC: the workflow and one maintainer, two versions, two     *)
(* contents.                                                               *)
(***************************************************************************)
EXTENDS Publish
=============================================================================
