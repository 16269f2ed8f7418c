----------------------------- MODULE CoreSwitch -----------------------------
(***************************************************************************)
(* What the core transaction of tailscale_core_lib.sh promises, with every *)
(* intermediate step, journal phase and crash hidden.                      *)
(*                                                                         *)
(* At every moment one core is the accepted one and at most one other core *)
(* is kept to go back to.  The pair changes in two ways only: a switch     *)
(* installs a newer core, or the kept one, and keeps the core it replaces; *)
(* and the kept core may be given up to make room.  An attempt that fails, *)
(* or that a crash interrupts, is not visible here at all.                 *)
(***************************************************************************)
EXTENDS Integers

CONSTANT Core        \* the core versions, ordered by release and build

\* Cores are positive numbers: zero stands for "no core".
None == 0

VARIABLES selected,  \* the accepted core
          fallback   \* the core a manual rollback would return to, or None

promise == <<selected, fallback>>

Init == /\ selected \in Core
        /\ fallback \in (Core \ {selected}) \cup {None}

\* An update moves to a newer core and a manual rollback to the kept one.
\* Both leave the replaced core as the one to go back to.
Accept(core) == /\ core > selected \/ core = fallback
                /\ core \in Core
                /\ selected' = core
                /\ fallback' = selected

\* The kept core is removed when an update needs its space.
GiveUpFallback == /\ fallback' = None
                  /\ UNCHANGED selected

Next == (\E core \in Core : Accept(core)) \/ GiveUpFallback

Spec == Init /\ [][Next]_promise
=============================================================================
