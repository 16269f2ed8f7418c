-------------------------- MODULE SettingsPromise --------------------------
(***************************************************************************)
(* What the settings transaction of ts_mutation promises a reader of the   *)
(* settings, with the snapshot, the writes, the service and the way back   *)
(* hidden.                                                                 *)
(*                                                                         *)
(* While a submission is worked on, every item has its old value or the    *)
(* submitted one.  The verdict tells which: all of the submitted ones      *)
(* after a success, all of the old ones after a failure.  Only when the    *)
(* script was killed, or a command failed on the way back, may there be    *)
(* some of each, and then no verdict of success or failure without a word  *)
(* of it.  Nothing changes but on behalf of a submission.                  *)
(***************************************************************************)
CONSTANTS Item,      \* the items of the configuration
          Value      \* what an item can be

VARIABLES config,    \* the configuration in effect
          base,      \* the one in effect when the latest request came
          pending,   \* the submission: a value for some of the items
          verdict    \* on the latest request; "none" until it ends, or if it never did

promise == <<config, base, pending, verdict>>

Verdicts == {"none", "running", "success", "failed", "spoiled"}

IsSubmission(s) == DOMAIN s \subseteq Item /\ s \in [DOMAIN s -> Value]

\* The configuration with the submission in force.
With(c, s) == [i \in Item |-> IF i \in DOMAIN s THEN s[i] ELSE c[i]]

\* The configuration on the way from one to the other, in whatever order.
Between(c) ==
  /\ c \in [Item -> Value]
  /\ \A i \in Item : c[i] \in {base[i], With(base, pending)[i]}

Init == /\ config \in [Item -> Value] /\ base = config
        /\ pending = <<>>
        /\ verdict = "none"

\* A request comes when no other is worked on.  An operation that changes no
\* setting submits nothing.
Request == /\ verdict # "running" /\ verdict' = "running"
           /\ base' = config
           /\ IsSubmission(pending')
           /\ UNCHANGED config

\* One of the items is written, or written back.
Work == /\ verdict = "running"
        /\ Between(config')
        /\ UNCHANGED <<base, pending, verdict>>

Succeed == /\ verdict = "running" /\ verdict' = "success"
           /\ config' = With(base, pending)
           /\ UNCHANGED <<base, pending>>

Fail == /\ verdict = "running" /\ verdict' = "failed"
        /\ config' = base
        /\ UNCHANGED <<base, pending>>

\* The way back failed too, and the verdict tells.
Spoil == /\ verdict = "running" /\ verdict' = "spoiled"
         /\ Between(config')
         /\ UNCHANGED <<base, pending>>

\* The script is killed, or the router reboots and the verdict is lost: what
\* was written stays as it is.
Interrupt == /\ verdict' = "none"
             /\ UNCHANGED <<config, base, pending>>

Next == Request \/ Work \/ Succeed \/ Fail \/ Spoil \/ Interrupt

Spec == Init /\ [][Next]_promise
=============================================================================
