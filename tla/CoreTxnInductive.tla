-------------------------- MODULE CoreTxnInductive --------------------------
(***************************************************************************)
(* The inductive invariant of CoreTxn: what holds at each step of a script *)
(* and in each phase a crash can leave behind.  Each part is an invariant  *)
(* of its own kind of state; together they imply the safety properties.    *)
(* Below it, the number of steps a script has left at each place, and what *)
(* recovery promises of its end.                                           *)
(***************************************************************************)
EXTENDS CoreTxn

InSwitch == Update \cup Switch
OwnUndo == pc \in Recovery /\ local.cause \in {"step", "health"}

\* Where the script is tells what the journal says.
JournalInv ==
  /\ Pending => /\ txn.phase \in Phases
                /\ txn.old \in Core /\ txn.new \in Core /\ txn.old # txn.new
                /\ ~rewritten => txn.on = enable
  /\ pc \in Life \cup Update \cup {"sample", "prepare", "drop"} => ~Pending
  /\ pc = "prepare" /\ ~rewritten => local.on = enable
  /\ pc \in {"halt", "backup", "copy", "mark"} => txn = Entry("prepared")
  /\ pc \in {"link", "switched"} => txn = Entry("backed_up")
  /\ pc \in {"launch", "health", "commit"} => txn = Entry("switched")
  /\ pc = "keep" => txn = Entry("committed")
  /\ pc \in Recovery \ {"recover"} => Uncommitted
  /\ OwnUndo => Uncommitted /\ txn.old = job.from /\ txn.new = job.to
  /\ pc = "clear" => Pending /\ (Uncommitted <=> local.cause \notin {"finish", "commit"})
  /\ pc \in Recovery => local.cause \in {"entry", "step", "health"}
  /\ pc \notin Recovery \cup Ending => local.cause = "entry"

\* The journal and the place in the script tell where the pointers are.
PointerInv ==
  /\ ~Pending => current # previous
  /\ Uncommitted => previous # txn.old /\ current \in {txn.old, txn.new}
  /\ Pending /\ txn.phase = "prepared" => current = txn.old
  /\ Pending /\ ~Uncommitted => current = txn.new
  /\ pc \in {"rec_state", "rec_start"} => current = txn.old
  /\ pc = "clear" => IF Uncommitted THEN current = txn.old ELSE previous = txn.old
  /\ pc \in InSwitch \ {"switched", "launch", "health", "commit", "keep"} => current = job.from
  /\ pc \in {"switched", "launch", "health", "commit", "keep"} => current = job.to
  /\ pc = "prune" => previous = None

\* Which daemon runs when.
DaemonInv ==
  /\ daemon \in {None, current}
  /\ pc \in {"backup", "copy", "mark", "link", "switched", "launch",
             "rec_link", "rec_state", "rec_start"} => daemon = None
  /\ Pending /\ txn.phase \in {"prepared", "backed_up"} => daemon # txn.new
  /\ Backed /\ SnapshotInUse => daemon # txn.old

\* The core directories the pointers, the journal and the script name.
DirectoryInv ==
  /\ NothingDangles
  /\ pc = "prune" => local.victim # current
  /\ pc = "prepare" => {job.from, job.to} \subseteq whole

\* The snapshot while it is made and once the journal refers to it.
SnapshotInv ==
  /\ state \subseteq 1..writes /\ stray \subseteq 1..writes /\ snap \subseteq 0..writes
  /\ SnapshotReady
  /\ SnapshotComplete
  /\ pc \in {"backup", "copy"} => local.had
  /\ pc \in {"prepare", "halt", "backup", "copy"} /\ local.had => state # {}
  /\ pc = "mark" /\ local.had => snap = state /\ state # {}

\* Rejected writes are in the state file only while their trial can be undone.
StrayInv ==
  state \cap stray # {} => /\ Pending /\ txn.phase = "switched" /\ txn.had
                           /\ daemon # txn.old
                           /\ pc \notin {"rec_start", "clear"}

\* What the running operation has recorded, and what it will report.
JobInv ==
  /\ ReportTrue
  /\ pc # "idle" => job.result = "running"
  /\ pc \in Life \ {"dispatch"} => job.kind \notin CoreOps
  /\ pc \in InSwitch =>
       /\ job.from \in Core /\ job.to \in Core
       /\ job.to > job.from \/ job.to = previous
  /\ pc \in Update => job.to > job.from
  /\ pc \in Switch \ {"sample"} => job.from # job.to
  /\ pc \in {"clear", "drop"} /\ local.cause = "commit" =>
       current = job.to /\ previous = job.from
  /\ pc \in {"clear", "drop"} /\ local.cause = "health" =>
       /\ current = job.from /\ previous # job.from
       /\ state \cap stray = {}

Relations ==
  /\ JournalInv /\ PointerInv /\ DaemonInv
  /\ DirectoryInv /\ SnapshotInv /\ StrayInv /\ JobInv

Inductive == TypeOK /\ Relations

-----------------------------------------------------------------------------
(* The steps a script has left *)

\* An upper bound on them: the longest way is a recovery, an update that makes
\* room and the undoing of its candidate.
StepsFrom ==
  [idle |-> 0, undo |-> 1, service_start |-> 2, only_stop |-> 2, service_stop |-> 3,
   drop |-> 1, clear |-> 2, rec_start |-> 3, rec_state |-> 4, rec_link |-> 5,
   rec_stop |-> 6, recover |-> 7,
   keep |-> 3, commit |-> 4, health |-> 8, launch |-> 9, switched |-> 10, link |-> 11,
   mark |-> 12, copy |-> 13, backup |-> 14, halt |-> 15, prepare |-> 16, sample |-> 17,
   place |-> 18, prune |-> 19, space |-> 21, dispatch |-> 22]

\* A recovery at the start has the operation itself before it.
AtEntry == pc \in Recovery \cup Ending /\ local.cause \in {"entry", "finish"}
StepsLeft ==
  StepsFrom[pc] + (IF AtEntry THEN StepsFrom["dispatch"] ELSE 0)
                + (IF pc = "prune" /\ local.victim \in whole THEN 1 ELSE 0)

\* Whatever fails, a script that holds the lock cannot go on for ever: each of
\* its steps leaves fewer of them, and only taking the free lock starts anew.
ScriptsEnd ==
  [][/\ ScriptStep => StepsLeft' < StepsLeft
     /\ StepsLeft' > StepsLeft => pc = "idle"]_vars

\* No script takes more than 29 steps, and there are none left only when it is over.
StepsBounded == StepsLeft \in 0 .. 29 /\ (StepsLeft = 0 <=> pc = "idle")

\* Whatever a crash left, in an earlier recovery too, recovery goes on until
\* the journal is gone: nothing but a command that fails, or another crash,
\* ends it before.
RecoveryGoesThrough ==
  [][(pc \in Recovery \cup {"clear"} /\ pc' = "idle") =>
       (faults' > faults \/ crashes' > crashes)]_vars
=============================================================================
