---------------------------- MODULE CoreTxnProofs ----------------------------
(***************************************************************************)
(* The inductive invariant of CoreTxn, the safety properties it implies    *)
(* and the refinement of CoreSwitch, proved for every set of cores, every  *)
(* choice of operations and every bound.                                   *)
(*                                                                         *)
(* A step keeps the relations between the journal, the pointers, the       *)
(* daemon, the snapshot and the report only together: each lemma has one   *)
(* step per action, and under it one for each part that needs others.  Some*)
(* types rest on the relations too: a step assigns what an earlier one has *)
(* written down, such as the core the journal names.                       *)
(*                                                                         *)
(* At the end what can be proved of progress: each step of a script leaves *)
(* fewer, and recovery never stops before the journal is gone but for a    *)
(* failure or another crash.                                               *)
(***************************************************************************)
EXTENDS CoreTxnInductive, TLAPS

USE CoreAssumption, OpsAssumption
USE DEF None, Torn, NoTxn, Pending, Uncommitted, Phases, Causes, Results, Kinds,
        CoreOps, LifecycleOps, Steps, Recovery, Update, Switch, Ending, Life,
        InSwitch, flash, links, dirs, record, script, history, Inductive, Relations

-----------------------------------------------------------------------------
(* Types of the records, and of what the common steps assign *)

\* The fields of a journal, a report and the script's variables, and the
\* records that stand for none of them, have the types declared.
LEMMA FieldTypes ==
  /\ NoTxn \in Journal /\ NoJob \in Jobs /\ NoLocal \in Locals
  /\ txn \in Journal => txn.old \in Core \cup {None} /\ txn.new \in Core \cup {None}
  /\ job \in Jobs => job.from \in Core \cup {None} /\ job.to \in Core \cup {None}
  /\ local \in Locals => /\ local.had \in BOOLEAN /\ local.on \in BOOLEAN
                         /\ local.victim \in Core \cup {None}
BY DEF Journal, Jobs, Locals, NoJob, NoLocal

\* A script that finishes, moves on, begins to undo or chooses its target
\* leaves a well-typed place, report and variables.
LEMMA FinishTypes ==
  ASSUME job \in Jobs, NEW r \in Results, Finish(r)
  PROVE  pc' \in Steps \cup {"idle"} /\ job' \in Jobs /\ local' \in Locals
<1>1. job' \in Jobs BY DEF Finish, Jobs
<1>2. local' \in Locals BY DEF Finish, NoLocal, Locals
<1> QED BY <1>1, <1>2 DEF Finish

LEMMA GotoTypes ==
  ASSUME job \in Jobs, local \in Locals, NEW label \in Steps, Goto(label)
  PROVE  pc' \in Steps \cup {"idle"} /\ job' \in Jobs /\ local' \in Locals
BY DEF Goto

LEMMA UndoTypes ==
  ASSUME job \in Jobs, local \in Locals, NEW cause \in Causes, Undo(cause)
  PROVE  pc' \in Steps \cup {"idle"} /\ job' \in Jobs /\ local' \in Locals
BY DEF Undo, Locals

LEMMA TargetTypes ==
  ASSUME job \in Jobs, local \in Locals, current \in Core,
         NEW core \in Core \cup {None}, Target(core)
  PROVE  /\ job' \in Jobs /\ local' \in Locals
         /\ job'.from = current /\ job'.to = core
         /\ job'.kind = job.kind /\ job'.result = job.result
<1>1. job' \in Jobs BY DEF Target, Jobs
<1>2. job'.from = current /\ job'.to = core BY DEF Target, Jobs
<1>3. job'.kind = job.kind /\ job'.result = job.result BY DEF Target, Jobs
<1> QED BY <1>1, <1>2, <1>3 DEF Target

LEMMA EntryType ==
  ASSUME TypeOK, NEW phase \in Phases
  PROVE  Entry(phase) \in Journal
BY DEF TypeOK, Entry, Journal, Jobs, Locals

\* Changing one variable of the script, or starting a new report, keeps its type.
LEMMA ExceptTypes ==
  /\ local \in Locals => /\ \A c \in Causes : [local EXCEPT !.cause = c] \in Locals
                         /\ \A b \in BOOLEAN : [local EXCEPT !.had = b] \in Locals
                         /\ \A v \in Core \cup {None} : [local EXCEPT !.victim = v] \in Locals
  /\ \A k \in Kinds : [NoJob EXCEPT !.kind = k, !.result = "running"] \in Jobs
  /\ job \in Jobs => \A r \in Results : [job EXCEPT !.result = r] \in Jobs
<1>1. \A k \in Kinds : [NoJob EXCEPT !.kind = k, !.result = "running"] \in Jobs
  BY DEF NoJob, Jobs
<1>2. job \in Jobs => \A r \in Results : [job EXCEPT !.result = r] \in Jobs
  BY DEF Jobs
<1> QED BY <1>1, <1>2 DEF Locals

-----------------------------------------------------------------------------
(* The steps, one lemma for each script and one for its environment *)

\* Every step of recovery keeps the types.
LEMMA RecoveryTypes ==
  ASSUME Inductive, Recover
  PROVE  TypeOK'
<1> USE DEF TypeOK
<1>1. CASE RecoverNothing
  BY <1>1, GotoTypes DEF RecoverNothing
<1>2. CASE RecoverCommitted
  <2>1. pc' \in Steps \cup {"idle"} /\ job' \in Jobs /\ local' \in Locals
    BY <1>2, ExceptTypes, FinishTypes DEF RecoverCommitted, RecoverFails
  <2> QED BY <1>2, <2>1, FieldTypes DEF RecoverCommitted, Keeps, LinkFails, NoFault, Fault
<1>3. CASE RecoverBegin
  BY <1>3, FinishTypes, GotoTypes, FieldTypes DEF RecoverBegin, NoFault, RecoverFails, Fault
<1>4. CASE RecoverStop
  BY <1>4, FinishTypes, GotoTypes, FieldTypes DEF RecoverStop, Stopped, NoFault, RecoverFails, Fault
<1>5. CASE RecoverLink
  <2>1. current' \in Core
    BY <1>5, SMT DEF RecoverLink, LinkFails, JournalInv
  <2>2. pc' \in Steps \cup {"idle"} /\ job' \in Jobs /\ local' \in Locals
    BY <1>5, FinishTypes, GotoTypes DEF RecoverLink, RecoverFails
  <2> QED BY <1>5, <2>1, <2>2 DEF RecoverLink, NoFault, LinkFails, Fault
<1>6. CASE RecoverState
  <2>1. state' \subseteq Nat
    BY <1>6, Zenon DEF RecoverState
  <2>2. pc' \in Steps \cup {"idle"} /\ job' \in Jobs /\ local' \in Locals
    BY <1>6, FinishTypes, GotoTypes DEF RecoverState, RecoverFails
  <2> QED BY <1>6, <2>1, <2>2 DEF RecoverState, NoFault, Fault
<1>7. CASE RecoverStart
  BY <1>7, FinishTypes, GotoTypes, FieldTypes DEF RecoverStart, Started, NoFault, StartFails, RecoverFails, Running, Fault
<1>8. CASE Clear
  BY <1>8, GotoTypes, FieldTypes DEF Clear
<1>9. CASE Drop
  BY <1>9, FinishTypes, FieldTypes DEF Drop, NoFault, Fault
<1> QED BY <1>1, <1>2, <1>3, <1>4, <1>5, <1>6, <1>7, <1>8, <1>9 DEF Recover

\* Every step of an update or a rollback before its switch keeps the types.
LEMMA UpdateTypes ==
  ASSUME Inductive, UpdateStep
  PROVE  TypeOK'
<1> USE DEF TypeOK
<1>1. ASSUME NEW core \in Core, UpdateOffered(core)
      PROVE  TypeOK'
  <2>1. [job EXCEPT !.from = current, !.to = core, !.result = "success"] \in Jobs
    BY DEF Jobs
  <2>2. pc' \in Steps \cup {"idle"} /\ job' \in Jobs /\ local' \in Locals
    BY <1>1, <2>1, FinishTypes, TargetTypes, FieldTypes DEF UpdateOffered
  <2> QED BY <1>1, <2>1, <2>2 DEF UpdateOffered
<1>2. CASE SpaceCheck
  <2>1. pc' \in Steps \cup {"idle"} /\ job' \in Jobs /\ local' \in Locals
    BY <1>2, ExceptTypes, GotoTypes, FinishTypes DEF SpaceCheck
  <2> QED BY <1>2, <2>1 DEF SpaceCheck, DropLink
<1>3. CASE PruneBegin
  <2>1. whole' \subseteq Core /\ damaged' \subseteq Core
    BY <1>3, Zenon DEF PruneBegin
  <2> QED BY <1>3, <2>1 DEF PruneBegin
<1>4. CASE PruneEnd
  <2>1. damaged' \subseteq Core
    BY <1>4, Zenon DEF PruneEnd
  <2>2. pc' \in Steps \cup {"idle"} /\ job' \in Jobs /\ local' \in Locals
    BY <1>4, FinishTypes, GotoTypes DEF PruneEnd
  <2> QED BY <1>4, <2>1, <2>2 DEF PruneEnd
<1>5. CASE Place
  <2>1. job.to \in Core
    BY <1>5 DEF Place, JobInv
  <2>2. whole' \subseteq Core
    BY <1>5, <2>1, Zenon DEF Place
  <2>3. pc' \in Steps \cup {"idle"} /\ job' \in Jobs /\ local' \in Locals
    BY <1>5, FinishTypes, GotoTypes DEF Place
  <2> QED BY <1>5, <2>1, <2>2, <2>3 DEF Place
<1>6. CASE Rollback
  BY <1>6, TargetTypes, FinishTypes DEF Rollback
<1>7. CASE Check
  BY <1>7, FinishTypes, FieldTypes DEF Check
<1> QED BY <1>1, <1>2, <1>3, <1>4, <1>5, <1>6, <1>7 DEF UpdateStep

\* Every step of the switch keeps the types.
LEMMA SwitchTypes ==
  ASSUME Inductive, SwitchStep
  PROVE  TypeOK'
<1> USE DEF TypeOK
<1>1. CASE Sample
  <2>1. (state # {}) \in BOOLEAN
    OBVIOUS
  <2>2. [local EXCEPT !.had = (state # {}), !.on = enable] \in Locals
    BY <2>1 DEF Locals
  <2>3. pc' \in Steps \cup {"idle"} /\ job' \in Jobs /\ local' \in Locals
    BY <1>1, <2>2, FinishTypes DEF Sample
  <2>4. rewritten' \in BOOLEAN
    BY <1>1, Zenon DEF Sample
  <2>5. faults' \in Nat
    BY <1>1 DEF Sample, NoFault, Fault
  <2> QED BY <1>1, <2>3, <2>4, <2>5 DEF Sample
<1>2. CASE Prepare
  BY <1>2, FinishTypes, GotoTypes, EntryType, FieldTypes DEF Prepare, NoFault, Fault
<1>3. CASE Halt
  BY <1>3, GotoTypes, UndoTypes DEF Halt, Stopped, NoFault, Fault
<1>4. CASE BackupBegin
  BY <1>4, GotoTypes DEF BackupBegin
<1>5. CASE BackupEnd
  <2>1. snap' \subseteq Nat
    BY <1>5, Zenon DEF BackupEnd
  <2>2. pc' \in Steps \cup {"idle"} /\ job' \in Jobs /\ local' \in Locals
    BY <1>5, GotoTypes, UndoTypes DEF BackupEnd
  <2> QED BY <1>5, <2>1, <2>2 DEF BackupEnd, NoFault, Fault
<1>6. CASE MarkBackedUp
  BY <1>6, GotoTypes, UndoTypes, EntryType DEF MarkBackedUp, NoFault, Fault
<1>7. CASE Link
  <2>1. current' \in Core
    BY <1>7, SMT DEF Link, LinkFails, JobInv
  <2>2. pc' \in Steps \cup {"idle"} /\ job' \in Jobs /\ local' \in Locals
    BY <1>7, GotoTypes, UndoTypes DEF Link
  <2> QED BY <1>7, <2>1, <2>2 DEF Link, NoFault, LinkFails, Fault
<1>8. CASE MarkSwitched
  BY <1>8, GotoTypes, UndoTypes, EntryType DEF MarkSwitched, NoFault, Fault
<1>9. CASE Launch
  BY <1>9, GotoTypes, UndoTypes DEF Launch, Started, NoFault, StartFails, Running, Fault
<1>10. CASE Health
  BY <1>10, GotoTypes, UndoTypes DEF Health
<1>11. CASE Commit
  <2>1. stray' \subseteq Nat
    BY <1>11, Zenon DEF Commit
  <2>2. pc' \in Steps \cup {"idle"} /\ job' \in Jobs /\ local' \in Locals
    BY <1>11, FinishTypes, GotoTypes DEF Commit
  <2> QED BY <1>11, <2>1, <2>2, EntryType DEF Commit, NoFault, Fault
<1>12. CASE KeepOld
  <2>1. pc' \in Steps \cup {"idle"} /\ job' \in Jobs /\ local' \in Locals
    BY <1>12, ExceptTypes, FinishTypes DEF KeepOld
  <2> QED BY <1>12, <2>1, FieldTypes DEF KeepOld, Keeps, LinkFails, NoFault, Fault
<1> QED BY <1>1, <1>2, <1>3, <1>4, <1>5, <1>6, <1>7, <1>8, <1>9, <1>10, <1>11,
       <1>12 DEF SwitchStep

\* Every step of a lifecycle operation keeps the types.
LEMMA ServiceTypes ==
  ASSUME Inductive, ServiceStep
  PROVE  TypeOK'
<1> USE DEF TypeOK
<1>1. ASSUME NEW kind \in LifecycleOps, NEW label \in Life, Dispatch(kind, label)
      PROVE  TypeOK'
  BY <1>1, GotoTypes DEF Dispatch
<1>2. CASE Submit
  BY <1>2, FinishTypes, GotoTypes, FieldTypes DEF Submit, NoFault, Fault
<1>3. CASE OnlyStop
  BY <1>3, FinishTypes, GotoTypes, FieldTypes DEF OnlyStop, Stopped, NoFault, Fails, Fault
<1>4. CASE ServiceStop
  BY <1>4, FinishTypes, GotoTypes, FieldTypes DEF ServiceStop, Stopped, NoFault, Fails, Fault
<1>5. CASE ServiceStart
  BY <1>5, FinishTypes, GotoTypes, FieldTypes DEF ServiceStart, Started, NoFault, StartFails, Fails, Running, Fault
<1>6. CASE SubmitUndone
  BY <1>6, FinishTypes, FieldTypes DEF SubmitUndone
<1>7. CASE RefreshFirewall
  BY <1>7, FinishTypes, FieldTypes DEF RefreshFirewall
<1> QED BY <1>1, <1>2, <1>3, <1>4, <1>5, <1>6, <1>7 DEF ServiceStep

\* A request, the boot script, the daemon and a crash keep the types.
LEMMA EnvironmentTypes ==
  ASSUME Inductive, BootStart \/ Environment
  PROVE  TypeOK'
<1> USE DEF TypeOK
<1>1. ASSUME NEW kind \in Ops, Begin(kind)
      PROVE  TypeOK'
  <2>1. [NoJob EXCEPT !.kind = kind, !.result = "running"] \in Jobs
    BY ExceptTypes
  <2>2. pc' \in Steps \cup {"idle"} /\ job' \in Jobs /\ local' \in Locals
    BY <1>1, <2>1 DEF Begin
  <2> QED BY <1>1, <2>1, <2>2 DEF Begin
<1>2. CASE BootStart
  <2>1. boot' \in BOOLEAN
    BY <1>2, Zenon DEF BootStart
  <2>2. pc' \in Steps \cup {"idle"} /\ job' \in Jobs /\ local' \in Locals
    BY <1>2, ExceptTypes DEF BootStart
  <2> QED BY <1>2, <2>1, <2>2 DEF BootStart
<1>3. CASE WatchdogRestart
  <2>1. pc' \in Steps \cup {"idle"} /\ job' \in Jobs /\ local' \in Locals
    BY <1>3, ExceptTypes DEF WatchdogRestart
  <2> QED BY <1>3, <2>1 DEF WatchdogRestart
<1>4. CASE BootBusy
  <2>1. boot' \in BOOLEAN
    BY <1>4, Zenon DEF BootBusy
  <2> QED BY <1>4, <2>1 DEF BootBusy
<1>5. CASE DaemonWrites
  BY <1>5, FieldTypes DEF DaemonWrites, Trial
<1>6. CASE DaemonExits
  BY <1>6 DEF DaemonExits
<1>7. CASE Killed
  <2>1. pc' \in Steps \cup {"idle"} /\ job' \in Jobs /\ local' \in Locals
    BY <1>7, ExceptTypes, FieldTypes DEF Killed
  <2> QED BY <1>7, <2>1 DEF Killed, Crash
<1>8. CASE Reboot
  BY <1>8, FieldTypes DEF Reboot, Crash
<1>9. CASE SettingChanges
  BY <1>9, Zenon DEF SettingChanges
<1> QED BY <1>1, <1>2, <1>3, <1>4, <1>5, <1>6, <1>7, <1>8, <1>9 DEF Environment

-----------------------------------------------------------------------------
(* The relations *)

USE DEF Journal, Jobs, Locals, NoJob, NoLocal

\* Every step of ts_core_recover, and of what follows it, keeps the relations.
LEMMA RecoveryKeeps ==
  ASSUME Inductive, Recover
  PROVE  Relations'
<1> USE DEF TypeOK
<1>1. CASE RecoverNothing
  BY <1>1, SMT DEF RecoverNothing, Goto, JournalInv, PointerInv, DaemonInv,
     DirectoryInv, SnapshotInv, StrayInv, JobInv, Entry, OwnUndo, Backed,
     SnapshotInUse, NothingDangles, SnapshotReady, SnapshotComplete,
     ReportTrue
<1>2. CASE RecoverCommitted
  BY <1>2, SMT DEF RecoverCommitted, Keeps, NoFault, LinkFails, RecoverFails,
     Fault, Finish, JournalInv, PointerInv, DaemonInv, DirectoryInv,
     SnapshotInv, StrayInv, JobInv, Entry, OwnUndo, Backed, SnapshotInUse,
     NothingDangles, SnapshotReady, SnapshotComplete, ReportTrue
<1>3. CASE RecoverBegin
  BY <1>3, SMT DEF RecoverBegin, Goto, NoFault, RecoverFails, Fault, Finish,
     JournalInv, PointerInv, DaemonInv, DirectoryInv, SnapshotInv, StrayInv,
     JobInv, Entry, OwnUndo, Backed, SnapshotInUse, NothingDangles,
     SnapshotReady, SnapshotComplete, ReportTrue
<1>4. CASE RecoverStop
  <2> USE DEF RecoverStop, Stopped, Goto, NoFault, RecoverFails, Fault, Finish
  <2>1. JournalInv' /\ PointerInv' /\ DirectoryInv' /\ SnapshotInv' /\ JobInv'
    BY <1>4, SMT DEF JournalInv, PointerInv, DirectoryInv, SnapshotInv,
       JobInv, Entry, OwnUndo, NothingDangles, SnapshotReady,
       SnapshotComplete, ReportTrue, Backed, SnapshotInUse
  <2>2. DaemonInv'
    BY <1>4, SMT DEF DaemonInv, JournalInv, Backed, SnapshotInUse, Entry,
       OwnUndo
  <2>3. StrayInv'
    BY <1>4, SMT DEF StrayInv, JournalInv, Entry, OwnUndo
  <2> QED BY <2>1, <2>2, <2>3
<1>5. CASE RecoverLink
  <2> USE DEF RecoverLink, Goto, NoFault, LinkFails, RecoverFails, Fault,
      Finish
  <2>1. JournalInv' /\ DaemonInv' /\ SnapshotInv' /\ StrayInv' /\ JobInv'
    BY <1>5, SMT DEF JournalInv, DaemonInv, SnapshotInv, StrayInv, JobInv,
       Entry, OwnUndo, Backed, SnapshotInUse, SnapshotReady, SnapshotComplete,
       ReportTrue
  <2>2. PointerInv'
    BY <1>5, SMT DEF PointerInv, JournalInv, Entry, OwnUndo
  <2>3. DirectoryInv'
    BY <1>5, SMT DEF DirectoryInv, JournalInv, NothingDangles, Entry, OwnUndo
  <2> QED BY <2>1, <2>2, <2>3
<1>6. CASE RecoverState
  <2> USE DEF RecoverState, RestoresState, Goto, NoFault, RecoverFails, Fault,
      Finish
  <2>1. JournalInv' /\ PointerInv' /\ DaemonInv' /\ DirectoryInv' /\ SnapshotInv' /\ JobInv'
    BY <1>6, SMT DEF JournalInv, PointerInv, DaemonInv, DirectoryInv,
       SnapshotInv, JobInv, Entry, OwnUndo, Backed, SnapshotInUse,
       NothingDangles, SnapshotReady, SnapshotComplete, ReportTrue
  <2>2. StrayInv'
    BY <1>6, SMT DEF JournalInv, PointerInv, DaemonInv, DirectoryInv,
       SnapshotInv, StrayInv, JobInv, Entry, OwnUndo, Backed, SnapshotInUse,
       NothingDangles, SnapshotReady, SnapshotComplete, ReportTrue
  <2> QED BY <2>1, <2>2
<1>7. CASE RecoverStart
  <2> USE DEF RecoverStart, Started, Goto, NoFault, StartFails, RecoverFails,
      Running, Fault, Finish
  <2>1. JournalInv' /\ DirectoryInv' /\ SnapshotInv' /\ StrayInv'
    BY <1>7, SMT DEF JournalInv, DirectoryInv, SnapshotInv, StrayInv, Entry,
       OwnUndo, NothingDangles, SnapshotReady, SnapshotComplete, Backed,
       SnapshotInUse
  <2>2. PointerInv'
    BY <1>7, SMT DEF PointerInv, JournalInv, Entry, OwnUndo
  <2>3. DaemonInv'
    BY <1>7, SMT DEF DaemonInv, JournalInv, PointerInv, Backed, SnapshotInUse,
       Entry, OwnUndo
  <2>4. JobInv'
    BY <1>7, SMT DEF JobInv, JournalInv, PointerInv, DaemonInv, StrayInv,
       SnapshotInv, ReportTrue, Entry, OwnUndo, Backed, SnapshotInUse,
       SnapshotReady, SnapshotComplete
  <2> QED BY <2>1, <2>2, <2>3, <2>4
<1>8. CASE Clear
  <2> USE DEF Clear, Goto
  <2>1. JournalInv' /\ DaemonInv' /\ DirectoryInv' /\ SnapshotInv' /\ StrayInv' /\ JobInv'
    BY <1>8, SMT DEF JournalInv, DaemonInv, DirectoryInv, SnapshotInv,
       StrayInv, JobInv, Entry, OwnUndo, Backed, SnapshotInUse,
       NothingDangles, SnapshotReady, SnapshotComplete, ReportTrue
  <2>2. PointerInv'
    BY <1>8, SMT DEF PointerInv, JournalInv, Entry, OwnUndo
  <2> QED BY <2>1, <2>2
<1>9. CASE Drop
  <2> USE DEF Drop, NoFault, Finish, Fault
  <2>1. JournalInv' /\ PointerInv' /\ DaemonInv' /\ DirectoryInv' /\ StrayInv'
    BY <1>9, SMT DEF JournalInv, PointerInv, DaemonInv, DirectoryInv,
       StrayInv, Entry, OwnUndo, Backed, SnapshotInUse, NothingDangles
  <2>2. SnapshotInv'
    BY <1>9, SMT DEF SnapshotInv, JournalInv, SnapshotReady, SnapshotComplete,
       Entry, OwnUndo, Backed, SnapshotInUse
  <2>3. JobInv'
    BY <1>9, SMT DEF JobInv, JournalInv, ReportTrue, Entry, OwnUndo
  <2> QED BY <2>1, <2>2, <2>3
<1> QED BY <1>1, <1>2, <1>3, <1>4, <1>5, <1>6, <1>7, <1>8, <1>9 DEF Recover

\* Every step of ts_core_update and ts_core_rollback before the switch keeps them.
LEMMA UpdateKeeps ==
  ASSUME Inductive, UpdateStep
  PROVE  Relations'
<1> USE DEF TypeOK
<1>1. ASSUME NEW core \in Core, UpdateOffered(core)
      PROVE  Relations'
  <2>1. \/ /\ pc' = "space" /\ core > current /\ local' = local
           /\ job'.from = current /\ job'.to = core
           /\ job'.kind = job.kind /\ job'.result = job.result
        \/ /\ pc' = "idle" /\ core = current /\ local' = NoLocal
           /\ job'.from = current /\ job'.to = core
           /\ job'.kind = job.kind /\ job'.result = "success"
        \/ pc' = "idle" /\ job'.result = "failed" /\ local' = NoLocal
    BY <1>1, TargetTypes DEF UpdateOffered, Target, Finish, Jobs
  <2>2. pc = "dispatch" /\ job.kind = "update" /\ UNCHANGED <<flash, daemon, history>>
    BY <1>1 DEF UpdateOffered
  <2>3. JournalInv' /\ DaemonInv' /\ DirectoryInv' /\ SnapshotInv' /\ StrayInv'
    BY <2>1, <2>2, SMT DEF JournalInv, DaemonInv, DirectoryInv, SnapshotInv,
       StrayInv, OwnUndo, Backed, SnapshotInUse, SnapshotReady, SnapshotComplete,
       NothingDangles, NoLocal
  <2>4. PointerInv'
    BY <2>1, <2>2, SMT DEF JournalInv, PointerInv
  <2>5. JobInv'
    BY <2>1, <2>2, SMT DEF JournalInv, PointerInv, JobInv, ReportTrue
  <2> QED BY <2>3, <2>4, <2>5
<1>2. CASE SpaceCheck
  <2> USE DEF SpaceCheck, Goto, Finish, DropLink
  <2>1. JournalInv' /\ DaemonInv' /\ DirectoryInv' /\ SnapshotInv' /\ StrayInv'
    BY <1>2, SMT DEF JournalInv, DaemonInv, DirectoryInv, SnapshotInv,
       StrayInv, Entry, OwnUndo, Backed, SnapshotInUse, NothingDangles,
       SnapshotReady, SnapshotComplete
  <2>2. PointerInv'
    BY <1>2, SMT DEF PointerInv, JournalInv, Entry, OwnUndo
  <2>3. JobInv'
    BY <1>2, SMT DEF JournalInv, PointerInv, DaemonInv, DirectoryInv,
       SnapshotInv, StrayInv, JobInv, Entry, OwnUndo, Backed, SnapshotInUse,
       NothingDangles, SnapshotReady, SnapshotComplete, ReportTrue
  <2> QED BY <2>1, <2>2, <2>3
<1>3. CASE PruneBegin
  <2> USE DEF PruneBegin
  <2>1. JournalInv' /\ PointerInv' /\ DaemonInv' /\ SnapshotInv' /\ StrayInv' /\ JobInv'
    BY <1>3, SMT DEF JournalInv, PointerInv, DaemonInv, SnapshotInv, StrayInv,
       JobInv, Entry, OwnUndo, Backed, SnapshotInUse, SnapshotReady,
       SnapshotComplete, ReportTrue
  <2>2. DirectoryInv'
    BY <1>3, SMT DEF DirectoryInv, JournalInv, PointerInv, DaemonInv,
       NothingDangles, Entry, OwnUndo, Backed, SnapshotInUse
  <2> QED BY <2>1, <2>2
<1>4. CASE PruneEnd
  BY <1>4, SMT DEF PruneEnd, Goto, Finish, JournalInv, PointerInv, DaemonInv,
     DirectoryInv, SnapshotInv, StrayInv, JobInv, Entry, OwnUndo, Backed,
     SnapshotInUse, NothingDangles, SnapshotReady, SnapshotComplete,
     ReportTrue
<1>5. CASE Place
  <2> USE DEF Place, Goto, Finish
  <2>1. JournalInv'
    BY <1>5, SMT DEF JournalInv, Entry, OwnUndo
  <2>2. PointerInv'
    BY <1>5, SMT DEF PointerInv, JournalInv, Entry, OwnUndo
  <2>3. DaemonInv'
    BY <1>5, SMT DEF DaemonInv, JournalInv, Backed, SnapshotInUse, Entry,
       OwnUndo
  <2>4. DirectoryInv'
    BY <1>5, SMT DEF DirectoryInv, JournalInv, NothingDangles, Entry, OwnUndo
  <2>5. SnapshotInv'
    BY <1>5, SMT DEF SnapshotInv, JournalInv, SnapshotReady, SnapshotComplete,
       Entry, OwnUndo, Backed, SnapshotInUse
  <2>6. StrayInv'
    BY <1>5, SMT DEF StrayInv, JournalInv, Entry, OwnUndo
  <2>7. JobInv'
    BY <1>5, SMT DEF JobInv, JournalInv, ReportTrue, Entry, OwnUndo
  <2> QED BY <2>1, <2>2, <2>3, <2>4, <2>5, <2>6, <2>7
<1>6. CASE Rollback
  <2>1. \/ /\ pc' = "sample" /\ previous # None /\ local' = local
           /\ job'.from = current /\ job'.to = previous
           /\ job'.kind = job.kind /\ job'.result = job.result
        \/ pc' = "idle" /\ job'.result = "failed" /\ local' = NoLocal
    BY <1>6, TargetTypes DEF Rollback, Target, Finish, Jobs
  <2>2. pc = "dispatch" /\ job.kind = "rollback" /\ UNCHANGED <<flash, daemon, history>>
    BY <1>6 DEF Rollback
  <2>3. JournalInv' /\ DaemonInv' /\ DirectoryInv' /\ SnapshotInv' /\ StrayInv'
    BY <2>1, <2>2, SMT DEF JournalInv, DaemonInv, DirectoryInv, SnapshotInv,
       StrayInv, OwnUndo, Backed, SnapshotInUse, SnapshotReady, SnapshotComplete,
       NothingDangles, NoLocal
  <2>4. PointerInv'
    BY <2>1, <2>2, SMT DEF JournalInv, PointerInv
  <2>5. JobInv'
    BY <2>1, <2>2, SMT DEF JournalInv, PointerInv, JobInv, ReportTrue
  <2> QED BY <2>3, <2>4, <2>5
<1>7. CASE Check
  BY <1>7, SMT DEF Check, Finish, JournalInv, PointerInv, DaemonInv,
     DirectoryInv, SnapshotInv, StrayInv, JobInv, Entry, OwnUndo, Backed,
     SnapshotInUse, NothingDangles, SnapshotReady, SnapshotComplete,
     ReportTrue
<1> QED BY <1>1, <1>2, <1>3, <1>4, <1>5, <1>6, <1>7 DEF UpdateStep

\* Every step of ts_core_switch keeps them.
LEMMA SwitchKeeps ==
  ASSUME Inductive, SwitchStep
  PROVE  Relations'
<1> USE DEF TypeOK
<1>1. CASE Sample
  <2>1. /\ pc = "sample" /\ UNCHANGED <<flash, daemon, writes, stray>>
        /\ \/ /\ pc' = "prepare" /\ job.to # current /\ {job.to, current} \subseteq whole
              /\ local'.had = (state # {}) /\ local'.on = enable /\ ~rewritten'
              /\ local'.cause = local.cause /\ job' = job
           \/ /\ pc' = "idle" /\ local' = NoLocal /\ job'.kind = job.kind
              /\ job'.from = job.from /\ job'.to = job.to
              /\ \/ job.to = current /\ job'.result = "success"
                 \/ job'.result = "failed"
    BY <1>1 DEF Sample, Finish
  <2>2. ~Pending /\ ~Pending' /\ local'.cause = "entry"
    BY <2>1 DEF JournalInv
  <2>3. JournalInv'
    BY <2>1, <2>2, SMT DEF JournalInv, OwnUndo
  <2>4. PointerInv' /\ DaemonInv' /\ StrayInv'
    BY <2>1, <2>2, SMT DEF PointerInv, DaemonInv, StrayInv, Backed
  <2>5. DirectoryInv'
    BY <2>1, <2>2, SMT DEF DirectoryInv, PointerInv, NothingDangles
  <2>6. SnapshotInv'
    BY <2>1, <2>2, SMT DEF SnapshotInv, SnapshotReady, SnapshotComplete, Backed
  <2>7. JobInv'
    BY <2>1, <2>2, SMT DEF JobInv, PointerInv, ReportTrue
  <2> QED BY <2>3, <2>4, <2>5, <2>6, <2>7
<1>2. CASE Prepare
  <2> USE DEF Prepare, Entry, Goto, NoFault, Finish, Fault
  <2>1. DirectoryInv' /\ SnapshotInv' /\ JobInv'
    BY <1>2, SMT DEF DirectoryInv, SnapshotInv, JobInv, NothingDangles,
       SnapshotReady, SnapshotComplete, ReportTrue, Backed, SnapshotInUse
  <2>2. JournalInv'
    BY <1>2, SMT DEF JournalInv, PointerInv, JobInv, OwnUndo, ReportTrue
  <2>3. PointerInv'
    BY <1>2, SMT DEF PointerInv, JournalInv, OwnUndo
  <2>4. DaemonInv'
    BY <1>2, SMT DEF DaemonInv, JournalInv, PointerInv, JobInv, Backed,
       SnapshotInUse, OwnUndo, ReportTrue
  <2>5. StrayInv'
    BY <1>2, SMT DEF StrayInv, JournalInv, OwnUndo
  <2> QED BY <2>1, <2>2, <2>3, <2>4, <2>5
<1>3. CASE Halt
  <2> USE DEF Halt, Stopped, Goto, NoFault, Undo, Fault
  <2>1. JournalInv' /\ PointerInv' /\ DirectoryInv' /\ JobInv'
    BY <1>3, SMT DEF JournalInv, PointerInv, DirectoryInv, JobInv, Entry,
       OwnUndo, NothingDangles, ReportTrue
  <2>2. DaemonInv'
    BY <1>3, SMT DEF DaemonInv, JournalInv, Backed, SnapshotInUse, Entry,
       OwnUndo
  <2>3. SnapshotInv'
    BY <1>3, SMT DEF SnapshotInv, JournalInv, SnapshotReady, SnapshotComplete,
       Entry, OwnUndo, Backed, SnapshotInUse
  <2>4. StrayInv'
    BY <1>3, SMT DEF StrayInv, JournalInv, Entry, OwnUndo
  <2> QED BY <2>1, <2>2, <2>3, <2>4
<1>4. CASE BackupBegin
  <2> USE DEF BackupBegin, Goto
  <2>1. JournalInv' /\ PointerInv' /\ DaemonInv' /\ DirectoryInv' /\ StrayInv' /\ JobInv'
    BY <1>4, SMT DEF JournalInv, PointerInv, DaemonInv, DirectoryInv,
       StrayInv, JobInv, Entry, OwnUndo, Backed, SnapshotInUse,
       NothingDangles, ReportTrue
  <2>2. SnapshotInv'
    BY <1>4, SMT DEF SnapshotInv, JournalInv, SnapshotReady, SnapshotComplete,
       Entry, OwnUndo, Backed, SnapshotInUse
  <2> QED BY <2>1, <2>2
<1>5. CASE BackupEnd
  <2> USE DEF BackupEnd, Goto, NoFault, Undo, Fault
  <2>1. JournalInv' /\ PointerInv' /\ DirectoryInv' /\ StrayInv' /\ JobInv'
    BY <1>5, SMT DEF JournalInv, PointerInv, DirectoryInv, StrayInv, JobInv,
       Entry, OwnUndo, NothingDangles, ReportTrue
  <2>2. DaemonInv'
    BY <1>5, SMT DEF DaemonInv, JournalInv, Backed, SnapshotInUse, Entry,
       OwnUndo
  <2>3. SnapshotInv'
    BY <1>5, SMT DEF SnapshotInv, JournalInv, SnapshotReady, SnapshotComplete,
       Entry, OwnUndo, Backed, SnapshotInUse
  <2> QED BY <2>1, <2>2, <2>3
<1>6. CASE MarkBackedUp
  <2> USE DEF MarkBackedUp, Entry, Goto, NoFault, Undo, Fault
  <2>1. JournalInv' /\ JobInv'
    BY <1>6, SMT DEF JournalInv, JobInv, OwnUndo, ReportTrue
  <2>2. PointerInv'
    BY <1>6, SMT DEF PointerInv, JournalInv, OwnUndo
  <2>3. DaemonInv'
    BY <1>6, SMT DEF DaemonInv, JournalInv, Backed, SnapshotInUse, OwnUndo
  <2>4. DirectoryInv'
    BY <1>6, SMT DEF DirectoryInv, JournalInv, NothingDangles, OwnUndo
  <2>5. SnapshotInv'
    BY <1>6, SMT DEF SnapshotInv, JournalInv, PointerInv, DaemonInv, StrayInv,
       SnapshotReady, SnapshotComplete, OwnUndo, Backed, SnapshotInUse
  <2>6. StrayInv'
    BY <1>6, SMT DEF StrayInv, JournalInv, OwnUndo
  <2> QED BY <2>1, <2>2, <2>3, <2>4, <2>5, <2>6
<1>7. CASE Link
  <2> USE DEF Link, Goto, NoFault, LinkFails, Undo, Fault
  <2>1. JournalInv' /\ DaemonInv' /\ SnapshotInv' /\ StrayInv' /\ JobInv'
    BY <1>7, SMT DEF JournalInv, DaemonInv, SnapshotInv, StrayInv, JobInv,
       Entry, OwnUndo, Backed, SnapshotInUse, SnapshotReady, SnapshotComplete,
       ReportTrue
  <2>2. PointerInv'
    BY <1>7, SMT DEF PointerInv, JournalInv, Entry, OwnUndo
  <2>3. DirectoryInv'
    BY <1>7, SMT DEF DirectoryInv, JournalInv, NothingDangles, Entry, OwnUndo
  <2> QED BY <2>1, <2>2, <2>3
<1>8. CASE MarkSwitched
  <2> USE DEF MarkSwitched, Entry, Goto, NoFault, Undo, Fault
  <2>1. JournalInv' /\ JobInv'
    BY <1>8, SMT DEF JournalInv, JobInv, OwnUndo, ReportTrue
  <2>2. PointerInv'
    BY <1>8, SMT DEF PointerInv, JournalInv, OwnUndo
  <2>3. DaemonInv'
    BY <1>8, SMT DEF DaemonInv, JournalInv, Backed, SnapshotInUse, OwnUndo
  <2>4. DirectoryInv'
    BY <1>8, SMT DEF DirectoryInv, JournalInv, NothingDangles, OwnUndo
  <2>5. SnapshotInv'
    BY <1>8, SMT DEF SnapshotInv, JournalInv, SnapshotReady, SnapshotComplete,
       OwnUndo, Backed, SnapshotInUse
  <2>6. StrayInv'
    BY <1>8, SMT DEF StrayInv, JournalInv, OwnUndo
  <2> QED BY <2>1, <2>2, <2>3, <2>4, <2>5, <2>6
<1>9. CASE Launch
  <2> USE DEF Launch, Started, Goto, NoFault, StartFails, Undo, Running, Fault
  <2>1. JournalInv' /\ PointerInv' /\ DirectoryInv' /\ SnapshotInv' /\ JobInv'
    BY <1>9, SMT DEF JournalInv, PointerInv, DirectoryInv, SnapshotInv,
       JobInv, Entry, OwnUndo, NothingDangles, SnapshotReady,
       SnapshotComplete, ReportTrue, Backed, SnapshotInUse
  <2>2. DaemonInv'
    BY <1>9, SMT DEF DaemonInv, JournalInv, PointerInv, Backed, SnapshotInUse,
       Entry, OwnUndo
  <2>3. StrayInv'
    BY <1>9, SMT DEF StrayInv, JournalInv, PointerInv, DaemonInv, Entry,
       OwnUndo, Backed, SnapshotInUse
  <2> QED BY <2>1, <2>2, <2>3
<1>10. CASE Health
  BY <1>10, SMT DEF Health, Goto, Undo, JournalInv, PointerInv, DaemonInv,
     DirectoryInv, SnapshotInv, StrayInv, JobInv, Entry, OwnUndo, Backed,
     SnapshotInUse, NothingDangles, SnapshotReady, SnapshotComplete,
     ReportTrue
<1>11. CASE Commit
  <2> USE DEF Commit, Entry, Goto, NoFault, Finish, Fault
  <2>1. JournalInv' /\ PointerInv' /\ DaemonInv' /\ SnapshotInv' /\ StrayInv' /\ JobInv'
    BY <1>11, SMT DEF JournalInv, PointerInv, DaemonInv, SnapshotInv,
       StrayInv, JobInv, OwnUndo, Backed, SnapshotInUse, SnapshotReady,
       SnapshotComplete, ReportTrue
  <2>2. DirectoryInv'
    BY <1>11, SMT DEF DirectoryInv, JournalInv, NothingDangles, OwnUndo
  <2> QED BY <2>1, <2>2
<1>12. CASE KeepOld
  <2> USE DEF KeepOld, Keeps, NoFault, LinkFails, Finish, Fault
  <2>1. JournalInv' /\ DaemonInv' /\ SnapshotInv'
    BY <1>12, SMT DEF JournalInv, DaemonInv, SnapshotInv, Entry, OwnUndo,
       Backed, SnapshotInUse, SnapshotReady, SnapshotComplete
  <2>2. PointerInv'
    BY <1>12, SMT DEF PointerInv, JournalInv, Entry, OwnUndo
  <2>3. DirectoryInv'
    BY <1>12, SMT DEF DirectoryInv, JournalInv, NothingDangles, Entry, OwnUndo
  <2>4. StrayInv'
    BY <1>12, SMT DEF StrayInv, JournalInv, Entry, OwnUndo
  <2>5. JobInv'
    BY <1>12, SMT DEF JobInv, JournalInv, PointerInv, DaemonInv, ReportTrue,
       Entry, OwnUndo, Backed, SnapshotInUse
  <2> QED BY <2>1, <2>2, <2>3, <2>4, <2>5
<1> QED BY <1>1, <1>2, <1>3, <1>4, <1>5, <1>6, <1>7, <1>8, <1>9, <1>10, <1>11,
       <1>12 DEF SwitchStep

\* Every step of ts_mutation and of the watchdog's restart keeps them.
LEMMA ServiceKeeps ==
  ASSUME Inductive, ServiceStep
  PROVE  Relations'
<1> USE DEF TypeOK
<1>1. ASSUME NEW kind \in LifecycleOps, NEW label \in Life, Dispatch(kind, label)
      PROVE  Relations'
  BY <1>1, SMT DEF Dispatch, Goto, JournalInv, PointerInv, DaemonInv,
     DirectoryInv, SnapshotInv, StrayInv, JobInv, Entry, OwnUndo, Backed,
     SnapshotInUse, NothingDangles, SnapshotReady, SnapshotComplete,
     ReportTrue
<1>2. CASE Submit
  BY <1>2, SMT DEF Submit, Goto, NoFault, Finish, Fault, JournalInv,
     PointerInv, DaemonInv, DirectoryInv, SnapshotInv, StrayInv, JobInv,
     Entry, OwnUndo, Backed, SnapshotInUse, NothingDangles, SnapshotReady,
     SnapshotComplete, ReportTrue
<1>3. CASE OnlyStop
  <2> USE DEF OnlyStop, Stopped, Finish, NoFault, Fails, Fault, Goto
  <2>1. JournalInv' /\ PointerInv' /\ DirectoryInv' /\ SnapshotInv' /\ JobInv'
    BY <1>3, SMT DEF JournalInv, PointerInv, DirectoryInv, SnapshotInv,
       JobInv, Entry, OwnUndo, NothingDangles, SnapshotReady,
       SnapshotComplete, ReportTrue, Backed, SnapshotInUse
  <2>2. DaemonInv'
    BY <1>3, SMT DEF DaemonInv, JournalInv, Backed, SnapshotInUse, Entry,
       OwnUndo
  <2>3. StrayInv'
    BY <1>3, SMT DEF StrayInv, JournalInv, Entry, OwnUndo
  <2> QED BY <2>1, <2>2, <2>3
<1>4. CASE ServiceStop
  <2> USE DEF ServiceStop, Stopped, Goto, NoFault, Fails, Fault, Finish
  <2>1. JournalInv' /\ PointerInv' /\ DirectoryInv' /\ SnapshotInv' /\ JobInv'
    BY <1>4, SMT DEF JournalInv, PointerInv, DirectoryInv, SnapshotInv,
       JobInv, Entry, OwnUndo, NothingDangles, SnapshotReady,
       SnapshotComplete, ReportTrue, Backed, SnapshotInUse
  <2>2. DaemonInv'
    BY <1>4, SMT DEF DaemonInv, JournalInv, Backed, SnapshotInUse, Entry,
       OwnUndo
  <2>3. StrayInv'
    BY <1>4, SMT DEF StrayInv, JournalInv, Entry, OwnUndo
  <2> QED BY <2>1, <2>2, <2>3
<1>5. CASE ServiceStart
  <2> USE DEF ServiceStart, Started, Finish, NoFault, StartFails, Fails,
      Running, Fault, Goto
  <2>1. JournalInv' /\ PointerInv' /\ DirectoryInv' /\ SnapshotInv' /\ JobInv'
    BY <1>5, SMT DEF JournalInv, PointerInv, DirectoryInv, SnapshotInv,
       JobInv, Entry, OwnUndo, NothingDangles, SnapshotReady,
       SnapshotComplete, ReportTrue, Backed, SnapshotInUse
  <2>2. DaemonInv'
    BY <1>5, SMT DEF DaemonInv, JournalInv, Backed, SnapshotInUse, Entry,
       OwnUndo
  <2>3. StrayInv'
    BY <1>5, SMT DEF StrayInv, JournalInv, Entry, OwnUndo
  <2> QED BY <2>1, <2>2, <2>3
<1>6. CASE SubmitUndone
  <2> USE DEF SubmitUndone, Finish
  <2>1. JournalInv' /\ PointerInv' /\ DirectoryInv' /\ SnapshotInv' /\ JobInv'
    BY <1>6, SMT DEF JournalInv, PointerInv, DirectoryInv, SnapshotInv,
       JobInv, Entry, OwnUndo, NothingDangles, SnapshotReady,
       SnapshotComplete, ReportTrue, Backed, SnapshotInUse
  <2>2. DaemonInv'
    BY <1>6, SMT DEF DaemonInv, JournalInv, Backed, SnapshotInUse, Entry,
       OwnUndo
  <2>3. StrayInv'
    BY <1>6, SMT DEF StrayInv, JournalInv, Entry, OwnUndo
  <2> QED BY <2>1, <2>2, <2>3
<1>7. CASE RefreshFirewall
  BY <1>7, SMT DEF RefreshFirewall, Finish, JournalInv, PointerInv, DaemonInv,
     DirectoryInv, SnapshotInv, StrayInv, JobInv, Entry, OwnUndo, Backed,
     SnapshotInUse, NothingDangles, SnapshotReady, SnapshotComplete,
     ReportTrue
<1> QED BY <1>1, <1>2, <1>3, <1>4, <1>5, <1>6, <1>7 DEF ServiceStep

\* A request, the boot script, the daemon, a killed script and a reboot keep them.
LEMMA EnvironmentKeeps ==
  ASSUME Inductive, BootStart \/ Environment
  PROVE  Relations'
<1> USE DEF TypeOK
<1>1. ASSUME NEW kind \in Ops, Begin(kind)
      PROVE  Relations'
  <2> USE DEF Begin
  <2>1. PointerInv' /\ DirectoryInv' /\ StrayInv' /\ JobInv'
    BY <1>1, SMT DEF PointerInv, DirectoryInv, StrayInv, JobInv,
       NothingDangles, ReportTrue
  <2>2. JournalInv'
    BY <1>1, SMT DEF JournalInv, PointerInv, DaemonInv, DirectoryInv,
       SnapshotInv, StrayInv, JobInv, Entry, OwnUndo, Backed, SnapshotInUse,
       NothingDangles, SnapshotReady, SnapshotComplete, ReportTrue
  <2>3. DaemonInv'
    BY <1>1, SMT DEF JournalInv, PointerInv, DaemonInv, DirectoryInv,
       SnapshotInv, StrayInv, JobInv, Entry, OwnUndo, Backed, SnapshotInUse,
       NothingDangles, SnapshotReady, SnapshotComplete, ReportTrue
  <2>4. SnapshotInv'
    BY <1>1, SMT DEF JournalInv, PointerInv, DaemonInv, DirectoryInv,
       SnapshotInv, StrayInv, JobInv, Entry, OwnUndo, Backed, SnapshotInUse,
       NothingDangles, SnapshotReady, SnapshotComplete, ReportTrue
  <2> QED BY <2>1, <2>2, <2>3, <2>4
<1>2. CASE BootStart
  <2> USE DEF BootStart
  <2>1. PointerInv' /\ DirectoryInv' /\ StrayInv' /\ JobInv'
    BY <1>2, SMT DEF PointerInv, DirectoryInv, StrayInv, JobInv,
       NothingDangles, ReportTrue
  <2>2. JournalInv'
    BY <1>2, SMT DEF JournalInv, PointerInv, DaemonInv, DirectoryInv,
       SnapshotInv, StrayInv, JobInv, Entry, OwnUndo, Backed, SnapshotInUse,
       NothingDangles, SnapshotReady, SnapshotComplete, ReportTrue
  <2>3. DaemonInv'
    BY <1>2, SMT DEF JournalInv, PointerInv, DaemonInv, DirectoryInv,
       SnapshotInv, StrayInv, JobInv, Entry, OwnUndo, Backed, SnapshotInUse,
       NothingDangles, SnapshotReady, SnapshotComplete, ReportTrue
  <2>4. SnapshotInv'
    BY <1>2, SMT DEF JournalInv, PointerInv, DaemonInv, DirectoryInv,
       SnapshotInv, StrayInv, JobInv, Entry, OwnUndo, Backed, SnapshotInUse,
       NothingDangles, SnapshotReady, SnapshotComplete, ReportTrue
  <2> QED BY <2>1, <2>2, <2>3, <2>4
<1>3. CASE WatchdogRestart
  <2>1. pc' = "service_stop" /\ ~Pending' /\ local' = local /\ local.cause = "entry"
    BY <1>3 DEF WatchdogRestart, WatchdogMayAct, JournalInv
  <2>2. JournalInv'
    BY <1>3, <2>1 DEF JournalInv, OwnUndo
  <2>3. PointerInv' /\ DaemonInv' /\ DirectoryInv' /\ SnapshotInv' /\ StrayInv' /\ JobInv'
    BY <1>3, SMT DEF WatchdogRestart, WatchdogMayAct, PointerInv, DaemonInv,
       DirectoryInv, SnapshotInv, StrayInv, JobInv, Backed, SnapshotInUse,
       NothingDangles, SnapshotReady, SnapshotComplete, ReportTrue
  <2> QED BY <2>2, <2>3
<1>4. CASE BootBusy
  BY <1>4, SMT DEF BootBusy, JournalInv, PointerInv, DaemonInv, DirectoryInv,
     SnapshotInv, StrayInv, JobInv, Entry, OwnUndo, Backed, SnapshotInUse,
     NothingDangles, SnapshotReady, SnapshotComplete, ReportTrue
<1>5. CASE DaemonWrites
  <2> USE DEF DaemonWrites, Trial
  <2>1. JournalInv' /\ PointerInv' /\ DaemonInv' /\ DirectoryInv'
    BY <1>5, SMT DEF JournalInv, PointerInv, DaemonInv, DirectoryInv, Entry,
       OwnUndo, Backed, SnapshotInUse, NothingDangles
  <2>2. SnapshotInv'
    BY <1>5, SMT DEF SnapshotInv, JournalInv, PointerInv, DaemonInv,
       SnapshotReady, SnapshotComplete, Entry, OwnUndo, Backed, SnapshotInUse
  <2>3. StrayInv'
    BY <1>5, SMT DEF StrayInv, JournalInv, PointerInv, DaemonInv, SnapshotInv,
       Entry, OwnUndo, Backed, SnapshotInUse, SnapshotReady, SnapshotComplete
  <2>4. JobInv'
    BY <1>5, SMT DEF JobInv, JournalInv, PointerInv, DaemonInv, StrayInv,
       SnapshotInv, ReportTrue, Entry, OwnUndo, Backed, SnapshotInUse,
       SnapshotReady, SnapshotComplete
  <2> QED BY <2>1, <2>2, <2>3, <2>4
<1>6. CASE DaemonExits
  <2> USE DEF DaemonExits
  <2>1. JournalInv' /\ PointerInv' /\ DirectoryInv' /\ SnapshotInv' /\ JobInv'
    BY <1>6, SMT DEF JournalInv, PointerInv, DirectoryInv, SnapshotInv,
       JobInv, Entry, OwnUndo, NothingDangles, SnapshotReady,
       SnapshotComplete, ReportTrue, Backed, SnapshotInUse
  <2>2. DaemonInv'
    BY <1>6, SMT DEF DaemonInv, JournalInv, Backed, SnapshotInUse, Entry,
       OwnUndo
  <2>3. StrayInv'
    BY <1>6, SMT DEF StrayInv, JournalInv, Entry, OwnUndo
  <2> QED BY <2>1, <2>2, <2>3
<1>7. CASE Killed
  BY <1>7, SMT DEF Killed, Crash, JournalInv, PointerInv, DaemonInv,
     DirectoryInv, SnapshotInv, StrayInv, JobInv, Entry, OwnUndo, Backed,
     SnapshotInUse, NothingDangles, SnapshotReady, SnapshotComplete,
     ReportTrue
<1>8. CASE Reboot
  <2> USE DEF Reboot, Crash
  <2>1. JournalInv' /\ PointerInv' /\ DirectoryInv' /\ SnapshotInv' /\ JobInv'
    BY <1>8, SMT DEF JournalInv, PointerInv, DirectoryInv, SnapshotInv,
       JobInv, Entry, OwnUndo, NothingDangles, SnapshotReady,
       SnapshotComplete, ReportTrue, Backed, SnapshotInUse
  <2>2. DaemonInv'
    BY <1>8, SMT DEF DaemonInv, JournalInv, Backed, SnapshotInUse, Entry,
       OwnUndo
  <2>3. StrayInv'
    BY <1>8, SMT DEF StrayInv, JournalInv, Entry, OwnUndo
  <2> QED BY <2>1, <2>2, <2>3
<1>9. CASE SettingChanges
  <2> USE DEF SettingChanges
  <2>1. JournalInv'
    BY <1>9, SMT DEF JournalInv, Entry, OwnUndo
  <2>2. PointerInv' /\ DaemonInv' /\ DirectoryInv' /\ SnapshotInv' /\ StrayInv' /\ JobInv'
    BY <1>9 DEF PointerInv, DaemonInv, DirectoryInv, SnapshotInv, StrayInv, JobInv, Backed,
       SnapshotInUse, NothingDangles, SnapshotReady, SnapshotComplete, ReportTrue
  <2> QED BY <2>1, <2>2
<1> QED BY <1>1, <1>2, <1>3, <1>4, <1>5, <1>6, <1>7, <1>8, <1>9 DEF Environment

-----------------------------------------------------------------------------
(* The invariant *)

\* It holds when the router is first powered on with the plugin installed.
LEMMA InitiallyInductive == Init => Inductive
<1> SUFFICES ASSUME Init PROVE Inductive OBVIOUS
<1>1. TypeOK
  <2>1. NoTxn \in Journal /\ NoJob \in Jobs /\ NoLocal \in Locals
    BY FieldTypes
  <2>2. state \subseteq Nat /\ writes \in Nat
    BY DEF Init
  <2> HIDE DEF Journal, Jobs, Locals, NoJob, NoLocal, NoTxn
  <2> QED BY <2>1, <2>2 DEF Init, TypeOK
<1>2. Relations
  BY SMT DEF Init, JournalInv, PointerInv, DaemonInv, DirectoryInv, SnapshotInv,
     StrayInv, JobInv, OwnUndo, Backed, SnapshotInUse, SnapshotReady,
     SnapshotComplete, NothingDangles, ReportTrue
<1> QED BY <1>1, <1>2

\* Every step keeps it.
LEMMA StepKeeps == Inductive /\ [Next]_vars => Inductive'
<1> SUFFICES ASSUME Inductive, [Next]_vars PROVE Inductive' OBVIOUS
<1>1. CASE Recover
  BY <1>1, RecoveryTypes, RecoveryKeeps
<1>2. CASE UpdateStep
  BY <1>2, UpdateTypes, UpdateKeeps
<1>3. CASE SwitchStep
  BY <1>3, SwitchTypes, SwitchKeeps
<1>4. CASE ServiceStep
  BY <1>4, ServiceTypes, ServiceKeeps
<1>5. CASE BootStart \/ Environment
  BY <1>5, EnvironmentTypes, EnvironmentKeeps
<1>6. CASE UNCHANGED vars
  BY <1>6 DEF vars, TypeOK, JournalInv, PointerInv, DaemonInv, DirectoryInv,
     SnapshotInv, StrayInv, JobInv, OwnUndo, Backed, SnapshotInUse, SnapshotReady,
     SnapshotComplete, NothingDangles, ReportTrue, Entry
<1> QED BY <1>1, <1>2, <1>3, <1>4, <1>5, <1>6 DEF Next, ScriptStep

\* In every reachable state the journal, the pointers, the daemon, the snapshot
\* and the report stand in the relations that recovery relies on.
THEOREM InductiveInvariant == Spec => []Inductive
BY InitiallyInductive, StepKeeps, PTL DEF Spec

\* Every variable keeps its type.
THEOREM TypeCorrect == Spec => []TypeOK
<1>1. Inductive => TypeOK OBVIOUS
<1> QED BY <1>1, InductiveInvariant, PTL

-----------------------------------------------------------------------------
(* What follows from it *)

\* Whenever the journal sends recovery to update.state, a complete copy without
\* a candidate's writes is there.
THEOREM RecoveryHasSnapshot == Spec => []SnapshotReady
<1>1. Inductive => SnapshotReady BY DEF SnapshotInv
<1> QED BY <1>1, InductiveInvariant, PTL

\* That copy lacks nothing the replaced core saved, until recovery has used it.
THEOREM SnapshotLosesNothing == Spec => []SnapshotComplete
<1>1. Inductive => SnapshotComplete BY DEF SnapshotInv
<1> QED BY <1>1, InductiveInvariant, PTL

\* A core other than the candidate never runs on what a rejected trial wrote.
THEOREM TrialIsUndone == Spec => []NoCoreOnStrayState
<1>1. Inductive => NoCoreOnStrayState
  BY DEF TypeOK, NoCoreOnStrayState, Trial, StrayInv, DaemonInv, PointerInv
<1> QED BY <1>1, InductiveInvariant, PTL

\* The pointers and the journal only name complete core directories.
THEOREM PointersAreWhole == Spec => []NothingDangles
<1>1. Inductive => NothingDangles BY DEF DirectoryInv
<1> QED BY <1>1, InductiveInvariant, PTL

\* Nothing but recovery and the switch acts while a transaction is pending.
THEOREM TransactionExcludes == Spec => []PendingIsExclusive
<1>1. Inductive => PendingIsExclusive BY DEF JournalInv, PendingIsExclusive
<1> QED BY <1>1, InductiveInvariant, PTL

\* The running daemon is the core DATA/current names.
THEOREM DaemonIsCurrent == Spec => []ServiceMatchesPointer
<1>1. Inductive => ServiceMatchesPointer BY DEF DaemonInv, ServiceMatchesPointer
<1> QED BY <1>1, InductiveInvariant, PTL

\* Only what the web server stores without the lock makes the journal's copy of
\* the enable setting stale.
THEOREM SettingIsFresh == Spec => []RestartMatchesSetting
<1>1. Inductive => RestartMatchesSetting BY DEF JournalInv, RestartMatchesSetting
<1> QED BY <1>1, InductiveInvariant, PTL

\* What a finished update or rollback reported is true of the flash.
THEOREM ReportsAreTrue == Spec => []ReportTrue
<1>1. Inductive => ReportTrue BY DEF JobInv
<1> QED BY <1>1, InductiveInvariant, PTL

-----------------------------------------------------------------------------
(* The refinement of CoreSwitch *)

Accepted == IF Uncommitted THEN txn.old ELSE current
Kept == IF Pending /\ ~Uncommitted THEN txn.old ELSE previous

\* A step of CoreTxn as CoreSwitch sees it.
Visible ==
  \/ UNCHANGED <<Accepted, Kept>>
  \/ /\ Accepted' \in Core
     /\ Accepted' > Accepted \/ Accepted' = Kept
     /\ Kept' = Accepted
  \/ Accepted' = Accepted /\ Kept' = None

\* Recovery is not visible.
LEMMA RecoveryVisible ==
  ASSUME Inductive, Recover
  PROVE  Visible
<1> USE DEF TypeOK, JournalInv, PointerInv, Accepted, Kept, Visible
<1>1. CASE RecoverNothing
  BY <1>1, SMT DEF RecoverNothing
<1>2. CASE RecoverCommitted
  BY <1>2, SMT DEF RecoverCommitted, Keeps, LinkFails
<1>3. CASE RecoverBegin
  BY <1>3, SMT DEF RecoverBegin
<1>4. CASE RecoverStop
  BY <1>4, SMT DEF RecoverStop
<1>5. CASE RecoverLink
  BY <1>5, SMT DEF RecoverLink, LinkFails
<1>6. CASE RecoverState
  BY <1>6, SMT DEF RecoverState, RestoresState
<1>7. CASE RecoverStart
  BY <1>7, SMT DEF RecoverStart
<1>8. CASE Clear
  BY <1>8, SMT DEF Clear, Goto
<1>9. CASE Drop
  BY <1>9, SMT DEF Drop
<1> QED BY <1>1, <1>2, <1>3, <1>4, <1>5, <1>6, <1>7, <1>8, <1>9 DEF Recover

\* Giving up the kept core is all an update shows before it commits.
LEMMA UpdateVisible ==
  ASSUME Inductive, UpdateStep
  PROVE  Visible
<1> USE DEF TypeOK, JournalInv, PointerInv, Accepted, Kept, Visible
<1>1. ASSUME NEW core \in Core, UpdateOffered(core)
      PROVE  Visible
  BY <1>1, SMT DEF UpdateOffered
<1>2. CASE SpaceCheck
  BY <1>2, SMT DEF SpaceCheck, DropLink
<1>3. CASE PruneBegin
  BY <1>3, SMT DEF PruneBegin
<1>4. CASE PruneEnd
  BY <1>4, SMT DEF PruneEnd
<1>5. CASE Place
  BY <1>5, SMT DEF Place
<1>6. CASE Rollback
  BY <1>6, SMT DEF Rollback
<1>7. CASE Check
  BY <1>7, SMT DEF Check
<1> QED BY <1>1, <1>2, <1>3, <1>4, <1>5, <1>6, <1>7 DEF UpdateStep

\* Of the steps of a switch only the rename of the committed journal is visible.
LEMMA SwitchVisible ==
  ASSUME Inductive, SwitchStep
  PROVE  Visible
<1> USE DEF TypeOK, JournalInv, PointerInv, Accepted, Kept, Visible
<1>1. CASE Sample
  BY <1>1, SMT DEF Sample
<1>2. CASE Prepare
  BY <1>2, SMT DEF Prepare, Entry, Goto, Finish
<1>3. CASE Halt
  BY <1>3, SMT DEF Halt
<1>4. CASE BackupBegin
  BY <1>4, SMT DEF BackupBegin
<1>5. CASE BackupEnd
  BY <1>5, SMT DEF BackupEnd
<1>6. CASE MarkBackedUp
  BY <1>6, SMT DEF MarkBackedUp, Entry, Goto, Undo
<1>7. CASE Link
  BY <1>7, SMT DEF Link, LinkFails, Entry, Goto, Undo
<1>8. CASE MarkSwitched
  BY <1>8, SMT DEF MarkSwitched, Entry, Goto, Undo
<1>9. CASE Launch
  BY <1>9, SMT DEF Launch
<1>10. CASE Health
  BY <1>10, SMT DEF Health
<1>11. CASE Commit
  <2>1. txn = Entry("switched") /\ current = job.to /\ job.from \in Core /\ job.to \in Core
    BY <1>11, SMT DEF Commit, JobInv
  <2>2. Accepted = job.from /\ Kept = previous
    BY <2>1 DEF Entry
  <2>3. job.to > job.from \/ job.to = previous
    BY <1>11 DEF Commit, JobInv
  <2>4. CASE txn' = Entry("committed")
    <3>1. Accepted' = job.to /\ Kept' = job.from
      BY <1>11, <2>1, <2>4 DEF Commit, Entry
    <3> QED BY <2>1, <2>2, <2>3, <3>1
  <2>5. CASE txn' = txn
    BY <1>11, <2>5 DEF Commit
  <2> QED BY <1>11, <2>4, <2>5 DEF Commit
<1>12. CASE KeepOld
  BY <1>12, SMT DEF KeepOld, Keeps, LinkFails, Entry
<1> QED BY <1>1, <1>2, <1>3, <1>4, <1>5, <1>6, <1>7, <1>8, <1>9, <1>10, <1>11,
       <1>12 DEF SwitchStep

\* Lifecycle operations are not visible.
LEMMA ServiceVisible ==
  ASSUME Inductive, ServiceStep
  PROVE  Visible
<1> USE DEF TypeOK, JournalInv, PointerInv, Accepted, Kept, Visible
<1>1. ASSUME NEW kind \in LifecycleOps, NEW label \in Life, Dispatch(kind, label)
      PROVE  Visible
  BY <1>1, SMT DEF Dispatch
<1>2. CASE Submit
  BY <1>2, SMT DEF Submit
<1>3. CASE OnlyStop
  BY <1>3, SMT DEF OnlyStop
<1>4. CASE ServiceStop
  BY <1>4, SMT DEF ServiceStop
<1>5. CASE ServiceStart
  BY <1>5, SMT DEF ServiceStart
<1>6. CASE SubmitUndone
  BY <1>6, SMT DEF SubmitUndone
<1>7. CASE RefreshFirewall
  BY <1>7, SMT DEF RefreshFirewall
<1> QED BY <1>1, <1>2, <1>3, <1>4, <1>5, <1>6, <1>7 DEF ServiceStep

\* Requests, the daemon's writes, kills and reboots are not visible.
LEMMA EnvironmentVisible ==
  ASSUME Inductive, BootStart \/ Environment
  PROVE  Visible
<1> USE DEF TypeOK, JournalInv, PointerInv, Accepted, Kept, Visible
<1>1. ASSUME NEW kind \in Ops, Begin(kind)
      PROVE  Visible
  BY <1>1, SMT DEF Begin
<1>2. CASE BootStart
  BY <1>2, SMT DEF BootStart
<1>3. CASE WatchdogRestart
  BY <1>3, SMT DEF WatchdogRestart, WatchdogMayAct
<1>4. CASE BootBusy
  BY <1>4, SMT DEF BootBusy
<1>5. CASE DaemonWrites
  BY <1>5, SMT DEF DaemonWrites, Trial
<1>6. CASE DaemonExits
  BY <1>6, SMT DEF DaemonExits
<1>7. CASE Killed
  BY <1>7, SMT DEF Killed, Crash
<1>8. CASE Reboot
  BY <1>8, SMT DEF Reboot, Crash
<1>9. CASE SettingChanges
  BY <1>9 DEF SettingChanges
<1> QED BY <1>1, <1>2, <1>3, <1>4, <1>5, <1>6, <1>7, <1>8, <1>9 DEF Environment

\* The initial states are those of CoreSwitch.
LEMMA InitRefines == Init => Promise!Init
BY DEF Init, Promise!Init, Promise!None

\* Every step is one of CoreSwitch or hidden from it.
LEMMA StepRefines == Inductive /\ [Next]_vars => [Promise!Next]_(Promise!promise)
<1> SUFFICES ASSUME Inductive, [Next]_vars
             PROVE  [Promise!Next]_(Promise!promise)
  OBVIOUS
<1>1. Visible
  <2>1. CASE Next
    BY <2>1, RecoveryVisible, UpdateVisible, SwitchVisible, ServiceVisible,
       EnvironmentVisible DEF Next, ScriptStep
  <2>2. CASE UNCHANGED vars
    BY <2>2 DEF vars, Visible, Accepted, Kept
  <2> QED BY <2>1, <2>2
<1> QED
  BY <1>1 DEF Visible, Accepted, Kept, Promise!promise, Promise!Next,
     Promise!Accept, Promise!GiveUpFallback, Promise!None

\* Every behaviour, whatever fails and whenever power is lost, is one in which
\* cores are switched at once or not at all.
THEOREM SwitchingIsAtomic == Spec => SwitchesAtomically
BY InitRefines, StepRefines, InductiveInvariant, PTL
   DEF Spec, SwitchesAtomically, Promise!Spec

-----------------------------------------------------------------------------
(* The steps a script has left *)

\* The bound on the steps from each place.
LEMMA StepsFromIs ==
  /\ StepsFrom["idle"] = 0 /\ StepsFrom["undo"] = 1 /\ StepsFrom["service_start"] = 2
  /\ StepsFrom["only_stop"] = 2 /\ StepsFrom["service_stop"] = 3 /\ StepsFrom["drop"] = 1
  /\ StepsFrom["clear"] = 2 /\ StepsFrom["rec_start"] = 3 /\ StepsFrom["rec_state"] = 4
  /\ StepsFrom["rec_link"] = 5 /\ StepsFrom["rec_stop"] = 6 /\ StepsFrom["recover"] = 7
  /\ StepsFrom["keep"] = 3 /\ StepsFrom["commit"] = 4 /\ StepsFrom["health"] = 8
  /\ StepsFrom["launch"] = 9 /\ StepsFrom["switched"] = 10 /\ StepsFrom["link"] = 11
  /\ StepsFrom["mark"] = 12 /\ StepsFrom["copy"] = 13 /\ StepsFrom["backup"] = 14
  /\ StepsFrom["halt"] = 15 /\ StepsFrom["prepare"] = 16 /\ StepsFrom["sample"] = 17
  /\ StepsFrom["place"] = 18 /\ StepsFrom["prune"] = 19 /\ StepsFrom["space"] = 21
  /\ StepsFrom["dispatch"] = 22
BY DEF StepsFrom

\* They are a number up to 29, and none only where no script runs.
LEMMA StepsType == Inductive => StepsBounded
<1> SUFFICES ASSUME Inductive PROVE StepsBounded OBVIOUS
<1>1. pc \in Steps \cup {"idle"}
  BY DEF TypeOK
<1> QED BY <1>1, StepsFromIs, SMT DEF StepsBounded, StepsLeft, AtEntry

\* The same after a step.
LEMMA StepsTypeNext == Inductive' => StepsBounded'
BY StepsType, PTL

\* A script that has finished has no steps left.
LEMMA FinishedIsLess ==
  ASSUME Inductive, pc # "idle", pc' = "idle"
  PROVE  StepsLeft' < StepsLeft
<1>1. StepsLeft \in 0 .. 29 /\ StepsLeft # 0
  BY StepsType DEF StepsBounded
<1>2. StepsLeft' = 0
  BY StepsFromIs, SMT DEF StepsLeft, AtEntry
<1> QED BY <1>1, <1>2

\* A step of recovery leaves fewer of them: the recovery a failed switch asks
\* for never turns into one that goes on with an operation.
LEMMA RecoveryStepsDown ==
  ASSUME Inductive, Recover
  PROVE  StepsLeft' < StepsLeft
<1> USE StepsFromIs DEF StepsLeft, AtEntry
<1>0. local \in Locals /\ local.cause \in Causes
  BY DEF TypeOK
<1>1. CASE pc' = "idle"
  <2>1. pc # "idle"
    BY DEF Recover, RecoverNothing, RecoverCommitted, RecoverBegin, RecoverStop, RecoverLink,
       RecoverState, RecoverStart, Clear, Drop
  <2> QED BY <1>1, <2>1, FinishedIsLess
<1>2. CASE RecoverNothing
  BY <1>0, <1>2, SMT DEF RecoverNothing, Goto, JournalInv, OwnUndo
<1>3. CASE RecoverCommitted
  <2>1. CASE pc' = "clear"
    BY <1>0, <1>3, <2>1, SMT DEF RecoverCommitted, JournalInv, OwnUndo, RecoverFails, Finish
  <2> QED BY <1>1, <1>3, <2>1 DEF RecoverCommitted, RecoverFails, Finish
<1>4. CASE RecoverBegin
  BY <1>0, <1>1, <1>4, SMT DEF RecoverBegin, Goto, RecoverFails, Finish
<1>5. CASE RecoverStop
  BY <1>0, <1>1, <1>5, SMT DEF RecoverStop, Goto, RecoverFails, Finish
<1>6. CASE RecoverLink
  BY <1>0, <1>1, <1>6, SMT DEF RecoverLink, Goto, RecoverFails, Finish
<1>7. CASE RecoverState
  BY <1>0, <1>1, <1>7, SMT DEF RecoverState, Goto, RecoverFails, Finish
<1>8. CASE RecoverStart
  BY <1>0, <1>1, <1>8, SMT DEF RecoverStart, Goto, RecoverFails, Finish
<1>9. CASE Clear
  BY <1>0, <1>9, SMT DEF Clear, Goto
<1>10. CASE Drop
  BY <1>0, <1>1, <1>10, SMT DEF Drop, Finish
<1> QED BY <1>2, <1>3, <1>4, <1>5, <1>6, <1>7, <1>8, <1>9, <1>10 DEF Recover

\* So does a step of an update or a rollback before the switch; the directory
\* that is removed stops being whole once.
LEMMA UpdateStepsDown ==
  ASSUME Inductive, UpdateStep
  PROVE  StepsLeft' < StepsLeft
<1> USE StepsFromIs DEF StepsLeft, AtEntry
<1>1. CASE pc' = "idle"
  <2>1. pc # "idle"
    BY DEF UpdateStep, UpdateOffered, SpaceCheck, PruneBegin, PruneEnd, Place, Rollback, Check
  <2> QED BY <1>1, <2>1, FinishedIsLess
<1>2. ASSUME NEW core \in Core, UpdateOffered(core)
      PROVE  StepsLeft' < StepsLeft
  BY <1>1, <1>2, SMT DEF UpdateOffered, Finish
<1>3. CASE SpaceCheck
  BY <1>1, <1>3, SMT DEF SpaceCheck, Goto, Finish
<1>4. CASE PruneBegin
  BY <1>4, SMT DEF PruneBegin
<1>5. CASE PruneEnd
  BY <1>1, <1>5, SMT DEF PruneEnd, Goto, Finish
<1>6. CASE Place
  BY <1>1, <1>6, SMT DEF Place, Goto, Finish
<1>7. CASE Rollback
  BY <1>1, <1>7, SMT DEF Rollback, Finish
<1>8. CASE Check
  BY <1>1, <1>8 DEF Check, Finish
<1> QED BY <1>2, <1>3, <1>4, <1>5, <1>6, <1>7, <1>8 DEF UpdateStep

\* So does a step of the switch, also where it turns to the undoing of itself.
LEMMA SwitchStepsDown ==
  ASSUME Inductive, SwitchStep
  PROVE  StepsLeft' < StepsLeft
<1> USE StepsFromIs DEF StepsLeft, AtEntry
<1>0. local \in Locals
  BY DEF TypeOK
<1>1. CASE pc' = "idle"
  <2>1. pc # "idle"
    BY DEF SwitchStep, Sample, Prepare, Halt, BackupBegin, BackupEnd, MarkBackedUp, Link,
       MarkSwitched, Launch, Health, Commit, KeepOld
  <2> QED BY <1>1, <2>1, FinishedIsLess
<1>2. CASE Sample
  BY <1>1, <1>2, SMT DEF Sample, Finish
<1>3. CASE Prepare
  BY <1>1, <1>3, SMT DEF Prepare, Goto, Finish
<1>4. CASE Halt
  BY <1>0, <1>4, SMT DEF Halt, Goto, Undo
<1>5. CASE BackupBegin
  BY <1>5, SMT DEF BackupBegin, Goto
<1>6. CASE BackupEnd
  BY <1>0, <1>6, SMT DEF BackupEnd, Goto, Undo
<1>7. CASE MarkBackedUp
  BY <1>0, <1>7, SMT DEF MarkBackedUp, Goto, Undo
<1>8. CASE Link
  BY <1>0, <1>8, SMT DEF Link, Goto, Undo
<1>9. CASE MarkSwitched
  BY <1>0, <1>9, SMT DEF MarkSwitched, Goto, Undo
<1>10. CASE Launch
  BY <1>0, <1>10, SMT DEF Launch, Goto, Undo
<1>11. CASE Health
  BY <1>0, <1>11, SMT DEF Health, Goto, Undo
<1>12. CASE Commit
  BY <1>1, <1>12, SMT DEF Commit, Goto, Finish
<1>13. CASE KeepOld
  BY <1>0, <1>1, <1>13, SMT DEF KeepOld, Finish
<1> QED BY <1>2, <1>3, <1>4, <1>5, <1>6, <1>7, <1>8, <1>9, <1>10, <1>11, <1>12, <1>13
        DEF SwitchStep

\* So does a step of the lifecycle operations.
LEMMA ServiceStepsDown ==
  ASSUME Inductive, ServiceStep
  PROVE  StepsLeft' < StepsLeft
<1> USE StepsFromIs DEF StepsLeft, AtEntry
<1>1. CASE pc' = "idle"
  <2>1. pc # "idle"
    BY DEF ServiceStep, Dispatch, Submit, OnlyStop, ServiceStop, ServiceStart, SubmitUndone,
       RefreshFirewall
  <2> QED BY <1>1, <2>1, FinishedIsLess
<1>2. CASE \/ Dispatch("start", "service_start") \/ Dispatch("stop", "only_stop")
           \/ Dispatch("restart", "service_stop")
  BY <1>2, SMT DEF Dispatch, Goto
<1>3. CASE Submit
  BY <1>1, <1>3, SMT DEF Submit, Goto, Finish
<1>4. CASE OnlyStop
  BY <1>1, <1>4, SMT DEF OnlyStop, Fails, Goto, Finish
<1>5. CASE ServiceStop
  BY <1>1, <1>5, SMT DEF ServiceStop, Fails, Goto, Finish
<1>6. CASE ServiceStart
  BY <1>1, <1>6, SMT DEF ServiceStart, Fails, Goto, Finish
<1>7. CASE SubmitUndone
  BY <1>1, <1>7 DEF SubmitUndone, Finish
<1>8. CASE RefreshFirewall
  BY <1>1, <1>8 DEF RefreshFirewall, Finish
<1> QED BY <1>2, <1>3, <1>4, <1>5, <1>6, <1>7, <1>8 DEF ServiceStep

\* What happens around a script that runs adds none: the daemon touches only
\* its state file and itself, and a crash ends the script.
LEMMA OthersAddNone ==
  ASSUME Inductive, BootStart \/ Environment \/ UNCHANGED vars, pc # "idle"
  PROVE  StepsLeft' <= StepsLeft
<1>1. StepsLeft \in 0 .. 29
  BY StepsType DEF StepsBounded
<1>2. CASE Killed \/ Reboot
  <2>1. pc' = "idle"
    BY <1>2 DEF Killed, Reboot
  <2> QED BY <1>1, <2>1, FinishedIsLess, StepsFromIs, SMT DEF StepsLeft, AtEntry
<1>3. CASE BootBusy \/ SettingChanges \/ DaemonWrites \/ DaemonExits \/ UNCHANGED vars
  <2>1. UNCHANGED <<pc, local, whole>>
    BY <1>3 DEF BootBusy, SettingChanges, DaemonWrites, DaemonExits, vars
  <2>2. StepsLeft' = StepsLeft
    BY <2>1 DEF StepsLeft, AtEntry
  <2> QED BY <1>1, <2>2
<1> QED BY <1>2, <1>3 DEF Environment, BootStart, Begin, WatchdogRestart

\* An operation is over after at most 29 steps of its script, whatever fails in
\* whichever of them: each leaves fewer, and only taking the free lock starts anew.
THEOREM EveryScriptEnds == Spec => []StepsBounded /\ ScriptsEnd
<1>1. Inductive /\ Inductive' /\ [Next]_vars =>
        [/\ ScriptStep => StepsLeft' < StepsLeft
         /\ StepsLeft' > StepsLeft => pc = "idle"]_vars
  <2> SUFFICES ASSUME Inductive, Inductive', [Next]_vars
               PROVE  /\ ScriptStep => StepsLeft' < StepsLeft
                      /\ StepsLeft' > StepsLeft => pc = "idle"
    OBVIOUS
  <2>1. StepsLeft \in 0 .. 29 /\ StepsLeft' \in 0 .. 29
    BY StepsType, StepsTypeNext DEF StepsBounded
  <2>2. ScriptStep => StepsLeft' < StepsLeft
    BY RecoveryStepsDown, UpdateStepsDown, SwitchStepsDown, ServiceStepsDown DEF ScriptStep
  <2>3. pc # "idle" /\ (BootStart \/ Environment \/ UNCHANGED vars) => StepsLeft' <= StepsLeft
    BY OthersAddNone
  <2> HIDE DEF Inductive
  <2> QED BY <2>1, <2>2, <2>3 DEF Next
<1> QED BY <1>1, StepKeeps, StepsType, InductiveInvariant, PTL DEF Spec, ScriptsEnd

\* Recovery ends before the journal is gone only for a command that fails or
\* another crash: what is on flash after a crash never stands in its way.
THEOREM RecoveryIsNotStuck == Spec => RecoveryGoesThrough
<1>1. Inductive /\ [Next]_vars =>
        [(pc \in Recovery \cup {"clear"} /\ pc' = "idle") =>
           (faults' > faults \/ crashes' > crashes)]_vars
  <2> SUFFICES ASSUME Inductive, [Next]_vars, pc \in Recovery \cup {"clear"}, pc' = "idle"
               PROVE  faults' > faults \/ crashes' > crashes
    OBVIOUS
  <2>1. faults \in Nat /\ crashes \in Nat
    BY DEF TypeOK
  <2>2. CASE Recover
    <3>1. Uncommitted => txn.old \in whole
      BY DEF DirectoryInv, NothingDangles
    <3>2. pc = "rec_state" /\ RestoresState => snap # {}
      BY DEF JournalInv, SnapshotInv, SnapshotReady, Backed, RestoresState
    <3> QED
      BY <2>1, <2>2, <3>1, <3>2, SMT
      DEF Recover, RecoverNothing, RecoverCommitted, RecoverBegin, RecoverStop, RecoverLink,
          RecoverState, RecoverStart, Clear, Drop, LinkFails, StartFails, Fault, Goto
  <2>3. CASE Killed \/ Reboot
    BY <2>1, <2>3 DEF Killed, Reboot, Crash
  <2>4. CASE \/ UpdateStep \/ SwitchStep \/ ServiceStep \/ BootStart \/ BootBusy
             \/ WatchdogRestart \/ SettingChanges \/ DaemonWrites \/ DaemonExits \/ UNCHANGED vars
             \/ \E kind \in Ops : Begin(kind)
    BY <2>4, Zenon
    DEF UpdateStep, UpdateOffered, SpaceCheck, PruneBegin, PruneEnd, Place, Rollback, Check,
        SwitchStep, Sample, Prepare, Halt, BackupBegin, BackupEnd, MarkBackedUp, Link,
        MarkSwitched, Launch, Health, Commit, KeepOld, ServiceStep, Dispatch, Submit, OnlyStop,
        ServiceStop, ServiceStart, SubmitUndone, RefreshFirewall, BootStart, BootBusy,
        WatchdogRestart, SettingChanges, DaemonWrites, DaemonExits, Begin, vars
  <2> QED BY <2>2, <2>3, <2>4 DEF Next, ScriptStep, Environment
<1> QED BY <1>1, StepKeeps, InductiveInvariant, PTL DEF Spec, RecoveryGoesThrough
=============================================================================
