------------------------------ MODULE CoreTxn ------------------------------
(***************************************************************************)
(* The core transaction of tailscale_core_lib.sh and the operations that   *)
(* share its lock: update, rollback, recovery of an interrupted            *)
(* transaction, and the lifecycle operations of ts_mutation, which recover *)
(* first.                                                                  *)
(*                                                                         *)
(* A script is a program counter that moves from one write to the next.    *)
(* Between two of them the daemon may write its state file, the script may *)
(* be killed and the router may lose power.  What is on flash survives a   *)
(* reboot; the daemon, the lock and the progress report do not.  The web   *)
(* server stores the enable setting whenever the page is submitted, lock   *)
(* or no lock.                                                             *)
(*                                                                         *)
(* The contents of a state file are the set of the writes it reflects,     *)
(* numbered in the order the daemon made them; {} is a missing or empty    *)
(* file and Torn marks a copy that was cut short.                          *)
(***************************************************************************)
EXTENDS Integers

CONSTANTS Core,        \* the core versions, ordered by release and build
          Ops,         \* the operations that are requested
          MaxWrites,   \* bound on the writes the daemon makes
          MaxFaults,   \* bound on commands that fail
          MaxCrashes   \* bound on killed scripts and reboots

CoreOps == {"check", "update", "rollback"}
LifecycleOps == {"start", "stop", "restart", "web_submit", "start_nat"}

ASSUME CoreAssumption == Core \subseteq Nat \ {0}
ASSUME OpsAssumption == Ops \subseteq CoreOps \cup LifecycleOps
ASSUME BoundAssumption == MaxWrites \in Nat /\ MaxFaults \in Nat /\ MaxCrashes \in Nat

None == 0
Torn == 0

VARIABLES
  \* on flash
  current,    \* target of DATA/current
  previous,   \* target of DATA/previous, or None
  whole,      \* cores whose directory passes ts_core_valid
  damaged,    \* cores whose directory exists but is incomplete
  txn,        \* DATA/update.txn: NoTxn or a journal record
  snap,       \* contents of DATA/update.state
  state,      \* contents of STATE
  enable,     \* the tailscale_enable setting
  \* in RAM
  daemon,     \* the core the running daemon was started from, or None
  boot,       \* the boot script has not run yet
  pc,         \* where the script holding the lock is; "idle" when nobody holds it
  job,        \* what the latest operation is and what it reported
  local,      \* the shell variables of the script that outlive a step
  \* history and bounds
  writes,     \* how many writes the daemons have made
  stray,      \* writes a candidate made on trial and that were not accepted
  rewritten,  \* the web server stored the setting since a switch last read it
  faults, crashes

links == <<current, previous>>
dirs == <<whole, damaged>>
record == <<txn, snap>>
flash == <<links, dirs, record, state, enable>>
script == <<pc, job, local>>
history == <<writes, stray, rewritten>>
vars == <<flash, daemon, boot, script, history, faults, crashes>>

Kinds == CoreOps \cup LifecycleOps \cup {"watchdog", "none"}
Results == {"none", "running", "success", "failed", "rolled_back"}
Phases == {"prepared", "backed_up", "switched", "committed"}

\* What asked for the step that runs: the recovery at the start of an
\* operation, which undoes or finishes a transaction; the undoing of a failed
\* step or of an unhealthy candidate; or a switch that has committed.
Causes == {"entry", "finish", "step", "health", "commit"}

Recovery == {"recover", "rec_stop", "rec_link", "rec_state", "rec_start"}
Update   == {"space", "prune", "place"}
Switch   == {"sample", "prepare", "halt", "backup", "copy", "mark", "link",
             "switched", "launch", "health", "commit", "keep"}
Ending   == {"clear", "drop"}
Life     == {"dispatch", "service_stop", "service_start", "only_stop", "undo"}
Steps    == Recovery \cup Update \cup Switch \cup Ending \cup Life

Journal == [phase : Phases \cup {"none"}, old : Core \cup {None}, new : Core \cup {None},
            had : BOOLEAN, on : BOOLEAN]
NoTxn == [phase |-> "none", old |-> None, new |-> None, had |-> FALSE, on |-> FALSE]
Pending == txn # NoTxn
Uncommitted == Pending /\ txn.phase # "committed"
Trial == Uncommitted /\ daemon = txn.new

Jobs == [kind : Kinds, result : Results, from : Core \cup {None}, to : Core \cup {None}]
Locals == [had : BOOLEAN, on : BOOLEAN, cause : Causes, victim : Core \cup {None}]
NoJob == [kind |-> "none", result |-> "none", from |-> None, to |-> None]
NoLocal == [had |-> FALSE, on |-> FALSE, cause |-> "entry", victim |-> None]

TypeOK ==
  /\ current \in Core
  /\ previous \in Core \cup {None}
  /\ whole \subseteq Core
  /\ damaged \subseteq Core
  /\ txn \in Journal
  /\ snap \subseteq Nat
  /\ state \subseteq Nat
  /\ enable \in BOOLEAN
  /\ daemon \in Core \cup {None}
  /\ boot \in BOOLEAN
  /\ pc \in Steps \cup {"idle"}
  /\ job \in Jobs
  /\ local \in Locals
  /\ writes \in Nat
  /\ stray \subseteq Nat
  /\ rewritten \in BOOLEAN
  /\ faults \in Nat
  /\ crashes \in Nat

Init ==
  /\ current \in Core
  /\ previous \in (Core \ {current}) \cup {None}
  /\ whole = {current, previous} \ {None}
  /\ damaged = {}
  /\ txn = NoTxn
  /\ snap = {}
  /\ writes \in {0, 1}
  /\ state = 1..writes
  /\ enable \in BOOLEAN
  /\ daemon = None
  /\ boot = TRUE
  /\ pc = "idle"
  /\ job = NoJob
  /\ local = NoLocal
  /\ stray = {}
  /\ rewritten = FALSE
  /\ faults = 0
  /\ crashes = 0

-----------------------------------------------------------------------------
(* Steps every script is made of *)

Fault == faults < MaxFaults /\ faults' = faults + 1
NoFault == UNCHANGED faults

Goto(label) == pc' = label /\ UNCHANGED <<job, local>>

\* The script reports a result, releases the lock and exits.
Finish(result) ==
  /\ pc' = "idle"
  /\ job' = [job EXCEPT !.result = result]
  /\ local' = NoLocal

\* Faulty: reports the rollback instead of carrying it out.
UndoOnlyReported(cause) == Finish("rolled_back")

\* ts_core_recover called from inside ts_core_switch.
Undo(cause) ==
  /\ pc' = "recover"
  /\ local' = [local EXCEPT !.cause = cause]
  /\ UNCHANGED job

\* Faulty: the daemon ignores the signal and is not killed.
StopIgnored == UNCHANGED daemon

\* ts_stop: the daemon is gone even when its last log line fails.
Stopped == daemon' = None

\* ts_daemon_start starts what DATA/current points to, unless a daemon runs.
Running == daemon' = IF daemon = None THEN current ELSE daemon

\* ts_start reads the settings again, does nothing unless the service is
\* enabled, and may fail with the daemon up or not.
Started == IF enable THEN Running ELSE UNCHANGED daemon
StartFails == Fault /\ (UNCHANGED daemon \/ (enable /\ Running))

\* atomicLink renames, then syncs the directory: it can fail with the link moved.
LinkFails(link, target) == Fault /\ link' \in {link, target}

\* Faulty: the replaced core is forgotten.
KeepsNothing(core) == UNCHANGED previous

\* The replaced core becomes the one to go back to.
Keeps(core) == previous' = core

-----------------------------------------------------------------------------
(* Beginning an operation *)

\* The entry scripts: ts_lock, ts_job_begin, then ts_core_recover.
Begin(kind) ==
  /\ pc = "idle"
  /\ pc' = "recover"
  /\ job' = [NoJob EXCEPT !.kind = kind, !.result = "running"]
  /\ UNCHANGED <<flash, daemon, boot, local, history, faults, crashes>>

\* S96tailscale.sh runs tailscale_config start once after power on.
BootStart ==
  /\ boot /\ pc = "idle"
  /\ boot' = FALSE
  /\ pc' = "recover"
  /\ job' = [NoJob EXCEPT !.kind = "start", !.result = "running"]
  /\ UNCHANGED <<flash, daemon, local, history, faults, crashes>>

\* The boot script finds the lock taken and gives up.
BootBusy ==
  /\ boot /\ pc # "idle"
  /\ boot' = FALSE
  /\ UNCHANGED <<flash, daemon, script, history, faults, crashes>>

\* Faulty: the watchdog does not look for update.txn.
WatchdogIgnoresJournal == enable

\* ts_watchdog_run leaves a pending transaction and a disabled service alone.
WatchdogMayAct == ~Pending /\ enable

\* Otherwise it may decide to restart (the module Watchdog says when).  Its
\* cron entry exists once ts_start has run after power on.
WatchdogRestart ==
  /\ pc = "idle" /\ ~boot
  /\ WatchdogMayAct
  /\ pc' = "service_stop"
  /\ job' = [NoJob EXCEPT !.kind = "watchdog", !.result = "running"]
  /\ UNCHANGED <<flash, daemon, boot, local, history, faults, crashes>>

-----------------------------------------------------------------------------
(* ts_core_recover *)

\* Faulty: the operation goes on although its recovery failed.
RecoverFailureIgnored == Goto("dispatch")

\* The operation that asked for the recovery fails with it.
RecoverFails == Finish("failed")

\* Faulty: a pending transaction may be left for later.
RecoverSkipped ==
  /\ pc = "recover"
  /\ Goto("dispatch")
  /\ UNCHANGED <<flash, daemon, boot, history, faults, crashes>>

RecoverNothing ==
  /\ pc = "recover" /\ ~Pending
  /\ Goto("dispatch")
  /\ UNCHANGED <<flash, daemon, boot, history, faults, crashes>>

\* A committed switch is finished: the replaced core becomes the previous one.
RecoverCommitted ==
  /\ pc = "recover" /\ Pending /\ txn.phase = "committed"
  /\ \/ /\ Keeps(txn.old)
        /\ pc' = "clear"
        /\ local' = [local EXCEPT !.cause = "finish"]
        /\ NoFault
        /\ UNCHANGED job
     \/ /\ LinkFails(previous, txn.old)
        /\ RecoverFails
  /\ UNCHANGED <<current, dirs, record, state, enable, daemon, boot, history, crashes>>

\* The old core is verified before anything is touched.
RecoverBegin ==
  /\ pc = "recover" /\ Uncommitted
  /\ \/ txn.old \in whole /\ Goto("rec_stop") /\ NoFault
     \/ txn.old \notin whole /\ RecoverFails /\ NoFault
     \/ RecoverFails /\ Fault
  /\ UNCHANGED <<flash, daemon, boot, history, crashes>>

RecoverStop ==
  /\ pc = "rec_stop"
  /\ Stopped
  /\ \/ Goto("rec_link") /\ NoFault
     \/ RecoverFails /\ Fault
  /\ UNCHANGED <<flash, boot, history, crashes>>

RecoverLink ==
  /\ pc = "rec_link"
  /\ \/ current' = txn.old /\ Goto("rec_state") /\ NoFault
     \/ LinkFails(current, txn.old) /\ RecoverFails
  /\ UNCHANGED <<previous, dirs, record, state, enable, daemon, boot, history, crashes>>

\* Faulty: the snapshot is only put back before the pointer moved.
RestoresEarlyOnly == txn.phase = "backed_up" /\ txn.had

RestoresState == txn.phase \in {"backed_up", "switched"} /\ txn.had

\* The snapshot is put back by a rename, so STATE is never a partial copy.
\* Without an earlier identity the candidate's is kept.
RecoverState ==
  /\ pc = "rec_state"
  /\ \/ /\ RestoresState
        /\ \/ snap # {} /\ state' = snap /\ Goto("rec_start") /\ NoFault
           \/ snap = {} /\ RecoverFails /\ NoFault /\ UNCHANGED state
           \/ RecoverFails /\ Fault /\ UNCHANGED state
     \/ /\ ~RestoresState
        /\ Goto("rec_start") /\ NoFault /\ UNCHANGED state
  /\ UNCHANGED <<links, dirs, record, enable, daemon, boot, history, crashes>>

RecoverStart ==
  /\ pc = "rec_start"
  /\ \/ /\ IF txn.on THEN Started ELSE UNCHANGED daemon
        /\ Goto("clear") /\ NoFault
     \/ txn.on /\ StartFails /\ RecoverFails
  /\ UNCHANGED <<flash, boot, history, crashes>>

\* Faulty: removes update.state while the journal still refers to it.
ClearSnapshotFirst ==
  /\ pc = "clear"
  /\ snap' = {}
  /\ Goto("drop")
  /\ UNCHANGED <<links, dirs, txn, state, enable, daemon, boot, history, faults, crashes>>

\* rm -f update.txn update.state removes the journal first.
Clear ==
  /\ pc = "clear"
  /\ txn' = NoTxn
  /\ Goto("drop")
  /\ UNCHANGED <<links, dirs, snap, state, enable, daemon, boot, history, faults, crashes>>

\* What the caller of the cleared transaction does next.  The last log line
\* decides the exit status of both functions and may fail.
Drop ==
  /\ pc = "drop"
  /\ snap' = {}
  /\ \/ /\ local.cause \in {"entry", "finish"}
        /\ pc' = "dispatch" /\ local' = NoLocal /\ UNCHANGED job /\ NoFault
     \/ local.cause = "step" /\ Finish("failed") /\ NoFault
     \/ local.cause = "health" /\ Finish("rolled_back") /\ NoFault
     \/ local.cause = "commit" /\ Finish("success") /\ NoFault
     \/ local.cause # "finish" /\ Fault /\ Finish("failed")
  /\ UNCHANGED <<links, dirs, txn, state, enable, daemon, boot, history, crashes>>

-----------------------------------------------------------------------------
(* The operations *)

Dispatch(kind, label) ==
  /\ pc = "dispatch" /\ job.kind = kind
  /\ Goto(label)
  /\ UNCHANGED <<flash, daemon, boot, history, faults, crashes>>

\* The operation is about to replace the current core by another.
Target(core) == job' = [job EXCEPT !.from = current, !.to = core] /\ UNCHANGED local

\* ts_core_check downloads and verifies what the feed offers.
Check ==
  /\ pc = "dispatch" /\ job.kind = "check"
  /\ Finish("success") \/ Finish("failed")
  /\ UNCHANGED <<flash, daemon, boot, history, faults, crashes>>

\* ts_core_update up to the resource check: nothing older than the current
\* core is accepted, and the current one needs no switch.
UpdateOffered(core) ==
  /\ pc = "dispatch" /\ job.kind = "update"
  /\ \/ core > current /\ Target(core) /\ pc' = "space"
     \/ /\ core = current
        /\ pc' = "idle" /\ local' = NoLocal
        /\ job' = [job EXCEPT !.from = current, !.to = core, !.result = "success"]
     \/ Finish("failed")
  /\ UNCHANGED <<flash, daemon, boot, history, faults, crashes>>

\* Faulty: the link to the directory about to be removed stays.
LinkStays == UNCHANGED previous

\* The link goes before its directory does.
DropLink == previous' = None

\* ts_core_space: enough space, too little, or enough once the previous core
\* is gone.
SpaceCheck ==
  /\ pc = "space"
  /\ \/ Goto("place") /\ UNCHANGED previous
     \/ Finish("failed") /\ UNCHANGED previous
     \/ /\ previous \notin {None, current}
        /\ DropLink
        /\ pc' = "prune" /\ local' = [local EXCEPT !.victim = previous] /\ UNCHANGED job
  /\ UNCHANGED <<current, dirs, record, state, enable, daemon, boot, history, faults, crashes>>

\* rm -rf of the previous core's directory is not atomic: it stops being
\* whole before it is gone.
PruneBegin ==
  /\ pc = "prune" /\ local.victim \in whole
  /\ whole' = whole \ {local.victim}
  /\ damaged' = damaged \cup {local.victim}
  /\ UNCHANGED <<links, record, state, enable, daemon, boot, script, history, faults, crashes>>

PruneEnd ==
  /\ pc = "prune" /\ local.victim \notin whole
  /\ damaged' = damaged \ {local.victim}
  /\ Goto("place") \/ Finish("failed")
  /\ UNCHANGED <<links, whole, record, state, enable, daemon, boot, history, faults, crashes>>

\* Download, unpack and verify in RAM, copy to a candidate directory and
\* rename it; an existing directory is used only if it is whole.
Place ==
  /\ pc = "place"
  /\ \/ job.to \notin damaged /\ whole' = whole \cup {job.to} /\ Goto("sample")
     \/ Finish("failed") /\ UNCHANGED whole
  /\ UNCHANGED <<links, damaged, record, state, enable, daemon, boot, history, faults, crashes>>

\* ts_core_rollback: an ordinary switch to the previous core.
Rollback ==
  /\ pc = "dispatch" /\ job.kind = "rollback"
  /\ \/ previous # None /\ Target(previous) /\ pc' = "sample"
     \/ previous = None /\ Finish("failed")
  /\ UNCHANGED <<flash, daemon, boot, history, faults, crashes>>

-----------------------------------------------------------------------------
(* ts_core_switch: job.from and job.to are CORE_OLD and CORE_NEW *)

\* Whether an identity exists is sampled while the daemon still runs, and the
\* enable setting is read for the whole switch.
Sample ==
  /\ pc = "sample"
  /\ \/ job.to = current /\ Finish("success") /\ NoFault /\ UNCHANGED rewritten
     \/ /\ job.to # current /\ {job.to, current} \subseteq whole
        /\ pc' = "prepare" /\ local' = [local EXCEPT !.had = (state # {}), !.on = enable]
        /\ rewritten' = FALSE
        /\ UNCHANGED job /\ NoFault
     \/ /\ ~({job.to, current} \subseteq whole)
        /\ Finish("failed") /\ NoFault /\ UNCHANGED rewritten
     \/ Finish("failed") /\ Fault /\ UNCHANGED rewritten
  /\ UNCHANGED <<flash, daemon, boot, writes, stray, crashes>>

Entry(phase) ==
  [phase |-> phase, old |-> job.from, new |-> job.to, had |-> local.had, on |-> local.on]

Prepare ==
  /\ pc = "prepare"
  /\ \/ txn' = Entry("prepared") /\ Goto("halt") /\ NoFault
     \/ Finish("failed") /\ Fault /\ UNCHANGED txn
  /\ UNCHANGED <<links, dirs, snap, state, enable, daemon, boot, history, crashes>>

Halt ==
  /\ pc = "halt"
  /\ Stopped
  /\ \/ Goto(IF local.had THEN "backup" ELSE "mark") /\ NoFault
     \/ Undo("step") /\ Fault
  /\ UNCHANGED <<flash, boot, history, crashes>>

\* cp to update.state writes in place: until it ends the copy is torn.
BackupBegin ==
  /\ pc = "backup"
  /\ snap' = {Torn}
  /\ Goto("copy")
  /\ UNCHANGED <<links, dirs, txn, state, enable, daemon, boot, history, faults, crashes>>

BackupEnd ==
  /\ pc = "copy"
  /\ \/ snap' = state /\ Goto("mark") /\ NoFault
     \/ Undo("step") /\ Fault /\ UNCHANGED snap
  /\ UNCHANGED <<links, dirs, txn, state, enable, daemon, boot, history, crashes>>

MarkBackedUp ==
  /\ pc = "mark"
  /\ \/ txn' = Entry("backed_up") /\ Goto("link") /\ NoFault
     \/ Undo("step") /\ Fault /\ UNCHANGED txn
  /\ UNCHANGED <<links, dirs, snap, state, enable, daemon, boot, history, crashes>>

Link ==
  /\ pc = "link"
  /\ \/ current' = job.to /\ Goto("switched") /\ NoFault
     \/ LinkFails(current, job.to) /\ Undo("step")
  /\ UNCHANGED <<previous, dirs, record, state, enable, daemon, boot, history, crashes>>

MarkSwitched ==
  /\ pc = "switched"
  /\ \/ txn' = Entry("switched") /\ Goto(IF local.on THEN "launch" ELSE "commit") /\ NoFault
     \/ Undo("step") /\ Fault /\ UNCHANGED txn
  /\ UNCHANGED <<links, dirs, snap, state, enable, daemon, boot, history, crashes>>

Launch ==
  /\ pc = "launch"
  /\ \/ Started /\ Goto("health") /\ NoFault
     \/ StartFails /\ Undo("health")
  /\ UNCHANGED <<flash, boot, history, crashes>>

\* Faulty: an unhealthy candidate is started again and again.
HealthRetries ==
  /\ pc = "health"
  /\ Goto("launch") \/ (daemon # None /\ Goto("commit"))
  /\ UNCHANGED <<flash, daemon, boot, history, faults, crashes>>

\* ts_core_health accepts a candidate that runs, or rejects it.
Health ==
  /\ pc = "health"
  /\ Undo("health") \/ (daemon # None /\ Goto("commit"))
  /\ UNCHANGED <<flash, daemon, boot, history, faults, crashes>>

\* The rename of the journal is the commit point: what the candidate wrote is
\* accepted with it.  A failure here returns without undoing anything.
Commit ==
  /\ pc = "commit"
  /\ \/ txn' = Entry("committed") /\ stray' = stray \ state /\ Goto("keep") /\ NoFault
     \/ Finish("failed") /\ Fault /\ UNCHANGED <<txn, stray>>
  /\ UNCHANGED <<links, dirs, snap, state, enable, daemon, boot, writes, rewritten, crashes>>

KeepOld ==
  /\ pc = "keep"
  /\ \/ /\ Keeps(job.from)
        /\ pc' = "clear" /\ local' = [local EXCEPT !.cause = "commit"]
        /\ UNCHANGED job /\ NoFault
     \/ LinkFails(previous, job.from) /\ Finish("failed")
  /\ UNCHANGED <<current, dirs, record, state, enable, daemon, boot, history, crashes>>

-----------------------------------------------------------------------------
(* ts_mutation after its recovery *)

\* web_submit applies the settings submitted with it, which may fail part of the
\* way, or finds them stored already, before it restarts or stops.
Submit ==
  /\ pc = "dispatch" /\ job.kind = "web_submit"
  /\ enable' \in BOOLEAN
  /\ \/ Goto(IF enable' THEN "service_stop" ELSE "only_stop") /\ NoFault
     \/ Finish("failed") /\ Fault
  /\ UNCHANGED <<links, dirs, record, state, daemon, boot, history, crashes>>

\* Where an operation goes when its action fails: a submission is undone.
Fails == IF job.kind = "web_submit" THEN Goto("undo") ELSE Finish("failed")

OnlyStop ==
  /\ pc = "only_stop"
  /\ Stopped
  /\ \/ Finish("success") /\ NoFault
     \/ Fails /\ Fault
  /\ UNCHANGED <<flash, boot, history, crashes>>

ServiceStop ==
  /\ pc = "service_stop"
  /\ Stopped
  /\ \/ Goto("service_start") /\ NoFault
     \/ Fails /\ Fault
  /\ UNCHANGED <<flash, boot, history, crashes>>

ServiceStart ==
  /\ pc = "service_start"
  /\ \/ Started /\ Finish("success") /\ NoFault
     \/ StartFails /\ Fails
  /\ UNCHANGED <<flash, boot, history, crashes>>

\* The old settings come back, wholly or in part, and the service is restarted
\* or stopped to match (the detail is the configuration transaction's).
SubmitUndone ==
  /\ pc = "undo"
  /\ enable' \in BOOLEAN
  /\ daemon' \in {None, current}
  /\ Finish("failed")
  /\ UNCHANGED <<links, dirs, record, state, boot, history, faults, crashes>>

\* A rebuilt NAT table only needs the firewall rules again.
RefreshFirewall ==
  /\ pc = "dispatch" /\ job.kind = "start_nat"
  /\ Finish("success") \/ Finish("failed")
  /\ UNCHANGED <<flash, daemon, boot, history, faults, crashes>>

-----------------------------------------------------------------------------
(* The daemon and the web server, and what interrupts a script *)

\* The page's oldest form has no settings in its request: the web server stores
\* them before it calls web_submit, without the lock, and also where that call
\* then finds the lock taken or never comes.
SettingChanges ==
  /\ "web_submit" \in Ops
  /\ enable' = ~enable
  /\ rewritten' = TRUE
  /\ UNCHANGED <<links, dirs, record, state, daemon, boot, script, writes, stray, faults, crashes>>

\* The daemon saves its state file: a candidate's writes are on trial while
\* its transaction holds a snapshot to go back to.
DaemonWrites ==
  /\ daemon # None
  /\ writes < MaxWrites
  /\ writes' = writes + 1
  /\ state' = state \cup {writes'}
  /\ stray' = IF Trial /\ txn.had THEN stray \cup {writes'} ELSE stray
  /\ UNCHANGED <<links, dirs, record, enable, daemon, boot, script, rewritten, faults, crashes>>

DaemonExits ==
  /\ daemon # None
  /\ daemon' = None
  /\ UNCHANGED <<flash, boot, script, history, faults, crashes>>

Crash == crashes < MaxCrashes /\ crashes' = crashes + 1

\* The script is killed between two commands: a command that runs keeps the
\* lock until it ends.  tailscale_core traps HUP, INT and TERM to report the
\* failure; ts_mutation has no such trap and its job stays "running".
Killed ==
  /\ pc # "idle"
  /\ Crash
  /\ pc' = "idle"
  /\ local' = NoLocal
  /\ \/ UNCHANGED job
     \/ job.kind \in CoreOps /\ job' = [job EXCEPT !.result = "failed"]
  /\ UNCHANGED <<flash, daemon, boot, history, faults>>

\* Power is lost and comes back: RAM is gone, flash is not.
Reboot ==
  /\ Crash
  /\ daemon' = None
  /\ boot' = TRUE
  /\ pc' = "idle"
  /\ job' = NoJob
  /\ local' = NoLocal
  /\ UNCHANGED <<flash, history, faults>>

-----------------------------------------------------------------------------
Recover == \/ RecoverNothing \/ RecoverCommitted \/ RecoverBegin \/ RecoverStop
           \/ RecoverLink \/ RecoverState \/ RecoverStart \/ Clear \/ Drop

UpdateStep == \/ \E core \in Core : UpdateOffered(core)
              \/ SpaceCheck \/ PruneBegin \/ PruneEnd \/ Place \/ Rollback \/ Check

SwitchStep == \/ Sample \/ Prepare \/ Halt \/ BackupBegin \/ BackupEnd \/ MarkBackedUp
              \/ Link \/ MarkSwitched \/ Launch \/ Health \/ Commit \/ KeepOld

ServiceStep == \/ Dispatch("start", "service_start") \/ Dispatch("stop", "only_stop")
               \/ Dispatch("restart", "service_stop")
               \/ Submit \/ OnlyStop \/ ServiceStop \/ ServiceStart \/ SubmitUndone
               \/ RefreshFirewall

ScriptStep == Recover \/ UpdateStep \/ SwitchStep \/ ServiceStep

Environment == \/ \E kind \in Ops : Begin(kind)
               \/ WatchdogRestart \/ BootBusy
               \/ SettingChanges \/ DaemonWrites \/ DaemonExits \/ Killed \/ Reboot

Next == ScriptStep \/ BootStart \/ Environment

\* A script runs to its end unless it is killed: every wait in it is bounded
\* (ts_bound, the 15 and 10 tries of ts_daemon_start and ts_stop).  The boot
\* script is run after power on.  Nothing makes a user begin an operation.
Fairness == WF_vars(ScriptStep) /\ WF_vars(BootStart \/ BootBusy)

Spec == Init /\ [][Next]_vars
FairSpec == Spec /\ Fairness

-----------------------------------------------------------------------------
(* Safety *)

Backed == Pending /\ txn.had /\ txn.phase \in {"backed_up", "switched"}

\* Whenever the journal sends recovery to update.state (core_lib 59-61), the
\* file is there, is a complete copy and holds nothing a candidate wrote.
SnapshotReady == Backed => snap # {} /\ Torn \notin snap /\ snap \cap stray = {}

\* While the switch that took it is still running, the snapshot lacks nothing
\* the replaced core wrote: the copy is made after that core has stopped.
SnapshotInUse ==
  \/ pc \in {"link", "switched", "launch", "health"}
  \/ /\ pc \in Recovery \ {"rec_start"}
     /\ local.cause \in {"step", "health"}

SnapshotComplete == Backed /\ SnapshotInUse => state \ stray \subseteq snap

\* No core other than the candidate itself ever runs on a state file that
\* holds writes of a candidate that was not accepted: the pointer and the
\* state go back together or not at all.
NoCoreOnStrayState == daemon # None /\ ~Trial => state \cap stray = {}

\* The pointers and the journal only name complete core directories, also in
\* the middle of freeing space: recovery and manual rollback have what they need.
NothingDangles ==
  /\ current \in whole
  /\ previous \in whole \cup {None}
  /\ Pending => {txn.old, txn.new} \subseteq whole

\* Nothing but recovery and the switch itself acts on the cores, the settings
\* or the service while a transaction is pending; the watchdog stays away.
PendingIsExclusive ==
  pc \in Life \cup Update \cup {"sample", "prepare"} => ~Pending

\* A running daemon is always the core DATA/current names: ts_pid_matches knows
\* a daemon by that path, so none may survive a change of the pointer.
ServiceMatchesPointer == daemon \in {None, current}

\* Recovery asks for a restart exactly when the present setting enables the
\* service, however much later it runs: nothing the lock orders changes the
\* setting while a journal holds a copy of it.  Only what the web server stores
\* without the lock, for the page's oldest form, makes that copy stale.
RestartMatchesSetting == Pending /\ ~rewritten => txn.on = enable

\* What a finished core operation reported is true of the flash.  Success: the
\* target is current, the core it replaced can be rolled back to and no journal
\* is left.  Rolled back: the old core is current, on a state no trial touched.
ReportTrue ==
  pc = "idle" /\ job.kind \in {"update", "rollback"} =>
    /\ job.result = "success" =>
         /\ ~Pending /\ current = job.to
         /\ job.to # job.from => previous = job.from
    /\ job.result = "rolled_back" =>
         /\ ~Pending /\ current = job.from /\ previous # job.from
         /\ state \cap stray = {}

\* The accepted core is the journal's old one until the journal says committed;
\* the kept core is the old one from then on.
Promise == INSTANCE CoreSwitch
             WITH selected <- IF Uncommitted THEN txn.old ELSE current,
                  fallback <- IF Pending /\ ~Uncommitted THEN txn.old ELSE previous

\* Every step of the transaction, of recovery and of a crash is a switch that
\* happens at once, the loss of the kept core, or not visible.
SwitchesAtomically == Promise!Spec

-----------------------------------------------------------------------------
(* Liveness *)

\* Every operation ends and releases the lock.
LockReleased == pc # "idle" ~> pc = "idle"

\* After the last crash and the last failure, power on is enough to leave no
\* transaction pending: the boot script recovers it unattended.
RecoveredAfterBoot ==
  (boot /\ pc = "idle" /\ faults = MaxFaults /\ crashes = MaxCrashes) ~> ~Pending
=============================================================================
