------------------------------ MODULE ConfigTxn ------------------------------
(***************************************************************************)
(* The settings transaction of ts_mutation in tailscale_lib.sh: a          *)
(* submission snapshots the settings, writes the new ones key by key, puts *)
(* the service in accordance with them, and on a failure writes the old    *)
(* ones back and restores the service; with the plain start, stop and      *)
(* restart that share its steps, and ts_start's adoption of the connector  *)
(* switch the core had before the plugin had a setting for it.             *)
(*                                                                         *)
(* One key stands for each group of keys that the code treats alike:       *)
(* "enable" for the seven of the oldest form, "custom" for the two the     *)
(* nine-bit form adds, "connector" for the tenth, which alone may be       *)
(* adopted from the core.  A list of routes is a value; Bad is one the     *)
(* helper rejects.                                                         *)
(***************************************************************************)
EXTENDS Integers, Sequences

CONSTANTS Lists,       \* valid lists of custom routes, the empty one apart
          Forms,       \* the forms that are submitted: 7, 9 and 10 bits
          MaxFaults    \* bound on failed commands, killed scripts and reboots together

Unset == ""
NoList == ""
Bad == "bad"
Absent == "absent"
Bit == {"0", "1"}

ASSUME ListsAssumption == Lists \subseteq STRING /\ Lists \cap {NoList, Bad, Absent} = {}
ASSUME FormsAssumption == Forms \subseteq 1 .. 3
ASSUME BoundAssumption == MaxFaults \in Nat

\* ts_config_keys: a form carries the first keys of it.
Order == <<"enable", "custom", "connector">>
Keys == {"enable", "custom", "connector"}
Carried(form) == {Order[i] : i \in 1 .. form}

VARIABLES
  \* on flash
  settings,   \* the dbus keys; Unset is an absent one
  list,       \* tailscale_custom_routes
  core,       \* the connector switch and the custom routes of the core
  \* in RAM
  daemon,     \* it runs
  stopped,    \* manual-stop
  saved,      \* config.previous, line by line, and config.routes.previous
  \* the script
  pc, at,     \* where it is, and the index of the key it is about to write
  req,        \* the latest request
  rc,         \* what the operation returned is a success
  applied,    \* the new settings were all written
  next,       \* what follows ts_stop: "read" (ts_start) or "returned"
  undoing,    \* it restores the service after a failure
  failed,     \* ts_config_restore failed
  old,        \* old_running and old_manual
  capture, before,  \* TS_CONNECTOR_CAPTURE and TS_CONNECTOR_BEFORE
  result,     \* what the latest job says
  \* history and bounds
  was,        \* settings, list, core and service when the latest request came
  spoiled,    \* what failures while undoing may have left as it should not be
  faults

stored == <<settings, list>>
service == <<daemon, stopped>>
captured == <<capture, before>>
script == <<pc, at, rc, applied, next, undoing, failed, old, captured>>
job == <<req, result, was>>
vars == <<stored, core, service, saved, script, job, spoiled, faults>>

Ops == {"start", "stop", "restart", "web_submit"}
Places == {"idle", "snapshot", "write", "list", "dispatch", "stop", "read", "launch",
           "adopt", "prefs", "rest", "returned", "restore", "restoreList", "restored", "flag"}
Settings == [Keys -> Bit \cup {Unset}]
AllLists == Lists \cup {NoList, Bad}
Prefs == [connector : Bit, routes : Lists \cup {NoList}]
NotSaved == [keys |-> <<>>, list |-> Absent]
NoService == [running |-> FALSE, manual |-> FALSE]
Now == [settings |-> settings, list |-> list, core |-> core,
        daemon |-> daemon, stopped |-> stopped]

TypeOK ==
  /\ settings \in Settings /\ list \in AllLists
  /\ core \in Prefs
  /\ daemon \in BOOLEAN /\ stopped \in BOOLEAN
  /\ saved.keys \in Seq(Bit \cup {Unset}) /\ Len(saved.keys) <= 3
  /\ saved = [keys |-> saved.keys, list |-> saved.list] /\ saved.list \in AllLists \cup {Absent}
  /\ pc \in Places /\ at \in 1 .. 3
  /\ req.op \in Ops /\ req.form \in Forms \cup {0} /\ req.list \in Lists \cup {NoList}
  /\ req.bits \in [Carried(req.form) -> Bit]
  /\ rc \in BOOLEAN /\ applied \in BOOLEAN
  /\ next \in {"read", "returned"} /\ undoing \in BOOLEAN /\ failed \in BOOLEAN
  /\ old \in [running : BOOLEAN, manual : BOOLEAN]
  /\ capture \in BOOLEAN /\ before \in Bit \cup {Unset}
  /\ result \in {"none", "running", "success", "failed"}
  /\ was \in [settings : Settings, list : AllLists, core : Prefs,
              daemon : BOOLEAN, stopped : BOOLEAN]
  /\ spoiled \subseteq {"settings", "connector", "service"}
  /\ faults \in 0 .. MaxFaults

\* Nobody holds the lock.  The keys were added version by version, so those
\* that are set come first; the list may have been spoiled from outside.
Init ==
  /\ \E n \in 0 .. 3 :
       settings \in {s \in Settings : \A i \in 1 .. 3 : s[Order[i]] = Unset <=> i > n}
  /\ list \in AllLists /\ core \in Prefs
  /\ daemon \in BOOLEAN /\ stopped \in BOOLEAN
  /\ saved = NotSaved
  /\ pc = "idle" /\ at = 1 /\ rc = TRUE /\ applied = FALSE
  /\ next = "read" /\ undoing = FALSE /\ failed = FALSE
  /\ old = NoService /\ capture = FALSE /\ before = Unset
  /\ req = [op |-> "start", form |-> 0, bits |-> <<>>, list |-> NoList]
  /\ result = "none"
  /\ was = Now
  /\ spoiled = {} /\ faults = 0

-----------------------------------------------------------------------------
(* What the steps share *)

\* A command fails, or the script is cut short.
Fault == faults < MaxFaults /\ faults' = faults + 1

\* A command that failed may have written the value all the same.
MaySet(key, value) == settings' \in {settings, [settings EXCEPT ![key] = value]}
MaySetList(value) == list' \in {list, value}

\* What ts_start asks of the core: the routes only while the switch for custom
\* routes is on.  An absent switch is off.
Wanted(s, l, c) ==
  [connector |-> IF s["connector"] = Unset THEN c.connector ELSE s["connector"],
   routes |-> IF s["custom"] = "1" THEN l ELSE NoList]

\* The operation ends with ok for its return code.
Return(ok) == pc' = "returned" /\ rc' = ok

\* The script ends, and its variables with it.
Done ==
  /\ pc' = "idle" /\ at' = 1 /\ rc' = TRUE /\ applied' = FALSE
  /\ next' = "read" /\ undoing' = FALSE /\ failed' = FALSE
  /\ old' = NoService /\ capture' = FALSE /\ before' = Unset

\* The job has failed.
Fail == Done /\ result' = "failed" /\ UNCHANGED <<req, was>>

-----------------------------------------------------------------------------
(* The request *)

\* The lock is taken and the job begins.
Begin(request, place) ==
  /\ pc = "idle"
  /\ pc' = place
  /\ req' = request /\ result' = "running" /\ was' = Now
  /\ spoiled' = {}
  /\ UNCHANGED <<stored, core, service, saved, at, rc, applied, next, undoing, failed,
                 old, captured, faults>>

\* A submission that was found valid before the lock.
Submit ==
  \E form \in Forms, l \in Lists \cup {NoList} :
    /\ form = 1 => l = NoList
    /\ \E bits \in [Carried(form) -> Bit] :
         Begin([op |-> "web_submit", form |-> form, bits |-> bits, list |-> l], "snapshot")

\* Without a snapshot of settings the operation follows at once.
Plain ==
  \E op \in Ops :
    Begin([op |-> op, form |-> 0, bits |-> <<>>, list |-> NoList], "dispatch")

\* An unfinished core transaction could not be recovered.
NotRecovered ==
  /\ pc \in {"snapshot", "dispatch"} /\ ~applied
  /\ pc = "dispatch" => req.form = 0
  /\ Fault
  /\ Fail
  /\ UNCHANGED <<stored, core, service, saved, spoiled>>

-----------------------------------------------------------------------------
(* The snapshot and the new settings *)

\* A bug: the files of an earlier job are not removed.
SnapshotOverStale ==
  /\ pc = "snapshot"
  /\ saved' = [keys |-> [i \in 1 .. req.form |-> settings[Order[i]]],
               list |-> IF req.form = 1 THEN saved.list ELSE list]
  /\ capture' = (req.form = 3 /\ settings["connector"] = Unset)
  /\ old' = [running |-> daemon, manual |-> stopped]
  /\ pc' = "write"
  /\ UNCHANGED <<stored, core, service, job, at, rc, applied, next, undoing, failed,
                 before, spoiled, faults>>

\* A bug: the connector switch of the core is not captured.
SnapshotWithoutCapture ==
  /\ pc = "snapshot"
  /\ saved' = [keys |-> [i \in 1 .. req.form |-> settings[Order[i]]],
               list |-> IF req.form = 1 THEN Absent ELSE list]
  /\ capture' = FALSE
  /\ old' = [running |-> daemon, manual |-> stopped]
  /\ pc' = "write"
  /\ UNCHANGED <<stored, core, service, job, at, rc, applied, next, undoing, failed,
                 before, spoiled, faults>>

\* ts_config_snapshot replaces whatever an earlier job left.  The seven-bit
\* form does not touch the list, so it is not saved.
Snapshot ==
  /\ pc = "snapshot"
  /\ saved' = [keys |-> [i \in 1 .. req.form |-> settings[Order[i]]],
               list |-> IF req.form = 1 THEN Absent ELSE list]
  /\ capture' = (req.form = 3 /\ settings["connector"] = Unset)
  /\ old' = [running |-> daemon, manual |-> stopped]
  /\ pc' = "write"
  /\ UNCHANGED <<stored, core, service, job, at, rc, applied, next, undoing, failed,
                 before, spoiled, faults>>

\* It stops in the middle, and its files stay.
SnapshotFails ==
  /\ pc = "snapshot" /\ Fault
  /\ \E n \in 0 .. req.form :
       saved' = [keys |-> [i \in 1 .. n |-> settings[Order[i]]], list |-> Absent]
  /\ Fail
  /\ UNCHANGED <<stored, core, service, spoiled>>

\* A bug: the last key is not written.
WriteShort ==
  /\ pc = "write"
  /\ settings' = IF at < req.form THEN [settings EXCEPT ![Order[at]] = req.bits[Order[at]]]
                 ELSE settings
  /\ IF at < req.form THEN at' = at + 1 /\ UNCHANGED <<pc, applied>>
     ELSE /\ at' = 1
          /\ IF req.form = 1 THEN pc' = "dispatch" /\ applied' = TRUE
             ELSE pc' = "list" /\ UNCHANGED applied
  /\ UNCHANGED <<list, core, service, saved, job, rc, next, undoing, failed, old,
                 captured, spoiled, faults>>

\* ts_config_bits_apply, one key at a time.
Write ==
  /\ pc = "write"
  /\ settings' = [settings EXCEPT ![Order[at]] = req.bits[Order[at]]]
  /\ IF at < req.form THEN at' = at + 1 /\ UNCHANGED <<pc, applied>>
     ELSE /\ at' = 1
          /\ IF req.form = 1 THEN pc' = "dispatch" /\ applied' = TRUE
             ELSE pc' = "list" /\ UNCHANGED applied
  /\ UNCHANGED <<list, core, service, saved, job, rc, next, undoing, failed, old,
                 captured, spoiled, faults>>

WriteList ==
  /\ pc = "list"
  /\ list' = req.list
  /\ pc' = "dispatch" /\ applied' = TRUE
  /\ UNCHANGED <<settings, core, service, saved, job, at, rc, next, undoing, failed, old,
                 captured, spoiled, faults>>

\* A write that fails ends the writing: the old settings come back.
WriteFails ==
  /\ pc \in {"write", "list"} /\ Fault
  /\ IF pc = "write"
     THEN MaySet(Order[at], req.bits[Order[at]]) /\ UNCHANGED list
     ELSE MaySetList(req.list) /\ UNCHANGED settings
  /\ pc' = "restore" /\ at' = 1
  /\ UNCHANGED <<core, service, saved, job, rc, applied, next, undoing, failed, old,
                 captured, spoiled>>

-----------------------------------------------------------------------------
(* The operation *)

\* The branches of ts_mutation.  web_submit reads the settings first, and
\* ends there when it finds one invalid.
Dispatch ==
  /\ pc = "dispatch"
  /\ LET starts == req.op = "restart" \/ (req.op = "web_submit" /\ settings["enable"] = "1")
     IN \/ /\ req.op = "start"
           /\ pc' = "read"
           /\ UNCHANGED <<rc, next, stopped>>
        \/ /\ req.op = "web_submit" /\ list = Bad
           /\ Return(FALSE)
           /\ UNCHANGED <<next, stopped>>
        \/ /\ req.op # "start" /\ ~(req.op = "web_submit" /\ list = Bad)
           /\ pc' = "stop"
           /\ next' = IF starts THEN "read" ELSE "returned"
           /\ stopped' = (stopped \/ ~starts)
           /\ UNCHANGED rc
  /\ UNCHANGED <<stored, core, daemon, saved, job, at, applied, undoing, failed, old,
                 captured, spoiled, faults>>

\* web_submit or ts_start cannot read the settings.
ReadFails ==
  /\ pc = "read" \/ (pc = "dispatch" /\ req.op = "web_submit")
  /\ Fault
  /\ Return(FALSE)
  /\ UNCHANGED <<stored, core, service, saved, job, at, applied, next, undoing, failed, old,
                 captured, spoiled>>

\* ts_stop.
Stop ==
  /\ pc = "stop"
  /\ daemon' = FALSE
  /\ pc' = next /\ rc' = TRUE
  /\ UNCHANGED <<stored, core, stopped, saved, job, at, applied, next, undoing, failed, old,
                 captured, spoiled, faults>>

\* ts_start refuses a list that is not valid and does nothing unless enabled.
Read ==
  /\ pc = "read"
  /\ IF list = Bad \/ settings["enable"] # "1"
     THEN Return(list # Bad)
     ELSE pc' = "launch" /\ UNCHANGED rc
  /\ UNCHANGED <<stored, core, service, saved, job, at, applied, next, undoing, failed, old,
                 captured, spoiled, faults>>

\* ts_daemon_start.
Launch ==
  /\ pc = "launch"
  /\ daemon' = TRUE /\ stopped' = FALSE
  /\ pc' = "adopt"
  /\ UNCHANGED <<stored, core, saved, job, at, rc, applied, next, undoing, failed, old,
                 captured, spoiled, faults>>

\* The core is missing, or its LocalAPI does not answer in time.
LaunchFails ==
  /\ pc = "launch" /\ Fault
  /\ \/ UNCHANGED service
     \/ stopped' = FALSE /\ daemon' \in {daemon, TRUE}
  /\ Return(FALSE)
  /\ UNCHANGED <<stored, core, saved, job, at, applied, next, undoing, failed, old,
                 captured, spoiled>>

\* The switch the core has is noted for a rollback, once.
Capture ==
  /\ before' = IF capture THEN core.connector ELSE before
  /\ capture' = FALSE

\* An absent key takes over the switch of the core.
Adopt ==
  /\ pc = "adopt"
  /\ Capture
  /\ settings' = IF settings["connector"] = Unset
                 THEN [settings EXCEPT !["connector"] = core.connector] ELSE settings
  /\ pc' = "prefs"
  /\ UNCHANGED <<list, core, service, saved, job, at, rc, applied, next, undoing, failed, old,
                 spoiled, faults>>

\* The switch of the core or the key cannot be read, or the key not be written.
AdoptFails ==
  /\ pc = "adopt" /\ Fault
  /\ \/ UNCHANGED <<settings, captured>>
     \/ Capture /\ UNCHANGED settings
     \/ /\ Capture
        /\ settings["connector"] = Unset
        /\ settings' = [settings EXCEPT !["connector"] = core.connector]
  /\ Return(FALSE)
  /\ UNCHANGED <<list, core, service, saved, job, at, applied, next, undoing, failed, old,
                 spoiled>>

\* One edit sets all the managed preferences.
SetPrefs ==
  /\ pc = "prefs"
  /\ core' = Wanted(settings, list, core)
  /\ pc' = "rest"
  /\ UNCHANGED <<stored, service, saved, job, at, rc, applied, next, undoing, failed, old,
                 captured, spoiled, faults>>

\* The plan or the edit fails; the core may have taken the edit.
SetPrefsFails ==
  /\ pc = "prefs" /\ Fault
  /\ core' \in {core, Wanted(settings, list, core)}
  /\ Return(FALSE)
  /\ UNCHANGED <<stored, service, saved, job, at, applied, next, undoing, failed, old,
                 captured, spoiled>>

\* The connection, the firewall and the last look at the status.
Rest ==
  /\ pc = "rest"
  /\ Return(TRUE)
  /\ UNCHANGED <<stored, core, service, saved, job, at, applied, next, undoing, failed, old,
                 captured, spoiled, faults>>

RestFails ==
  /\ pc = "rest" /\ Fault
  /\ Return(FALSE)
  /\ UNCHANGED <<stored, core, service, saved, job, at, applied, next, undoing, failed, old,
                 captured, spoiled>>

-----------------------------------------------------------------------------
(* The verdict *)

\* The files of the snapshot are removed, when the request had one.
Succeed ==
  /\ pc = "returned" /\ ~undoing /\ rc
  /\ Done
  /\ saved' = IF req.form > 0 THEN NotSaved ELSE saved
  /\ result' = "success"
  /\ UNCHANGED <<stored, core, service, req, was, spoiled, faults>>

\* A failure before anything was written.
FailPlain ==
  /\ pc = "returned" /\ ~undoing /\ ~rc /\ ~applied
  /\ Fail
  /\ UNCHANGED <<stored, core, service, saved, spoiled, faults>>

\* A failure after the settings were written.
Undo ==
  /\ pc = "returned" /\ ~undoing /\ ~rc /\ applied
  /\ pc' = "restore" /\ at' = 1
  /\ UNCHANGED <<stored, core, service, saved, job, rc, applied, next, undoing, failed, old,
                 captured, spoiled, faults>>

\* The old service is restored as far as it went.
Undone ==
  /\ pc = "returned" /\ undoing
  /\ spoiled' = IF rc THEN spoiled ELSE spoiled \cup {"service"}
  /\ pc' = "flag"
  /\ UNCHANGED <<stored, core, service, saved, job, at, rc, applied, next, undoing, failed, old,
                 captured, faults>>

-----------------------------------------------------------------------------
(* ts_config_restore and what follows it *)

\* A bug: the list is never restored.
NextKeyOnly ==
  IF at < Len(saved.keys) THEN at' = at + 1 /\ UNCHANGED pc
  ELSE at' = 1 /\ pc' = "restored"

\* After the keys comes the list, when it was saved.
NextKey ==
  IF at < Len(saved.keys) THEN at' = at + 1 /\ UNCHANGED pc
  ELSE at' = 1 /\ pc' = IF saved.list # Absent THEN "restoreList" ELSE "restored"

Restore ==
  /\ pc = "restore"
  /\ settings' = [settings EXCEPT ![Order[at]] = saved.keys[at]]
  /\ NextKey
  /\ UNCHANGED <<list, core, service, saved, job, rc, applied, next, undoing, failed, old,
                 captured, spoiled, faults>>

\* A key that cannot be written does not keep the others from coming back.
RestoreFails ==
  /\ pc = "restore" /\ Fault
  /\ MaySet(Order[at], saved.keys[at])
  /\ NextKey
  /\ failed' = TRUE
  /\ spoiled' = spoiled \cup {IF Order[at] = "connector" THEN "connector" ELSE "settings"}
  /\ UNCHANGED <<list, core, service, saved, job, rc, applied, next, undoing, old,
                 captured>>

\* The saved list cannot be read, or the helper does not take it any more.
RestoreRefused ==
  /\ pc = "restore" /\ at = 1 /\ saved.list # Absent /\ Fault
  /\ pc' = "restored"
  /\ failed' = TRUE /\ spoiled' = spoiled \cup {"settings"}
  /\ UNCHANGED <<stored, core, service, saved, job, at, rc, applied, next, undoing, old,
                 captured>>

RestoreList ==
  /\ pc = "restoreList"
  /\ list' = saved.list
  /\ pc' = "restored"
  /\ UNCHANGED <<settings, core, service, saved, job, at, rc, applied, next, undoing, failed, old,
                 captured, spoiled, faults>>

RestoreListFails ==
  /\ pc = "restoreList" /\ Fault
  /\ MaySetList(saved.list)
  /\ pc' = "restored"
  /\ failed' = TRUE /\ spoiled' = spoiled \cup {"settings"}
  /\ UNCHANGED <<settings, core, service, saved, job, at, rc, applied, next, undoing, old,
                 captured>>

\* Nothing was started with the new settings, or the old ones did not come
\* back: the job ends here.
GiveUp ==
  /\ pc = "restored" /\ (~applied \/ failed)
  /\ Fail
  /\ saved' = IF applied THEN NotSaved ELSE saved
  /\ UNCHANGED <<stored, core, service, spoiled, faults>>

\* A bug: the service is started again whatever it was.
MigrateAndStart ==
  /\ pc = "restored" /\ applied /\ ~failed
  /\ settings' = IF before = Unset THEN settings ELSE [settings EXCEPT !["connector"] = before]
  /\ undoing' = TRUE /\ pc' = "stop"
  /\ next' = "read"
  /\ UNCHANGED <<list, core, service, saved, job, at, rc, applied, failed, old,
                 captured, spoiled, faults>>

\* ts_connector_restore_migration: a switch that was captured is kept as a
\* setting.  Then the service is restarted, or stopped if it was not running.
Migrate ==
  /\ pc = "restored" /\ applied /\ ~failed
  /\ settings' = IF before = Unset THEN settings ELSE [settings EXCEPT !["connector"] = before]
  /\ undoing' = TRUE /\ pc' = "stop"
  /\ next' = IF old.running THEN "read" ELSE "returned"
  /\ UNCHANGED <<list, core, service, saved, job, at, rc, applied, failed, old,
                 captured, spoiled, faults>>

MigrateFails ==
  /\ pc = "restored" /\ applied /\ ~failed /\ before # Unset /\ Fault
  /\ MaySet("connector", before)
  /\ spoiled' = spoiled \cup {"connector"}
  /\ Fail
  /\ saved' = NotSaved
  /\ UNCHANGED <<list, core, service>>

\* manual-stop is what it was.
Flag ==
  /\ pc = "flag"
  /\ stopped' = old.manual
  /\ Fail
  /\ saved' = NotSaved
  /\ UNCHANGED <<stored, core, daemon, spoiled, faults>>

-----------------------------------------------------------------------------
(* Crashes *)

\* The script is killed: the kernel releases its lock, its files stay.
Killed ==
  /\ pc # "idle" /\ Fault
  /\ Done
  /\ UNCHANGED <<stored, core, service, saved, job, spoiled>>

\* The router reboots: RAM is lost.
Reboot ==
  /\ Fault
  /\ daemon' = FALSE /\ stopped' = FALSE /\ saved' = NotSaved
  /\ result' = "none"
  /\ Done
  /\ UNCHANGED <<stored, core, req, was, spoiled>>

Requests == Submit \/ Plain
Script ==
  \/ NotRecovered \/ Snapshot \/ SnapshotFails \/ Write \/ WriteList \/ WriteFails
  \/ Dispatch \/ ReadFails \/ Stop \/ Read \/ Launch \/ LaunchFails
  \/ Adopt \/ AdoptFails \/ SetPrefs \/ SetPrefsFails \/ Rest \/ RestFails
  \/ Succeed \/ FailPlain \/ Undo \/ Undone
  \/ Restore \/ RestoreFails \/ RestoreRefused \/ RestoreList \/ RestoreListFails
  \/ GiveUp \/ Migrate \/ MigrateFails \/ Flag

Next == Requests \/ Script \/ Killed \/ Reboot

Spec == Init /\ [][Next]_vars
-----------------------------------------------------------------------------
(* Properties *)

\* The connector switch in effect: the setting or, before there is one, what
\* the core has.
Switch(s, c) == IF s["connector"] = Unset THEN c.connector ELSE s["connector"]

\* The latest request is a submission that failed.
Failed == pc = "idle" /\ result = "failed" /\ req.form > 0

\* A submission that failed at whatever step leaves the settings and the list
\* as they were, unless a command failed while they were being restored.
FailedLeavesOld ==
  Failed /\ "settings" \notin spoiled =>
    /\ \A k \in Keys \ {"connector"} : settings[k] = was.settings[k]
    /\ list = was.list

\* Nor does it change the connector switch in effect, even when the core took
\* the new one before the failure and there was no setting to go back to.
SwitchKept ==
  pc = "idle" /\ result = "failed" /\ spoiled \cap {"settings", "connector"} = {} =>
    Switch(settings, core) = Switch(was.settings, was.core)

\* After a submission that failed the service is what it was: none appears, an
\* enabled one runs again, with the old settings in force or as it ran before,
\* and the user's stop is in force or not as it was.
ServiceComesBack ==
  Failed /\ spoiled = {} =>
    /\ stopped = was.stopped
    /\ daemon => was.daemon
    /\ was.daemon /\ was.settings["enable"] = "1" /\ was.list # Bad => daemon
    /\ daemon => core \in {was.core, Wanted(settings, list, core)}

\* What a success says is true: the submitted settings are the settings, and
\* the service runs with them or, when disabled, is stopped and stays so.
SuccessInForce ==
  pc = "idle" /\ result = "success" =>
    /\ req.form > 0 => \A k \in Carried(req.form) : settings[k] = req.bits[k]
    /\ req.form > 1 => list = req.list
    /\ req.op # "stop" /\ settings["enable"] = "1" =>
         daemon /\ ~stopped /\ core = Wanted(settings, list, core)
    /\ req.op = "stop" \/ (req.op = "web_submit" /\ settings["enable"] # "1") =>
         ~daemon /\ stopped

\* A submission never touches what its form does not carry, whatever files an
\* earlier job left behind: only the connector switch of the core is adopted.
UncarriedKept ==
  req.form > 0 =>
    /\ \A k \in Keys \ Carried(req.form) :
         \/ settings[k] = was.settings[k]
         \/ k = "connector" /\ was.settings[k] = Unset /\ settings[k] = was.core.connector
    /\ req.form = 1 => list = was.list

\* What the settings, the list and the core amount to, item by item.
InEffect(s, l, c) ==
  [i \in Keys \cup {"list"} |->
     CASE i = "list" -> l [] i = "connector" -> Switch(s, c) [] OTHER -> s[i]]

\* The items the latest request asks for; the oldest form has no list.
Asked(r) ==
  [i \in DOMAIN r.bits \cup (IF r.form > 1 THEN {"list"} ELSE {}) |->
     IF i = "list" THEN r.list ELSE r.bits[i]]

\* What the job says, and its log where the old settings did not come back.
\* A job that still runs when no script does was killed.
Verdict ==
  CASE pc # "idle" -> "running"
    [] pc = "idle" /\ result = "running" -> "none"
    [] pc = "idle" /\ result = "failed" /\ spoiled \cap {"settings", "connector"} # {} -> "spoiled"
    [] OTHER -> result

Promise == INSTANCE SettingsPromise WITH
             Item <- Keys \cup {"list"},
             Value <- Bit \cup {Unset} \cup AllLists,
             config <- InEffect(settings, list, core),
             base <- InEffect(was.settings, was.list, was.core),
             pending <- Asked(req),
             verdict <- Verdict

\* At every step, whatever fails or crashes, each item in effect is the old or
\* the submitted one, and a verdict of success or failure is a verdict on all.
SubmitsAtomically == Promise!Spec
=============================================================================
