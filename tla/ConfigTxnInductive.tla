-------------------------- MODULE ConfigTxnInductive --------------------------
(***************************************************************************)
(* The inductive invariant of ConfigTxn: what holds between two steps of   *)
(* the script, also where no property of ConfigTxn looks, so that every    *)
(* step can be shown to lead from one such state to another.               *)
(* Below it, the number of steps a request has left at each place.         *)
(***************************************************************************)
EXTENDS ConfigTxn

\* The places of an operation, from its choice to its return code.
Operating == {"dispatch", "stop", "read", "launch", "adopt", "prefs", "rest", "returned"}
Starting == {"read", "launch", "adopt", "prefs", "rest"}
Restoring == {"restore", "restoreList", "restored"}

\* The keys were written back as far as they had to be.
SettingsBack == "settings" \notin spoiled
SwitchBack == spoiled \cap {"settings", "connector"} = {}

\* Where the script can be with which request and which of its flags.
PlaceInv ==
  /\ req.form = 0 => ~applied /\ pc \in {"idle"} \cup Operating
  /\ req.form > 0 => req.op = "web_submit" /\ (pc \in Operating => applied)
  /\ applied => pc \in Operating \cup Restoring \cup {"flag"}
  /\ undoing => applied /\ pc \in (Operating \ {"dispatch"}) \cup {"flag"}
  /\ pc = "flag" => undoing
  /\ pc # "idle" => result = "running"
  /\ pc \in {"write", "restore"} => at <= req.form
  /\ pc \in {"list", "restoreList"} => req.form > 1
  /\ pc \notin {"write", "restore"} => at = 1
  /\ failed => pc \in Restoring /\ ~SwitchBack
  /\ pc \notin {"idle", "flag"} /\ ~failed => spoiled = {}
  /\ pc \in {"idle", "snapshot"} => ~applied /\ ~capture /\ before = Unset

\* The snapshot holds what was there when the request came.
SnapshotInv ==
  /\ pc = "snapshot" => was = Now
  /\ req.form > 0 /\ pc \notin {"idle", "snapshot"} =>
       /\ Len(saved.keys) = req.form
       /\ \A i \in 1 .. req.form : saved.keys[i] = was.settings[Order[i]]
       /\ saved.list = IF req.form = 1 THEN Absent ELSE was.list
       /\ old = [running |-> was.daemon, manual |-> was.stopped]

\* A key other than the connector's was written back, or never written.
Back(i) ==
  \/ pc \in {"snapshot", "restoreList", "restored"} \/ undoing
  \/ pc = "restore" /\ i < at
  \/ pc = "idle" /\ result = "failed"

ListBack ==
  pc \in {"snapshot", "write", "list", "restored"} \/ undoing \/ (pc = "idle" /\ result = "failed")

\* What the form does not carry is as it was, at every step; what it carries is
\* as it was before the first write and again after it was written back.
OldInv ==
  /\ \A i \in {1, 2} :
       i > req.form \/ (Back(i) /\ SettingsBack) => settings[Order[i]] = was.settings[Order[i]]
  /\ req.form < 2 \/ (ListBack /\ SettingsBack) => list = was.list

\* Key i has its new value.
Written(i) ==
  \/ pc = "list" \/ (pc \in Operating /\ ~undoing)
  \/ pc = "write" /\ i < at
  \/ pc = "idle" /\ result = "success"

\* What the form carries has its new value from its write to the verdict.
NewInv ==
  /\ \A i \in 1 .. 3 : i <= req.form /\ Written(i) => settings[Order[i]] = req.bits[Order[i]]
  /\ req.form > 1 /\ Written(0) /\ pc \notin {"write", "list"} => list = req.list

\* The switch in effect is the old one, always for the forms that do not carry
\* it; for the other the captured value stands for it once the core may have
\* taken the new one.
SwitchInv ==
  /\ \/ req.form < 3
     \/ pc = "snapshot" \/ undoing
     \/ pc = "idle" /\ result = "failed" /\ SwitchBack
     => Switch(settings, core) = Switch(was.settings, was.core)
  /\ req.form < 3 => ~capture /\ before = Unset
  /\ req.form < 3 =>
       \/ settings["connector"] = was.settings["connector"]
       \/ was.settings["connector"] = Unset /\ settings["connector"] = was.core["connector"]
  /\ pc \in {"prefs", "rest"} => ~capture
  /\ req.form = 3 /\ pc \notin {"idle", "snapshot"} =>
       \/ was.settings["connector"] # Unset /\ ~capture /\ before = Unset
       \/ /\ was.settings["connector"] = Unset
          /\ \/ capture /\ before = Unset /\ core["connector"] = was.core["connector"]
             \/ ~capture /\ before = was.core["connector"]
  /\ req.form = 3 /\ pc \in {"restoreList", "restored"} /\ SwitchBack =>
       settings["connector"] = was.settings["connector"]

\* The service: untouched before the operation, in force after its steps, and
\* on the way back only where it ran before.
Untouched == daemon = was.daemon /\ stopped = was.stopped /\ core = was.core
InForce == daemon /\ core = Wanted(settings, list, core)
ServiceInv ==
  /\ req.form > 0 /\ pc # "idle" /\ ~applied => Untouched
  /\ pc = "dispatch" => req.form > 0 \/ Untouched
  /\ pc \in {"launch", "adopt", "prefs", "rest"} => settings["enable"] = "1" /\ list # Bad
  /\ pc \in {"adopt", "prefs", "rest"} => daemon /\ ~stopped
  /\ pc = "rest" => InForce
  /\ pc \in Starting \/ (pc = "stop" /\ next = "read") =>
       IF undoing THEN was.daemon
       ELSE req.op # "stop" /\ (req.op = "web_submit" => settings["enable"] = "1")
  /\ pc = "stop" /\ next = "returned" =>
       IF undoing THEN ~was.daemon
       ELSE stopped /\ (req.op = "stop" \/ (req.op = "web_submit" /\ settings["enable"] # "1"))
  /\ undoing /\ pc \in {"read", "launch"} => ~daemon
  /\ (pc = "returned" /\ undoing /\ rc) \/ (pc = "flag" /\ spoiled = {}) =>
       /\ daemon => was.daemon /\ InForce
       /\ was.daemon /\ settings["enable"] = "1" => daemon
  /\ (pc = "returned" /\ ~undoing /\ rc) \/ (pc = "idle" /\ result = "success") =>
       /\ req.op # "stop" /\ settings["enable"] = "1" => InForce /\ ~stopped
       /\ req.op = "stop" \/ (req.op = "web_submit" /\ settings["enable"] # "1") =>
            ~daemon /\ stopped
  /\ pc = "idle" /\ result = "failed" /\ req.form > 0 /\ spoiled = {} =>
       /\ stopped = was.stopped
       /\ Untouched \/ (daemon => was.daemon /\ InForce)
       /\ was.daemon /\ settings["enable"] = "1" => daemon

\* Whatever a step has written, each item is the old or the submitted one.  The
\* switch of the core, where it stood for the setting, may become the setting.
MixInv ==
  /\ \A i \in {1, 2} :
       \/ settings[Order[i]] = was.settings[Order[i]]
       \/ i <= req.form /\ settings[Order[i]] = req.bits[Order[i]]
  /\ list = was.list \/ (req.form > 1 /\ list = req.list)
  /\ req.form = 3 =>
       /\ \/ settings["connector"] \in {was.settings["connector"], req.bits["connector"]}
          \/ was.settings["connector"] = Unset /\ settings["connector"] = was.core["connector"]
       /\ was.settings["connector"] = Unset =>
            core["connector"] \in {was.core["connector"], req.bits["connector"]}

\* A relation of all that the transaction keeps, true in every reachable state.
Inductive ==
  TypeOK /\ PlaceInv /\ SnapshotInv /\ OldInv /\ NewInv /\ SwitchInv /\ ServiceInv /\ MixInv

-----------------------------------------------------------------------------
(* The steps a script has left *)

\* An upper bound on them, from the place of the script, the key it is at and
\* whether it is on the way back already.  The longest way is a submission of
\* the newest form that fails at its end.
StepsFrom ==
  [idle |-> 0, flag |-> 1, returned |-> 2, rest |-> 3, prefs |-> 4, adopt |-> 5,
   launch |-> 6, read |-> 7, stop |-> 8, restored |-> 9, restoreList |-> 10,
   restore |-> 14, dispatch |-> 21, list |-> 22, write |-> 26, snapshot |-> 26]
WayBack == 12
StepsAt(place, key, back) ==
  StepsFrom[place] + (IF place \in Operating \ {"dispatch"} /\ ~back THEN WayBack ELSE 0)
                   - (IF place \in {"write", "restore"} THEN key ELSE 0)
StepsLeft == StepsAt(pc, at, undoing)

\* Whatever fails, a script that holds the lock cannot go on for ever: each of
\* its steps leaves fewer of them, and only a request starts anew.
ScriptsEnd ==
  [][/\ Script => StepsLeft' < StepsLeft
     /\ StepsLeft' > StepsLeft => Requests]_vars

\* No script takes more than 26 steps, and there are none left only when it is over.
StepsBounded == StepsLeft \in 0 .. 26 /\ (StepsLeft = 0 <=> pc = "idle")
=============================================================================
