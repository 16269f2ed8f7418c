--------------------------- MODULE ConfigTxnProofs ---------------------------
(***************************************************************************)
(* Proofs about ConfigTxn: that Inductive is an invariant, for every set   *)
(* of lists and forms and every bound on failures and crashes, the         *)
(* properties that follow from it, and the refinement of SettingsPromise.  *)
(*                                                                         *)
(* The refinement needs to know of every place that each item is the old   *)
(* or the submitted one (MixInv), and of the verdicts that it is the same  *)
(* for all. At the end, that each step of a request leaves fewer.          *)
(***************************************************************************)
EXTENDS ConfigTxnInductive, TLAPS

\* The three groups of keys, by index.
LEMMA OrderIs ==
  /\ Order[1] = "enable" /\ Order[2] = "custom" /\ Order[3] = "connector"
  /\ \A i \in 1 .. 3 : Order[i] \in Keys
BY DEF Order, Keys

\* What each form carries.
LEMMA CarriedIs ==
  /\ Carried(0) = {} /\ Carried(1) = {"enable"}
  /\ Carried(2) = {"enable", "custom"} /\ Carried(3) = Keys
<1>1. 1 .. 0 = {} /\ 1 .. 1 = {1} /\ 1 .. 2 = {1, 2} /\ 1 .. 3 = {1, 2, 3}
  OBVIOUS
<1> QED
  BY <1>1, OrderIs DEF Carried, Keys

\* The lines of a snapshot that was cut off are a sequence of as many lines.
LEMMA LinesAreCounted ==
  ASSUME NEW n \in 0 .. 3, NEW s \in Settings
  PROVE  LET l == [i \in 1 .. n |-> s[Order[i]]]
         IN /\ l \in Seq(Bit \cup {Unset}) /\ Len(l) = n
            /\ \A i \in 1 .. n : l[i] = s[Order[i]]
<1> DEFINE l == [i \in 1 .. n |-> s[Order[i]]]
<1>1. \A i \in 1 .. n : s[Order[i]] \in Bit \cup {Unset}
  BY OrderIs DEF Settings
<1>2. n \in Nat /\ l \in [1 .. n -> Bit \cup {Unset}]
  BY <1>1
<1>3. l \in Seq(Bit \cup {Unset})
  BY <1>2
<1>4. Len(l) = n
  BY <1>2, <1>3
<1> QED
  BY <1>3, <1>4

\* Every key a form carries has an index within the form.
LEMMA Carries ==
  ASSUME NEW form \in 0 .. 3, NEW i \in 1 .. 3
  PROVE  Order[i] \in Carried(form) <=> i <= form
BY OrderIs, CarriedIs DEF Keys

\* The types, by what changes together.
StoredTypes ==
  /\ settings \in Settings /\ list \in AllLists /\ core \in Prefs
  /\ daemon \in BOOLEAN /\ stopped \in BOOLEAN
BoundTypes ==
  /\ result \in {"none", "running", "success", "failed"}
  /\ spoiled \subseteq {"settings", "connector", "service"}
  /\ faults \in 0 .. MaxFaults
SavedTypes ==
  /\ saved.keys \in Seq(Bit \cup {Unset}) /\ Len(saved.keys) <= 3
  /\ saved = [keys |-> saved.keys, list |-> saved.list] /\ saved.list \in AllLists \cup {Absent}
ScriptTypes ==
  /\ pc \in Places /\ at \in 1 .. 3 /\ rc \in BOOLEAN /\ applied \in BOOLEAN
  /\ next \in {"read", "returned"} /\ undoing \in BOOLEAN /\ failed \in BOOLEAN
  /\ old \in [running : BOOLEAN, manual : BOOLEAN]
  /\ capture \in BOOLEAN /\ before \in Bit \cup {Unset}
RequestTypes ==
  /\ req.op \in Ops /\ req.form \in Forms \cup {0} /\ req.list \in Lists \cup {NoList}
  /\ req.bits \in [Carried(req.form) -> Bit]
WasTypes ==
  was \in [settings : Settings, list : AllLists, core : Prefs,
           daemon : BOOLEAN, stopped : BOOLEAN]

\* The types of the variables, grouped by the steps that change them.
LEMMA TypeParts ==
  TypeOK <=> /\ StoredTypes /\ BoundTypes /\ SavedTypes
             /\ ScriptTypes /\ RequestTypes /\ WasTypes
BY DEF TypeOK, StoredTypes, BoundTypes, SavedTypes, ScriptTypes, RequestTypes, WasTypes

\* A step that leaves the snapshot alone keeps its type.
LEMMA SavedStay == SavedTypes /\ UNCHANGED saved => SavedTypes'
BY DEF SavedTypes

\* A step that leaves the request alone keeps its type.
LEMMA RequestStays == RequestTypes /\ WasTypes /\ UNCHANGED <<req, was>> => RequestTypes' /\ WasTypes'
BY DEF RequestTypes, WasTypes

\* A script that ends leaves its variables with their types.
LEMMA DoneTypes == Done => ScriptTypes'
<1> SUFFICES ASSUME Done PROVE ScriptTypes'
  OBVIOUS
<1>1. old' \in [running : BOOLEAN, manual : BOOLEAN]
  BY DEF Done, NoService
<1>2. pc' \in Places
  BY DEF Done, Places
<1>3. at' \in 1 .. 3 /\ next' \in {"read", "returned"} /\ before' \in Bit \cup {Unset}
  BY DEF Done
<1>4. /\ rc' \in BOOLEAN /\ applied' \in BOOLEAN /\ undoing' \in BOOLEAN
      /\ failed' \in BOOLEAN /\ capture' \in BOOLEAN
  BY DEF Done
<1> QED
  BY <1>1, <1>2, <1>3, <1>4 DEF ScriptTypes

\* Removing the snapshot keeps its type.
LEMMA NotSavedType == saved' = NotSaved => SavedTypes'
<1>1. <<>> \in Seq(Bit \cup {Unset}) /\ Len(<<>>) = 0
  OBVIOUS
<1> QED
  BY <1>1 DEF NotSaved, SavedTypes

\* What ts_start asks for can be a preference of the core.
LEMMA WantedType ==
  ASSUME StoredTypes, list # Bad
  PROVE  Wanted(settings, list, core) \in Prefs
BY DEF StoredTypes, Wanted, Prefs, AllLists, Settings, Keys

\* The index of a key that is written belongs to the form.
LEMMA KeyToWrite ==
  ASSUME Inductive, pc \in {"write", "restore"}
  PROVE  /\ at \in 1 .. 3 /\ req.form \in 1 .. 3 /\ at <= req.form
         /\ Order[at] \in Keys
         /\ pc = "write" => req.bits[Order[at]] \in Bit
         /\ pc = "restore" => /\ Len(saved.keys) = req.form
                             /\ saved.keys[at] = was.settings[Order[at]]
                             /\ saved.keys[at] \in Bit \cup {Unset}
<1>1. at \in 1 .. 3 /\ req.form \in 1 .. 3 /\ at <= req.form
  BY FormsAssumption DEF Inductive, TypeOK, PlaceInv
<1>2. Order[at] \in Keys
  BY <1>1, OrderIs
<1>3. req.bits[Order[at]] \in Bit
  BY <1>1, Carries DEF Inductive, TypeOK
<1>4. was.settings[Order[at]] \in Bit \cup {Unset}
  BY <1>2 DEF Inductive, TypeOK, Settings
<1>5. pc = "restore" => Len(saved.keys) = req.form /\ saved.keys[at] = was.settings[Order[at]]
  BY <1>1 DEF Inductive, SnapshotInv
<1> QED
  BY <1>1, <1>2, <1>3, <1>4, <1>5

\* Writing a key keeps the type of the settings.
LEMMA SettingsUpdate ==
  ASSUME NEW s \in Settings, NEW k \in Keys, NEW v \in Bit \cup {Unset}
  PROVE  [s EXCEPT ![k] = v] \in Settings
BY DEF Settings

\* The list that is saved, if one is, is a list.
LEMMA SavedListType ==
  ASSUME Inductive, pc = "restoreList"
  PROVE  saved.list \in AllLists /\ saved.list = was.list
<1>1. req.form > 1
  BY DEF Inductive, PlaceInv
<1>2. saved.list = was.list
  BY <1>1, FormsAssumption DEF Inductive, SnapshotInv, TypeOK
<1> QED
  BY <1>2 DEF Inductive, TypeOK

\* Every step keeps the types of the settings, the list, the core and the service.
LEMMA StoredTypesNext == Inductive /\ [Next]_vars => StoredTypes'
<1> SUFFICES ASSUME Inductive, [Next]_vars PROVE StoredTypes'
  OBVIOUS
<1>0. StoredTypes /\ ScriptTypes /\ RequestTypes /\ SavedTypes
  BY TypeParts DEF Inductive
<1>1. CASE Write
  BY <1>0, <1>1, KeyToWrite, SettingsUpdate DEF Write, service, StoredTypes
<1>2. CASE WriteList
  BY <1>0, <1>2 DEF WriteList, service, StoredTypes, RequestTypes, AllLists
<1>3. CASE WriteFails
  BY <1>0, <1>3, KeyToWrite, SettingsUpdate
  DEF WriteFails, MaySet, MaySetList, service, StoredTypes, RequestTypes, AllLists
<1>4. CASE Adopt
  BY <1>0, <1>4, SettingsUpdate DEF Adopt, service, StoredTypes, Prefs, Keys
<1>5. CASE AdoptFails
  BY <1>0, <1>5, SettingsUpdate DEF AdoptFails, service, StoredTypes, Prefs, Keys
<1>6. CASE SetPrefs
  BY <1>0, <1>6, WantedType
  DEF Inductive, ServiceInv, SetPrefs, stored, service, StoredTypes
<1>7. CASE SetPrefsFails
  BY <1>0, <1>7, WantedType
  DEF Inductive, ServiceInv, SetPrefsFails, stored, service, StoredTypes
<1>8. CASE Restore
  BY <1>0, <1>8, KeyToWrite, SettingsUpdate DEF Restore, service, StoredTypes
<1>9. CASE RestoreFails
  BY <1>0, <1>9, KeyToWrite, SettingsUpdate
  DEF RestoreFails, MaySet, service, StoredTypes
<1>10. CASE RestoreList
  BY <1>0, <1>10, SavedListType DEF RestoreList, service, StoredTypes
<1>11. CASE RestoreListFails
  BY <1>0, <1>11, SavedListType DEF RestoreListFails, MaySetList, service, StoredTypes
<1>12. CASE Migrate
  BY <1>0, <1>12, SettingsUpdate DEF Migrate, service, StoredTypes, ScriptTypes, Keys
<1>13. CASE MigrateFails
  BY <1>0, <1>13, SettingsUpdate
  DEF MigrateFails, MaySet, service, StoredTypes, ScriptTypes, Keys
<1>14. CASE Flag
  BY <1>0, <1>14 DEF Flag, stored, StoredTypes, ScriptTypes
<1>15. CASE Reboot
  BY <1>0, <1>15 DEF Reboot, stored, StoredTypes
<1>16. CASE Stop
  BY <1>0, <1>16 DEF Stop, stored, StoredTypes
<1>17. CASE Dispatch
  BY <1>0, <1>17 DEF Dispatch, stored, Return, StoredTypes
<1>18. CASE Launch
  BY <1>0, <1>18 DEF Launch, stored, StoredTypes
<1>19. CASE LaunchFails
  BY <1>0, <1>19 DEF LaunchFails, stored, service, StoredTypes
<1>20. CASE Submit \/ Plain \/ NotRecovered \/ Snapshot \/ SnapshotFails \/ ReadFails \/
          Read \/ Rest \/ RestFails \/ Succeed \/ FailPlain \/ Undo \/ Undone \/
          RestoreRefused \/ GiveUp \/ Killed
  BY <1>0, <1>20
  DEF Submit, Plain, NotRecovered, Snapshot, SnapshotFails, ReadFails, Read, Rest,
     RestFails, Succeed, FailPlain, Undo, Undone, RestoreRefused, GiveUp, Killed,
     Begin, stored, service, StoredTypes
<1>21. CASE UNCHANGED vars
  BY <1>0, <1>21 DEF vars, stored, service, StoredTypes
<1> QED
  BY <1>1, <1>2, <1>3, <1>4, <1>5, <1>6, <1>7, <1>8, <1>9, <1>10, <1>11, <1>12,
     <1>13, <1>14, <1>15, <1>16, <1>17, <1>18, <1>19, <1>20, <1>21 DEF Next, Requests, Script

\* Every step keeps the types of the script's variables.
LEMMA ScriptTypesNext == Inductive /\ [Next]_vars => ScriptTypes'
<1> SUFFICES ASSUME Inductive, [Next]_vars PROVE ScriptTypes'
  OBVIOUS
<1>0. StoredTypes /\ ScriptTypes
  BY TypeParts DEF Inductive
<1>1. CASE Snapshot
  <2>1. old' \in [running : BOOLEAN, manual : BOOLEAN] /\ capture' \in BOOLEAN
    BY <1>0, <1>1 DEF Snapshot, StoredTypes
  <2>2. pc' \in Places
    BY <1>0, <1>1 DEF Snapshot, Places
  <2> QED
    BY <1>0, <1>1, <2>1, <2>2 DEF Snapshot, ScriptTypes
<1>2. CASE Write
  <2>1. at' \in 1 .. 3
    BY <1>0, <1>2, KeyToWrite DEF Write
  <2>2. pc' \in Places /\ applied' \in BOOLEAN
    BY <1>0, <1>2 DEF Write, Places, ScriptTypes
  <2> QED
    BY <1>0, <1>2, <2>1, <2>2 DEF Write, captured, ScriptTypes
<1>3. CASE Adopt
  <2>1. before' \in Bit \cup {Unset} /\ capture' \in BOOLEAN
    BY <1>0, <1>3 DEF Adopt, Capture, captured, StoredTypes, ScriptTypes, Prefs
  <2>2. pc' \in Places /\ rc' \in BOOLEAN
    BY <1>0, <1>3 DEF Adopt, Return, Places, ScriptTypes
  <2> QED
    BY <1>0, <1>3, <2>1, <2>2 DEF Adopt, ScriptTypes
<1>4. CASE AdoptFails
  <2>1. before' \in Bit \cup {Unset} /\ capture' \in BOOLEAN
    BY <1>0, <1>4 DEF AdoptFails, Capture, captured, StoredTypes, ScriptTypes, Prefs
  <2>2. pc' \in Places /\ rc' \in BOOLEAN
    BY <1>0, <1>4 DEF AdoptFails, Return, Places, ScriptTypes
  <2> QED
    BY <1>0, <1>4, <2>1, <2>2 DEF AdoptFails, ScriptTypes
<1>5. CASE Restore
  <2>1. at' \in 1 .. 3
    BY <1>0, <1>5, KeyToWrite DEF Restore, NextKey
  <2>2. pc' \in Places
    BY <1>0, <1>5 DEF Restore, NextKey, Places, ScriptTypes
  <2> QED
    BY <1>0, <1>5, <2>1, <2>2 DEF Restore, captured, ScriptTypes
<1>6. CASE RestoreFails
  <2>1. at' \in 1 .. 3
    BY <1>0, <1>6, KeyToWrite DEF RestoreFails, NextKey
  <2>2. pc' \in Places
    BY <1>0, <1>6 DEF RestoreFails, NextKey, Places, ScriptTypes
  <2> QED
    BY <1>0, <1>6, <2>1, <2>2 DEF RestoreFails, captured, ScriptTypes
<1>7. CASE NotRecovered \/ SnapshotFails \/ Succeed \/ FailPlain \/ GiveUp \/
          MigrateFails \/ Flag \/ Killed \/ Reboot
  BY <1>7, DoneTypes
  DEF NotRecovered, SnapshotFails, Succeed, FailPlain, GiveUp, MigrateFails, Flag,
     Killed, Reboot, Fail
<1>8. CASE Submit \/ Plain
  BY <1>0, <1>8 DEF Submit, Plain, Begin, captured, ScriptTypes, Places
<1>9. CASE WriteList
  BY <1>0, <1>9 DEF WriteList, captured, ScriptTypes, Places
<1>10. CASE WriteFails
  BY <1>0, <1>10 DEF WriteFails, captured, ScriptTypes, Places
<1>11. CASE Dispatch
  BY <1>0, <1>11 DEF Dispatch, Return, captured, ScriptTypes, Places
<1>12. CASE ReadFails \/ Stop \/ Read \/ Launch \/ LaunchFails
  BY <1>0, <1>12
  DEF ReadFails, Stop, Read, Launch, LaunchFails, Return, captured, ScriptTypes,
     Places
<1>13. CASE SetPrefs \/ SetPrefsFails \/ Rest \/ RestFails
  BY <1>0, <1>13
  DEF SetPrefs, SetPrefsFails, Rest, RestFails, Return, captured, ScriptTypes,
     Places
<1>14. CASE Undo \/ Undone
  BY <1>0, <1>14 DEF Undo, Undone, captured, ScriptTypes, Places
<1>15. CASE RestoreRefused \/ RestoreList \/ RestoreListFails
  BY <1>0, <1>15
  DEF RestoreRefused, RestoreList, RestoreListFails, captured, ScriptTypes, Places
<1>16. CASE Migrate
  BY <1>0, <1>16 DEF Migrate, captured, ScriptTypes, Places
<1>17. CASE UNCHANGED vars
  BY <1>0, <1>17 DEF vars, script, captured, ScriptTypes
<1> QED
  BY <1>1, <1>2, <1>3, <1>4, <1>5, <1>6, <1>7, <1>8, <1>9, <1>10, <1>11, <1>12,
     <1>13, <1>14, <1>15, <1>16, <1>17 DEF Next, Requests, Script

\* Every step keeps the type of the snapshot.
LEMMA SavedTypesNext == Inductive /\ [Next]_vars => SavedTypes'
<1> SUFFICES ASSUME Inductive, [Next]_vars PROVE SavedTypes'
  OBVIOUS
<1>0. StoredTypes /\ SavedTypes /\ RequestTypes
  BY TypeParts DEF Inductive
<1>1. req.form \in 0 .. 3
  <2>1. req.form \in Forms \cup {0}
    BY <1>0 DEF RequestTypes
  <2>2. CASE req.form \in Forms
    <3>1. req.form \in 1 .. 3
      BY <2>2, FormsAssumption
    <3> QED
      BY <3>1
  <2>3. CASE req.form = 0
    BY <2>3
  <2> QED
    BY <2>1, <2>2, <2>3
<1>2. CASE Snapshot
  <2>1. /\ saved'.keys = [i \in 1 .. req.form |-> settings[Order[i]]]
        /\ saved'.list \in AllLists \cup {Absent}
        /\ saved' = [keys |-> saved'.keys, list |-> saved'.list]
    BY <1>0, <1>2 DEF Snapshot, StoredTypes
  <2> QED
    BY <1>0, <1>1, <2>1, LinesAreCounted DEF StoredTypes, SavedTypes
<1>3. CASE SnapshotFails
  <2>1. PICK n \in 0 .. req.form :
          saved' = [keys |-> [i \in 1 .. n |-> settings[Order[i]]], list |-> Absent]
    BY <1>3 DEF SnapshotFails
  <2>2. n \in 0 .. 3
    BY <1>1
  <2>3. /\ saved'.keys = [i \in 1 .. n |-> settings[Order[i]]] /\ saved'.list = Absent
        /\ saved' = [keys |-> saved'.keys, list |-> saved'.list]
    BY <2>1
  <2> QED
    BY <1>0, <2>2, <2>3, LinesAreCounted DEF StoredTypes, SavedTypes
<1>4. CASE Succeed \/ GiveUp \/ MigrateFails \/ Flag \/ Reboot
  BY <1>0, <1>4, NotSavedType, SavedStay DEF Succeed, GiveUp, MigrateFails, Flag, Reboot
<1>5. CASE Submit \/ Plain \/ NotRecovered \/ Write \/ WriteList \/ WriteFails \/
          Dispatch \/ ReadFails \/ Stop \/ Read \/ Launch \/ LaunchFails \/ Adopt \/
          AdoptFails \/ SetPrefs \/ SetPrefsFails \/ Rest \/ RestFails \/ FailPlain \/
          Undo \/ Undone \/ Restore \/ RestoreFails \/ RestoreRefused \/ RestoreList \/
          RestoreListFails \/ Migrate \/ Killed
  <2>1. UNCHANGED saved
    BY <1>5
    DEF Submit, Plain, NotRecovered, Write, WriteList, WriteFails, Dispatch,
       ReadFails, Stop, Read, Launch, LaunchFails, Adopt, AdoptFails, SetPrefs,
       SetPrefsFails, Rest, RestFails, FailPlain, Undo, Undone, Restore,
       RestoreFails, RestoreRefused, RestoreList, RestoreListFails, Migrate, Killed,
       Begin
  <2> QED
    BY <1>0, <2>1, SavedStay
<1>6. CASE UNCHANGED vars
  BY <1>0, <1>6, SavedStay DEF vars
<1> QED
  BY <1>2, <1>3, <1>4, <1>5, <1>6 DEF Next, Requests, Script

\* What fails or is cut short stays within its bound.
LEMMA FaultType == BoundTypes /\ Fault => faults' \in 0 .. MaxFaults
BY BoundAssumption DEF BoundTypes, Fault

\* Every step keeps the types of the history and of the bounds.
LEMMA BoundTypesNext == Inductive /\ [Next]_vars => BoundTypes'
<1> SUFFICES ASSUME Inductive, [Next]_vars PROVE BoundTypes'
  OBVIOUS
<1>0. BoundTypes
  BY TypeParts DEF Inductive
<1>1. CASE Killed \/ Reboot
  <2>1. Fault
    BY <1>1 DEF Killed, Reboot
  <2> QED
    BY <1>0, <1>1, <2>1, FaultType DEF Killed, Reboot, job, BoundTypes
<1>2. CASE Submit \/ Plain
  BY <1>0, <1>2 DEF Submit, Plain, Begin, BoundTypes
<1>3. CASE Undone
  BY <1>0, <1>3 DEF Undone, job, BoundTypes
<1>4. CASE Succeed \/ FailPlain \/ GiveUp \/ Flag
  BY <1>0, <1>4 DEF Succeed, FailPlain, GiveUp, Flag, Fail, BoundTypes
<1>5. CASE Snapshot \/ Write \/ WriteList \/ Dispatch \/ Stop \/ Read \/ Launch \/ Adopt \/
          SetPrefs \/ Rest \/ Undo \/ Restore \/ RestoreList \/ Migrate
  BY <1>0, <1>5
  DEF Snapshot, Write, WriteList, Dispatch, Stop, Read, Launch, Adopt, SetPrefs,
     Rest, Undo, Restore, RestoreList, Migrate, job, BoundTypes
<1>6. CASE RestoreFails \/ RestoreRefused \/ RestoreListFails
  <2>1. Fault
    BY <1>6 DEF RestoreFails, RestoreRefused, RestoreListFails
  <2> QED
    BY <1>0, <1>6, <2>1, FaultType
    DEF RestoreFails, RestoreRefused, RestoreListFails, Fail, job, BoundTypes
<1>7. CASE MigrateFails
  <2>1. Fault
    BY <1>7 DEF MigrateFails
  <2> QED
    BY <1>0, <1>7, <2>1, FaultType DEF MigrateFails, Fail, job, BoundTypes
<1>8. CASE NotRecovered \/ SnapshotFails \/ WriteFails \/ ReadFails
  <2>1. Fault
    BY <1>8 DEF NotRecovered, SnapshotFails, WriteFails, ReadFails
  <2> QED
    BY <1>0, <1>8, <2>1, FaultType
    DEF NotRecovered, SnapshotFails, WriteFails, ReadFails, Fail, job, BoundTypes
<1>9. CASE LaunchFails \/ AdoptFails \/ SetPrefsFails \/ RestFails
  <2>1. Fault
    BY <1>9 DEF LaunchFails, AdoptFails, SetPrefsFails, RestFails
  <2> QED
    BY <1>0, <1>9, <2>1, FaultType
    DEF LaunchFails, AdoptFails, SetPrefsFails, RestFails, Fail, job, BoundTypes
<1>10. CASE UNCHANGED vars
  BY <1>0, <1>10 DEF vars, job, BoundTypes
<1> QED
  BY <1>1, <1>2, <1>3, <1>4, <1>5, <1>6, <1>7, <1>8, <1>9, <1>10
  DEF Next, Requests, Script

\* Every step keeps the types of the request and of what was there when it came.
LEMMA RequestTypesNext == Inductive /\ [Next]_vars => RequestTypes' /\ WasTypes'
<1> SUFFICES ASSUME Inductive, [Next]_vars PROVE RequestTypes' /\ WasTypes'
  OBVIOUS
<1>0. StoredTypes /\ RequestTypes /\ WasTypes
  BY TypeParts DEF Inductive
<1>1. ASSUME was' = Now PROVE WasTypes'
  BY <1>0, <1>1 DEF Now, StoredTypes, WasTypes
<1>2. CASE Submit
  <2>1. PICK form \in Forms, l \in Lists \cup {NoList} :
          \E bits \in [Carried(form) -> Bit] :
            Begin([op |-> "web_submit", form |-> form, bits |-> bits, list |-> l], "snapshot")
    BY <1>2 DEF Submit
  <2>2. PICK bits \in [Carried(form) -> Bit] :
          Begin([op |-> "web_submit", form |-> form, bits |-> bits, list |-> l], "snapshot")
    BY <2>1
  <2>3. /\ req' = [op |-> "web_submit", form |-> form, bits |-> bits, list |-> l]
        /\ was' = Now
    BY <2>2 DEF Begin
  <2> QED
    BY <1>1, <2>3 DEF RequestTypes, Ops
<1>3. CASE Plain
  <2>1. PICK op \in Ops :
          Begin([op |-> op, form |-> 0, bits |-> <<>>, list |-> NoList], "dispatch")
    BY <1>3 DEF Plain
  <2>2. req' = [op |-> op, form |-> 0, bits |-> <<>>, list |-> NoList] /\ was' = Now
    BY <2>1 DEF Begin
  <2>3. <<>> \in [Carried(0) -> Bit]
    BY CarriedIs
  <2> QED
    BY <1>1, <2>2, <2>3 DEF RequestTypes
<1>4. CASE NotRecovered \/ Snapshot \/ SnapshotFails \/ Write \/ WriteList \/ WriteFails \/
          Dispatch \/ ReadFails \/ Stop \/ Read \/ Launch \/ LaunchFails \/ Adopt \/
          AdoptFails \/ SetPrefs \/ SetPrefsFails \/ Rest \/ RestFails \/ Succeed \/
          FailPlain \/ Undo \/ Undone \/ Restore \/ RestoreFails \/ RestoreRefused \/
          RestoreList \/ RestoreListFails \/ GiveUp \/ Migrate \/ MigrateFails \/ Flag \/
          Killed \/ Reboot
  <2>1. UNCHANGED <<req, was>>
    BY <1>4
    DEF NotRecovered, Snapshot, SnapshotFails, Write, WriteList, WriteFails,
       Dispatch, ReadFails, Stop, Read, Launch, LaunchFails, Adopt, AdoptFails,
       SetPrefs, SetPrefsFails, Rest, RestFails, Succeed, FailPlain, Undo, Undone,
       Restore, RestoreFails, RestoreRefused, RestoreList, RestoreListFails, GiveUp,
       Migrate, MigrateFails, Flag, Killed, Reboot, Fail, job
  <2> QED
    BY <1>0, <2>1, RequestStays
<1>5. CASE UNCHANGED vars
  BY <1>0, <1>5, RequestStays DEF vars, job
<1> QED
  BY <1>2, <1>3, <1>4, <1>5 DEF Next, Requests, Script

\* Every step keeps the types.
LEMMA TypesNext == Inductive /\ [Next]_vars => TypeOK'
<1> SUFFICES ASSUME Inductive, [Next]_vars PROVE TypeOK'
  OBVIOUS
<1>1. /\ StoredTypes' /\ BoundTypes' /\ SavedTypes'
      /\ ScriptTypes' /\ RequestTypes' /\ WasTypes'
  BY StoredTypesNext, BoundTypesNext, SavedTypesNext, ScriptTypesNext, RequestTypesNext
<1> QED
  BY <1>1
  DEF TypeOK, StoredTypes, BoundTypes, SavedTypes, ScriptTypes, RequestTypes,
     WasTypes

-----------------------------------------------------------------------------
(* The steps keep the invariant *)

\* What a request leaves behind.
LEMMA Requested ==
  ASSUME Inductive, Submit \/ Plain
  PROVE  /\ pc = "idle" /\ was' = Now /\ result' = "running" /\ spoiled' = {}
         /\ UNCHANGED <<settings, list, core, daemon, stopped, at, rc, applied, undoing,
                       failed, capture, before>>
         /\ \/ pc' = "snapshot" /\ req'.form \in 1 .. 3 /\ req'.op = "web_submit"
            \/ pc' = "dispatch" /\ req'.form = 0
<1>1. CASE Submit
  <2>1. PICK form \in Forms, l \in Lists \cup {NoList} :
          \E bits \in [Carried(form) -> Bit] :
            Begin([op |-> "web_submit", form |-> form, bits |-> bits, list |-> l], "snapshot")
    BY <1>1 DEF Submit
  <2>2. PICK bits \in [Carried(form) -> Bit] :
          Begin([op |-> "web_submit", form |-> form, bits |-> bits, list |-> l], "snapshot")
    BY <2>1
  <2>3. form \in 1 .. 3
    BY FormsAssumption
  <2> QED
    BY <2>2, <2>3 DEF Begin, stored, service, captured
<1>2. CASE Plain
  BY <1>2 DEF Plain, Begin, stored, service, captured
<1> QED
  BY <1>1, <1>2

\* The form of a request is one of the three or none.
LEMMA FormType == Inductive => req.form \in 0 .. 3
<1>1. Inductive => req.form \in Forms \cup {0}
  BY DEF Inductive, TypeOK
<1>2. \A f \in Forms : f \in 1 .. 3
  BY FormsAssumption
<1> QED
  BY <1>1, <1>2

\* What is left of the script when it has ended.
LEMMA Ended ==
  ASSUME Done
  PROVE  /\ pc' = "idle" /\ at' = 1 /\ ~applied' /\ ~undoing' /\ ~failed'
         /\ ~capture' /\ before' = Unset
BY DEF Done

\* Writing one key leaves the others alone.
LEMMA KeysApart ==
  ASSUME NEW S \in Settings, NEW i \in 1 .. 3, NEW v
  PROVE  \A j \in 1 .. 3 :
           [S EXCEPT ![Order[i]] = v][Order[j]] = IF j = i THEN v ELSE S[Order[j]]
BY OrderIs DEF Settings, Keys

\* Asking again for what is in force changes nothing.
LEMMA WantedTwice ==
  ASSUME NEW S, NEW l, NEW c
  PROVE  Wanted(S, l, Wanted(S, l, c)) = Wanted(S, l, c)
BY DEF Wanted

\* The list that was there is never mistaken for one that was not saved.
LEMMA NotAbsent == Inductive => was.list # Absent
BY ListsAssumption DEF Inductive, TypeOK, AllLists, Absent, Bad, NoList

\* The submitted switch is one.
LEMMA SubmittedSwitch ==
  ASSUME Inductive, req.form = 3
  PROVE  req.bits["connector"] # Unset
<1>1. req.bits \in [Keys -> Bit]
  BY CarriedIs DEF Inductive, TypeOK
<1> QED
  BY <1>1 DEF Keys, Bit, Unset

\* Every step leads to a place that fits the request and the flags.
LEMMA PlaceNext == Inductive /\ [Next]_vars => PlaceInv'
<1> SUFFICES ASSUME Inductive, [Next]_vars PROVE PlaceInv'
  OBVIOUS
<1>0. /\ PlaceInv /\ SwitchInv /\ req.form \in 0 .. 3 /\ ScriptTypes
      /\ pc \in {"write", "restore"} => at \in 1 .. 3
  BY FormType, TypeParts, KeyToWrite DEF Inductive
<1>1. CASE Submit \/ Plain
  BY <1>0, <1>1, Requested DEF Now, PlaceInv, Operating, Restoring, SwitchBack
<1>2. CASE NotRecovered
  BY <1>0, <1>2, Ended
  DEF NotRecovered, Fail, Fault, stored, service, PlaceInv, Operating, Restoring,
     SwitchBack
<1>3. CASE Snapshot
  BY <1>0, <1>3
  DEF Snapshot, stored, service, job, PlaceInv, Operating, Restoring, SwitchBack
<1>4. CASE SnapshotFails
  BY <1>0, <1>4, Ended
  DEF SnapshotFails, Fail, Fault, stored, service, PlaceInv, Operating, Restoring,
     SwitchBack
<1>5. CASE Write
  BY <1>0, <1>5
  DEF Write, service, captured, job, PlaceInv, Operating, Restoring, SwitchBack
<1>6. CASE WriteList
  BY <1>0, <1>6
  DEF WriteList, service, captured, job, PlaceInv, Operating, Restoring, SwitchBack
<1>7. CASE WriteFails
  BY <1>0, <1>7
  DEF WriteFails, Fault, MaySet, MaySetList, service, captured, job, PlaceInv,
     Operating, Restoring, SwitchBack
<1>8. CASE Dispatch
  BY <1>0, <1>8
  DEF Dispatch, Return, stored, captured, job, PlaceInv, Operating, Restoring,
     SwitchBack
<1>9. CASE ReadFails
  BY <1>0, <1>9
  DEF ReadFails, Fault, Return, stored, service, captured, job, PlaceInv, Operating,
     Restoring, SwitchBack
<1>10. CASE Stop
  BY <1>0, <1>10
  DEF Stop, stored, captured, job, PlaceInv, Operating, Restoring, SwitchBack,
     ScriptTypes
<1>11. CASE Read
  BY <1>0, <1>11
  DEF Read, Return, stored, service, captured, job, PlaceInv, Operating, Restoring,
     SwitchBack
<1>12. CASE Launch
  BY <1>0, <1>12
  DEF Launch, stored, captured, job, PlaceInv, Operating, Restoring, SwitchBack
<1>13. CASE LaunchFails
  BY <1>0, <1>13
  DEF LaunchFails, Fault, Return, stored, service, captured, job, PlaceInv,
     Operating, Restoring, SwitchBack
<1>14. CASE Adopt
  BY <1>0, <1>14
  DEF Adopt, Capture, service, job, PlaceInv, Operating, Restoring, SwitchBack
<1>15. CASE AdoptFails
  BY <1>0, <1>15
  DEF AdoptFails, Fault, Return, Capture, service, captured, job, PlaceInv,
     Operating, Restoring, SwitchBack
<1>16. CASE SetPrefs
  BY <1>0, <1>16
  DEF SetPrefs, stored, service, captured, job, PlaceInv, Operating, Restoring,
     SwitchBack
<1>17. CASE SetPrefsFails
  BY <1>0, <1>17
  DEF SetPrefsFails, Fault, Return, stored, service, captured, job, PlaceInv,
     Operating, Restoring, SwitchBack
<1>18. CASE Rest
  BY <1>0, <1>18
  DEF Rest, Return, stored, service, captured, job, PlaceInv, Operating, Restoring,
     SwitchBack
<1>19. CASE RestFails
  BY <1>0, <1>19
  DEF RestFails, Fault, Return, stored, service, captured, job, PlaceInv, Operating,
     Restoring, SwitchBack
<1>20. CASE Succeed
  BY <1>0, <1>20, Ended
  DEF Succeed, stored, service, PlaceInv, Operating, Restoring, SwitchBack
<1>21. CASE FailPlain
  BY <1>0, <1>21, Ended
  DEF FailPlain, Fail, stored, service, PlaceInv, Operating, Restoring, SwitchBack
<1>22. CASE Undo
  BY <1>0, <1>22
  DEF Undo, stored, service, captured, job, PlaceInv, Operating, Restoring,
     SwitchBack
<1>23. CASE Undone
  BY <1>0, <1>23
  DEF Undone, stored, service, captured, job, PlaceInv, Operating, Restoring,
     SwitchBack
<1>24. CASE Restore
  <2>1. at' \in 1 .. 3 /\ at' <= req.form
    BY <1>0, <1>24, KeyToWrite DEF Restore, NextKey
  <2>2. saved.list # Absent => req.form > 1
    BY <1>0, <1>24, KeyToWrite DEF Restore, Inductive, SnapshotInv
  <2> QED
    BY <1>0, <1>24, <2>1, <2>2
    DEF Restore, NextKey, captured, job, PlaceInv, Operating, Restoring, SwitchBack
<1>25. CASE RestoreFails
  <2>1. at' \in 1 .. 3 /\ at' <= req.form
    BY <1>0, <1>25, KeyToWrite DEF RestoreFails, NextKey
  <2>2. saved.list # Absent => req.form > 1
    BY <1>0, <1>25, KeyToWrite DEF RestoreFails, Inductive, SnapshotInv
  <2> QED
    BY <1>0, <1>25, <2>1, <2>2
    DEF RestoreFails, NextKey, captured, job, PlaceInv, Operating, Restoring,
       SwitchBack
<1>26. CASE RestoreRefused
  BY <1>0, <1>26
  DEF RestoreRefused, Fault, stored, service, captured, job, PlaceInv, Operating,
     Restoring, SwitchBack
<1>27. CASE RestoreList
  BY <1>0, <1>27
  DEF RestoreList, service, captured, job, PlaceInv, Operating, Restoring,
     SwitchBack
<1>28. CASE RestoreListFails
  BY <1>0, <1>28
  DEF RestoreListFails, Fault, MaySetList, service, captured, job, PlaceInv,
     Operating, Restoring, SwitchBack
<1>29. CASE GiveUp
  BY <1>0, <1>29, Ended
  DEF GiveUp, Fail, stored, service, PlaceInv, Operating, Restoring, SwitchBack
<1>30. CASE Migrate
  BY <1>0, <1>30
  DEF Migrate, service, captured, job, PlaceInv, Operating, Restoring, SwitchBack
<1>31. CASE MigrateFails
  BY <1>0, <1>31, Ended
  DEF MigrateFails, Fail, Fault, service, PlaceInv, Operating, Restoring, SwitchBack
<1>32. CASE Flag
  BY <1>0, <1>32, Ended
  DEF Flag, Fail, stored, PlaceInv, Operating, Restoring, SwitchBack
<1>33. CASE Killed
  BY <1>0, <1>33, Ended
  DEF Killed, stored, service, job, PlaceInv, Operating, Restoring, SwitchBack
<1>34. CASE Reboot
  BY <1>0, <1>34, Ended DEF Reboot, stored, PlaceInv, Operating, Restoring, SwitchBack
<1>35. CASE UNCHANGED vars
  BY <1>0, <1>35
  DEF vars, stored, service, script, captured, job, PlaceInv, Operating, Restoring,
     SwitchBack
<1> QED
  BY <1>1, <1>2, <1>3, <1>4, <1>5, <1>6, <1>7, <1>8, <1>9, <1>10, <1>11, <1>12,
     <1>13, <1>14, <1>15, <1>16, <1>17, <1>18, <1>19, <1>20, <1>21, <1>22, <1>23,
     <1>24, <1>25, <1>26, <1>27, <1>28, <1>29, <1>30, <1>31, <1>32, <1>33, <1>34,
     <1>35 DEF Next, Requests, Script

\* Every step keeps the snapshot what was there when the request came.
LEMMA SnapshotNext == Inductive /\ [Next]_vars => SnapshotInv'
<1> SUFFICES ASSUME Inductive, [Next]_vars PROVE SnapshotInv'
  OBVIOUS
<1>0. /\ PlaceInv /\ SnapshotInv /\ req.form \in 0 .. 3 /\ ScriptTypes
  BY FormType, TypeParts DEF Inductive
<1>1. CASE Submit \/ Plain
  BY <1>0, <1>1, Requested DEF Now, SnapshotInv
<1>2. CASE NotRecovered
  BY <1>0, <1>2, Ended DEF NotRecovered, Fail, Fault, stored, service, SnapshotInv
<1>3. CASE Snapshot
  <2>1. /\ saved'.keys = [i \in 1 .. req.form |-> settings[Order[i]]]
        /\ saved'.list = IF req.form = 1 THEN Absent ELSE list
        /\ old' = [running |-> daemon, manual |-> stopped]
    BY <1>3 DEF Snapshot
  <2>2. settings \in Settings
    BY DEF Inductive, TypeOK
  <2>3. /\ Len(saved'.keys) = req.form
        /\ \A i \in 1 .. req.form : saved'.keys[i] = settings[Order[i]]
    BY <1>0, <2>1, <2>2, LinesAreCounted
  <2>4. was = Now /\ pc' = "write"
    BY <1>0, <1>3 DEF Snapshot, SnapshotInv
  <2>5. UNCHANGED <<req, was>>
    BY <1>3 DEF Snapshot, job
  <2> QED
    BY <1>0, <2>1, <2>3, <2>4, <2>5 DEF SnapshotInv, Now
<1>4. CASE SnapshotFails
  BY <1>0, <1>4, Ended DEF SnapshotFails, Fail, Fault, stored, service, SnapshotInv
<1>5. CASE Write
  BY <1>0, <1>5 DEF Write, service, captured, job, SnapshotInv
<1>6. CASE WriteList
  BY <1>0, <1>6 DEF WriteList, service, captured, job, SnapshotInv
<1>7. CASE WriteFails
  BY <1>0, <1>7
  DEF WriteFails, Fault, MaySet, MaySetList, service, captured, job, SnapshotInv
<1>8. CASE Dispatch
  BY <1>0, <1>8 DEF Dispatch, Return, stored, captured, job, SnapshotInv
<1>9. CASE ReadFails
  BY <1>0, <1>9
  DEF ReadFails, Fault, Return, stored, service, captured, job, SnapshotInv
<1>10. CASE Stop
  BY <1>0, <1>10 DEF Stop, stored, captured, job, SnapshotInv, ScriptTypes
<1>11. CASE Read
  BY <1>0, <1>11 DEF Read, Return, stored, service, captured, job, SnapshotInv
<1>12. CASE Launch
  BY <1>0, <1>12 DEF Launch, stored, captured, job, SnapshotInv
<1>13. CASE LaunchFails
  BY <1>0, <1>13
  DEF LaunchFails, Fault, Return, stored, service, captured, job, SnapshotInv
<1>14. CASE Adopt
  BY <1>0, <1>14 DEF Adopt, Capture, service, job, SnapshotInv
<1>15. CASE AdoptFails
  BY <1>0, <1>15
  DEF AdoptFails, Fault, Return, Capture, service, captured, job, SnapshotInv
<1>16. CASE SetPrefs
  BY <1>0, <1>16 DEF SetPrefs, stored, service, captured, job, SnapshotInv
<1>17. CASE SetPrefsFails
  BY <1>0, <1>17
  DEF SetPrefsFails, Fault, Return, stored, service, captured, job, SnapshotInv
<1>18. CASE Rest
  BY <1>0, <1>18 DEF Rest, Return, stored, service, captured, job, SnapshotInv
<1>19. CASE RestFails
  BY <1>0, <1>19
  DEF RestFails, Fault, Return, stored, service, captured, job, SnapshotInv
<1>20. CASE Succeed
  BY <1>0, <1>20, Ended DEF Succeed, stored, service, SnapshotInv
<1>21. CASE FailPlain
  BY <1>0, <1>21, Ended DEF FailPlain, Fail, stored, service, SnapshotInv
<1>22. CASE Undo
  BY <1>0, <1>22 DEF Undo, stored, service, captured, job, SnapshotInv
<1>23. CASE Undone
  BY <1>0, <1>23 DEF Undone, stored, service, captured, job, SnapshotInv
<1>24. CASE Restore
  BY <1>0, <1>24 DEF Restore, NextKey, service, captured, job, SnapshotInv
<1>25. CASE RestoreFails
  BY <1>0, <1>25
  DEF RestoreFails, Fault, NextKey, MaySet, service, captured, job, SnapshotInv
<1>26. CASE RestoreRefused
  BY <1>0, <1>26 DEF RestoreRefused, Fault, stored, service, captured, job, SnapshotInv
<1>27. CASE RestoreList
  BY <1>0, <1>27 DEF RestoreList, service, captured, job, SnapshotInv
<1>28. CASE RestoreListFails
  BY <1>0, <1>28
  DEF RestoreListFails, Fault, MaySetList, service, captured, job, SnapshotInv
<1>29. CASE GiveUp
  BY <1>0, <1>29, Ended DEF GiveUp, Fail, stored, service, SnapshotInv
<1>30. CASE Migrate
  BY <1>0, <1>30 DEF Migrate, service, captured, job, SnapshotInv
<1>31. CASE MigrateFails
  BY <1>0, <1>31, Ended DEF MigrateFails, Fail, Fault, service, SnapshotInv
<1>32. CASE Flag
  BY <1>0, <1>32, Ended DEF Flag, Fail, stored, SnapshotInv
<1>33. CASE Killed
  BY <1>0, <1>33, Ended DEF Killed, stored, service, job, SnapshotInv
<1>34. CASE Reboot
  BY <1>0, <1>34, Ended DEF Reboot, stored, SnapshotInv
<1>35. CASE UNCHANGED vars
  BY <1>0, <1>35 DEF vars, stored, service, script, captured, job, SnapshotInv, Now
<1> QED
  BY <1>1, <1>2, <1>3, <1>4, <1>5, <1>6, <1>7, <1>8, <1>9, <1>10, <1>11, <1>12,
     <1>13, <1>14, <1>15, <1>16, <1>17, <1>18, <1>19, <1>20, <1>21, <1>22, <1>23,
     <1>24, <1>25, <1>26, <1>27, <1>28, <1>29, <1>30, <1>31, <1>32, <1>33, <1>34,
     <1>35 DEF Next, Requests, Script

\* Every step keeps, or brings back, the old keys and the old list.
LEMMA OldNext == Inductive /\ [Next]_vars => OldInv'
<1> SUFFICES ASSUME Inductive, [Next]_vars PROVE OldInv'
  OBVIOUS
<1>0. /\ OldInv /\ PlaceInv /\ SnapshotInv /\ req.form \in 0 .. 3 /\ ScriptTypes
      /\ settings \in Settings
  BY FormType, TypeParts DEF Inductive, TypeOK
<1> USE OrderIs
<1>1. CASE Submit \/ Plain
  BY <1>0, <1>1, Requested DEF Now, OldInv, Back, ListBack, SettingsBack
<1>2. CASE NotRecovered
  BY <1>0, <1>2, Ended
  DEF NotRecovered, Fail, Fault, stored, service, OldInv, Back, ListBack,
     SettingsBack
<1>3. CASE Snapshot
  BY <1>0, <1>3 DEF Snapshot, stored, service, job, OldInv, Back, ListBack, SettingsBack
<1>4. CASE SnapshotFails
  BY <1>0, <1>4, Ended
  DEF SnapshotFails, Fail, Fault, stored, service, OldInv, Back, ListBack,
     SettingsBack
<1>5. CASE Write
  BY <1>0, <1>5, KeyToWrite, KeysApart
  DEF Write, service, captured, job, OldInv, Back, ListBack, SettingsBack, PlaceInv,
     Operating, Restoring
<1>6. CASE WriteList
  BY <1>0, <1>6
  DEF WriteList, service, captured, job, OldInv, Back, ListBack, SettingsBack,
     PlaceInv, Operating, Restoring
<1>7. CASE WriteFails
  <2>1. \A i \in 1 .. 3 : i > req.form => settings'[Order[i]] = settings[Order[i]]
    <3>1. \/ UNCHANGED settings
          \/ pc = "write" /\ settings' = [settings EXCEPT ![Order[at]] = req.bits[Order[at]]]
      BY <1>7 DEF WriteFails, MaySet
    <3>2. pc = "write" => at \in 1 .. 3 /\ at <= req.form
      BY KeyToWrite
    <3> QED
      BY <1>0, <3>1, <3>2, KeysApart
  <2>2. req.form > 0 /\ ~undoing' /\ pc' = "restore" /\ at' = 1
    BY <1>0, <1>7 DEF WriteFails, PlaceInv, Operating, Restoring
  <2>3. req.form < 2 => list' = list
    BY <1>0, <1>7 DEF WriteFails, PlaceInv
  <2>4. UNCHANGED <<req, was>>
    BY <1>7 DEF WriteFails, job
  <2> QED
    BY <1>0, <2>1, <2>2, <2>3, <2>4 DEF OldInv, Back, ListBack, SettingsBack
<1>8. CASE Dispatch
  BY <1>0, <1>8
  DEF Dispatch, Return, stored, captured, job, OldInv, Back, ListBack, SettingsBack
<1>9. CASE ReadFails
  BY <1>0, <1>9
  DEF ReadFails, Fault, Return, stored, service, captured, job, OldInv, Back,
     ListBack, SettingsBack
<1>10. CASE Stop
  BY <1>0, <1>10
  DEF Stop, stored, captured, job, OldInv, Back, ListBack, SettingsBack, ScriptTypes
<1>11. CASE Read
  BY <1>0, <1>11
  DEF Read, Return, stored, service, captured, job, OldInv, Back, ListBack,
     SettingsBack
<1>12. CASE Launch
  BY <1>0, <1>12 DEF Launch, stored, captured, job, OldInv, Back, ListBack, SettingsBack
<1>13. CASE LaunchFails
  BY <1>0, <1>13
  DEF LaunchFails, Fault, Return, stored, service, captured, job, OldInv, Back,
     ListBack, SettingsBack
<1>14. CASE Adopt
  BY <1>0, <1>14 DEF Adopt, Capture, service, job, OldInv, Back, ListBack, SettingsBack
<1>15. CASE AdoptFails
  BY <1>0, <1>15, KeysApart
  DEF AdoptFails, Fault, Return, Capture, service, captured, job, OldInv, Back,
     ListBack, SettingsBack
<1>16. CASE SetPrefs
  BY <1>0, <1>16
  DEF SetPrefs, stored, service, captured, job, OldInv, Back, ListBack, SettingsBack
<1>17. CASE SetPrefsFails
  BY <1>0, <1>17
  DEF SetPrefsFails, Fault, Return, stored, service, captured, job, OldInv, Back,
     ListBack, SettingsBack
<1>18. CASE Rest
  BY <1>0, <1>18
  DEF Rest, Return, stored, service, captured, job, OldInv, Back, ListBack,
     SettingsBack
<1>19. CASE RestFails
  BY <1>0, <1>19
  DEF RestFails, Fault, Return, stored, service, captured, job, OldInv, Back,
     ListBack, SettingsBack
<1>20. CASE Succeed
  BY <1>0, <1>20, Ended
  DEF Succeed, stored, service, OldInv, Back, ListBack, SettingsBack
<1>21. CASE FailPlain
  BY <1>0, <1>21, Ended
  DEF FailPlain, Fail, stored, service, OldInv, Back, ListBack, SettingsBack,
     PlaceInv, Operating, Restoring
<1>22. CASE Undo
  BY <1>0, <1>22
  DEF Undo, stored, service, captured, job, OldInv, Back, ListBack, SettingsBack
<1>23. CASE Undone
  BY <1>0, <1>23
  DEF Undone, stored, service, captured, job, OldInv, Back, ListBack, SettingsBack
<1>24. CASE Restore
  <2>1. \A i \in 1 .. 3 : i # at => settings'[Order[i]] = settings[Order[i]]
    <3>1. at \in 1 .. 3
      BY <1>24, KeyToWrite DEF Restore
    <3>2. settings' \in {settings, [settings EXCEPT ![Order[at]] = saved.keys[at]]}
      BY <1>24 DEF Restore, MaySet
    <3> QED
      BY <1>0, <3>1, <3>2, KeysApart
  <2>2. /\ at \in 1 .. 3 /\ at <= req.form /\ Len(saved.keys) = req.form
        /\ saved.keys[at] = was.settings[Order[at]]
    BY <1>24, KeyToWrite DEF Restore
  <2>3. IF at < req.form THEN at' = at + 1 /\ pc' = "restore"
        ELSE pc' \in {"restoreList", "restored"}
    BY <1>24, <2>2 DEF Restore, NextKey
  <2>4. req.form > 1 => pc' # "restored"
    BY <1>0, <1>24, <2>2, NotAbsent DEF Restore, NextKey, SnapshotInv
  <2>5. UNCHANGED <<req, was, list, undoing, core, before, capture>>
    BY <1>24 DEF Restore, job, captured
  <2>6. settings'[Order[at]] = was.settings[Order[at]] /\ spoiled' = spoiled
    <3>1. settings' = [settings EXCEPT ![Order[at]] = saved.keys[at]] /\ spoiled' = spoiled
      BY <1>24 DEF Restore
    <3>2. Order[at] \in DOMAIN settings
      BY <1>0, <2>2 DEF Settings, Keys
    <3> QED
      BY <2>2, <3>1, <3>2
  <2> QED
    BY <1>0, <1>24, <2>1, <2>2, <2>3, <2>4, <2>5, <2>6
    DEF OldInv, Back, ListBack, SettingsBack, Restore, PlaceInv
<1>25. CASE RestoreFails
  <2>1. \A i \in 1 .. 3 : i # at => settings'[Order[i]] = settings[Order[i]]
    <3>1. at \in 1 .. 3
      BY <1>25, KeyToWrite DEF RestoreFails
    <3>2. settings' \in {settings, [settings EXCEPT ![Order[at]] = saved.keys[at]]}
      BY <1>25 DEF RestoreFails, MaySet
    <3> QED
      BY <1>0, <3>1, <3>2, KeysApart
  <2>2. /\ at \in 1 .. 3 /\ at <= req.form /\ Len(saved.keys) = req.form
        /\ saved.keys[at] = was.settings[Order[at]]
    BY <1>25, KeyToWrite DEF RestoreFails
  <2>3. IF at < req.form THEN at' = at + 1 /\ pc' = "restore"
        ELSE pc' \in {"restoreList", "restored"}
    BY <1>25, <2>2 DEF RestoreFails, NextKey
  <2>4. req.form > 1 => pc' # "restored"
    BY <1>0, <1>25, <2>2, NotAbsent DEF RestoreFails, NextKey, SnapshotInv
  <2>5. UNCHANGED <<req, was, list, undoing, core, before, capture>>
    BY <1>25 DEF RestoreFails, job, captured
  <2>6. \/ at = 3 /\ spoiled' = spoiled \cup {"connector"}
        \/ at # 3 /\ spoiled' = spoiled \cup {"settings"}
    BY <1>0, <1>25, <2>2 DEF RestoreFails
  <2> QED
    BY <1>0, <1>25, <2>1, <2>2, <2>3, <2>4, <2>5, <2>6
    DEF OldInv, Back, ListBack, SettingsBack, RestoreFails, PlaceInv
<1>26. CASE RestoreRefused
  BY <1>0, <1>26
  DEF RestoreRefused, Fault, stored, service, captured, job, OldInv, Back, ListBack,
     SettingsBack
<1>27. CASE RestoreList
  BY <1>0, <1>27, SavedListType
  DEF RestoreList, service, captured, job, OldInv, Back, ListBack, SettingsBack,
     PlaceInv, Operating, Restoring
<1>28. CASE RestoreListFails
  BY <1>0, <1>28
  DEF RestoreListFails, Fault, MaySetList, service, captured, job, OldInv, Back,
     ListBack, SettingsBack, PlaceInv, Operating, Restoring
<1>29. CASE GiveUp
  BY <1>0, <1>29, Ended
  DEF GiveUp, Fail, stored, service, OldInv, Back, ListBack, SettingsBack
<1>30. CASE Migrate
  BY <1>0, <1>30
  DEF Migrate, service, captured, job, OldInv, Back, ListBack, SettingsBack
<1>31. CASE MigrateFails
  <2>1. \A i \in {1, 2} : settings'[Order[i]] = settings[Order[i]]
    BY <1>0, <1>31, KeysApart DEF MigrateFails, MaySet
  <2>2. UNCHANGED <<req, was, list>> /\ pc' = "idle" /\ pc = "restored"
    BY <1>31 DEF MigrateFails, Fail, Done
  <2>3. SettingsBack' => SettingsBack
    BY <1>31 DEF MigrateFails, Fail, Done, SettingsBack
  <2> QED
    BY <1>0, <2>1, <2>2, <2>3 DEF OldInv, Back, ListBack
<1>32. CASE Flag
  BY <1>0, <1>32, Ended
  DEF Flag, Fail, stored, OldInv, Back, ListBack, SettingsBack, PlaceInv, Operating,
     Restoring
<1>33. CASE Killed
  BY <1>0, <1>33, Ended
  DEF Killed, stored, service, job, OldInv, Back, ListBack, SettingsBack, PlaceInv,
     Operating, Restoring
<1>34. CASE Reboot
  BY <1>0, <1>34, Ended DEF Reboot, stored, OldInv, Back, ListBack, SettingsBack
<1>35. CASE UNCHANGED vars
  BY <1>0, <1>35
  DEF vars, stored, service, script, captured, job, OldInv, Back, ListBack,
     SettingsBack
<1> QED
  BY <1>1, <1>2, <1>3, <1>4, <1>5, <1>6, <1>7, <1>8, <1>9, <1>10, <1>11, <1>12,
     <1>13, <1>14, <1>15, <1>16, <1>17, <1>18, <1>19, <1>20, <1>21, <1>22, <1>23,
     <1>24, <1>25, <1>26, <1>27, <1>28, <1>29, <1>30, <1>31, <1>32, <1>33, <1>34,
     <1>35 DEF Next, Requests, Script

\* Every step keeps the new values from their writing to the verdict.
LEMMA NewNext == Inductive /\ [Next]_vars => NewInv'
<1> SUFFICES ASSUME Inductive, [Next]_vars PROVE NewInv'
  OBVIOUS
<1>0. /\ NewInv /\ PlaceInv /\ SnapshotInv /\ req.form \in 0 .. 3 /\ ScriptTypes
      /\ settings \in Settings
  BY FormType, TypeParts DEF Inductive, TypeOK
<1> USE OrderIs
<1>1. CASE Submit \/ Plain
  BY <1>0, <1>1, Requested DEF Now, NewInv, Written, Operating
<1>2. CASE NotRecovered
  BY <1>0, <1>2, Ended
  DEF NotRecovered, Fail, Fault, stored, service, NewInv, Written, Operating
<1>3. CASE Snapshot
  BY <1>0, <1>3 DEF Snapshot, stored, service, job, NewInv, Written, Operating, PlaceInv
<1>4. CASE SnapshotFails
  BY <1>0, <1>4, Ended
  DEF SnapshotFails, Fail, Fault, stored, service, NewInv, Written, Operating
<1>5. CASE Write
  BY <1>0, <1>5, KeyToWrite, KeysApart
  DEF Write, service, captured, job, NewInv, Written, Operating, PlaceInv,
     Operating, Restoring
<1>6. CASE WriteList
  BY <1>0, <1>6 DEF WriteList, service, captured, job, NewInv, Written, Operating
<1>7. CASE WriteFails
  BY <1>0, <1>7
  DEF WriteFails, Fault, MaySet, MaySetList, service, captured, job, NewInv,
     Written, Operating
<1>8. CASE Dispatch
  BY <1>0, <1>8 DEF Dispatch, Return, stored, captured, job, NewInv, Written, Operating
<1>9. CASE ReadFails
  BY <1>0, <1>9
  DEF ReadFails, Fault, Return, stored, service, captured, job, NewInv, Written,
     Operating
<1>10. CASE Stop
  BY <1>0, <1>10
  DEF Stop, stored, captured, job, NewInv, Written, Operating, ScriptTypes
<1>11. CASE Read
  BY <1>0, <1>11
  DEF Read, Return, stored, service, captured, job, NewInv, Written, Operating
<1>12. CASE Launch
  BY <1>0, <1>12 DEF Launch, stored, captured, job, NewInv, Written, Operating
<1>13. CASE LaunchFails
  BY <1>0, <1>13
  DEF LaunchFails, Fault, Return, stored, service, captured, job, NewInv, Written,
     Operating
<1>14. CASE Adopt
  BY <1>0, <1>14, KeysApart, SubmittedSwitch
  DEF Adopt, Capture, service, job, NewInv, Written, Operating, PlaceInv, Operating,
     Restoring
<1>15. CASE AdoptFails
  BY <1>0, <1>15, KeysApart, SubmittedSwitch
  DEF AdoptFails, Fault, Return, Capture, service, captured, job, NewInv, Written,
     Operating, PlaceInv, Operating, Restoring
<1>16. CASE SetPrefs
  BY <1>0, <1>16
  DEF SetPrefs, stored, service, captured, job, NewInv, Written, Operating
<1>17. CASE SetPrefsFails
  BY <1>0, <1>17
  DEF SetPrefsFails, Fault, Return, stored, service, captured, job, NewInv, Written,
     Operating
<1>18. CASE Rest
  BY <1>0, <1>18
  DEF Rest, Return, stored, service, captured, job, NewInv, Written, Operating
<1>19. CASE RestFails
  BY <1>0, <1>19
  DEF RestFails, Fault, Return, stored, service, captured, job, NewInv, Written,
     Operating
<1>20. CASE Succeed
  BY <1>0, <1>20, Ended DEF Succeed, stored, service, NewInv, Written, Operating
<1>21. CASE FailPlain
  BY <1>0, <1>21, Ended DEF FailPlain, Fail, stored, service, NewInv, Written, Operating
<1>22. CASE Undo
  BY <1>0, <1>22 DEF Undo, stored, service, captured, job, NewInv, Written, Operating
<1>23. CASE Undone
  BY <1>0, <1>23 DEF Undone, stored, service, captured, job, NewInv, Written, Operating
<1>24. CASE Restore
  BY <1>0, <1>24
  DEF Restore, NextKey, service, captured, job, NewInv, Written, Operating
<1>25. CASE RestoreFails
  BY <1>0, <1>25
  DEF RestoreFails, Fault, NextKey, MaySet, service, captured, job, NewInv, Written,
     Operating
<1>26. CASE RestoreRefused
  BY <1>0, <1>26
  DEF RestoreRefused, Fault, stored, service, captured, job, NewInv, Written,
     Operating
<1>27. CASE RestoreList
  BY <1>0, <1>27 DEF RestoreList, service, captured, job, NewInv, Written, Operating
<1>28. CASE RestoreListFails
  BY <1>0, <1>28
  DEF RestoreListFails, Fault, MaySetList, service, captured, job, NewInv, Written,
     Operating
<1>29. CASE GiveUp
  BY <1>0, <1>29, Ended DEF GiveUp, Fail, stored, service, NewInv, Written, Operating
<1>30. CASE Migrate
  BY <1>0, <1>30 DEF Migrate, service, captured, job, NewInv, Written, Operating
<1>31. CASE MigrateFails
  BY <1>0, <1>31, Ended
  DEF MigrateFails, Fail, Fault, service, NewInv, Written, Operating
<1>32. CASE Flag
  BY <1>0, <1>32, Ended DEF Flag, Fail, stored, NewInv, Written, Operating
<1>33. CASE Killed
  BY <1>0, <1>33, Ended
  DEF Killed, stored, service, job, NewInv, Written, Operating, PlaceInv, Operating,
     Restoring
<1>34. CASE Reboot
  BY <1>0, <1>34, Ended DEF Reboot, stored, NewInv, Written, Operating
<1>35. CASE UNCHANGED vars
  BY <1>0, <1>35
  DEF vars, stored, service, script, captured, job, NewInv, Written, Operating
<1> QED
  BY <1>1, <1>2, <1>3, <1>4, <1>5, <1>6, <1>7, <1>8, <1>9, <1>10, <1>11, <1>12,
     <1>13, <1>14, <1>15, <1>16, <1>17, <1>18, <1>19, <1>20, <1>21, <1>22, <1>23,
     <1>24, <1>25, <1>26, <1>27, <1>28, <1>29, <1>30, <1>31, <1>32, <1>33, <1>34,
     <1>35 DEF Next, Requests, Script

\* Every step keeps the old switch, or the captured value that stands for it.
LEMMA SwitchNext == Inductive /\ [Next]_vars => SwitchInv'
<1> SUFFICES ASSUME Inductive, [Next]_vars PROVE SwitchInv'
  OBVIOUS
<1>0. /\ SwitchInv /\ PlaceInv /\ SnapshotInv /\ req.form \in 0 .. 3 /\ ScriptTypes
      /\ settings \in Settings
  BY FormType, TypeParts DEF Inductive, TypeOK
<1> USE OrderIs
<1>1. CASE Submit \/ Plain
  BY <1>0, <1>1, Requested
  DEF Now, SwitchInv, Switch, SwitchBack, PlaceInv, Operating, Restoring
<1>2. CASE NotRecovered
  BY <1>0, <1>2, Ended
  DEF NotRecovered, Fail, Fault, stored, service, SwitchInv, Switch, SwitchBack
<1>3. CASE Snapshot
  <2>1. was = Now
    BY <1>0, <1>3 DEF Snapshot, SnapshotInv
  <2>2. capture' <=> req.form = 3 /\ settings["connector"] = Unset
    BY <1>3 DEF Snapshot
  <2>3. before' = Unset
    BY <1>0, <1>3 DEF Snapshot, PlaceInv
  <2>4. pc' = "write" /\ ~undoing'
    BY <1>0, <1>3 DEF Snapshot, PlaceInv
  <2>5. UNCHANGED <<settings, core, req, was>>
    BY <1>3 DEF Snapshot, stored, job
  <2> QED
    BY <1>0, <2>1, <2>2, <2>3, <2>4, <2>5 DEF SwitchInv, Switch, Now
<1>4. CASE SnapshotFails
  BY <1>0, <1>4, Ended
  DEF SnapshotFails, Fail, Fault, stored, service, SwitchInv, Switch, SwitchBack
<1>5. CASE Write
  BY <1>0, <1>5, KeyToWrite, KeysApart
  DEF Write, service, captured, job, SwitchInv, Switch, SwitchBack, PlaceInv,
     Operating, Restoring
<1>6. CASE WriteList
  BY <1>0, <1>6 DEF WriteList, service, captured, job, SwitchInv, Switch, SwitchBack
<1>7. CASE WriteFails
  <2>1. \A i \in 1 .. 3 : i > req.form => settings'[Order[i]] = settings[Order[i]]
    <3>1. \/ UNCHANGED settings
          \/ pc = "write" /\ settings' = [settings EXCEPT ![Order[at]] = req.bits[Order[at]]]
      BY <1>7 DEF WriteFails, MaySet
    <3>2. pc = "write" => at \in 1 .. 3 /\ at <= req.form
      BY KeyToWrite
    <3> QED
      BY <1>0, <3>1, <3>2, KeysApart
  <2>2. req.form > 0 /\ ~undoing' /\ pc' = "restore" /\ at' = 1
    BY <1>0, <1>7 DEF WriteFails, PlaceInv, Operating, Restoring
  <2>3. req.form < 2 => list' = list
    BY <1>0, <1>7 DEF WriteFails, PlaceInv
  <2>4. UNCHANGED <<req, was>>
    BY <1>7 DEF WriteFails, job
  <2>5. UNCHANGED <<core, capture, before>>
    BY <1>7 DEF WriteFails, captured
  <2> QED
    BY <1>0, <1>7, <2>1, <2>2, <2>4, <2>5 DEF WriteFails, SwitchInv, Switch
<1>8. CASE Dispatch
  BY <1>0, <1>8
  DEF Dispatch, Return, stored, captured, job, SwitchInv, Switch, SwitchBack
<1>9. CASE ReadFails
  BY <1>0, <1>9
  DEF ReadFails, Fault, Return, stored, service, captured, job, SwitchInv, Switch,
     SwitchBack
<1>10. CASE Stop
  BY <1>0, <1>10
  DEF Stop, stored, captured, job, SwitchInv, Switch, SwitchBack, ScriptTypes
<1>11. CASE Read
  BY <1>0, <1>11
  DEF Read, Return, stored, service, captured, job, SwitchInv, Switch, SwitchBack
<1>12. CASE Launch
  BY <1>0, <1>12 DEF Launch, stored, captured, job, SwitchInv, Switch, SwitchBack
<1>13. CASE LaunchFails
  BY <1>0, <1>13
  DEF LaunchFails, Fault, Return, stored, service, captured, job, SwitchInv, Switch,
     SwitchBack
<1>14. CASE Adopt
  BY <1>0, <1>14 DEF Adopt, Capture, service, job, SwitchInv, Switch, SwitchBack
<1>15. CASE AdoptFails
  BY <1>0, <1>15, KeysApart
  DEF AdoptFails, Fault, Return, Capture, service, captured, job, SwitchInv, Switch,
     SwitchBack, PlaceInv, Operating, Restoring
<1>16. CASE SetPrefs
  BY <1>0, <1>16
  DEF SetPrefs, stored, service, captured, job, SwitchInv, Switch, SwitchBack,
     PlaceInv, Operating, Restoring, Wanted
<1>17. CASE SetPrefsFails
  BY <1>0, <1>17
  DEF SetPrefsFails, Fault, Return, stored, service, captured, job, SwitchInv,
     Switch, SwitchBack, PlaceInv, Operating, Restoring, Wanted
<1>18. CASE Rest
  BY <1>0, <1>18
  DEF Rest, Return, stored, service, captured, job, SwitchInv, Switch, SwitchBack
<1>19. CASE RestFails
  BY <1>0, <1>19
  DEF RestFails, Fault, Return, stored, service, captured, job, SwitchInv, Switch,
     SwitchBack
<1>20. CASE Succeed
  BY <1>0, <1>20, Ended DEF Succeed, stored, service, SwitchInv, Switch, SwitchBack
<1>21. CASE FailPlain
  BY <1>0, <1>21, Ended
  DEF FailPlain, Fail, stored, service, SwitchInv, Switch, SwitchBack, PlaceInv,
     Operating, Restoring
<1>22. CASE Undo
  BY <1>0, <1>22 DEF Undo, stored, service, captured, job, SwitchInv, Switch, SwitchBack
<1>23. CASE Undone
  BY <1>0, <1>23
  DEF Undone, stored, service, captured, job, SwitchInv, Switch, SwitchBack
<1>24. CASE Restore
  <2>1. \A i \in 1 .. 3 : i # at => settings'[Order[i]] = settings[Order[i]]
    <3>1. at \in 1 .. 3
      BY <1>24, KeyToWrite DEF Restore
    <3>2. settings' \in {settings, [settings EXCEPT ![Order[at]] = saved.keys[at]]}
      BY <1>24 DEF Restore, MaySet
    <3> QED
      BY <1>0, <3>1, <3>2, KeysApart
  <2>2. /\ at \in 1 .. 3 /\ at <= req.form /\ Len(saved.keys) = req.form
        /\ saved.keys[at] = was.settings[Order[at]]
    BY <1>24, KeyToWrite DEF Restore
  <2>3. IF at < req.form THEN at' = at + 1 /\ pc' = "restore"
        ELSE pc' \in {"restoreList", "restored"}
    BY <1>24, <2>2 DEF Restore, NextKey
  <2>4. req.form > 1 => pc' # "restored"
    BY <1>0, <1>24, <2>2, NotAbsent DEF Restore, NextKey, SnapshotInv
  <2>5. UNCHANGED <<req, was, list, undoing, core, before, capture>>
    BY <1>24 DEF Restore, job, captured
  <2>6. settings'[Order[at]] = was.settings[Order[at]] /\ spoiled' = spoiled
    <3>1. settings' = [settings EXCEPT ![Order[at]] = saved.keys[at]] /\ spoiled' = spoiled
      BY <1>24 DEF Restore
    <3>2. Order[at] \in DOMAIN settings
      BY <1>0, <2>2 DEF Settings, Keys
    <3> QED
      BY <2>2, <3>1, <3>2
  <2>7. req.form < 3 => at # 3 /\ settings'["connector"] = settings["connector"]
    BY <1>0, <2>1, <2>2
  <2>8. req.form = 3 /\ pc' \in {"restoreList", "restored"} /\ SwitchBack' =>
          settings'["connector"] = was.settings["connector"]
    BY <1>0, <2>2, <2>3, <2>6 DEF SwitchBack
  <2>9. ~undoing
    BY <1>0, <1>24 DEF Restore, PlaceInv, Operating, Restoring
  <2> QED
    BY <1>0, <1>24, <2>3, <2>5, <2>7, <2>8, <2>9 DEF Restore, SwitchInv, Switch
<1>25. CASE RestoreFails
  <2>1. \A i \in 1 .. 3 : i # at => settings'[Order[i]] = settings[Order[i]]
    <3>1. at \in 1 .. 3
      BY <1>25, KeyToWrite DEF RestoreFails
    <3>2. settings' \in {settings, [settings EXCEPT ![Order[at]] = saved.keys[at]]}
      BY <1>25 DEF RestoreFails, MaySet
    <3> QED
      BY <1>0, <3>1, <3>2, KeysApart
  <2>2. /\ at \in 1 .. 3 /\ at <= req.form /\ Len(saved.keys) = req.form
        /\ saved.keys[at] = was.settings[Order[at]]
    BY <1>25, KeyToWrite DEF RestoreFails
  <2>3. IF at < req.form THEN at' = at + 1 /\ pc' = "restore"
        ELSE pc' \in {"restoreList", "restored"}
    BY <1>25, <2>2 DEF RestoreFails, NextKey
  <2>4. req.form > 1 => pc' # "restored"
    BY <1>0, <1>25, <2>2, NotAbsent DEF RestoreFails, NextKey, SnapshotInv
  <2>5. UNCHANGED <<req, was, list, undoing, core, before, capture>>
    BY <1>25 DEF RestoreFails, job, captured
  <2>6. \/ at = 3 /\ spoiled' = spoiled \cup {"connector"}
        \/ at # 3 /\ spoiled' = spoiled \cup {"settings"}
    BY <1>0, <1>25, <2>2 DEF RestoreFails
  <2>7. req.form < 3 => at # 3 /\ settings'["connector"] = settings["connector"]
    BY <1>0, <2>1, <2>2
  <2>8. req.form = 3 /\ pc' \in {"restoreList", "restored"} /\ SwitchBack' =>
          settings'["connector"] = was.settings["connector"]
    BY <1>0, <2>2, <2>3, <2>6 DEF SwitchBack
  <2>9. ~undoing
    BY <1>0, <1>25 DEF RestoreFails, PlaceInv, Operating, Restoring
  <2> QED
    BY <1>0, <1>25, <2>3, <2>5, <2>7, <2>8, <2>9 DEF RestoreFails, SwitchInv, Switch
<1>26. CASE RestoreRefused
  BY <1>0, <1>26
  DEF RestoreRefused, Fault, stored, service, captured, job, SwitchInv, Switch,
     SwitchBack
<1>27. CASE RestoreList
  BY <1>0, <1>27 DEF RestoreList, service, captured, job, SwitchInv, Switch, SwitchBack
<1>28. CASE RestoreListFails
  BY <1>0, <1>28
  DEF RestoreListFails, Fault, MaySetList, service, captured, job, SwitchInv,
     Switch, SwitchBack
<1>29. CASE GiveUp
  <2>1. pc' = "idle" /\ ~undoing' /\ ~capture' /\ before' = Unset
    BY <1>29, Ended DEF GiveUp, Fail
  <2>2. UNCHANGED <<settings, core, req, was, spoiled>>
    BY <1>29 DEF GiveUp, Fail, stored
  <2>3. req.form = 3 /\ SwitchBack => ~applied /\ core = was.core
    BY <1>0, <1>29 DEF GiveUp, PlaceInv, Inductive, ServiceInv, Untouched
  <2>4. req.form = 3 /\ SwitchBack => settings["connector"] = was.settings["connector"]
    BY <1>0, <1>29 DEF GiveUp, SwitchInv
  <2> QED
    BY <1>0, <2>1, <2>2, <2>3, <2>4 DEF SwitchInv, Switch, SwitchBack
<1>30. CASE Migrate
  <2>1. settings'["connector"] = IF before = Unset THEN settings["connector"] ELSE before
    BY <1>0, <1>30, KeysApart DEF Migrate
  <2>2. UNCHANGED <<core, req, was, spoiled, capture, before>> /\ pc' = "stop"
    BY <1>30 DEF Migrate, job, captured
  <2>3. req.form = 3 => settings["connector"] = was.settings["connector"]
    BY <1>0, <1>30 DEF Migrate, PlaceInv, SwitchInv, SwitchBack
  <2>4. was.core["connector"] # Unset
    BY DEF Inductive, TypeOK, Prefs, Bit, Unset
  <2>5. CASE req.form = 3
    <3>1. Switch(settings', core') = Switch(was.settings, was.core)
      BY <1>0, <1>30, <2>1, <2>2, <2>3, <2>4, <2>5 DEF Migrate, SwitchInv, Switch
    <3> QED
      BY <1>0, <1>30, <2>2, <2>5, <3>1 DEF Migrate, SwitchInv
  <2>6. CASE req.form < 3
    BY <1>0, <1>30, <2>1, <2>2, <2>6 DEF Migrate, SwitchInv, Switch
  <2> QED
    BY <1>0, <2>5, <2>6
<1>31. CASE MigrateFails
  BY <1>0, <1>31, Ended
  DEF MigrateFails, Fail, Fault, service, SwitchInv, Switch, SwitchBack
<1>32. CASE Flag
  BY <1>0, <1>32, Ended
  DEF Flag, Fail, stored, SwitchInv, Switch, SwitchBack, PlaceInv, Operating,
     Restoring
<1>33. CASE Killed
  BY <1>0, <1>33, Ended
  DEF Killed, stored, service, job, SwitchInv, Switch, SwitchBack, PlaceInv,
     Operating, Restoring
<1>34. CASE Reboot
  BY <1>0, <1>34, Ended DEF Reboot, stored, SwitchInv, Switch, SwitchBack
<1>35. CASE UNCHANGED vars
  BY <1>0, <1>35
  DEF vars, stored, service, script, captured, job, SwitchInv, Switch, SwitchBack
<1> QED
  BY <1>1, <1>2, <1>3, <1>4, <1>5, <1>6, <1>7, <1>8, <1>9, <1>10, <1>11, <1>12,
     <1>13, <1>14, <1>15, <1>16, <1>17, <1>18, <1>19, <1>20, <1>21, <1>22, <1>23,
     <1>24, <1>25, <1>26, <1>27, <1>28, <1>29, <1>30, <1>31, <1>32, <1>33, <1>34,
     <1>35 DEF Next, Requests, Script

\* Every step keeps the service untouched, in force or on its way back.
LEMMA ServiceNext == Inductive /\ [Next]_vars => ServiceInv'
<1> SUFFICES ASSUME Inductive, [Next]_vars PROVE ServiceInv'
  OBVIOUS
<1>0. /\ ServiceInv /\ PlaceInv /\ SnapshotInv /\ req.form \in 0 .. 3 /\ ScriptTypes
      /\ settings \in Settings
  BY FormType, TypeParts DEF Inductive, TypeOK
<1> USE OrderIs
<1>1. CASE Submit \/ Plain
  BY <1>0, <1>1, Requested DEF Now, ServiceInv, Operating, Starting, Untouched, InForce
<1>2. CASE NotRecovered
  BY <1>0, <1>2, Ended
  DEF NotRecovered, Fail, Fault, stored, service, ServiceInv, Operating, Starting,
     Untouched, InForce
<1>3. CASE Snapshot
  BY <1>0, <1>3
  DEF Snapshot, stored, service, job, ServiceInv, Operating, Starting, Untouched,
     InForce
<1>4. CASE SnapshotFails
  BY <1>0, <1>4, Ended
  DEF SnapshotFails, Fail, Fault, stored, service, ServiceInv, Operating, Starting,
     Untouched, InForce, PlaceInv, Restoring, ScriptTypes, SwitchBack
<1>5. CASE Write
  BY <1>0, <1>5
  DEF Write, service, captured, job, ServiceInv, Operating, Starting, Untouched,
     InForce
<1>6. CASE WriteList
  BY <1>0, <1>6
  DEF WriteList, service, captured, job, ServiceInv, Operating, Starting, Untouched,
     InForce, PlaceInv, Restoring, ScriptTypes, SwitchBack
<1>7. CASE WriteFails
  BY <1>0, <1>7
  DEF WriteFails, Fault, MaySet, MaySetList, service, captured, job, ServiceInv,
     Operating, Starting, Untouched, InForce
<1>8. CASE Dispatch
  <2>1. UNCHANGED <<settings, list, core, daemon, undoing, applied, req, was, spoiled, result>>
    BY <1>8 DEF Dispatch, stored, job
  <2>2. ~undoing /\ (req.form > 0 => applied /\ req.op = "web_submit") /\ (req.form = 0 => ~applied)
    BY <1>0, <1>8 DEF Dispatch, PlaceInv, Operating
  <2>3. CASE req.op = "start"
    BY <1>0, <1>8, <2>1, <2>2, <2>3
    DEF Dispatch, ServiceInv, Starting, Untouched, InForce
  <2>4. CASE req.op = "web_submit" /\ list = Bad
    BY <1>0, <1>8, <2>1, <2>2, <2>4
    DEF Dispatch, Return, ServiceInv, Starting, Untouched, InForce
  <2>5. CASE req.op # "start" /\ ~(req.op = "web_submit" /\ list = Bad)
    <3> DEFINE starts == req.op = "restart" \/ (req.op = "web_submit" /\ settings["enable"] = "1")
    <3>1. /\ pc' = "stop" /\ next' = (IF starts THEN "read" ELSE "returned")
          /\ ~starts => stopped'
      BY <1>8, <2>5 DEF Dispatch
    <3>2. ~starts => req.op = "stop" \/ (req.op = "web_submit" /\ settings["enable"] # "1")
      BY <2>5 DEF Inductive, TypeOK, Ops
    <3> QED
      BY <1>0, <2>1, <2>2, <3>1, <3>2 DEF ServiceInv, Starting, Untouched, InForce
  <2> QED
    BY <2>3, <2>4, <2>5
<1>9. CASE ReadFails
  BY <1>0, <1>9
  DEF ReadFails, Fault, Return, stored, service, captured, job, ServiceInv,
     Operating, Starting, Untouched, InForce
<1>10. CASE Stop
  BY <1>0, <1>10
  DEF Stop, stored, captured, job, ServiceInv, Operating, Starting, Untouched,
     InForce, PlaceInv, Restoring, ScriptTypes, SwitchBack
<1>11. CASE Read
  BY <1>0, <1>11
  DEF Read, Return, stored, service, captured, job, ServiceInv, Operating, Starting,
     Untouched, InForce
<1>12. CASE Launch
  BY <1>0, <1>12
  DEF Launch, stored, captured, job, ServiceInv, Operating, Starting, Untouched,
     InForce, PlaceInv, Restoring, ScriptTypes, SwitchBack
<1>13. CASE LaunchFails
  BY <1>0, <1>13
  DEF LaunchFails, Fault, Return, stored, service, captured, job, ServiceInv,
     Operating, Starting, Untouched, InForce, PlaceInv, Restoring, ScriptTypes,
     SwitchBack
<1>14. CASE Adopt
  <2>1. settings'["enable"] = settings["enable"]
    BY <1>0, <1>14, KeysApart DEF Adopt
  <2>2. /\ UNCHANGED <<list, core, daemon, stopped, undoing, applied, req, was, spoiled, result>>
        /\ pc = "adopt" /\ pc' = "prefs"
    BY <1>14 DEF Adopt, service, job
  <2>3. req.form > 0 => applied
    BY <1>0, <2>2 DEF PlaceInv, Operating
  <2> QED
    BY <1>0, <2>1, <2>2, <2>3 DEF ServiceInv, Starting, Untouched, InForce
<1>15. CASE AdoptFails
  BY <1>0, <1>15
  DEF AdoptFails, Fault, Return, Capture, service, captured, job, ServiceInv,
     Operating, Starting, Untouched, InForce
<1>16. CASE SetPrefs
  BY <1>0, <1>16, WantedTwice
  DEF SetPrefs, stored, service, captured, job, ServiceInv, Operating, Starting,
     Untouched, InForce, PlaceInv, ScriptTypes
<1>17. CASE SetPrefsFails
  BY <1>0, <1>17, WantedTwice
  DEF SetPrefsFails, Fault, Return, stored, service, captured, job, ServiceInv,
     Operating, Starting, Untouched, InForce, PlaceInv, ScriptTypes
<1>18. CASE Rest
  BY <1>0, <1>18
  DEF Rest, Return, stored, service, captured, job, ServiceInv, Operating, Starting,
     Untouched, InForce
<1>19. CASE RestFails
  BY <1>0, <1>19
  DEF RestFails, Fault, Return, stored, service, captured, job, ServiceInv,
     Operating, Starting, Untouched, InForce
<1>20. CASE Succeed
  BY <1>0, <1>20, Ended
  DEF Succeed, stored, service, ServiceInv, Operating, Starting, Untouched, InForce
<1>21. CASE FailPlain
  BY <1>0, <1>21, Ended
  DEF FailPlain, Fail, stored, service, ServiceInv, Operating, Starting, Untouched,
     InForce
<1>22. CASE Undo
  BY <1>0, <1>22
  DEF Undo, stored, service, captured, job, ServiceInv, Operating, Starting,
     Untouched, InForce
<1>23. CASE Undone
  BY <1>0, <1>23
  DEF Undone, stored, service, captured, job, ServiceInv, Operating, Starting,
     Untouched, InForce
<1>24. CASE Restore
  BY <1>0, <1>24
  DEF Restore, NextKey, service, captured, job, ServiceInv, Operating, Starting,
     Untouched, InForce
<1>25. CASE RestoreFails
  BY <1>0, <1>25
  DEF RestoreFails, Fault, NextKey, MaySet, service, captured, job, ServiceInv,
     Operating, Starting, Untouched, InForce
<1>26. CASE RestoreRefused
  BY <1>0, <1>26
  DEF RestoreRefused, Fault, stored, service, captured, job, ServiceInv, Operating,
     Starting, Untouched, InForce
<1>27. CASE RestoreList
  BY <1>0, <1>27
  DEF RestoreList, service, captured, job, ServiceInv, Operating, Starting,
     Untouched, InForce
<1>28. CASE RestoreListFails
  BY <1>0, <1>28
  DEF RestoreListFails, Fault, MaySetList, service, captured, job, ServiceInv,
     Operating, Starting, Untouched, InForce
<1>29. CASE GiveUp
  BY <1>0, <1>29, Ended
  DEF GiveUp, Fail, stored, service, ServiceInv, Operating, Starting, Untouched,
     InForce, PlaceInv, Restoring, ScriptTypes, SwitchBack
<1>30. CASE Migrate
  BY <1>0, <1>30, KeysApart
  DEF Migrate, service, captured, job, ServiceInv, Operating, Starting, Untouched,
     InForce, PlaceInv, SnapshotInv, ScriptTypes, Restoring
<1>31. CASE MigrateFails
  BY <1>0, <1>31, Ended
  DEF MigrateFails, Fail, Fault, service, ServiceInv, Operating, Starting,
     Untouched, InForce
<1>32. CASE Flag
  <2>1. /\ UNCHANGED <<settings, list, core, daemon, req, was, spoiled>>
        /\ pc = "flag" /\ pc' = "idle" /\ ~applied' /\ ~undoing' /\ stopped' = old.manual
    BY <1>32, Ended DEF Flag, Fail, stored
  <2>2. req.form > 0 => old.manual = was.stopped
    BY <1>0, <2>1 DEF SnapshotInv
  <2>3. result' = "failed"
    BY <1>32 DEF Flag, Fail
  <2>4. spoiled = {} =>
          /\ daemon => was.daemon /\ InForce
          /\ was.daemon /\ settings["enable"] = "1" => daemon
    BY <1>0, <2>1 DEF ServiceInv
  <2>5. InForce' <=> InForce
    BY <2>1 DEF InForce
  <2> QED
    BY <2>1, <2>2, <2>3, <2>4, <2>5 DEF ServiceInv, Starting
<1>33. CASE Killed
  BY <1>0, <1>33, Ended
  DEF Killed, stored, service, job, ServiceInv, Operating, Starting, Untouched,
     InForce, PlaceInv, Restoring, ScriptTypes, SwitchBack
<1>34. CASE Reboot
  BY <1>0, <1>34, Ended
  DEF Reboot, stored, ServiceInv, Operating, Starting, Untouched, InForce
<1>35. CASE UNCHANGED vars
  BY <1>0, <1>35
  DEF vars, stored, service, script, captured, job, ServiceInv, Operating, Starting,
     Untouched, InForce
<1> QED
  BY <1>1, <1>2, <1>3, <1>4, <1>5, <1>6, <1>7, <1>8, <1>9, <1>10, <1>11, <1>12,
     <1>13, <1>14, <1>15, <1>16, <1>17, <1>18, <1>19, <1>20, <1>21, <1>22, <1>23,
     <1>24, <1>25, <1>26, <1>27, <1>28, <1>29, <1>30, <1>31, <1>32, <1>33, <1>34,
     <1>35 DEF Next, Requests, Script

\* The ways a step of the script, a kill or a reboot changes what is stored:
\* one key or the list is written, written back, adopted or migrated, or the
\* core is asked for what is stored.
WritesKey ==
  \/ UNCHANGED settings
  \/ pc = "write" /\ settings' = [settings EXCEPT ![Order[at]] = req.bits[Order[at]]]
  \/ pc = "restore" /\ settings' = [settings EXCEPT ![Order[at]] = saved.keys[at]]
  \/ /\ settings["connector"] = Unset
     /\ settings' = [settings EXCEPT !["connector"] = core.connector]
  \/ before # Unset /\ settings' = [settings EXCEPT !["connector"] = before]
WritesList ==
  \/ UNCHANGED list
  \/ pc = "list" /\ list' = req.list
  \/ pc = "restoreList" /\ list' = saved.list
WritesCore ==
  UNCHANGED core \/ core' = Wanted(settings, list, core)

\* No step but a request changes the request or what it found, and none
\* changes the settings, the list or the core in any other way.
LEMMA Writes ==
  ASSUME [Next]_vars, ~Requests
  PROVE  UNCHANGED <<req, was>> /\ WritesKey /\ WritesList /\ WritesCore
<1>1. CASE NotRecovered \/ SnapshotFails \/ FailPlain \/ GiveUp \/ Flag
  BY <1>1 DEF NotRecovered, SnapshotFails, FailPlain, GiveUp, Flag, Fail, stored,
     WritesKey, WritesList, WritesCore
<1>2. CASE Snapshot \/ Dispatch \/ ReadFails \/ Stop \/ Read \/ Launch \/ LaunchFails
  BY <1>2 DEF Snapshot, Dispatch, ReadFails, Stop, Read, Launch, LaunchFails, stored, job,
     WritesKey, WritesList, WritesCore
<1>3. CASE Rest \/ RestFails \/ Undo \/ Undone \/ RestoreRefused \/ Killed
  BY <1>3 DEF Rest, RestFails, Undo, Undone, RestoreRefused, Killed, stored, job,
     WritesKey, WritesList, WritesCore
<1>4. CASE Succeed \/ Reboot \/ UNCHANGED vars
  BY <1>4 DEF Succeed, Reboot, vars, stored, job, WritesKey, WritesList, WritesCore
<1>5. CASE Write \/ WriteList \/ WriteFails
  BY <1>5 DEF Write, WriteList, WriteFails, MaySet, MaySetList, job,
     WritesKey, WritesList, WritesCore
<1>6. CASE Adopt \/ AdoptFails
  BY <1>6 DEF Adopt, AdoptFails, job, WritesKey, WritesList, WritesCore
<1>7. CASE SetPrefs \/ SetPrefsFails
  BY <1>7 DEF SetPrefs, SetPrefsFails, stored, job, WritesKey, WritesList, WritesCore
<1>8. CASE Restore \/ RestoreFails \/ RestoreList \/ RestoreListFails
  BY <1>8 DEF Restore, RestoreFails, RestoreList, RestoreListFails, MaySet, MaySetList, job,
     WritesKey, WritesList, WritesCore
<1>9. CASE Migrate \/ MigrateFails
  BY <1>9 DEF Migrate, MigrateFails, MaySet, Fail, job, WritesKey, WritesList, WritesCore
<1> QED
  BY <1>1, <1>2, <1>3, <1>4, <1>5, <1>6, <1>7, <1>8, <1>9 DEF Next, Script

\* What may stand for the connector switch while the newest form is worked on.
LEMMA MixSwitchNext ==
  ASSUME Inductive, [Next]_vars, ~Requests, req.form = 3
  PROVE  /\ \/ settings'["connector"] \in {was.settings["connector"], req.bits["connector"]}
            \/ /\ was.settings["connector"] = Unset
               /\ settings'["connector"] = was.core["connector"]
         /\ was.settings["connector"] = Unset =>
              core'["connector"] \in {was.core["connector"], req.bits["connector"]}
<1>1. /\ \/ settings["connector"] \in {was.settings["connector"], req.bits["connector"]}
         \/ /\ was.settings["connector"] = Unset
            /\ settings["connector"] = was.core["connector"]
      /\ was.settings["connector"] = Unset =>
           core["connector"] \in {was.core["connector"], req.bits["connector"]}
  BY DEF Inductive, MixInv
<1>2. settings \in Settings /\ before \in {Unset, was.core["connector"]}
  BY DEF Inductive, TypeOK, SwitchInv, PlaceInv
<1>3. before # Unset => was.settings["connector"] = Unset
  BY DEF Inductive, SwitchInv, PlaceInv
<1>4. req.bits["connector"] # Unset
  BY SubmittedSwitch
<1>5. /\ settings'["connector"] \in {settings["connector"], was.settings["connector"],
                                    req.bits["connector"]}
         \/ (settings["connector"] = Unset /\ settings'["connector"] = core["connector"])
         \/ (before # Unset /\ settings'["connector"] = before)
  <2>1. CASE pc \in {"write", "restore"}
    <3>1. /\ at \in 1 .. 3
          /\ pc = "restore" => saved.keys[at] = was.settings[Order[at]]
      BY <2>1, KeyToWrite
    <3>2. WritesKey
      BY Writes
    <3> QED
      BY <1>2, <2>1, <3>1, <3>2, OrderIs DEF WritesKey, Settings, Keys
  <2>2. CASE pc \notin {"write", "restore"}
    BY <1>2, <2>2, Writes DEF WritesKey, Settings, Keys
  <2> QED
    BY <2>1, <2>2
<1>6. core'["connector"] \in {core["connector"], settings["connector"]} \ {Unset}
      \/ core'["connector"] = core["connector"]
  BY Writes DEF WritesCore, Wanted
<1> QED
  BY <1>1, <1>2, <1>3, <1>4, <1>5, <1>6

\* Every step leaves each item at the old or at the submitted value.
LEMMA MixNext == Inductive /\ [Next]_vars => MixInv'
<1> SUFFICES ASSUME Inductive, [Next]_vars PROVE MixInv'
  OBVIOUS
<1>1. CASE Requests
  <2>1. was' = Now /\ UNCHANGED <<settings, list, core>>
    BY <1>1, Requested DEF Requests
  <2>2. was'.settings = settings' /\ was'.list = list' /\ was'.core = core'
    BY <2>1 DEF Now
  <2> QED
    BY <2>2 DEF MixInv
<1>2. CASE ~Requests
  <2>1. UNCHANGED <<req, was>>
    BY <1>2, Writes
  <2>2. ASSUME NEW i \in {1, 2}
        PROVE  \/ settings'[Order[i]] = was.settings[Order[i]]
               \/ i <= req.form /\ settings'[Order[i]] = req.bits[Order[i]]
    <3>1. \/ settings[Order[i]] = was.settings[Order[i]]
          \/ i <= req.form /\ settings[Order[i]] = req.bits[Order[i]]
      BY <2>2 DEF Inductive, MixInv
    <3>2. settings \in Settings
      BY DEF Inductive, TypeOK
    <3>3. CASE pc \in {"write", "restore"}
      <4>1. /\ at \in 1 .. 3 /\ at <= req.form
            /\ pc = "restore" => saved.keys[at] = was.settings[Order[at]]
        BY <3>3, KeyToWrite
      <4>2. WritesKey
        BY <1>2, Writes
      <4> QED
        BY <2>2, <3>1, <3>2, <3>3, <4>1, <4>2, OrderIs DEF WritesKey, Settings, Keys
    <3>4. CASE pc \notin {"write", "restore"}
      BY <1>2, <2>2, <3>1, <3>2, <3>4, Writes, OrderIs DEF WritesKey, Settings, Keys
    <3> QED
      BY <3>3, <3>4
  <2>3. list' = was.list \/ (req.form > 1 /\ list' = req.list)
    <3>1. pc \in {"list", "restoreList"} => req.form > 1
      BY DEF Inductive, PlaceInv
    <3>2. pc = "restoreList" => saved.list = was.list
      BY <3>1, FormType DEF Inductive, SnapshotInv
    <3> QED
      BY <1>2, <3>1, <3>2, Writes DEF WritesList, Inductive, MixInv
  <2> QED
    BY <1>2, <2>1, <2>2, <2>3, MixSwitchNext DEF MixInv
<1> QED
  BY <1>1, <1>2

\* Every step keeps the inductive invariant.
LEMMA InductiveNext == Inductive /\ [Next]_vars => Inductive'
BY TypesNext, PlaceNext, SnapshotNext, OldNext, NewNext, SwitchNext, ServiceNext, MixNext
DEF Inductive

\* It holds initially.
LEMMA InitInductive == Init => Inductive
<1> SUFFICES ASSUME Init PROVE Inductive
  OBVIOUS
<1>1. /\ pc = "idle" /\ at = 1 /\ ~applied /\ ~undoing /\ ~failed /\ ~capture /\ before = Unset
      /\ req = [op |-> "start", form |-> 0, bits |-> <<>>, list |-> NoList]
      /\ result = "none" /\ spoiled = {} /\ saved = NotSaved
  BY DEF Init
<1>2. /\ was.settings = settings /\ was.list = list /\ was.core = core
      /\ was.daemon = daemon /\ was.stopped = stopped
  BY DEF Init, Now
<1>3. StoredTypes
  BY DEF Init, StoredTypes
<1>4. TypeOK
  <2>1. BoundTypes
    BY <1>1, BoundAssumption DEF Init, BoundTypes
  <2>2. SavedTypes
    <3>1. <<>> \in Seq(Bit \cup {Unset}) /\ Len(<<>>) = 0
      OBVIOUS
    <3> QED
      BY <1>1, <3>1 DEF NotSaved, SavedTypes
  <2>3. ScriptTypes
    <3>1. old \in [running : BOOLEAN, manual : BOOLEAN] /\ pc \in Places
      BY DEF Init, NoService, Places
    <3>2. /\ rc \in BOOLEAN /\ applied \in BOOLEAN /\ undoing \in BOOLEAN
          /\ failed \in BOOLEAN /\ capture \in BOOLEAN
      BY DEF Init
    <3>3. at \in 1 .. 3 /\ next \in {"read", "returned"} /\ before \in Bit \cup {Unset}
      BY DEF Init
    <3> QED
      BY <3>1, <3>2, <3>3 DEF ScriptTypes
  <2>4. RequestTypes
    <3>1. <<>> \in [Carried(0) -> Bit]
      BY CarriedIs
    <3> QED
      BY <1>1, <3>1 DEF RequestTypes, Ops
  <2>5. WasTypes
    BY <1>3 DEF Init, Now, WasTypes, StoredTypes
  <2> QED
    BY <1>3, <2>1, <2>2, <2>3, <2>4, <2>5, TypeParts
<1>5. PlaceInv /\ SnapshotInv
  BY <1>1 DEF PlaceInv, SnapshotInv
<1>6. OldInv /\ NewInv
  BY <1>1, <1>2 DEF OldInv, NewInv
<1>7. SwitchInv /\ ServiceInv
  BY <1>1, <1>2 DEF SwitchInv, Switch, ServiceInv, Starting
<1>8. MixInv
  BY <1>1, <1>2 DEF MixInv
<1> QED
  BY <1>4, <1>5, <1>6, <1>7, <1>8 DEF Inductive

-----------------------------------------------------------------------------
(* The refinement of SettingsPromise *)

Items == Keys \cup {"list"}
Values == Bit \cup {Unset} \cup AllLists
Config == InEffect(settings, list, core)
Base == InEffect(was.settings, was.list, was.core)

\* The configuration in effect, item by item.
LEMMA Effective ==
  ASSUME NEW S, NEW l, NEW c
  PROVE  /\ InEffect(S, l, c) = [i \in Items |-> InEffect(S, l, c)[i]]
         /\ InEffect(S, l, c)["enable"] = S["enable"]
         /\ InEffect(S, l, c)["custom"] = S["custom"]
         /\ InEffect(S, l, c)["connector"] = Switch(S, c)
         /\ InEffect(S, l, c)["list"] = l
BY DEF InEffect, Items, Keys

\* Two configurations that agree on every item are the same.
LEMMA SameEffect ==
  ASSUME NEW S, NEW l, NEW c, NEW f, f = [i \in Items |-> f[i]],
         f["enable"] = S["enable"], f["custom"] = S["custom"],
         f["connector"] = Switch(S, c), f["list"] = l
  PROVE  InEffect(S, l, c) = f
<1>1. \A i \in Items : InEffect(S, l, c)[i] = f[i]
  BY Effective DEF Items, Keys
<1> QED
  BY <1>1, Effective

\* What is stored makes a configuration.
LEMMA EffectType ==
  ASSUME NEW S \in Settings, NEW l \in AllLists, NEW c \in Prefs
  PROVE  InEffect(S, l, c) \in [Items -> Values]
<1>1. S["enable"] \in Values /\ S["custom"] \in Values /\ Switch(S, c) \in Values /\ l \in Values
  BY DEF Settings, Prefs, Switch, Values, Keys
<1>2. \A i \in Items : InEffect(S, l, c)[i] \in Values
  BY <1>1, Effective DEF Items, Keys
<1> QED
  BY <1>2, Effective

\* What is asked for, item by item.
LEMMA AskedFor ==
  ASSUME Inductive
  PROVE  /\ DOMAIN Asked(req) = Carried(req.form) \cup (IF req.form > 1 THEN {"list"} ELSE {})
         /\ \A k \in Carried(req.form) : Asked(req)[k] = req.bits[k]
         /\ req.form > 1 => Asked(req)["list"] = req.list
         /\ Promise!IsSubmission(Asked(req))
<1>0. DOMAIN req.bits = Carried(req.form)
  BY DEF Inductive, TypeOK
<1>1. /\ DOMAIN Asked(req) = Carried(req.form) \cup (IF req.form > 1 THEN {"list"} ELSE {})
      /\ req.form > 1 => Asked(req)["list"] = req.list
  BY <1>0 DEF Asked
<1>2. Carried(req.form) \subseteq Keys
  BY FormType, CarriedIs DEF Keys
<1>3. ASSUME NEW k \in Carried(req.form) PROVE Asked(req)[k] = req.bits[k]
  BY <1>0, <1>2, <1>3 DEF Asked, Keys
<1>4. \A k \in Carried(req.form) : req.bits[k] \in Bit
  BY DEF Inductive, TypeOK
<1>5. req.list \in AllLists
  BY DEF Inductive, TypeOK, AllLists
<1>6. DOMAIN Asked(req) \subseteq Keys \cup {"list"}
  BY <1>1, <1>2
<1>7. ASSUME NEW i \in DOMAIN Asked(req)
      PROVE  Asked(req)[i] \in Bit \cup {Unset} \cup AllLists
  BY <1>1, <1>3, <1>4, <1>5, <1>7
<1>8. Asked(req) = [i \in DOMAIN Asked(req) |-> Asked(req)[i]]
  BY DEF Asked
<1>9. Asked(req) \in [DOMAIN Asked(req) -> Bit \cup {Unset} \cup AllLists]
  BY <1>7, <1>8
<1> QED
  BY <1>1, <1>3, <1>6, <1>9 DEF Promise!IsSubmission

\* The submission in force, item by item.
LEMMA InForceIs ==
  ASSUME Inductive
  PROVE  LET f == Promise!With(Base, Asked(req))
         IN /\ f = [i \in Items |-> f[i]]
            /\ f["enable"] = IF req.form >= 1 THEN req.bits["enable"] ELSE was.settings["enable"]
            /\ f["custom"] = IF req.form >= 2 THEN req.bits["custom"] ELSE was.settings["custom"]
            /\ f["connector"] = IF req.form = 3 THEN req.bits["connector"]
                                ELSE Switch(was.settings, was.core)
            /\ f["list"] = IF req.form > 1 THEN req.list ELSE was.list
<1> DEFINE f == Promise!With(Base, Asked(req))
<1>1. f = [i \in Items |-> IF i \in DOMAIN Asked(req) THEN Asked(req)[i] ELSE Base[i]]
  BY DEF Promise!With, Items
<1>2. \A i \in Items : f[i] = IF i \in DOMAIN Asked(req) THEN Asked(req)[i] ELSE Base[i]
  BY <1>1
<1>3. f = [i \in Items |-> f[i]]
  BY <1>1
<1>4. /\ Base["enable"] = was.settings["enable"] /\ Base["custom"] = was.settings["custom"]
      /\ Base["connector"] = Switch(was.settings, was.core) /\ Base["list"] = was.list
  BY Effective DEF Base
<1>5. /\ "enable" \in Items /\ "custom" \in Items /\ "connector" \in Items /\ "list" \in Items
  BY DEF Items, Keys
<1> HIDE DEF f
<1>6. req.form \in 0 .. 3
  BY FormType
<1>7. /\ "enable" \in DOMAIN Asked(req) <=> req.form >= 1
      /\ "custom" \in DOMAIN Asked(req) <=> req.form >= 2
      /\ "connector" \in DOMAIN Asked(req) <=> req.form = 3
      /\ "list" \in DOMAIN Asked(req) <=> req.form > 1
  BY <1>6, AskedFor, CarriedIs DEF Keys
<1>8. /\ req.form >= 1 => Asked(req)["enable"] = req.bits["enable"]
      /\ req.form >= 2 => Asked(req)["custom"] = req.bits["custom"]
      /\ req.form = 3 => Asked(req)["connector"] = req.bits["connector"]
  BY <1>6, AskedFor, CarriedIs DEF Keys
<1>9. req.form > 1 => Asked(req)["list"] = req.list
  BY AskedFor
<1> QED
  BY <1>2, <1>3, <1>4, <1>5, <1>7, <1>8, <1>9 DEF f

\* In every reachable state each item is the old or the submitted one.
LEMMA ConfigBetween == Inductive => Promise!Between(Config)
<1> SUFFICES ASSUME Inductive PROVE Promise!Between(Config)
  OBVIOUS
<1> DEFINE f == Promise!With(Base, Asked(req))
<1>1. Config \in [Items -> Values]
  BY EffectType DEF Config, Inductive, TypeOK
<1>2. /\ Config["enable"] \in {Base["enable"], f["enable"]}
      /\ Config["custom"] \in {Base["custom"], f["custom"]}
  <2>1. \A i \in {1, 2} : \/ settings[Order[i]] = was.settings[Order[i]]
                          \/ i <= req.form /\ settings[Order[i]] = req.bits[Order[i]]
    BY DEF Inductive, MixInv
  <2> HIDE DEF f
  <2> QED
    BY <2>1, OrderIs, InForceIs, FormType, Effective DEF Config, Base, f
<1>3. Config["list"] \in {Base["list"], f["list"]}
  <2>1. list = was.list \/ (req.form > 1 /\ list = req.list)
    BY DEF Inductive, MixInv
  <2> QED
    BY <2>1, InForceIs, Effective DEF Config, Base
<1>4. Config["connector"] \in {Base["connector"], f["connector"]}
  <2>1. CASE req.form < 3
    <3>1. Switch(settings, core) = Switch(was.settings, was.core)
      BY <2>1 DEF Inductive, SwitchInv
    <3> QED
      BY <3>1, Effective DEF Config, Base
  <2>2. CASE req.form = 3
    <3>1. Switch(settings, core) \in {Switch(was.settings, was.core), req.bits["connector"]}
      BY <2>2, SubmittedSwitch DEF Inductive, MixInv, Switch
    <3> QED
      BY <2>2, <3>1, InForceIs, Effective DEF Config, Base
  <2> QED
    BY <2>1, <2>2, FormType
<1>5. \A i \in Items : Config[i] \in {Base[i], f[i]}
  BY <1>2, <1>3, <1>4 DEF Items, Keys
<1> QED
  BY <1>1, <1>5 DEF Promise!Between, Items, Values, Base

\* After a success all that was submitted is in effect, and nothing else changed.
LEMMA SuccessOnAll ==
  Inductive /\ pc = "idle" /\ result = "success" => Config = Promise!With(Base, Asked(req))
<1> SUFFICES ASSUME Inductive, pc = "idle", result = "success"
             PROVE  Config = Promise!With(Base, Asked(req))
  OBVIOUS
<1>1. \A i \in 1 .. 3 : i <= req.form => settings[Order[i]] = req.bits[Order[i]]
  BY DEF Inductive, NewInv, Written
<1>2. \A i \in {1, 2} : i > req.form => settings[Order[i]] = was.settings[Order[i]]
  BY DEF Inductive, OldInv
<1>3. list = IF req.form > 1 THEN req.list ELSE was.list
  BY FormType DEF Inductive, NewInv, OldInv, Written
<1>4. Switch(settings, core) = IF req.form = 3 THEN req.bits["connector"]
                               ELSE Switch(was.settings, was.core)
  <2>1. req.form < 3 => Switch(settings, core) = Switch(was.settings, was.core)
    BY DEF Inductive, SwitchInv
  <2>2. req.form = 3 => settings["connector"] = req.bits["connector"]
    BY <1>1, OrderIs
  <2> QED
    BY <2>1, <2>2, FormType, SubmittedSwitch DEF Switch
<1> DEFINE f == Promise!With(Base, Asked(req))
<1>5. /\ f = [i \in Items |-> f[i]]
      /\ f["enable"] = settings["enable"] /\ f["custom"] = settings["custom"]
      /\ f["connector"] = Switch(settings, core) /\ f["list"] = list
  <2> HIDE DEF f
  <2> QED
    BY <1>1, <1>2, <1>3, <1>4, InForceIs, OrderIs, FormType DEF f
<1> HIDE DEF f
<1>6. InEffect(settings, list, core) = f
  BY <1>5, SameEffect
<1> QED
  BY <1>6 DEF f, Config

\* After a failure, with nothing lost on the way back, all is as it was.
LEMMA FailureOnAll ==
  Inductive /\ pc = "idle" /\ result = "failed" /\ SwitchBack => Config = Base
<1> SUFFICES ASSUME Inductive, pc = "idle", result = "failed", SwitchBack
             PROVE  Config = Base
  OBVIOUS
<1>1. \A i \in {1, 2} : settings[Order[i]] = was.settings[Order[i]]
  BY DEF Inductive, OldInv, Back, SettingsBack, SwitchBack
<1>2. list = was.list
  BY FormType DEF Inductive, OldInv, ListBack, SettingsBack, SwitchBack
<1>3. Switch(settings, core) = Switch(was.settings, was.core)
  BY DEF Inductive, SwitchInv
<1>4. /\ Base = [i \in Items |-> Base[i]]
      /\ Base["enable"] = settings["enable"] /\ Base["custom"] = settings["custom"]
      /\ Base["connector"] = Switch(settings, core) /\ Base["list"] = list
  BY <1>1, <1>2, <1>3, OrderIs, Effective DEF Base
<1> QED
  BY <1>4, SameEffect DEF Config

\* What is asked for is a submission.
LEMMA SubmissionAsked == Inductive => Promise!IsSubmission(Asked(req))
BY AskedFor

\* The same of the state a step leads to.
LEMMA PromisedNext ==
  Inductive' =>
    /\ Promise!Between(Config)'
    /\ Promise!IsSubmission(Asked(req))'
    /\ (pc = "idle" /\ result = "success" => Config = Promise!With(Base, Asked(req)))'
    /\ (pc = "idle" /\ result = "failed" /\ SwitchBack => Config = Base)'
<1>1. Inductive =>
        /\ Promise!Between(Config)
        /\ Promise!IsSubmission(Asked(req))
        /\ pc = "idle" /\ result = "success" => Config = Promise!With(Base, Asked(req))
        /\ pc = "idle" /\ result = "failed" /\ SwitchBack => Config = Base
  BY SubmissionAsked, ConfigBetween, SuccessOnAll, FailureOnAll
<1> QED
  BY <1>1, PTL

\* The initial states are those of the promise.
LEMMA InitSubmits == Init => Promise!Init
<1> SUFFICES ASSUME Init PROVE Promise!Init
  OBVIOUS
<1>1. /\ pc = "idle" /\ result = "none"
      /\ was.settings = settings /\ was.list = list /\ was.core = core
      /\ req.form = 0
  BY DEF Init, Now
<1>2. Config \in [Items -> Values]
  BY EffectType, InitInductive DEF Config, Inductive, TypeOK
<1>0. req.bits = <<>>
  BY DEF Init
<1>3. Asked(req) = <<>>
  BY <1>0, <1>1 DEF Asked
<1>4. Verdict = "none"
  BY <1>1 DEF Verdict
<1> QED
  BY <1>1, <1>2, <1>3, <1>4 DEF Promise!Init, Config, Items, Values

\* Where the job and the place of the script leave the verdict.
LEMMA VerdictIs ==
  ASSUME Inductive
  PROVE  /\ Verdict = "running" <=> pc # "idle"
         /\ pc = "idle" /\ result \in {"running", "none"} => Verdict = "none"
         /\ pc = "idle" /\ result = "success" => Verdict = "success"
         /\ pc = "idle" /\ result = "failed" =>
              Verdict = IF SwitchBack THEN "failed" ELSE "spoiled"
<1>1. result \in {"none", "running", "success", "failed"}
  BY DEF Inductive, TypeOK
<1> QED
  BY <1>1 DEF Verdict, SwitchBack

\* The same of the verdict after a step.
LEMMA VerdictNext ==
  Inductive' =>
    (/\ Verdict = "running" <=> pc # "idle"
     /\ pc = "idle" /\ result \in {"running", "none"} => Verdict = "none"
     /\ pc = "idle" /\ result = "success" => Verdict = "success"
     /\ pc = "idle" /\ result = "failed" =>
          Verdict = IF SwitchBack THEN "failed" ELSE "spoiled")'
<1>1. Inductive =>
        /\ Verdict = "running" <=> pc # "idle"
        /\ pc = "idle" /\ result \in {"running", "none"} => Verdict = "none"
        /\ pc = "idle" /\ result = "success" => Verdict = "success"
        /\ pc = "idle" /\ result = "failed" =>
             Verdict = IF SwitchBack THEN "failed" ELSE "spoiled"
  BY VerdictIs
<1> QED
  BY <1>1, PTL

\* A request begins with what is in effect; it asks for a submission.
LEMMA RequestIsPromised ==
  ASSUME Inductive, Inductive', Requests
  PROVE  Promise!Request
<1>1. /\ pc = "idle" /\ was' = Now /\ UNCHANGED <<settings, list, core>>
      /\ pc' \in {"snapshot", "dispatch"}
  BY Requested DEF Requests
<1>2. Verdict # "running" /\ Verdict' = "running"
  BY <1>1, VerdictIs, VerdictNext
<1>3. Base' = Config /\ Config' = Config
  BY <1>1 DEF Now, Base, Config
<1>4. Promise!IsSubmission(Asked(req))'
  BY PromisedNext
<1> QED
  BY <1>2, <1>3, <1>4 DEF Promise!Request, Promise!IsSubmission, Base, Config

\* A kill or a reboot ends the work without a verdict and changes nothing.
LEMMA CrashIsPromised ==
  ASSUME Inductive, Inductive', Killed \/ Reboot
  PROVE  Promise!Interrupt
<1>1. UNCHANGED <<settings, list, core, req, was>>
  BY DEF Killed, Reboot, stored, job
<1>2. pc' = "idle" /\ result' \in {"running", "none"}
  BY Ended DEF Killed, Reboot, job, Inductive, PlaceInv
<1>3. Verdict' = "none"
  BY <1>2, VerdictNext
<1> QED
  BY <1>1, <1>3 DEF Promise!Interrupt

\* A step of the script works on the items or gives the verdict on them.
LEMMA ScriptIsPromised ==
  ASSUME Inductive, Inductive', [Next]_vars, Script
  PROVE  Promise!Work \/ Promise!Succeed \/ Promise!Fail \/ Promise!Spoil
<1>1. pc # "idle"
  BY DEF Script, NotRecovered, Snapshot, SnapshotFails, Write, WriteList, WriteFails, Dispatch,
     ReadFails, Stop, Read, Launch, LaunchFails, Adopt, AdoptFails, SetPrefs, SetPrefsFails,
     Rest, RestFails, Succeed, FailPlain, Undo, Undone, Restore, RestoreFails, RestoreRefused,
     RestoreList, RestoreListFails, GiveUp, Migrate, MigrateFails, Flag
<1>2. ~Requests
  BY <1>1 DEF Requests, Submit, Plain, Begin
<1>3. UNCHANGED <<req, was>>
  BY <1>2, Writes
<1>4. /\ Base' = Base /\ Asked(req') = Asked(req)
      /\ UNCHANGED InEffect(was.settings, was.list, was.core)
  BY <1>3 DEF Base
<1>5. Verdict = "running"
  BY <1>1, VerdictIs
<1>6. /\ Promise!Between(Config')
      /\ pc' = "idle" /\ result' = "success" => Config' = Promise!With(Base, Asked(req))
      /\ pc' = "idle" /\ result' = "failed" /\ SwitchBack' => Config' = Base
  BY <1>3, <1>4, PromisedNext DEF Promise!Between, Promise!With, Base
<1>7. CASE pc' # "idle"
  BY <1>4, <1>5, <1>6, <1>7, VerdictNext DEF Promise!Work, Config
<1>8. CASE pc' = "idle"
  <2>1. result' \in {"success", "failed"}
    <3>1. CASE NotRecovered \/ SnapshotFails \/ Succeed \/ FailPlain \/ GiveUp \/ MigrateFails \/ Flag
      BY <3>1 DEF NotRecovered, SnapshotFails, Succeed, FailPlain, GiveUp, MigrateFails, Flag, Fail
    <3>2. CASE Snapshot \/ Write \/ WriteList \/ WriteFails \/ Dispatch \/ ReadFails \/ Read
      BY <1>8, <3>2 DEF Snapshot, Write, WriteList, WriteFails, Dispatch, ReadFails, Read, Return
    <3>3. CASE Launch \/ LaunchFails \/ Adopt \/ AdoptFails \/ SetPrefs \/ SetPrefsFails
      BY <1>8, <3>3 DEF Launch, LaunchFails, Adopt, AdoptFails, SetPrefs, SetPrefsFails, Return
    <3>4. CASE Stop
      BY <1>8, <3>4 DEF Stop, Inductive, TypeOK
    <3>5. CASE Rest \/ RestFails \/ Undo \/ Undone \/ Migrate
      BY <1>8, <3>5 DEF Rest, RestFails, Undo, Undone, Migrate, Return
    <3>6. CASE Restore \/ RestoreFails \/ RestoreRefused \/ RestoreList \/ RestoreListFails
      BY <1>8, <3>6 DEF Restore, RestoreFails, RestoreRefused, RestoreList, RestoreListFails, NextKey
    <3> QED
      BY <3>1, <3>2, <3>3, <3>4, <3>5, <3>6 DEF Script
  <2>2. CASE result' = "success"
    BY <1>4, <1>5, <1>6, <1>8, <2>2, VerdictNext DEF Promise!Succeed, Config, Base
  <2>3. CASE result' = "failed" /\ SwitchBack'
    BY <1>4, <1>5, <1>6, <1>8, <2>3, VerdictNext DEF Promise!Fail, Config, Base
  <2>4. CASE result' = "failed" /\ ~SwitchBack'
    BY <1>4, <1>5, <1>6, <1>8, <2>4, VerdictNext DEF Promise!Spoil, Config, Base
  <2> QED
    BY <2>1, <2>2, <2>3, <2>4
<1> QED
  BY <1>7, <1>8

\* Every step is one of the promise or hidden from it.
LEMMA StepSubmits ==
  Inductive /\ Inductive' /\ [Next]_vars => [Promise!Next]_(Promise!promise)
<1> SUFFICES ASSUME Inductive, Inductive', [Next]_vars
             PROVE  [Promise!Next]_(Promise!promise)
  OBVIOUS
<1>1. CASE Requests
  BY <1>1, RequestIsPromised DEF Promise!Next
<1>2. CASE Script
  BY <1>2, ScriptIsPromised DEF Promise!Next
<1>3. CASE Killed \/ Reboot
  BY <1>3, CrashIsPromised DEF Promise!Next
<1>4. CASE UNCHANGED vars
  <2>1. UNCHANGED <<settings, list, core, req, was, pc, result, spoiled>>
    BY <1>4 DEF vars, stored, script, job
  <2>2. Config' = Config /\ Base' = Base /\ Verdict' = Verdict /\ Asked(req') = Asked(req)
    BY <2>1 DEF Config, Base, Verdict
  <2> QED
    BY <2>1, <2>2 DEF Promise!promise, Config, Base
<1> QED
  BY <1>1, <1>2, <1>3, <1>4 DEF Next


-----------------------------------------------------------------------------
(* The steps a script has left *)

\* The bound on the steps from each place.
LEMMA StepsAre ==
  ASSUME NEW a \in 1 .. 3, NEW u \in BOOLEAN
  PROVE  /\ StepsAt("idle", a, u) = 0
         /\ StepsAt("flag", a, u) = 1
         /\ StepsAt("returned", a, u) = IF u THEN 2 ELSE 14
         /\ StepsAt("rest", a, u) = IF u THEN 3 ELSE 15
         /\ StepsAt("prefs", a, u) = IF u THEN 4 ELSE 16
         /\ StepsAt("adopt", a, u) = IF u THEN 5 ELSE 17
         /\ StepsAt("launch", a, u) = IF u THEN 6 ELSE 18
         /\ StepsAt("read", a, u) = IF u THEN 7 ELSE 19
         /\ StepsAt("stop", a, u) = IF u THEN 8 ELSE 20
         /\ StepsAt("restored", a, u) = 9
         /\ StepsAt("restoreList", a, u) = 10
         /\ StepsAt("restore", a, u) = 14 - a
         /\ StepsAt("dispatch", a, u) = 21
         /\ StepsAt("list", a, u) = 22
         /\ StepsAt("write", a, u) = 26 - a
         /\ StepsAt("snapshot", a, u) = 26
<1>1. /\ StepsFrom["idle"] = 0 /\ StepsFrom["flag"] = 1 /\ StepsFrom["returned"] = 2
      /\ StepsFrom["rest"] = 3 /\ StepsFrom["prefs"] = 4 /\ StepsFrom["adopt"] = 5
      /\ StepsFrom["launch"] = 6 /\ StepsFrom["read"] = 7 /\ StepsFrom["stop"] = 8
      /\ StepsFrom["restored"] = 9 /\ StepsFrom["restoreList"] = 10
      /\ StepsFrom["restore"] = 14 /\ StepsFrom["dispatch"] = 21 /\ StepsFrom["list"] = 22
      /\ StepsFrom["write"] = 26 /\ StepsFrom["snapshot"] = 26
  BY DEF StepsFrom
<1>2. Operating \ {"dispatch"} = {"stop", "read", "launch", "adopt", "prefs", "rest", "returned"}
  BY DEF Operating
<1> QED
  BY <1>1, <1>2 DEF StepsAt, WayBack

\* They are a number up to 26, and none only where no script runs.
LEMMA StepsType == Inductive => StepsBounded
<1> SUFFICES ASSUME Inductive PROVE StepsBounded
  OBVIOUS
<1>1. pc \in Places /\ at \in 1 .. 3 /\ undoing \in BOOLEAN
  BY DEF Inductive, TypeOK
<1> QED
  BY <1>1, StepsAre DEF StepsBounded, StepsLeft, Places

\* The same after a step.
LEMMA StepsTypeNext == Inductive' => StepsBounded'
BY StepsType, PTL

\* Every step of a script leaves fewer of them.
LEMMA ScriptStepsDown ==
  ASSUME Inductive, Inductive', Script
  PROVE  StepsLeft' < StepsLeft
<1>1. /\ pc \in Places /\ at \in 1 .. 3 /\ undoing \in BOOLEAN
      /\ at' \in 1 .. 3 /\ undoing' \in BOOLEAN /\ next \in {"read", "returned"}
  BY DEF Inductive, TypeOK
<1>2. pc # "idle"
  BY DEF Script, NotRecovered, Snapshot, SnapshotFails, Write, WriteList, WriteFails, Dispatch,
     ReadFails, Stop, Read, Launch, LaunchFails, Adopt, AdoptFails, SetPrefs, SetPrefsFails,
     Rest, RestFails, Succeed, FailPlain, Undo, Undone, Restore, RestoreFails, RestoreRefused,
     RestoreList, RestoreListFails, GiveUp, Migrate, MigrateFails, Flag
<1>3. CASE pc' = "idle"
  BY <1>1, <1>2, <1>3, StepsAre DEF StepsLeft, Places
<1>4. CASE Snapshot \/ WriteList
  BY <1>1, <1>4, StepsAre DEF Snapshot, WriteList, StepsLeft
<1>5. CASE Write
  <2>1. /\ pc = "write"
        /\ (pc' = "write" /\ at' = at + 1) \/ pc' \in {"list", "dispatch"}
    BY <1>5 DEF Write
  <2> QED
    BY <1>1, <1>5, <2>1, StepsAre DEF Write, StepsLeft
<1>6. CASE WriteFails
  BY <1>1, <1>6, StepsAre DEF WriteFails, StepsLeft
<1>7. CASE Dispatch
  <2>1. pc = "dispatch" /\ pc' \in {"read", "stop", "returned"}
    BY <1>7 DEF Dispatch, Return
  <2> QED
    BY <1>1, <2>1, StepsAre DEF StepsLeft
<1>8. CASE ReadFails \/ Stop \/ Read \/ Launch \/ LaunchFails
  <2>1. /\ undoing' = undoing
        /\ \/ pc \in {"dispatch", "read", "launch"} /\ pc' = "returned"
           \/ pc = "stop" /\ pc' \in {"read", "returned"}
           \/ pc = "read" /\ pc' = "launch"
           \/ pc = "launch" /\ pc' = "adopt"
    BY <1>1, <1>8 DEF ReadFails, Stop, Read, Launch, LaunchFails, Return
  <2> QED
    BY <1>1, <2>1, StepsAre DEF StepsLeft
<1>9. CASE Adopt \/ AdoptFails \/ SetPrefs \/ SetPrefsFails \/ Rest \/ RestFails
  <2>1. /\ undoing' = undoing
        /\ \/ pc \in {"adopt", "prefs", "rest"} /\ pc' = "returned"
           \/ pc = "adopt" /\ pc' = "prefs"
           \/ pc = "prefs" /\ pc' = "rest"
    BY <1>9 DEF Adopt, AdoptFails, SetPrefs, SetPrefsFails, Rest, RestFails, Return
  <2> QED
    BY <1>1, <2>1, StepsAre DEF StepsLeft
<1>10. CASE Undo \/ Undone
  <2>1. pc = "returned" /\ \/ ~undoing /\ pc' = "restore"
                           \/ undoing /\ pc' = "flag"
    BY <1>10 DEF Undo, Undone
  <2> QED
    BY <1>1, <2>1, StepsAre DEF StepsLeft
<1>11. CASE Restore \/ RestoreFails
  <2>1. /\ pc = "restore"
        /\ (pc' = "restore" /\ at' = at + 1) \/ pc' \in {"restoreList", "restored"}
    BY <1>11 DEF Restore, RestoreFails, NextKey
  <2> QED
    BY <1>1, <2>1, StepsAre DEF StepsLeft
<1>12. CASE RestoreRefused \/ RestoreList \/ RestoreListFails
  BY <1>1, <1>12, StepsAre DEF RestoreRefused, RestoreList, RestoreListFails, StepsLeft
<1>13. CASE Migrate
  <2>1. pc = "restored" /\ pc' = "stop" /\ undoing' = TRUE
    BY <1>13 DEF Migrate
  <2>2. StepsLeft' = StepsAt("stop", at', TRUE)
    BY <2>1 DEF StepsLeft
  <2>3. StepsLeft' = 8
    BY <1>1, <2>2, StepsAre
  <2>4. StepsLeft = 9
    BY <1>1, <2>1, StepsAre DEF StepsLeft
  <2> QED
    BY <2>3, <2>4
<1>14. CASE NotRecovered \/ SnapshotFails \/ Succeed \/ FailPlain \/ GiveUp \/ MigrateFails \/ Flag
  BY <1>3, <1>14 DEF NotRecovered, SnapshotFails, Succeed, FailPlain, GiveUp, MigrateFails, Flag,
     Fail, Done
<1> QED
  BY <1>4, <1>5, <1>6, <1>7, <1>8, <1>9, <1>10, <1>11, <1>12, <1>13, <1>14 DEF Script

\* A kill or a reboot leaves none.
LEMMA OthersStepDown ==
  ASSUME Inductive, Inductive', Killed \/ Reboot \/ UNCHANGED vars
  PROVE  StepsLeft' <= StepsLeft
<1>1. /\ at \in 1 .. 3 /\ undoing \in BOOLEAN
      /\ at' \in 1 .. 3 /\ undoing' \in BOOLEAN
  BY DEF Inductive, TypeOK
<1>2. StepsLeft \in 0 .. 26
  BY StepsType DEF StepsBounded
<1>3. CASE Killed \/ Reboot
  BY <1>1, <1>2, <1>3, Ended, StepsAre DEF Killed, Reboot, StepsLeft
<1>4. CASE UNCHANGED vars
  BY <1>2, <1>4 DEF vars, script, StepsLeft
<1> QED
  BY <1>3, <1>4

-----------------------------------------------------------------------------
(* The theorems *)

\* Whatever lists and forms there are and however many commands fail and
\* scripts are killed, every reachable state of the transaction satisfies the
\* relations its own steps rely on.
THEOREM InductiveInvariant == Spec => []Inductive
<1>1. Inductive /\ [Next]_vars => Inductive'
  BY InductiveNext
<1> QED
  BY <1>1, InitInductive, PTL DEF Spec

\* Every variable keeps its type: the restore never meets a line or a list
\* that the snapshot does not hold.
THEOREM TypeCorrect == Spec => []TypeOK
<1>1. Inductive => TypeOK
  BY DEF Inductive
<1> QED
  BY <1>1, InductiveInvariant, PTL

\* A submission that failed leaves the settings and the list as they were,
\* unless a command failed while they were being restored.
THEOREM FailureRestores == Spec => []FailedLeavesOld
<1>1. Inductive => FailedLeavesOld
  <2> SUFFICES ASSUME Inductive, Failed, "settings" \notin spoiled
               PROVE  /\ \A k \in Keys \ {"connector"} : settings[k] = was.settings[k]
                      /\ list = was.list
    BY DEF FailedLeavesOld
  <2>1. /\ settings[Order[1]] = was.settings[Order[1]]
        /\ settings[Order[2]] = was.settings[Order[2]]
        /\ list = was.list
    BY DEF Inductive, OldInv, Back, ListBack, SettingsBack, Failed
  <2> QED
    BY <2>1, OrderIs DEF Keys
<1> QED
  BY <1>1, InductiveInvariant, PTL

\* A failed operation leaves the connector switch in effect as it was, even
\* when the core had taken the new one and the setting was absent before.
THEOREM SwitchIsKept == Spec => []SwitchKept
<1>1. Inductive => SwitchKept
  BY FormType DEF Inductive, SwitchInv, SwitchBack, SwitchKept
<1> QED
  BY <1>1, InductiveInvariant, PTL

\* After a failed submission the service is what it was.
THEOREM FailureRestoresService == Spec => []ServiceComesBack
<1>1. Inductive => ServiceComesBack
  <2> SUFFICES ASSUME Inductive, Failed, spoiled = {}
               PROVE  /\ stopped = was.stopped
                      /\ daemon => was.daemon
                      /\ was.daemon /\ was.settings["enable"] = "1" /\ was.list # Bad => daemon
                      /\ daemon => core \in {was.core, Wanted(settings, list, core)}
    BY DEF ServiceComesBack
  <2>1. /\ stopped = was.stopped
        /\ Untouched \/ (daemon => was.daemon /\ InForce)
        /\ was.daemon /\ settings["enable"] = "1" => daemon
    BY DEF Inductive, ServiceInv, Failed
  <2>2. settings["enable"] = was.settings["enable"]
    BY OrderIs DEF Inductive, OldInv, Back, SettingsBack, Failed
  <2> QED
    BY <2>1, <2>2 DEF Untouched, InForce
<1> QED
  BY <1>1, InductiveInvariant, PTL

\* What a reported success says of the settings and the service is true.
THEOREM SuccessIsTrue == Spec => []SuccessInForce
<1>1. Inductive => SuccessInForce
  <2> SUFFICES ASSUME Inductive, pc = "idle", result = "success"
               PROVE  /\ req.form > 0 => \A k \in Carried(req.form) : settings[k] = req.bits[k]
                      /\ req.form > 1 => list = req.list
                      /\ req.op # "stop" /\ settings["enable"] = "1" =>
                           daemon /\ ~stopped /\ core = Wanted(settings, list, core)
                      /\ req.op = "stop" \/ (req.op = "web_submit" /\ settings["enable"] # "1") =>
                           ~daemon /\ stopped
    BY DEF SuccessInForce
  <2>1. \A i \in 1 .. 3 : i <= req.form => settings[Order[i]] = req.bits[Order[i]]
    BY DEF Inductive, NewInv, Written
  <2>2. \A k \in Carried(req.form) : \E i \in 1 .. 3 : i <= req.form /\ k = Order[i]
    BY FormType, CarriedIs, OrderIs DEF Keys
  <2>3. req.form > 1 => list = req.list
    BY DEF Inductive, NewInv, Written
  <2> QED
    BY <2>1, <2>2, <2>3 DEF Inductive, ServiceInv, InForce
<1> QED
  BY <1>1, InductiveInvariant, PTL

\* A submission never touches what its form does not carry.
THEOREM UncarriedIsKept == Spec => []UncarriedKept
<1>1. Inductive => UncarriedKept
  <2> SUFFICES ASSUME Inductive, req.form > 0
               PROVE  /\ \A k \in Keys \ Carried(req.form) :
                           \/ settings[k] = was.settings[k]
                           \/ /\ k = "connector" /\ was.settings[k] = Unset
                              /\ settings[k] = was.core.connector
                      /\ req.form = 1 => list = was.list
    BY DEF UncarriedKept
  <2>1. \A i \in {1, 2} : i > req.form => settings[Order[i]] = was.settings[Order[i]]
    BY DEF Inductive, OldInv
  <2>2. req.form < 3 =>
          \/ settings["connector"] = was.settings["connector"]
          \/ was.settings["connector"] = Unset /\ settings["connector"] = was.core["connector"]
    BY DEF Inductive, SwitchInv
  <2>3. req.form = 1 => list = was.list
    BY DEF Inductive, OldInv
  <2> QED
    BY <2>1, <2>2, <2>3, FormType, CarriedIs, OrderIs DEF Keys
<1> QED
  BY <1>1, InductiveInvariant, PTL

\* However many commands fail, scripts are killed and reboots come, a reader of
\* the settings sees of each item the old or the submitted value, and what the
\* job says afterwards is said of all items at once.
THEOREM SubmissionsAreAtomic == Spec => SubmitsAtomically
<1>1. Inductive /\ [Next]_vars => Inductive /\ Inductive' /\ [Next]_vars
  BY InductiveNext
<1> QED
  BY <1>1, InitSubmits, StepSubmits, InductiveInvariant, PTL
  DEF Spec, SubmitsAtomically, Promise!Spec

\* Whatever fails, a request is over after at most 26 steps of its script: each
\* step leaves fewer, and only another request starts anew.
THEOREM EveryScriptEnds == Spec => []StepsBounded /\ ScriptsEnd
<1>1. Inductive /\ Inductive' /\ [Next]_vars =>
        [/\ Script => StepsLeft' < StepsLeft
         /\ StepsLeft' > StepsLeft => Requests]_vars
  <2> SUFFICES ASSUME Inductive, Inductive', [Next]_vars
               PROVE  /\ Script => StepsLeft' < StepsLeft
                      /\ StepsLeft' > StepsLeft => Requests
    OBVIOUS
  <2>1. StepsLeft \in 0 .. 26
    BY StepsType DEF StepsBounded
  <2>2. StepsLeft' \in 0 .. 26
    BY StepsTypeNext DEF StepsBounded
  <2>3. Script => StepsLeft' < StepsLeft
    BY ScriptStepsDown
  <2>4. Killed \/ Reboot \/ UNCHANGED vars => StepsLeft' <= StepsLeft
    BY OthersStepDown
  <2> QED
    BY <2>1, <2>2, <2>3, <2>4 DEF Next
<1>2. Inductive /\ [Next]_vars => Inductive'
  BY InductiveNext
<1> QED
  BY <1>1, <1>2, StepsType, InductiveInvariant, PTL DEF Spec, ScriptsEnd
=============================================================================
