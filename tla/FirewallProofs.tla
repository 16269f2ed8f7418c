--------------------------- MODULE FirewallProofs ---------------------------
(***************************************************************************)
(* Proofs about Firewall, for every set of addresses and every bound: the  *)
(* address cache never names another address than the rule, and rules that *)
(* are missing or outdated are never taken for applied ones.               *)
(*                                                                         *)
(* The second is not inductive.  While a refresh is at work the invariant  *)
(* says what it has built, unless an event took it away again; at any other*)
(* moment, that what the cache stands for is there, or the loss is owed to *)
(* an event, is excused, or is in the hands of a script that has yet to    *)
(* come to its refresh.                                                    *)
(*                                                                         *)
(* At the end what can be proved of progress: scripts end, and while rules *)
(* are due every hook, marker and step of a refresh leads towards them     *)
(* (RulesAreOnTheWay), and something is always to come until they are      *)
(* there (NothingIsForgotten).                                             *)
(***************************************************************************)
EXTENDS Firewall, TLAPS

Starts == {"start", "restart", "web_submit", "undo", "auto"}

\* TypeOK, part by part.
ServiceTypes ==
  /\ enabled \in BOOLEAN /\ stopped \in BOOLEAN /\ cron \in BOOLEAN
  /\ daemon \in BOOLEAN /\ marker \in BOOLEAN
  /\ addr \in Addr \cup {NoAddr} /\ chains \subseteq Rules
  /\ dnat \in Addr \cup {NoAddr} /\ cache \in Addr \cup {NoAddr, Absent}

ScriptTypes ==
  /\ op \in Work \cup {None} /\ pc \in Step
  /\ (op = None) <=> (pc = "idle")
  /\ sample \in Addr \cup {NoAddr, Own}
  /\ saved \in [enabled : BOOLEAN, stopped : BOOLEAN, running : BOOLEAN] \cup {None}
  /\ excused \subseteq {"start", "event", "kill", "disabled"}

CountTypes ==
  /\ hooks \in Nat /\ late \in Nat /\ hooks + late <= events
  /\ events \in 0..MaxEvents /\ ops \in 0..MaxOps /\ faults \in 0..MaxFaults

LEMMA TypeParts == TypeOK <=> ServiceTypes /\ ScriptTypes /\ CountTypes
BY Zenon DEF TypeOK, ServiceTypes, ScriptTypes, CountTypes

\* Which script can be where, and what it holds.
Places ==
  /\ pc \in {"up", "settings"} => op \in Starts
  /\ pc = "remove" => ~daemon
  /\ pc = "decide" => op = "tick"
  /\ op = "undo" \/ pc = "undo" => saved # None
  /\ pc \in {"dnat", "cache"} => sample # Own

\* There was a NAT event that no refresh has consumed.
Noted == hooks + late > 0 \/ marker

\* What a refresh has built so far.
Rebuilding ==
  /\ pc \in {"filter", "nat", "sample", "dnat", "cache"} => cache = Absent
  /\ pc \in {"nat", "sample", "dnat", "cache"} => "filter" \in chains \/ Noted
  /\ pc \in {"sample", "dnat", "cache"} => "nat" \in chains \/ Noted
  /\ pc \in {"sample", "dnat"} => dnat = NoAddr
  /\ pc = "cache" => dnat = sample \/ (dnat = NoAddr /\ Noted)

\* The script that holds the lock has yet to come to its refresh.
InHand ==
  \/ pc = "forget"
  \/ pc \in {"settings", "refresh"} /\ op \in Starts
  \/ pc \in {"begin", "refresh"} /\ op = "start_nat"

\* What the cache stands for is there, or the loss is known.
Accounted ==
  cache \in Addr /\ daemon
    => (chains = Rules /\ dnat = cache) \/ Noted \/ excused # {} \/ InHand

IInv ==
  /\ ServiceTypes /\ ScriptTypes /\ CountTypes
  /\ Places /\ Rebuilding /\ CacheNamesTheRule /\ Accounted

\* Every step keeps the types of the settings, the service, the rules and the files.
LEMMA ServiceTyped == ASSUME IInv, [Next]_vars PROVE ServiceTypes'
<1> USE FirewallAssumption DEF IInv
<1>1. CASE NatEvent
  BY <1>1 DEF NatEvent, service, files, script, ServiceTypes, ScriptTypes, Places, Work,
     Operation, Rules
<1>2. CASE Move
  BY <1>2 DEF Move, service, rules, files, script, ServiceTypes, ScriptTypes, Places, Work,
     Operation, Rules
<1>3. CASE Die
  BY <1>3 DEF Die, Fault, rules, files, script, world, ServiceTypes, ScriptTypes, Places, Work,
     Operation, Rules
<1>4. CASE Hook
  BY <1>4 DEF Hook, service, rules, files, ServiceTypes, ScriptTypes, Places, Work, Operation,
     Rules
<1>5. CASE LeaveMarker
  BY <1>5 DEF LeaveMarker, service, rules, script, ServiceTypes, ScriptTypes, Places, Work,
     Operation, Rules
<1>6. CASE Request
  BY <1>6 DEF Request, service, rules, files, ServiceTypes, ScriptTypes, Places, Work,
     Operation, Rules
<1>7. CASE Tick
  BY <1>7 DEF Tick, RefreshDue, service, rules, files, world, ServiceTypes, ScriptTypes, Places,
     Work, Operation, Rules
<1>8. CASE Kill
  BY <1>8 DEF Kill, Fault, Exit, Lose, Installed, service, rules, files, world, ServiceTypes,
     ScriptTypes, Places, Work, Operation, Rules
<1>9. CASE PowerLoss
  BY <1>9 DEF PowerLoss, Fault, Exit, ServiceTypes, ScriptTypes, Places, Work, Operation, Rules
<1>10. CASE Refuse
  BY <1>10 DEF Refuse, Fault, Exit, Lose, Installed, service, rules, files, world, ServiceTypes,
     ScriptTypes, Places, Work, Operation, Rules
<1>11. CASE Dispatch
  BY <1>11 DEF Dispatch, Goto, service, rules, files, world, ServiceTypes, ScriptTypes, Places,
     Work, Operation, Rules
<1>12. CASE Submit
  BY <1>12 DEF Submit, Samples, rules, files, world, ServiceTypes, ScriptTypes, Places, Work,
     Operation, Rules
<1>13. CASE SubmitFails
  BY <1>13 DEF SubmitFails, Samples, Fault, Exit, rules, files, world, ServiceTypes,
     ScriptTypes, Places, Work, Operation, Rules
<1>14. CASE Undo
  BY <1>14 DEF Undo, Fault, Exit, rules, files, world, ServiceTypes, ScriptTypes, Places, Work,
     Operation, Rules
<1>15. CASE RemoveCron
  BY <1>15 DEF RemoveCron, Goto, rules, files, world, ServiceTypes, ScriptTypes, Places, Work,
     Operation, Rules
<1>16. CASE KillDaemon
  BY <1>16 DEF KillDaemon, Goto, rules, files, world, ServiceTypes, ScriptTypes, Places, Work,
     Operation, Rules
<1>17. CASE ts_firewall_remove
  BY <1>17 DEF ts_firewall_remove, Goto, Return, Exit, Restarts, service, files, world,
     ServiceTypes, ScriptTypes, Places, Work, Operation, Rules
<1>18. CASE StartUnread
  BY <1>18 DEF StartUnread, Fault, Goto, Return, Exit, GaveUp, Lose, Installed, service, rules,
     files, world, ServiceTypes, ScriptTypes, Places, Work, Operation, Rules
<1>19. CASE StartDisabled
  BY <1>19 DEF StartDisabled, Goto, Return, Exit, rules, files, world, ServiceTypes,
     ScriptTypes, Places, Work, Operation, Rules
<1>20. CASE StartDaemon
  BY <1>20 DEF StartDaemon, Goto, rules, files, world, ServiceTypes, ScriptTypes, Places, Work,
     Operation, Rules
<1>21. CASE StartLate
  BY <1>21 DEF StartLate, Fault, Goto, Return, Exit, GaveUp, Lose, Installed, rules, files,
     world, ServiceTypes, ScriptTypes, Places, Work, Operation, Rules
<1>22. CASE Settings
  BY <1>22 DEF Settings, Fault, Goto, Return, Exit, GaveUp, Lose, Installed, service, rules,
     files, world, ServiceTypes, ScriptTypes, Places, Work, Operation, Rules
<1>23. CASE Settle
  BY <1>23 DEF Settle, Fault, Goto, Return, Exit, service, rules, files, world, ServiceTypes,
     ScriptTypes, Places, Work, Operation, Rules
<1>24. CASE RefreshUnread
  BY <1>24 DEF RefreshUnread, RefreshFails, Fault, Goto, Return, Exit, GaveUp, Lose, Installed,
     service, rules, files, world, ServiceTypes, ScriptTypes, Places, Work, Operation, Rules
<1>25. CASE RefreshDisabled
  BY <1>25 DEF RefreshDisabled, Refreshed, Goto, Return, Exit, service, files, world,
     ServiceTypes, ScriptTypes, Places, Work, Operation, Rules
<1>26. CASE ConsumeEvents
  BY <1>26 DEF ConsumeEvents, Goto, service, rules, world, ServiceTypes, ScriptTypes, Places,
     Work, Operation, Rules
<1>27. CASE ForgetAddress
  BY <1>27 DEF ForgetAddress, Goto, service, rules, world, ServiceTypes, ScriptTypes, Places,
     Work, Operation, Rules
<1>28. CASE BuildFilter
  <2>1. chains' \subseteq Rules
    BY <1>28 DEF BuildFilter, ServiceTypes, Rules
  <2>2. stopped' \in BOOLEAN
    BY <1>28 DEF BuildFilter, Refreshed, RefreshFails, Goto, Return, ServiceTypes, ScriptTypes,
       Places, Work, Operation
  <2> QED BY <1>28, <2>1, <2>2 DEF BuildFilter, service, files, world, ServiceTypes
<1>29. CASE BuildNat
  BY <1>29 DEF BuildNat, RefreshFails, Fault, Goto, Return, Exit, service, files, world,
     ServiceTypes, ScriptTypes, Places, Work, Operation, Rules
<1>30. CASE TakeSample
  BY <1>30 DEF TakeSample, Refreshed, RefreshFails, Fault, Goto, Return, Exit, service, rules,
     files, world, ServiceTypes, ScriptTypes, Places, Work, Operation, Rules
<1>31. CASE InstallDnat
  BY <1>31 DEF InstallDnat, RefreshFails, Fault, Goto, Return, Exit, service, files, world,
     ServiceTypes, ScriptTypes, Places, Work, Operation, Rules
<1>32. CASE RecordAddress
  BY <1>32 DEF RecordAddress, Refreshed, RefreshFails, Fault, Goto, Return, Exit, service,
     rules, world, ServiceTypes, ScriptTypes, Places, Work, Operation, Rules
<1>33. CASE Decide
  BY <1>33 DEF Decide, Exit, service, rules, files, ServiceTypes, ScriptTypes, Places, Work,
     Operation, Rules
<1>34. CASE UNCHANGED vars
  BY <1>34 DEF vars, service, files, rules, script, world, ServiceTypes, ScriptTypes, Places,
     Work, Operation, Rules
<1> QED
  BY <1>1, <1>2, <1>3, <1>4, <1>5, <1>6, <1>7, <1>8, <1>9, <1>10, <1>11, <1>12, <1>13, <1>14,
     <1>15, <1>16, <1>17, <1>18, <1>19, <1>20, <1>21, <1>22, <1>23, <1>24, <1>25, <1>26, <1>27,
     <1>28, <1>29, <1>30, <1>31, <1>32, <1>33, <1>34 DEF Next, Script, Rest

\* Every step keeps the types of the script that holds the lock.
LEMMA ScriptTyped == ASSUME IInv, [Next]_vars PROVE ScriptTypes'
<1> USE FirewallAssumption DEF IInv
<1>1. CASE NatEvent
  BY <1>1 DEF NatEvent, service, files, script, ServiceTypes, ScriptTypes, Places, Step, Work,
     Operation
<1>2. CASE Move
  BY <1>2 DEF Move, service, rules, files, script, ServiceTypes, ScriptTypes, Places, Step,
     Work, Operation
<1>3. CASE Die
  BY <1>3 DEF Die, Fault, rules, files, script, world, ServiceTypes, ScriptTypes, Places, Step,
     Work, Operation
<1>4. CASE Hook
  BY <1>4 DEF Hook, service, rules, files, ServiceTypes, ScriptTypes, Places, Step, Work,
     Operation
<1>5. CASE LeaveMarker
  BY <1>5 DEF LeaveMarker, service, rules, script, ServiceTypes, ScriptTypes, Places, Step,
     Work, Operation
<1>6. CASE Request
  BY <1>6 DEF Request, service, rules, files, ServiceTypes, ScriptTypes, Places, Step, Work,
     Operation
<1>7. CASE Tick
  BY <1>7 DEF Tick, RefreshDue, service, rules, files, world, ServiceTypes, ScriptTypes, Places,
     Step, Work, Operation
<1>8. CASE Kill
  BY <1>8 DEF Kill, Fault, Exit, Lose, Installed, service, rules, files, world, ServiceTypes,
     ScriptTypes, Places, Step, Work, Operation
<1>9. CASE PowerLoss
  BY <1>9 DEF PowerLoss, Fault, Exit, ServiceTypes, ScriptTypes, Places, Step, Work, Operation
<1>10. CASE Refuse
  BY <1>10 DEF Refuse, Fault, Exit, Lose, Installed, service, rules, files, world, ServiceTypes,
     ScriptTypes, Places, Step, Work, Operation
<1>11. CASE Dispatch
  BY <1>11 DEF Dispatch, Goto, service, rules, files, world, ServiceTypes, ScriptTypes, Places,
     Step, Work, Operation
<1>12. CASE Submit
  BY <1>12 DEF Submit, Samples, rules, files, world, ServiceTypes, ScriptTypes, Places, Step,
     Work, Operation
<1>13. CASE SubmitFails
  BY <1>13 DEF SubmitFails, Samples, Fault, Exit, rules, files, world, ServiceTypes,
     ScriptTypes, Places, Step, Work, Operation
<1>14. CASE Undo
  BY <1>14 DEF Undo, Fault, Exit, rules, files, world, ServiceTypes, ScriptTypes, Places, Step,
     Work, Operation
<1>15. CASE RemoveCron
  BY <1>15 DEF RemoveCron, Goto, rules, files, world, ServiceTypes, ScriptTypes, Places, Step,
     Work, Operation
<1>16. CASE KillDaemon
  BY <1>16 DEF KillDaemon, Goto, rules, files, world, ServiceTypes, ScriptTypes, Places, Step,
     Work, Operation
<1>17. CASE ts_firewall_remove
  BY <1>17 DEF ts_firewall_remove, Goto, Return, Exit, Restarts, service, files, world,
     ServiceTypes, ScriptTypes, Places, Step, Work, Operation
<1>18. CASE StartUnread
  BY <1>18 DEF StartUnread, Fault, Goto, Return, Exit, GaveUp, Lose, Installed, service, rules,
     files, world, ServiceTypes, ScriptTypes, Places, Step, Work, Operation
<1>19. CASE StartDisabled
  BY <1>19 DEF StartDisabled, Goto, Return, Exit, rules, files, world, ServiceTypes,
     ScriptTypes, Places, Step, Work, Operation
<1>20. CASE StartDaemon
  BY <1>20 DEF StartDaemon, Goto, rules, files, world, ServiceTypes, ScriptTypes, Places, Step,
     Work, Operation
<1>21. CASE StartLate
  BY <1>21 DEF StartLate, Fault, Goto, Return, Exit, GaveUp, Lose, Installed, rules, files,
     world, ServiceTypes, ScriptTypes, Places, Step, Work, Operation
<1>22. CASE Settings
  BY <1>22 DEF Settings, Fault, Goto, Return, Exit, GaveUp, Lose, Installed, service, rules,
     files, world, ServiceTypes, ScriptTypes, Places, Step, Work, Operation
<1>23. CASE Settle
  BY <1>23 DEF Settle, Fault, Goto, Return, Exit, service, rules, files, world, ServiceTypes,
     ScriptTypes, Places, Step, Work, Operation
<1>24. CASE RefreshUnread
  BY <1>24 DEF RefreshUnread, RefreshFails, Fault, Goto, Return, Exit, GaveUp, Lose, Installed,
     service, rules, files, world, ServiceTypes, ScriptTypes, Places, Step, Work, Operation
<1>25. CASE RefreshDisabled
  BY <1>25 DEF RefreshDisabled, Refreshed, Goto, Return, Exit, service, files, world,
     ServiceTypes, ScriptTypes, Places, Step, Work, Operation
<1>26. CASE ConsumeEvents
  BY <1>26 DEF ConsumeEvents, Goto, service, rules, world, ServiceTypes, ScriptTypes, Places,
     Step, Work, Operation
<1>27. CASE ForgetAddress
  BY <1>27 DEF ForgetAddress, Goto, service, rules, world, ServiceTypes, ScriptTypes, Places,
     Step, Work, Operation
<1>28. CASE BuildFilter
  BY <1>28 DEF BuildFilter, Refreshed, RefreshFails, Fault, Goto, Return, Exit, service, files,
     world, ServiceTypes, ScriptTypes, Places, Step, Work, Operation
<1>29. CASE BuildNat
  BY <1>29 DEF BuildNat, RefreshFails, Fault, Goto, Return, Exit, service, files, world,
     ServiceTypes, ScriptTypes, Places, Step, Work, Operation
<1>30. CASE TakeSample
  BY <1>30 DEF TakeSample, Refreshed, RefreshFails, Fault, Goto, Return, Exit, service, rules,
     files, world, ServiceTypes, ScriptTypes, Places, Step, Work, Operation
<1>31. CASE InstallDnat
  BY <1>31 DEF InstallDnat, RefreshFails, Fault, Goto, Return, Exit, service, files, world,
     ServiceTypes, ScriptTypes, Places, Step, Work, Operation
<1>32. CASE RecordAddress
  BY <1>32 DEF RecordAddress, Refreshed, RefreshFails, Fault, Goto, Return, Exit, service,
     rules, world, ServiceTypes, ScriptTypes, Places, Step, Work, Operation
<1>33. CASE Decide
  BY <1>33 DEF Decide, Exit, service, rules, files, ServiceTypes, ScriptTypes, Places, Step,
     Work, Operation
<1>34. CASE UNCHANGED vars
  BY <1>34 DEF vars, service, files, rules, script, world, ServiceTypes, ScriptTypes, Places,
     Step, Work, Operation
<1> QED
  BY <1>1, <1>2, <1>3, <1>4, <1>5, <1>6, <1>7, <1>8, <1>9, <1>10, <1>11, <1>12, <1>13, <1>14,
     <1>15, <1>16, <1>17, <1>18, <1>19, <1>20, <1>21, <1>22, <1>23, <1>24, <1>25, <1>26, <1>27,
     <1>28, <1>29, <1>30, <1>31, <1>32, <1>33, <1>34 DEF Next, Script, Rest

\* Every step keeps within the bounds.
LEMMA CountTyped == ASSUME IInv, [Next]_vars PROVE CountTypes'
<1> USE FirewallAssumption DEF IInv
<1>1. CASE NatEvent
  BY <1>1 DEF NatEvent, service, files, script, CountTypes
<1>2. CASE Move
  BY <1>2 DEF Move, service, rules, files, script, CountTypes
<1>3. CASE Die
  BY <1>3 DEF Die, Fault, rules, files, script, world, CountTypes
<1>4. CASE Hook
  BY <1>4 DEF Hook, service, rules, files, CountTypes
<1>5. CASE LeaveMarker
  BY <1>5 DEF LeaveMarker, service, rules, script, CountTypes
<1>6. CASE Request
  BY <1>6 DEF Request, service, rules, files, CountTypes
<1>7. CASE Tick
  BY <1>7 DEF Tick, RefreshDue, service, rules, files, world, CountTypes
<1>8. CASE Kill
  BY <1>8 DEF Kill, Fault, Exit, Lose, Installed, service, rules, files, world, CountTypes
<1>9. CASE PowerLoss
  BY <1>9 DEF PowerLoss, Fault, Exit, CountTypes
<1>10. CASE Refuse
  BY <1>10 DEF Refuse, Fault, Exit, Lose, Installed, service, rules, files, world, CountTypes
<1>11. CASE Dispatch
  BY <1>11 DEF Dispatch, Goto, service, rules, files, world, CountTypes
<1>12. CASE Submit
  BY <1>12 DEF Submit, Samples, rules, files, world, CountTypes
<1>13. CASE SubmitFails
  BY <1>13 DEF SubmitFails, Samples, Fault, Exit, rules, files, world, CountTypes
<1>14. CASE Undo
  BY <1>14 DEF Undo, Fault, Exit, rules, files, world, CountTypes
<1>15. CASE RemoveCron
  BY <1>15 DEF RemoveCron, Goto, rules, files, world, CountTypes
<1>16. CASE KillDaemon
  BY <1>16 DEF KillDaemon, Goto, rules, files, world, CountTypes
<1>17. CASE ts_firewall_remove
  BY <1>17 DEF ts_firewall_remove, Goto, Return, Exit, Restarts, service, files, world,
     CountTypes
<1>18. CASE StartUnread
  BY <1>18 DEF StartUnread, Fault, Goto, Return, Exit, GaveUp, Lose, Installed, service, rules,
     files, world, CountTypes
<1>19. CASE StartDisabled
  BY <1>19 DEF StartDisabled, Goto, Return, Exit, rules, files, world, CountTypes
<1>20. CASE StartDaemon
  BY <1>20 DEF StartDaemon, Goto, rules, files, world, CountTypes
<1>21. CASE StartLate
  BY <1>21 DEF StartLate, Fault, Goto, Return, Exit, GaveUp, Lose, Installed, rules, files,
     world, CountTypes
<1>22. CASE Settings
  BY <1>22 DEF Settings, Fault, Goto, Return, Exit, GaveUp, Lose, Installed, service, rules,
     files, world, CountTypes
<1>23. CASE Settle
  BY <1>23 DEF Settle, Fault, Goto, Return, Exit, service, rules, files, world, CountTypes
<1>24. CASE RefreshUnread
  BY <1>24 DEF RefreshUnread, RefreshFails, Fault, Goto, Return, Exit, GaveUp, Lose, Installed,
     service, rules, files, world, CountTypes
<1>25. CASE RefreshDisabled
  BY <1>25 DEF RefreshDisabled, Refreshed, Goto, Return, Exit, service, files, world, CountTypes
<1>26. CASE ConsumeEvents
  BY <1>26 DEF ConsumeEvents, Goto, service, rules, world, CountTypes
<1>27. CASE ForgetAddress
  BY <1>27 DEF ForgetAddress, Goto, service, rules, world, CountTypes
<1>28. CASE BuildFilter
  BY <1>28 DEF BuildFilter, Refreshed, RefreshFails, Fault, Goto, Return, Exit, service, files,
     world, CountTypes
<1>29. CASE BuildNat
  BY <1>29 DEF BuildNat, RefreshFails, Fault, Goto, Return, Exit, service, files, world,
     CountTypes
<1>30. CASE TakeSample
  BY <1>30 DEF TakeSample, Refreshed, RefreshFails, Fault, Goto, Return, Exit, service, rules,
     files, world, CountTypes
<1>31. CASE InstallDnat
  BY <1>31 DEF InstallDnat, RefreshFails, Fault, Goto, Return, Exit, service, files, world,
     CountTypes
<1>32. CASE RecordAddress
  BY <1>32 DEF RecordAddress, Refreshed, RefreshFails, Fault, Goto, Return, Exit, service,
     rules, world, CountTypes
<1>33. CASE Decide
  BY <1>33 DEF Decide, Exit, service, rules, files, CountTypes
<1>34. CASE UNCHANGED vars
  BY <1>34 DEF vars, service, files, rules, script, world, CountTypes
<1> QED
  BY <1>1, <1>2, <1>3, <1>4, <1>5, <1>6, <1>7, <1>8, <1>9, <1>10, <1>11, <1>12, <1>13, <1>14,
     <1>15, <1>16, <1>17, <1>18, <1>19, <1>20, <1>21, <1>22, <1>23, <1>24, <1>25, <1>26, <1>27,
     <1>28, <1>29, <1>30, <1>31, <1>32, <1>33, <1>34 DEF Next, Script, Rest

\* Every step leaves the scripts where they may be, and what was built and cached in order.
LEMMA OrderKept == ASSUME IInv, [Next]_vars PROVE (Places /\ Rebuilding /\ CacheNamesTheRule)'
<1> USE FirewallAssumption DEF IInv
<1>1. CASE NatEvent
  BY <1>1 DEF NatEvent, service, files, script, Places, Rebuilding, Noted, CacheNamesTheRule,
     Starts, ServiceTypes, ScriptTypes, CountTypes, Step, Work, Operation, Rules
<1>2. CASE Move
  BY <1>2 DEF Move, service, rules, files, script, Places, Rebuilding, Noted, CacheNamesTheRule,
     Starts, ServiceTypes, ScriptTypes, CountTypes, Step, Work, Operation, Rules
<1>3. CASE Die
  BY <1>3 DEF Die, Fault, rules, files, script, world, Places, Rebuilding, Noted,
     CacheNamesTheRule, Starts, ServiceTypes, ScriptTypes, CountTypes, Step, Work, Operation,
     Rules
<1>4. CASE Hook
  BY <1>4 DEF Hook, service, rules, files, Places, Rebuilding, Noted, CacheNamesTheRule, Starts,
     ServiceTypes, ScriptTypes, CountTypes, Step, Work, Operation, Rules
<1>5. CASE LeaveMarker
  BY <1>5 DEF LeaveMarker, service, rules, script, Places, Rebuilding, Noted, CacheNamesTheRule,
     Starts, ServiceTypes, ScriptTypes, CountTypes, Step, Work, Operation, Rules
<1>6. CASE Request
  BY <1>6 DEF Request, service, rules, files, Places, Rebuilding, Noted, CacheNamesTheRule,
     Starts, ServiceTypes, ScriptTypes, CountTypes, Step, Work, Operation, Rules
<1>7. CASE Tick
  BY <1>7 DEF Tick, RefreshDue, service, rules, files, world, Places, Rebuilding, Noted,
     CacheNamesTheRule, Starts, ServiceTypes, ScriptTypes, CountTypes, Step, Work, Operation,
     Rules
<1>8. CASE Kill
  BY <1>8 DEF Kill, Fault, Exit, Lose, Installed, service, rules, files, world, Places,
     Rebuilding, Noted, CacheNamesTheRule, Starts, ServiceTypes, ScriptTypes, CountTypes, Step,
     Work, Operation, Rules
<1>9. CASE PowerLoss
  BY <1>9 DEF PowerLoss, Fault, Exit, Places, Rebuilding, Noted, CacheNamesTheRule, Starts,
     ServiceTypes, ScriptTypes, CountTypes, Step, Work, Operation, Rules
<1>10. CASE Refuse
  BY <1>10 DEF Refuse, Fault, Exit, Lose, Installed, service, rules, files, world, Places,
     Rebuilding, Noted, CacheNamesTheRule, Starts, ServiceTypes, ScriptTypes, CountTypes, Step,
     Work, Operation, Rules
<1>11. CASE Dispatch
  BY <1>11 DEF Dispatch, Goto, service, rules, files, world, Places, Rebuilding, Noted,
     CacheNamesTheRule, Starts, ServiceTypes, ScriptTypes, CountTypes, Step, Work, Operation,
     Rules
<1>12. CASE Submit
  BY <1>12 DEF Submit, Samples, rules, files, world, Places, Rebuilding, Noted,
     CacheNamesTheRule, Starts, ServiceTypes, ScriptTypes, CountTypes, Step, Work, Operation,
     Rules
<1>13. CASE SubmitFails
  BY <1>13 DEF SubmitFails, Samples, Fault, Exit, rules, files, world, Places, Rebuilding,
     Noted, CacheNamesTheRule, Starts, ServiceTypes, ScriptTypes, CountTypes, Step, Work,
     Operation, Rules
<1>14. CASE Undo
  BY <1>14 DEF Undo, Fault, Exit, rules, files, world, Places, Rebuilding, Noted,
     CacheNamesTheRule, Starts, ServiceTypes, ScriptTypes, CountTypes, Step, Work, Operation,
     Rules
<1>15. CASE RemoveCron
  BY <1>15 DEF RemoveCron, Goto, rules, files, world, Places, Rebuilding, Noted,
     CacheNamesTheRule, Starts, ServiceTypes, ScriptTypes, CountTypes, Step, Work, Operation,
     Rules
<1>16. CASE KillDaemon
  BY <1>16 DEF KillDaemon, Goto, rules, files, world, Places, Rebuilding, Noted,
     CacheNamesTheRule, Starts, ServiceTypes, ScriptTypes, CountTypes, Step, Work, Operation,
     Rules
<1>17. CASE ts_firewall_remove
  BY <1>17 DEF ts_firewall_remove, Goto, Return, Exit, Restarts, service, files, world, Places,
     Rebuilding, Noted, CacheNamesTheRule, Starts, ServiceTypes, ScriptTypes, CountTypes, Step,
     Work, Operation, Rules
<1>18. CASE StartUnread
  BY <1>18 DEF StartUnread, Fault, Goto, Return, Exit, GaveUp, Lose, Installed, service, rules,
     files, world, Places, Rebuilding, Noted, CacheNamesTheRule, Starts, ServiceTypes,
     ScriptTypes, CountTypes, Step, Work, Operation, Rules
<1>19. CASE StartDisabled
  BY <1>19 DEF StartDisabled, Goto, Return, Exit, rules, files, world, Places, Rebuilding,
     Noted, CacheNamesTheRule, Starts, ServiceTypes, ScriptTypes, CountTypes, Step, Work,
     Operation, Rules
<1>20. CASE StartDaemon
  BY <1>20 DEF StartDaemon, Goto, rules, files, world, Places, Rebuilding, Noted,
     CacheNamesTheRule, Starts, ServiceTypes, ScriptTypes, CountTypes, Step, Work, Operation,
     Rules
<1>21. CASE StartLate
  BY <1>21 DEF StartLate, Fault, Goto, Return, Exit, GaveUp, Lose, Installed, rules, files,
     world, Places, Rebuilding, Noted, CacheNamesTheRule, Starts, ServiceTypes, ScriptTypes,
     CountTypes, Step, Work, Operation, Rules
<1>22. CASE Settings
  BY <1>22 DEF Settings, Fault, Goto, Return, Exit, GaveUp, Lose, Installed, service, rules,
     files, world, Places, Rebuilding, Noted, CacheNamesTheRule, Starts, ServiceTypes,
     ScriptTypes, CountTypes, Step, Work, Operation, Rules
<1>23. CASE Settle
  BY <1>23 DEF Settle, Fault, Goto, Return, Exit, service, rules, files, world, Places,
     Rebuilding, Noted, CacheNamesTheRule, Starts, ServiceTypes, ScriptTypes, CountTypes, Step,
     Work, Operation, Rules
<1>24. CASE RefreshUnread
  BY <1>24 DEF RefreshUnread, RefreshFails, Fault, Goto, Return, Exit, GaveUp, Lose, Installed,
     service, rules, files, world, Places, Rebuilding, Noted, CacheNamesTheRule, Starts,
     ServiceTypes, ScriptTypes, CountTypes, Step, Work, Operation, Rules
<1>25. CASE RefreshDisabled
  BY <1>25 DEF RefreshDisabled, Refreshed, Goto, Return, Exit, service, files, world, Places,
     Rebuilding, Noted, CacheNamesTheRule, Starts, ServiceTypes, ScriptTypes, CountTypes, Step,
     Work, Operation, Rules
<1>26. CASE ConsumeEvents
  BY <1>26 DEF ConsumeEvents, Goto, service, rules, world, Places, Rebuilding, Noted,
     CacheNamesTheRule, Starts, ServiceTypes, ScriptTypes, CountTypes, Step, Work, Operation,
     Rules
<1>27. CASE ForgetAddress
  BY <1>27 DEF ForgetAddress, Goto, service, rules, world, Places, Rebuilding, Noted,
     CacheNamesTheRule, Starts, ServiceTypes, ScriptTypes, CountTypes, Step, Work, Operation,
     Rules
<1>28. CASE BuildFilter
  BY <1>28 DEF BuildFilter, Refreshed, RefreshFails, Fault, Goto, Return, Exit, service, files,
     world, Places, Rebuilding, Noted, CacheNamesTheRule, Starts, ServiceTypes, ScriptTypes,
     CountTypes, Step, Work, Operation, Rules
<1>29. CASE BuildNat
  BY <1>29 DEF BuildNat, RefreshFails, Fault, Goto, Return, Exit, service, files, world, Places,
     Rebuilding, Noted, CacheNamesTheRule, Starts, ServiceTypes, ScriptTypes, CountTypes, Step,
     Work, Operation, Rules
<1>30. CASE TakeSample
  BY <1>30 DEF TakeSample, Refreshed, RefreshFails, Fault, Goto, Return, Exit, service, rules,
     files, world, Places, Rebuilding, Noted, CacheNamesTheRule, Starts, ServiceTypes,
     ScriptTypes, CountTypes, Step, Work, Operation, Rules
<1>31. CASE InstallDnat
  BY <1>31 DEF InstallDnat, RefreshFails, Fault, Goto, Return, Exit, service, files, world,
     Places, Rebuilding, Noted, CacheNamesTheRule, Starts, ServiceTypes, ScriptTypes,
     CountTypes, Step, Work, Operation, Rules
<1>32. CASE RecordAddress
  BY <1>32 DEF RecordAddress, Refreshed, RefreshFails, Fault, Goto, Return, Exit, service,
     rules, world, Places, Rebuilding, Noted, CacheNamesTheRule, Starts, ServiceTypes,
     ScriptTypes, CountTypes, Step, Work, Operation, Rules
<1>33. CASE Decide
  BY <1>33 DEF Decide, Exit, service, rules, files, Places, Rebuilding, Noted,
     CacheNamesTheRule, Starts, ServiceTypes, ScriptTypes, CountTypes, Step, Work, Operation,
     Rules
<1>34. CASE UNCHANGED vars
  BY <1>34 DEF vars, service, files, rules, script, world, Places, Rebuilding, Noted,
     CacheNamesTheRule, Starts, ServiceTypes, ScriptTypes, CountTypes, Step, Work, Operation,
     Rules
<1> QED
  BY <1>1, <1>2, <1>3, <1>4, <1>5, <1>6, <1>7, <1>8, <1>9, <1>10, <1>11, <1>12, <1>13, <1>14,
     <1>15, <1>16, <1>17, <1>18, <1>19, <1>20, <1>21, <1>22, <1>23, <1>24, <1>25, <1>26, <1>27,
     <1>28, <1>29, <1>30, <1>31, <1>32, <1>33, <1>34 DEF Next, Script, Rest

\* No step loses a rule unnoticed.
LEMMA AccountKept == ASSUME IInv, [Next]_vars PROVE Accounted'
<1> USE FirewallAssumption DEF IInv
<1>1. CASE NatEvent
  BY <1>1 DEF NatEvent, service, files, script, Places, Rebuilding, Noted, CacheNamesTheRule,
     Accounted, InHand, Starts, ServiceTypes, ScriptTypes, CountTypes, Step, Work, Operation,
     Rules
<1>2. CASE Move
  BY <1>2 DEF Move, service, rules, files, script, Places, Rebuilding, Noted, CacheNamesTheRule,
     Accounted, InHand, Starts, ServiceTypes, ScriptTypes, CountTypes, Step, Work, Operation,
     Rules
<1>3. CASE Die
  BY <1>3 DEF Die, Fault, rules, files, script, world, Places, Rebuilding, Noted,
     CacheNamesTheRule, Accounted, InHand, Starts, ServiceTypes, ScriptTypes, CountTypes, Step,
     Work, Operation, Rules
<1>4. CASE Hook
  BY <1>4 DEF Hook, service, rules, files, Places, Rebuilding, Noted, CacheNamesTheRule,
     Accounted, InHand, Starts, ServiceTypes, ScriptTypes, CountTypes, Step, Work, Operation,
     Rules
<1>5. CASE LeaveMarker
  BY <1>5 DEF LeaveMarker, service, rules, script, Places, Rebuilding, Noted, CacheNamesTheRule,
     Accounted, InHand, Starts, ServiceTypes, ScriptTypes, CountTypes, Step, Work, Operation,
     Rules
<1>6. CASE Request
  BY <1>6 DEF Request, service, rules, files, Places, Rebuilding, Noted, CacheNamesTheRule,
     Accounted, InHand, Starts, ServiceTypes, ScriptTypes, CountTypes, Step, Work, Operation,
     Rules
<1>7. CASE Tick
  BY <1>7 DEF Tick, RefreshDue, service, rules, files, world, Places, Rebuilding, Noted,
     CacheNamesTheRule, Accounted, InHand, Starts, ServiceTypes, ScriptTypes, CountTypes, Step,
     Work, Operation, Rules
<1>8. CASE Kill
  BY <1>8 DEF Kill, Fault, Exit, Lose, Installed, service, rules, files, world, Places,
     Rebuilding, Noted, CacheNamesTheRule, Accounted, InHand, Starts, ServiceTypes, ScriptTypes,
     CountTypes, Step, Work, Operation, Rules
<1>9. CASE PowerLoss
  BY <1>9 DEF PowerLoss, Fault, Exit, Places, Rebuilding, Noted, CacheNamesTheRule, Accounted,
     InHand, Starts, ServiceTypes, ScriptTypes, CountTypes, Step, Work, Operation, Rules
<1>10. CASE Refuse
  BY <1>10 DEF Refuse, Fault, Exit, Lose, Installed, service, rules, files, world, Places,
     Rebuilding, Noted, CacheNamesTheRule, Accounted, InHand, Starts, ServiceTypes, ScriptTypes,
     CountTypes, Step, Work, Operation, Rules
<1>11. CASE Dispatch
  BY <1>11 DEF Dispatch, Goto, service, rules, files, world, Places, Rebuilding, Noted,
     CacheNamesTheRule, Accounted, InHand, Starts, ServiceTypes, ScriptTypes, CountTypes, Step,
     Work, Operation, Rules
<1>12. CASE Submit
  BY <1>12 DEF Submit, Samples, rules, files, world, Places, Rebuilding, Noted,
     CacheNamesTheRule, Accounted, InHand, Starts, ServiceTypes, ScriptTypes, CountTypes, Step,
     Work, Operation, Rules
<1>13. CASE SubmitFails
  BY <1>13 DEF SubmitFails, Samples, Fault, Exit, rules, files, world, Places, Rebuilding,
     Noted, CacheNamesTheRule, Accounted, InHand, Starts, ServiceTypes, ScriptTypes, CountTypes,
     Step, Work, Operation, Rules
<1>14. CASE Undo
  BY <1>14 DEF Undo, Fault, Exit, rules, files, world, Places, Rebuilding, Noted,
     CacheNamesTheRule, Accounted, InHand, Starts, ServiceTypes, ScriptTypes, CountTypes, Step,
     Work, Operation, Rules
<1>15. CASE RemoveCron
  BY <1>15 DEF RemoveCron, Goto, rules, files, world, Places, Rebuilding, Noted,
     CacheNamesTheRule, Accounted, InHand, Starts, ServiceTypes, ScriptTypes, CountTypes, Step,
     Work, Operation, Rules
<1>16. CASE KillDaemon
  BY <1>16 DEF KillDaemon, Goto, rules, files, world, Places, Rebuilding, Noted,
     CacheNamesTheRule, Accounted, InHand, Starts, ServiceTypes, ScriptTypes, CountTypes, Step,
     Work, Operation, Rules
<1>17. CASE ts_firewall_remove
  BY <1>17 DEF ts_firewall_remove, Goto, Return, Exit, Restarts, service, files, world, Places,
     Rebuilding, Noted, CacheNamesTheRule, Accounted, InHand, Starts, ServiceTypes, ScriptTypes,
     CountTypes, Step, Work, Operation, Rules
<1>18. CASE StartUnread
  BY <1>18 DEF StartUnread, Fault, Goto, Return, Exit, GaveUp, Lose, Installed, service, rules,
     files, world, Places, Rebuilding, Noted, CacheNamesTheRule, Accounted, InHand, Starts,
     ServiceTypes, ScriptTypes, CountTypes, Step, Work, Operation, Rules
<1>19. CASE StartDisabled
  BY <1>19 DEF StartDisabled, Goto, Return, Exit, rules, files, world, Places, Rebuilding,
     Noted, CacheNamesTheRule, Accounted, InHand, Starts, ServiceTypes, ScriptTypes, CountTypes,
     Step, Work, Operation, Rules
<1>20. CASE StartDaemon
  BY <1>20 DEF StartDaemon, Goto, rules, files, world, Places, Rebuilding, Noted,
     CacheNamesTheRule, Accounted, InHand, Starts, ServiceTypes, ScriptTypes, CountTypes, Step,
     Work, Operation, Rules
<1>21. CASE StartLate
  BY <1>21 DEF StartLate, Fault, Goto, Return, Exit, GaveUp, Lose, Installed, rules, files,
     world, Places, Rebuilding, Noted, CacheNamesTheRule, Accounted, InHand, Starts,
     ServiceTypes, ScriptTypes, CountTypes, Step, Work, Operation, Rules
<1>22. CASE Settings
  BY <1>22 DEF Settings, Fault, Goto, Return, Exit, GaveUp, Lose, Installed, service, rules,
     files, world, Places, Rebuilding, Noted, CacheNamesTheRule, Accounted, InHand, Starts,
     ServiceTypes, ScriptTypes, CountTypes, Step, Work, Operation, Rules
<1>23. CASE Settle
  BY <1>23 DEF Settle, Fault, Goto, Return, Exit, service, rules, files, world, Places,
     Rebuilding, Noted, CacheNamesTheRule, Accounted, InHand, Starts, ServiceTypes, ScriptTypes,
     CountTypes, Step, Work, Operation, Rules
<1>24. CASE RefreshUnread
  BY <1>24 DEF RefreshUnread, RefreshFails, Fault, Goto, Return, Exit, GaveUp, Lose, Installed,
     service, rules, files, world, Places, Rebuilding, Noted, CacheNamesTheRule, Accounted,
     InHand, Starts, ServiceTypes, ScriptTypes, CountTypes, Step, Work, Operation, Rules
<1>25. CASE RefreshDisabled
  BY <1>25 DEF RefreshDisabled, Refreshed, Goto, Return, Exit, service, files, world, Places,
     Rebuilding, Noted, CacheNamesTheRule, Accounted, InHand, Starts, ServiceTypes, ScriptTypes,
     CountTypes, Step, Work, Operation, Rules
<1>26. CASE ConsumeEvents
  BY <1>26 DEF ConsumeEvents, Goto, service, rules, world, Places, Rebuilding, Noted,
     CacheNamesTheRule, Accounted, InHand, Starts, ServiceTypes, ScriptTypes, CountTypes, Step,
     Work, Operation, Rules
<1>27. CASE ForgetAddress
  BY <1>27 DEF ForgetAddress, Goto, service, rules, world, Places, Rebuilding, Noted,
     CacheNamesTheRule, Accounted, InHand, Starts, ServiceTypes, ScriptTypes, CountTypes, Step,
     Work, Operation, Rules
<1>28. CASE BuildFilter
  BY <1>28 DEF BuildFilter, Refreshed, RefreshFails, Fault, Goto, Return, Exit, service, files,
     world, Places, Rebuilding, Noted, CacheNamesTheRule, Accounted, InHand, Starts,
     ServiceTypes, ScriptTypes, CountTypes, Step, Work, Operation, Rules
<1>29. CASE BuildNat
  BY <1>29 DEF BuildNat, RefreshFails, Fault, Goto, Return, Exit, service, files, world, Places,
     Rebuilding, Noted, CacheNamesTheRule, Accounted, InHand, Starts, ServiceTypes, ScriptTypes,
     CountTypes, Step, Work, Operation, Rules
<1>30. CASE TakeSample
  BY <1>30 DEF TakeSample, Refreshed, RefreshFails, Fault, Goto, Return, Exit, service, rules,
     files, world, Places, Rebuilding, Noted, CacheNamesTheRule, Accounted, InHand, Starts,
     ServiceTypes, ScriptTypes, CountTypes, Step, Work, Operation, Rules
<1>31. CASE InstallDnat
  BY <1>31 DEF InstallDnat, RefreshFails, Fault, Goto, Return, Exit, service, files, world,
     Places, Rebuilding, Noted, CacheNamesTheRule, Accounted, InHand, Starts, ServiceTypes,
     ScriptTypes, CountTypes, Step, Work, Operation, Rules
<1>32. CASE RecordAddress
  BY <1>32 DEF RecordAddress, Refreshed, RefreshFails, Fault, Goto, Return, Exit, service,
     rules, world, Places, Rebuilding, Noted, CacheNamesTheRule, Accounted, InHand, Starts,
     ServiceTypes, ScriptTypes, CountTypes, Step, Work, Operation, Rules
<1>33. CASE Decide
  BY <1>33 DEF Decide, Exit, service, rules, files, Places, Rebuilding, Noted,
     CacheNamesTheRule, Accounted, InHand, Starts, ServiceTypes, ScriptTypes, CountTypes, Step,
     Work, Operation, Rules
<1>34. CASE UNCHANGED vars
  BY <1>34 DEF vars, service, files, rules, script, world, Places, Rebuilding, Noted,
     CacheNamesTheRule, Accounted, InHand, Starts, ServiceTypes, ScriptTypes, CountTypes, Step,
     Work, Operation, Rules
<1> QED
  BY <1>1, <1>2, <1>3, <1>4, <1>5, <1>6, <1>7, <1>8, <1>9, <1>10, <1>11, <1>12, <1>13, <1>14,
     <1>15, <1>16, <1>17, <1>18, <1>19, <1>20, <1>21, <1>22, <1>23, <1>24, <1>25, <1>26, <1>27,
     <1>28, <1>29, <1>30, <1>31, <1>32, <1>33, <1>34 DEF Next, Script, Rest

-----------------------------------------------------------------------------
(* What follows *)

\* Every step keeps it.
LEMMA StepKept == IInv /\ [Next]_vars => IInv'
BY ServiceTyped, ScriptTyped, CountTyped, OrderKept, AccountKept DEF IInv

\* The invariant holds in every state of every behaviour.
THEOREM Invariant == Spec => []IInv
<1>1. Init => IInv
  <2> SUFFICES ASSUME Init PROVE IInv
    OBVIOUS
  <2>1. ServiceTypes
    BY DEF Init, ServiceTypes
  <2>2. ScriptTypes
    BY FirewallAssumption DEF Init, ScriptTypes, Step, Work, Operation
  <2>3. CountTypes
    BY FirewallAssumption DEF Init, CountTypes
  <2>4. Places
    BY FirewallAssumption DEF Init, Places, Work, Operation
  <2>5. Rebuilding /\ CacheNamesTheRule
    BY DEF Init, Rebuilding, CacheNamesTheRule
  <2>6. Accounted
    BY FirewallAssumption DEF Init, Accounted
  <2> QED BY <2>1, <2>2, <2>3, <2>4, <2>5, <2>6 DEF IInv
<1> QED BY <1>1, StepKept, PTL DEF Spec

\* Every variable keeps its type, for all addresses and bounds.
THEOREM TypeCorrect == Spec => []TypeOK
<1>1. IInv => TypeOK
  BY TypeParts DEF IInv
<1> QED BY <1>1, Invariant, PTL

\* The cache never names another address than the rule.
THEOREM CacheIsTrue == Spec => []CacheNamesTheRule
<1>1. IInv => CacheNamesTheRule
  BY DEF IInv
<1> QED BY <1>1, Invariant, PTL

\* Between scripts, rules that are missing or outdated are known to be, unless the
\* refresh was lost before it began.
THEOREM LossesAreKnown == Spec => []LossIsKnown
<1>1. IInv => LossIsKnown
  <2> SUFFICES ASSUME IInv, pc = "idle", Entitled, ~Current, cache = addr
               PROVE  Noted \/ excused # {}
    BY DEF LossIsKnown, Noted
  <2>1. cache \in Addr /\ daemon
    BY DEF IInv, ServiceTypes, Entitled
  <2>2. ~InHand
    BY DEF InHand
  <2> QED BY <2>1, <2>2 DEF IInv, Accounted, Current
<1> QED BY <1>1, Invariant, PTL

-----------------------------------------------------------------------------
(* The steps a script has left *)

\* The steps from each place to the end of an operation in which nothing fails.
StepsFrom ==
  [idle |-> 0, decide |-> 0, settle |-> 1, cache |-> 2, dnat |-> 3, sample |-> 4, nat |-> 5,
   filter |-> 6, forget |-> 7, refresh |-> 8, settings |-> 9, up |-> 10, remove |-> 11,
   kill |-> 12, cron |-> 13, undo |-> 14, begin |-> 15]

\* A submission may have to be undone, and the minute task may restart the service.
StepsLeft ==
  StepsFrom[pc] + (IF op = "tick" \/ (op = "web_submit" /\ pc # "undo") THEN 14 ELSE 0)

\* Whatever fails, a script that holds the lock gets nearer to its end with each of
\* its steps, and nothing around it sends it back (tailscale_lib.sh:386-448, 899-982).
ScriptsEnd ==
  [][/\ Script => StepsLeft' < StepsLeft
     /\ pc # "idle" => StepsLeft' <= StepsLeft]_vars

\* No script takes more than 29 steps.
StepsBounded == StepsLeft \in 0 .. 29

\* The steps from each place.
LEMMA StepsFromIs ==
  /\ StepsFrom["idle"] = 0 /\ StepsFrom["decide"] = 0 /\ StepsFrom["settle"] = 1
  /\ StepsFrom["cache"] = 2 /\ StepsFrom["dnat"] = 3 /\ StepsFrom["sample"] = 4
  /\ StepsFrom["nat"] = 5 /\ StepsFrom["filter"] = 6 /\ StepsFrom["forget"] = 7
  /\ StepsFrom["refresh"] = 8 /\ StepsFrom["settings"] = 9 /\ StepsFrom["up"] = 10
  /\ StepsFrom["remove"] = 11 /\ StepsFrom["kill"] = 12 /\ StepsFrom["cron"] = 13
  /\ StepsFrom["undo"] = 14 /\ StepsFrom["begin"] = 15
BY DEF StepsFrom

\* Each step of a script leaves fewer.
LEMMA ScriptStepsDown ==
  ASSUME IInv, Script
  PROVE  StepsLeft' < StepsLeft
<1> USE FirewallAssumption, StepsFromIs DEF StepsLeft, Work, Operation
<1>0. /\ pc = "decide" => op = "tick"
      /\ pc \in {"up", "settings"} => op \in Starts
  BY DEF IInv, Places
<1>1. CASE pc' = "idle" /\ op' = None
  <2>1. pc # "idle" /\ pc \in Step
    BY DEF IInv, ScriptTypes, Script, Refuse, Dispatch, Submit, SubmitFails, Undo,
       RemoveCron, KillDaemon, ts_firewall_remove, StartUnread, StartDisabled,
       StartDaemon, StartLate, Settings, Settle, RefreshUnread, RefreshDisabled,
       ConsumeEvents, ForgetAddress, BuildFilter, BuildNat, TakeSample, InstallDnat,
       RecordAddress, Decide
  <2> QED BY <1>0, <1>1, <2>1 DEF Step
<1>2. CASE Refuse
  BY <1>0, <1>1, <1>2 DEF Refuse, RefreshFails, Refreshed, Return, Goto, Exit, Starts
<1>3. CASE Dispatch
  BY <1>0, <1>1, <1>3 DEF Dispatch, RefreshFails, Refreshed, Return, Goto, Exit, Starts
<1>4. CASE Submit
  BY <1>0, <1>1, <1>4 DEF Submit, RefreshFails, Refreshed, Return, Goto, Exit, Starts
<1>5. CASE SubmitFails
  BY <1>0, <1>1, <1>5 DEF SubmitFails, RefreshFails, Refreshed, Return, Goto, Exit, Starts
<1>6. CASE Undo
  BY <1>0, <1>1, <1>6 DEF Undo, RefreshFails, Refreshed, Return, Goto, Exit, Starts
<1>7. CASE RemoveCron
  BY <1>0, <1>1, <1>7 DEF RemoveCron, RefreshFails, Refreshed, Return, Goto, Exit, Starts
<1>8. CASE KillDaemon
  BY <1>0, <1>1, <1>8 DEF KillDaemon, RefreshFails, Refreshed, Return, Goto, Exit, Starts
<1>9. CASE ts_firewall_remove
  BY <1>0, <1>1, <1>9 DEF ts_firewall_remove, RefreshFails, Refreshed, Return, Goto, Exit, Starts
<1>10. CASE StartUnread
  BY <1>0, <1>1, <1>10 DEF StartUnread, RefreshFails, Refreshed, Return, Goto, Exit, Starts
<1>11. CASE StartDisabled
  BY <1>0, <1>1, <1>11 DEF StartDisabled, RefreshFails, Refreshed, Return, Goto, Exit, Starts
<1>12. CASE StartDaemon
  BY <1>0, <1>1, <1>12 DEF StartDaemon, RefreshFails, Refreshed, Return, Goto, Exit, Starts
<1>13. CASE StartLate
  BY <1>0, <1>1, <1>13 DEF StartLate, RefreshFails, Refreshed, Return, Goto, Exit, Starts
<1>14. CASE Settings
  BY <1>0, <1>1, <1>14 DEF Settings, RefreshFails, Refreshed, Return, Goto, Exit, Starts
<1>15. CASE Settle
  BY <1>0, <1>1, <1>15 DEF Settle, RefreshFails, Refreshed, Return, Goto, Exit, Starts
<1>16. CASE RefreshUnread
  BY <1>0, <1>1, <1>16 DEF RefreshUnread, RefreshFails, Refreshed, Return, Goto, Exit, Starts
<1>17. CASE RefreshDisabled
  BY <1>0, <1>1, <1>17 DEF RefreshDisabled, RefreshFails, Refreshed, Return, Goto, Exit, Starts
<1>18. CASE ConsumeEvents
  BY <1>0, <1>1, <1>18 DEF ConsumeEvents, RefreshFails, Refreshed, Return, Goto, Exit, Starts
<1>19. CASE ForgetAddress
  BY <1>0, <1>1, <1>19 DEF ForgetAddress, RefreshFails, Refreshed, Return, Goto, Exit, Starts
<1>20. CASE BuildFilter
  BY <1>0, <1>1, <1>20 DEF BuildFilter, RefreshFails, Refreshed, Return, Goto, Exit, Starts
<1>21. CASE BuildNat
  BY <1>0, <1>1, <1>21 DEF BuildNat, RefreshFails, Refreshed, Return, Goto, Exit, Starts
<1>22. CASE TakeSample
  BY <1>0, <1>1, <1>22 DEF TakeSample, RefreshFails, Refreshed, Return, Goto, Exit, Starts
<1>23. CASE InstallDnat
  BY <1>0, <1>1, <1>23 DEF InstallDnat, RefreshFails, Refreshed, Return, Goto, Exit, Starts
<1>24. CASE RecordAddress
  BY <1>0, <1>1, <1>24 DEF RecordAddress, RefreshFails, Refreshed, Return, Goto, Exit, Starts
<1>25. CASE Decide
  BY <1>0, <1>1, <1>25 DEF Decide, RefreshFails, Refreshed, Return, Goto, Exit, Starts
<1> QED BY <1>1, <1>2, <1>3, <1>4, <1>5, <1>6, <1>7, <1>8, <1>9, <1>10, <1>11, <1>12,
        <1>13, <1>14, <1>15, <1>16, <1>17, <1>18, <1>19, <1>20, <1>21, <1>22, <1>23,
        <1>24, <1>25 DEF Script

\* What happens around a script, a kill included, adds none.
LEMMA OthersAddNone ==
  ASSUME IInv, [Next]_vars, ~Script, pc # "idle"
  PROVE  (pc' = "idle" /\ op' = None) \/ UNCHANGED <<pc, op>>
BY DEF Next, NatEvent, Move, Die, Hook, LeaveMarker, Request, Tick, Kill, PowerLoss, Rest, Exit,
   vars, script

LEMMA StepsType == IInv => StepsBounded
<1> SUFFICES ASSUME IInv PROVE StepsBounded
  OBVIOUS
<1>1. pc \in Step
  BY DEF IInv, ScriptTypes
<1> QED BY <1>1, StepsFromIs DEF StepsBounded, StepsLeft, Step

LEMMA StepsTypeNext == IInv' => StepsBounded'
BY StepsType, PTL

\* A script is over after at most 29 of its steps, whatever fails and whatever the
\* firmware and the daemon do meanwhile.
THEOREM EveryScriptEnds == Spec => []StepsBounded /\ ScriptsEnd
<1>1. IInv /\ IInv' /\ [Next]_vars =>
        [/\ Script => StepsLeft' < StepsLeft
         /\ pc # "idle" => StepsLeft' <= StepsLeft]_vars
  <2> SUFFICES ASSUME IInv, IInv', [Next]_vars
               PROVE  /\ Script => StepsLeft' < StepsLeft
                      /\ pc # "idle" => StepsLeft' <= StepsLeft
    OBVIOUS
  <2>1. StepsLeft \in 0 .. 29 /\ StepsLeft' \in 0 .. 29
    BY StepsType, StepsTypeNext DEF StepsBounded
  <2>2. Script => StepsLeft' < StepsLeft
    BY ScriptStepsDown
  <2>3. ASSUME pc # "idle", ~Script PROVE StepsLeft' <= StepsLeft
    <3>1. CASE pc' = "idle" /\ op' = None
      BY <2>1, <3>1, StepsFromIs, FirewallAssumption DEF StepsLeft, Work, Operation
    <3>2. CASE UNCHANGED <<pc, op>>
      BY <2>1, <3>2 DEF StepsLeft
    <3> QED BY <2>3, <3>1, <3>2, OthersAddNone
  <2> QED BY <2>1, <2>2, <2>3
<1> QED BY <1>1, StepsType, Invariant, PTL DEF Spec, ScriptsEnd

-----------------------------------------------------------------------------
(* The way back to complete rules *)

\* The rules are due to a service whose minute task runs, and no refresh was lost.
Due == Entitled /\ cron /\ excused = {}

\* No command fails, the firmware and the address leave the rules alone, and nobody
\* asks for an operation.
Undisturbed == faults' = faults /\ events' = events /\ ops' = ops

\* When the script that runs, if any, is over, the minute task will have to refresh
\* the rules: there was an event that this script does not consume, or the address
\* it works with, or has recorded, is not the address.
Owed ==
  IF pc \in {"idle", "decide", "settle"} THEN marker \/ cache # addr
  ELSE \/ sample \notin {Own, addr}
       \/ marker /\ pc \in {"forget", "filter", "nat", "sample", "dnat", "cache"}

\* How far the rules are from being complete and left alone.  A hook may become a
\* late one, a late one leaves the marker, and the marker costs a refresh.
StepsToCurrent ==
  20 * (3 * hooks + 2 * late + (IF Owed THEN 1 ELSE 0)) + StepsFrom[pc]

\* While the rules are due and nothing disturbs, no step leads away from them, and
\* all lead nearer but the minute task that finds nothing to do
\* (tailscale_lib.sh:386-448, 737-748).
RulesComeNearer ==
  [][Due /\ Due' /\ Undisturbed =>
       /\ StepsToCurrent' <= StepsToCurrent
       /\ \/ Hook \/ LeaveMarker
          \/ Script /\ ~Decide
          \/ Tick /\ RefreshDue
          => StepsToCurrent' < StepsToCurrent]_vars

\* As long as they are not there the way is open: a hook, a late one or the refresh
\* of the minute task comes.  At its end the rules are right.
WayIsOpen ==
  Due /\ pc = "idle" =>
    \/ hooks + late > 0 \/ RefreshDue
    \/ StepsToCurrent = 0 /\ Current /\ ~marker /\ cache = addr

\* There they stay.
Arrived == Due /\ StepsToCurrent = 0 /\ Current /\ ~marker /\ cache = addr
RulesStay == [][Arrived /\ Due' /\ Undisturbed => Arrived']_vars

\* A step that neither makes a refresh owed nor touches the hooks leads nearer when
\* the script gets nearer to its end.
LEMMA Nearer ==
  ASSUME IInv, UNCHANGED <<hooks, late>>, Owed' => Owed, pc' \in Step
  PROVE  /\ StepsFrom[pc'] <= StepsFrom[pc] => StepsToCurrent' <= StepsToCurrent
         /\ StepsFrom[pc'] < StepsFrom[pc] => StepsToCurrent' < StepsToCurrent
<1>1. hooks \in Nat /\ late \in Nat /\ pc \in Step
  BY DEF IInv, CountTypes, ScriptTypes
<1>2. StepsFrom[pc] \in 0 .. 15 /\ StepsFrom[pc'] \in 0 .. 15
  BY <1>1, StepsFromIs DEF Step
<1> QED BY <1>1, <1>2 DEF StepsToCurrent

LEMMA NearType == IInv => StepsToCurrent \in Nat
<1> SUFFICES ASSUME IInv PROVE StepsToCurrent \in Nat
  OBVIOUS
<1>1. hooks \in Nat /\ late \in Nat /\ pc \in Step
  BY DEF IInv, CountTypes, ScriptTypes
<1>2. StepsFrom[pc] \in 0 .. 15
  BY <1>1, StepsFromIs DEF Step
<1> QED BY <1>1, <1>2 DEF StepsToCurrent

LEMMA NearTypeNext == IInv' => (StepsToCurrent \in Nat)'
BY NearType, PTL

\* What does not happen while the rules are due and nothing disturbs.
LEMMA Excluded ==
  ASSUME IInv, Due, Due', Undisturbed
  PROVE  /\ ~(Refuse \/ SubmitFails \/ StartUnread \/ StartLate \/ RefreshUnread)
         /\ ~(StartDisabled \/ RefreshDisabled)
         /\ ~(RemoveCron \/ KillDaemon \/ ts_firewall_remove)
         /\ ~(NatEvent \/ Move \/ Die \/ Request \/ Kill \/ PowerLoss)
         /\ ~Fault
<1>1. faults \in Nat /\ events \in Nat /\ ops \in Nat
  BY FirewallAssumption DEF IInv, CountTypes
<1>2. enabled /\ daemon /\ daemon' /\ cron'
  BY DEF Due, Entitled
<1>3. pc # "remove"
  BY <1>2 DEF IInv, Places
<1>4. ~Fault
  BY <1>1 DEF Undisturbed, Fault
<1>5. ~(Refuse \/ SubmitFails \/ StartUnread \/ StartLate \/ RefreshUnread)
  BY <1>4 DEF Refuse, SubmitFails, StartUnread, StartLate, RefreshUnread, RefreshFails
<1>6. /\ ~(StartDisabled \/ RefreshDisabled)
      /\ ~(RemoveCron \/ KillDaemon \/ ts_firewall_remove)
  BY <1>2, <1>3
  DEF StartDisabled, RefreshDisabled, RemoveCron, KillDaemon, ts_firewall_remove
<1>7. ~(NatEvent \/ Move \/ Die \/ Request \/ Kill \/ PowerLoss)
  BY <1>1, <1>4 DEF Undisturbed, NatEvent, Move, Die, Request, Kill, PowerLoss
<1> QED BY <1>4, <1>5, <1>6, <1>7

\* Each step of a script leads nearer.
LEMMA ScriptLeadsNearer ==
  ASSUME IInv, Script, ~Decide, Due, Due', Undisturbed
  PROVE  StepsToCurrent' < StepsToCurrent
<1> DEFINE Advances == /\ UNCHANGED <<hooks, late>>
                       /\ Owed' => Owed
                       /\ pc' \in Step /\ StepsFrom[pc'] < StepsFrom[pc]
<1> USE StepsFromIs, Excluded DEF Owed, Step, world
<1>1. /\ daemon /\ sample \in Addr \cup {NoAddr, Own}
      /\ pc \in {"dnat", "cache"} => sample # Own
      /\ UNCHANGED addr
  BY DEF Due, Entitled, IInv, ScriptTypes, Places, Script, Dispatch, Submit, Undo,
     StartDaemon, Settings, Settle, ConsumeEvents, ForgetAddress, BuildFilter, BuildNat,
     TakeSample, InstallDnat, RecordAddress
<1>2. CASE Dispatch
  <2>1. Advances
    BY <1>1, <1>2 DEF Dispatch, RefreshFails, Refreshed, Return, Goto, Exit, files
  <2> QED BY <2>1, Nearer
<1>3. CASE Submit
  <2>1. Advances
    BY <1>1, <1>3 DEF Submit, RefreshFails, Refreshed, Return, Goto, Exit, files
  <2> QED BY <2>1, Nearer
<1>4. CASE Undo
  <2>1. Advances
    BY <1>1, <1>4 DEF Undo, RefreshFails, Refreshed, Return, Goto, Exit, files
  <2> QED BY <2>1, Nearer
<1>5. CASE StartDaemon
  <2>1. Advances
    BY <1>1, <1>5 DEF StartDaemon, RefreshFails, Refreshed, Return, Goto, Exit, files
  <2> QED BY <2>1, Nearer
<1>6. CASE Settings
  <2>1. Advances
    BY <1>1, <1>6 DEF Settings, RefreshFails, Refreshed, Return, Goto, Exit, files
  <2> QED BY <2>1, Nearer
<1>7. CASE Settle
  <2>1. Advances
    BY <1>1, <1>7 DEF Settle, RefreshFails, Refreshed, Return, Goto, Exit, files
  <2> QED BY <2>1, Nearer
<1>8. CASE ConsumeEvents
  <2>1. Advances
    BY <1>1, <1>8 DEF ConsumeEvents, RefreshFails, Refreshed, Return, Goto, Exit, files
  <2> QED BY <2>1, Nearer
<1>9. CASE ForgetAddress
  <2>1. Advances
    BY <1>1, <1>9 DEF ForgetAddress, RefreshFails, Refreshed, Return, Goto, Exit, files
  <2> QED BY <2>1, Nearer
<1>10. CASE BuildFilter
  <2>1. Advances
    BY <1>1, <1>10 DEF BuildFilter, RefreshFails, Refreshed, Return, Goto, Exit, files
  <2> QED BY <2>1, Nearer
<1>11. CASE BuildNat
  <2>1. Advances
    BY <1>1, <1>11 DEF BuildNat, RefreshFails, Refreshed, Return, Goto, Exit, files
  <2> QED BY <2>1, Nearer
<1>12. CASE TakeSample
  <2>1. Advances
    BY <1>1, <1>12 DEF TakeSample, RefreshFails, Refreshed, Return, Goto, Exit, files
  <2> QED BY <2>1, Nearer
<1>13. CASE InstallDnat
  <2>1. Advances
    BY <1>1, <1>13 DEF InstallDnat, RefreshFails, Refreshed, Return, Goto, Exit, files
  <2> QED BY <2>1, Nearer
<1>14. CASE RecordAddress
  <2>1. Advances
    BY <1>1, <1>14 DEF RecordAddress, RefreshFails, Refreshed, Return, Goto, Exit, files
  <2> QED BY <2>1, Nearer
<1> QED BY <1>2, <1>3, <1>4, <1>5, <1>6, <1>7, <1>8, <1>9, <1>10, <1>11, <1>12, <1>13,
        <1>14 DEF Script

\* A hook that takes the lock costs the steps of its refresh, one that does not
\* becomes a late one, and a late one becomes a refresh that is owed.
LEMMA HooksLeadNearer ==
  ASSUME IInv, Hook \/ LeaveMarker
  PROVE  StepsToCurrent' < StepsToCurrent
<1>1. hooks \in Nat /\ late \in Nat /\ pc \in Step
  BY DEF IInv, CountTypes, ScriptTypes
<1>2. StepsFrom[pc] \in 0 .. 15
  BY <1>1, StepsFromIs DEF Step
<1>3. CASE Hook /\ pc = "idle"
  <2>1. hooks > 0 /\ hooks' = hooks - 1 /\ late' = late /\ pc' = "begin"
    BY <1>3 DEF Hook
  <2> QED BY <1>1, <1>3, <2>1, StepsFromIs DEF StepsToCurrent
<1>4. CASE Hook /\ pc # "idle"
  <2>1. hooks > 0 /\ hooks' = hooks - 1 /\ late' = late + 1 /\ pc' = pc
    BY <1>4 DEF Hook
  <2>2. Owed' = Owed
    BY <1>4, <2>1 DEF Hook, Owed, files
  <2> QED BY <1>1, <1>2, <2>1, <2>2 DEF StepsToCurrent
<1>5. CASE LeaveMarker
  <2>1. late > 0 /\ late' = late - 1 /\ hooks' = hooks /\ pc' = pc
    BY <1>5 DEF LeaveMarker, script
  <2> QED BY <1>1, <1>2, <2>1 DEF StepsToCurrent
<1> QED BY <1>3, <1>4, <1>5

\* The minute task turns what is owed into a refresh for the present address, or
\* looks and goes.
LEMMA TickLeadsNearer ==
  ASSUME IInv, Tick
  PROVE  /\ StepsToCurrent' <= StepsToCurrent
         /\ RefreshDue => StepsToCurrent' < StepsToCurrent
<1>1. hooks \in Nat /\ late \in Nat /\ hooks' = hooks /\ late' = late
  BY DEF IInv, CountTypes, Tick, world
<1>2. pc = "idle" /\ UNCHANGED <<marker, cache, addr>>
  BY DEF Tick, files, world
<1>3. CASE RefreshDue
  <2>1. pc' = "refresh" /\ sample' = addr /\ Owed /\ ~Owed'
    BY <1>2, <1>3 DEF Tick, RefreshDue, Owed
  <2> QED BY <1>1, <1>2, <2>1, StepsFromIs DEF StepsToCurrent
<1>4. CASE ~RefreshDue
  <2>1. pc' = "decide" /\ Owed' = Owed
    BY <1>2, <1>4 DEF Tick, Owed
  <2> QED BY <1>1, <1>2, <1>4, <2>1, StepsFromIs DEF StepsToCurrent
<1> QED BY <1>3, <1>4

\* The argument beneath RulesComeBack, but for fairness.  While the rules are due
\* and nothing disturbs, each hook, each of its marks and each step of a refresh
\* lead nearer to them, and nothing leads away.
THEOREM RulesAreOnTheWay == Spec => RulesComeNearer
<1>1. IInv /\ [Next]_vars =>
        [Due /\ Due' /\ Undisturbed =>
           /\ StepsToCurrent' <= StepsToCurrent
           /\ \/ Hook \/ LeaveMarker
              \/ Script /\ ~Decide
              \/ Tick /\ RefreshDue
              => StepsToCurrent' < StepsToCurrent]_vars
  <2> SUFFICES ASSUME IInv, [Next]_vars, Due, Due', Undisturbed
               PROVE  /\ StepsToCurrent' <= StepsToCurrent
                      /\ \/ Hook \/ LeaveMarker
                         \/ Script /\ ~Decide
                         \/ Tick /\ RefreshDue
                         => StepsToCurrent' < StepsToCurrent
    OBVIOUS
  <2>1. \/ Hook \/ LeaveMarker
        \/ Script /\ ~Decide
        \/ Tick /\ RefreshDue
        => StepsToCurrent' < StepsToCurrent
    BY HooksLeadNearer, ScriptLeadsNearer, TickLeadsNearer
  <2>2. CASE Hook \/ LeaveMarker \/ (Script /\ ~Decide)
    <3>1. StepsToCurrent \in Nat /\ StepsToCurrent' \in Nat
      BY NearType, NearTypeNext, StepKept
    <3> QED BY <2>1, <2>2, <3>1
  <2>3. CASE Tick
    BY <2>1, <2>3, TickLeadsNearer
  <2>4. CASE Decide \/ Rest \/ UNCHANGED vars
    <3>1. /\ UNCHANGED <<hooks, late, addr, marker, cache>>
          /\ \/ pc = "decide" /\ pc' = "idle"
             \/ UNCHANGED <<pc, sample>>
      BY <2>4, FirewallAssumption
      DEF Decide, Rest, Exit, vars, world, files, script, Undisturbed, IInv, CountTypes
    <3>2. (Owed' => Owed) /\ pc' \in Step /\ StepsFrom[pc'] <= StepsFrom[pc]
      BY <3>1, StepsFromIs DEF Owed, Step, IInv, ScriptTypes
    <3>3. StepsToCurrent' <= StepsToCurrent
      BY <3>1, <3>2, Nearer
    <3> QED BY <2>1, <3>3
  <2> QED BY <2>2, <2>3, <2>4, Excluded DEF Next
<1> QED BY <1>1, Invariant, PTL DEF Spec, RulesComeNearer

\* And the way is open: between scripts something is to come, or the rules are
\* complete and of the present address, and are left alone.
THEOREM NothingIsForgotten == Spec => []WayIsOpen /\ RulesStay
<1>1. IInv => WayIsOpen
  <2> SUFFICES ASSUME IInv, Due, pc = "idle", ~(hooks + late > 0), ~RefreshDue
               PROVE  StepsToCurrent = 0 /\ Current /\ ~marker /\ cache = addr
    BY DEF WayIsOpen
  <2>1. hooks = 0 /\ late = 0
    BY DEF IInv, CountTypes
  <2>2. /\ ~marker /\ cache = addr
        /\ cache \in Addr /\ daemon
    BY DEF RefreshDue, Due, Entitled, IInv, ServiceTypes
  <2>3. ~Owed /\ ~InHand /\ ~Noted
    BY <2>1, <2>2 DEF Owed, InHand, Noted
  <2>4. Current
    BY <2>2, <2>3 DEF IInv, Accounted, Current, Due
  <2> QED BY <2>1, <2>2, <2>3, <2>4, StepsFromIs DEF StepsToCurrent
<1>2. IInv /\ [Next]_vars => [Arrived /\ Due' /\ Undisturbed => Arrived']_vars
  <2> SUFFICES ASSUME IInv, [Next]_vars, Arrived, Due', Undisturbed
               PROVE  Arrived'
    OBVIOUS
  <2>1. /\ hooks = 0 /\ late = 0 /\ pc \in {"idle", "decide"}
    <3>1. hooks \in Nat /\ late \in Nat /\ pc \in Step
      BY DEF IInv, CountTypes, ScriptTypes
    <3>2. StepsFrom[pc] \in 0 .. 15
      BY <3>1, StepsFromIs DEF Step
    <3>3. hooks = 0 /\ late = 0 /\ StepsFrom[pc] = 0
      <4>1. ~Owed
        BY <3>1, <3>2 DEF Arrived, StepsToCurrent
      <4>2. 20 * (3 * hooks + 2 * late) + StepsFrom[pc] = 0
        BY <3>1, <4>1 DEF Arrived, StepsToCurrent
      <4>3. ASSUME NEW h \in Nat, NEW l \in Nat, NEW d \in 0 .. 15, 20 * (3 * h + 2 * l) + d = 0
            PROVE  h = 0 /\ l = 0 /\ d = 0
        BY <4>3
      <4> QED BY <3>1, <3>2, <4>2, <4>3
    <3> QED BY <3>1, <3>3, StepsFromIs DEF Step
  <2>2. ~(Hook \/ LeaveMarker) /\ ~RefreshDue
    BY <2>1 DEF Hook, LeaveMarker, RefreshDue, Arrived
  <2>3. ~(Script /\ ~Decide)
    BY <2>1, Excluded
    DEF Arrived, Script, Dispatch, Submit, Undo, StartDaemon, Settings, Settle,
        ConsumeEvents, ForgetAddress, BuildFilter, BuildNat, TakeSample, InstallDnat,
        RecordAddress
  <2>4. /\ UNCHANGED <<hooks, late, addr, chains, dnat, marker, cache>>
        /\ pc' \in {"idle", "decide"}
    BY <2>1, <2>2, <2>3, Excluded, FirewallAssumption
    DEF Arrived, Next, Tick, Decide, Rest, Exit, vars, world, files, rules, script, Undisturbed,
        IInv, CountTypes
  <2>5. ~Owed'
    BY <2>4 DEF Owed, Arrived
  <2> QED BY <2>1, <2>4, <2>5, StepsFromIs DEF Arrived, StepsToCurrent, Current
<1> QED BY <1>1, <1>2, Invariant, PTL DEF Spec, RulesStay
=============================================================================
