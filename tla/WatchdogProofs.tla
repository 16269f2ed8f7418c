--------------------------- MODULE WatchdogProofs ---------------------------
(***************************************************************************)
(* Proofs about Watchdog: its type invariant, and that the restart budget  *)
(* is kept for every choice of the limits, of the clock's readings and of  *)
(* what happens around it, by all recoveries but those whose ledger lines  *)
(* were lost on the way to the flash.                                      *)
(*                                                                         *)
(* At the end what can be proved of the progress of scripts and of the     *)
(* watchdog: each step leaves fewer (EveryScriptEnds), and while the       *)
(* service is stuck each check and each step brings its restart nearer     *)
(* (RestartComesNearer).                                                   *)
(***************************************************************************)
EXTENDS Watchdog, FiniteSetTheorems, TLAPS

-----------------------------------------------------------------------------
(* Types *)

\* The entries of the ledger that count are a finite set of clock readings.
LEMMA RecentType ==
  ASSUME TypeOK, NEW t \in Clock
  PROVE  /\ Recent(t) \subseteq ledger
         /\ IsFiniteSet(Recent(t))
         /\ Recent(t) \cup {t} \subseteq Clock
         /\ IsFiniteSet(Recent(t) \cup {t})
<1>1. Recent(t) \subseteq ledger
  BY DEF Recent
<1>2. IsFiniteSet(Recent(t))
  BY <1>1, FS_Subset DEF TypeOK
<1>3. IsFiniteSet(Recent(t) \cup {t})
  BY <1>2, FS_AddElement
<1>4. Recent(t) \cup {t} \subseteq Clock
  BY <1>1 DEF TypeOK
<1>5. QED
  BY <1>1, <1>2, <1>3, <1>4

\* The variables of the script have their types.
ScriptTypes ==
  /\ pc \in Phases
  /\ mode \in {"manual", "automatic", "stop"}
  /\ sample \in {"none", "failed", "deliberate", "offline", "fine"}
  /\ kind \in {"none", "service", "control"}
  /\ now \in Clock

\* A script that ends leaves its variables with their types.
LEMMA DoneTypes == Done => ScriptTypes'
  BY ClockAssumption DEF Done, ScriptTypes, Phases, Clock

LEMMA InitTypes == Init => TypeOK
<1>1. IsFiniteSet({})
  BY FS_EmptySet
<1>2. First \in Clock
  BY ClockAssumption DEF Clock
<1>3. 0 \in 0 .. Strikes /\ 0 \in 0 .. MaxJumps /\ 0 \in 0 .. MaxFaults
      /\ 0 \in 0 .. MaxCrashes /\ 0 \in 0 .. MaxLost
  BY BoundAssumption DEF Strikes
<1>4. QED
  BY <1>1, <1>2, <1>3 DEF Init, TypeOK, Phases

LEMMA TickTypes == TypeOK /\ Tick => TypeOK'
<1> SUFFICES ASSUME TypeOK, Tick PROVE TypeOK'
  OBVIOUS
<1>1. pc' \in Phases /\ sample' \in {"none", "failed", "deliberate", "offline", "fine"}
  BY DEF Tick, Statuses, TypeOK, Phases
<1>2. QED
  BY <1>1 DEF Tick, TypeOK, settings, evidence, service, world, history, bounds

LEMMA JudgeTypes == TypeOK /\ Judge => TypeOK'
<1> SUFFICES ASSUME TypeOK, Judge PROVE TypeOK'
  OBVIOUS
<1> USE ClockAssumption
<1>1. CASE GrantGrace
  <2>1. started' \in Clock \cup {NoTime} /\ clock' = clock
    BY <1>1 DEF GrantGrace, TypeOK, world
  <2>2. QED
    BY <1>1, <2>1
    DEF GrantGrace, Done, TypeOK, Phases, Clock, settings, evidence, world, history, bounds
<1>2. CASE StayInGrace
  BY <1>2
  DEF StayInGrace, Done, TypeOK, Phases, Clock, settings, evidence, service, world, history, bounds
<1>3. CASE Settle
  BY <1>3
  DEF Settle, Done, TypeOK, Phases, Clock, Strikes, settings, service, world, history, bounds
<1>4. ASSUME NEW reason \in {"service", "control"}, Consider(reason) \/ Done
      PROVE  /\ pc' \in Phases /\ mode' \in {"manual", "automatic", "stop"}
             /\ sample' \in {"none", "failed", "deliberate", "offline", "fine"}
             /\ kind' \in {"none", "service", "control"}
             /\ now' \in Clock
  BY <1>4 DEF Consider, Done, TypeOK, Phases, Clock
<1>5. CASE CountFailure
  <2>1. failures' \in 0 .. Strikes /\ control' \in Clock \cup {0}
    BY <1>5 DEF CountFailure, TypeOK, Strikes
  <2>2. Consider("service") \/ Done
    BY <1>5 DEF CountFailure
  <2>3. QED
    BY <1>4, <1>5, <2>1, <2>2
    DEF CountFailure, TypeOK, settings, service, world, history, bounds
<1>6. CASE TimeOutage
  <2>1. failures' \in 0 .. Strikes /\ control' \in Clock \cup {0}
    BY <1>6 DEF TimeOutage, TypeOK, Strikes
  <2>2. Consider("control") \/ Done
    BY <1>6 DEF TimeOutage
  <2>3. QED
    BY <1>4, <1>6, <2>1, <2>2
    DEF TimeOutage, TypeOK, settings, service, world, history, bounds
<1>7. QED
  BY <1>1, <1>2, <1>3, <1>5, <1>6 DEF Judge

LEMMA ConfirmTypes == TypeOK /\ (Confirm \/ Probe) => TypeOK'
<1> SUFFICES ASSUME TypeOK, Confirm \/ Probe PROVE TypeOK'
  OBVIOUS
<1> USE ClockAssumption
<1>1. CASE Confirm
  <2>1. failures' \in 0 .. Strikes /\ control' \in Clock \cup {0}
    BY <1>1 DEF Confirm, TypeOK, Strikes
  <2>2. Done \/ (pc' \in Phases /\ UNCHANGED <<mode, sample, kind, now>>)
    BY <1>1 DEF Confirm, Phases
  <2>3. QED
    BY <1>1, <2>1, <2>2
    DEF Confirm, Done, TypeOK, Phases, Clock, settings, service, world, history, bounds
<1>2. CASE Probe
  BY <1>2
  DEF Probe, Done, TypeOK, Phases, Clock, settings, evidence, service, world, history, bounds
<1>3. QED
  BY <1>1, <1>2

LEMMA SpendTypes == TypeOK /\ Spend => TypeOK'
<1> SUFFICES ASSUME TypeOK, Spend PROVE TypeOK'
  OBVIOUS
<1> USE ClockAssumption, BoundAssumption
<1>1. now \in Clock
  BY DEF TypeOK
<1>2. CASE Reserve
  BY <1>1, <1>2, RecentType
  DEF Reserve, TypeOK, Phases, settings, evidence, service, world, history, bounds
<1>3. CASE ReserveFails
  BY <1>3
  DEF ReserveFails, Done, TypeOK, Phases, Clock, settings, evidence, service, world, history
<1>4. CASE ReserveLosesLines
  <2>1. PICK kept \in SUBSET (Recent(now) \cup {now}) : ledger' = kept
    BY <1>4 DEF ReserveLosesLines
  <2>2. ledger' \subseteq Clock /\ IsFiniteSet(ledger')
    BY <1>1, <2>1, RecentType, FS_Subset
  <2>3. dropped' \subseteq Clock
    <3>1. PICK left \in SUBSET (Recent(now) \cup {now}) :
            dropped' = dropped \cup Unrecorded(left)
      BY <1>4 DEF ReserveLosesLines
    <3>2. QED
      BY <1>1, <3>1, RecentType DEF Unrecorded, TypeOK
  <2>4. QED
    BY <1>4, <2>2, <2>3
    DEF ReserveLosesLines, TypeOK, Phases, settings, evidence, service, world, history
<1>5. CASE Begin
  BY <1>5 DEF Begin, TypeOK, Phases, Strikes, settings, service, world, bounds
<1>6. QED
  BY <1>2, <1>3, <1>4, <1>5 DEF Spend

LEMMA StopOrStartTypes == TypeOK /\ StopOrStart => TypeOK'
<1> SUFFICES ASSUME TypeOK, StopOrStart PROVE TypeOK'
  OBVIOUS
<1>1. CASE Unschedule
  <2>1. ScriptTypes'
    BY <1>1, DoneTypes DEF Unschedule, TypeOK, ScriptTypes, Phases
  <2>2. cron' \in BOOLEAN
    BY <1>1 DEF Unschedule, TypeOK
  <2>3. QED
    BY <1>1, <2>1, <2>2
    DEF Unschedule, ScriptTypes, TypeOK, settings, evidence, world, history, bounds
<1>2. CASE KillDaemon
  <2>1. ScriptTypes'
    BY <1>2, DoneTypes DEF KillDaemon, TypeOK, ScriptTypes, Phases
  <2>2. QED
    BY <1>2, <2>1
    DEF KillDaemon, ScriptTypes, TypeOK, settings, evidence, service, world, history, bounds
<1>3. CASE ReadConfig
  <2>1. ScriptTypes'
    BY <1>3, DoneTypes DEF ReadConfig, TypeOK, ScriptTypes, Phases
  <2>2. QED
    BY <1>3, <2>1
    DEF ReadConfig, ScriptTypes, TypeOK, settings, evidence, world, history, bounds
<1>4. CASE ReadConfigFails
  <2>1. ScriptTypes'
    BY <1>4, DoneTypes DEF ReadConfigFails, TypeOK, ScriptTypes, Phases
  <2>2. QED
    BY <1>4, <2>1, BoundAssumption
    DEF ReadConfigFails, ScriptTypes, TypeOK, settings, evidence, service, world, history
<1>5. ASSUME NEW outcome \in {"gone", "hung", "live"}, Launches(outcome),
             faults' \in 0 .. MaxFaults
      PROVE  TypeOK'
  <2>1. daemon' \in {"gone", "hung", "live"}
    BY <1>5 DEF Launches, TypeOK
  <2>2. Done \/ (/\ pc' = "apply" /\ sample' \in {"fine", "deliberate"}
                /\ UNCHANGED <<mode, kind, now>>)
    BY <1>5 DEF Launches
  <2>3. ScriptTypes'
    BY <2>2, DoneTypes DEF ScriptTypes, TypeOK, Phases
  <2>4. QED
    BY <1>5, <2>1, <2>3
    DEF Launches, ScriptTypes, TypeOK, settings, evidence, world, history
<1>6. CASE Launch
  <2>1. faults' \in 0 .. MaxFaults /\ Launches("live")
    BY <1>6 DEF Launch, TypeOK
  <2>2. QED
    BY <1>5, <2>1
<1>7. CASE LaunchFails
  <2>1. faults' \in 0 .. MaxFaults
    BY <1>7, BoundAssumption DEF LaunchFails, TypeOK
  <2>2. PICK outcome \in {"gone", "hung"} : Launches(outcome)
    BY <1>7 DEF LaunchFails
  <2>3. QED
    BY <1>5, <2>1, <2>2
<1>8. CASE Apply
  <2>1. want' \in BOOLEAN /\ asked' \in BOOLEAN
    BY <1>8 DEF Apply, TypeOK
  <2>2. ScriptTypes'
    BY <1>8, DoneTypes DEF Apply
  <2>3. QED
    BY <1>8, <2>1, <2>2
    DEF Apply, ScriptTypes, TypeOK, settings, evidence, service, world, bounds
<1>9. CASE ApplyFails
  <2>1. ScriptTypes'
    BY <1>9, DoneTypes DEF ApplyFails, TypeOK, ScriptTypes, Phases
  <2>2. QED
    BY <1>9, <2>1, BoundAssumption
    DEF ApplyFails, ScriptTypes, TypeOK, settings, evidence, service, world, history
<1>10. QED
  BY <1>1, <1>2, <1>3, <1>4, <1>6, <1>7, <1>8, <1>9 DEF StopOrStart

LEMMA RequestTypes == TypeOK /\ (Request \/ Boots) => TypeOK'
<1> SUFFICES ASSUME TypeOK, Request \/ Boots PROVE TypeOK'
  OBVIOUS
<1>1. CASE RequestStart
  <2>1. ScriptTypes'
    BY <1>1, DoneTypes DEF RequestStart, Begins, TypeOK, ScriptTypes, Phases
  <2>2. QED
    BY <1>1, <2>1
    DEF RequestStart, Begins, ScriptTypes, TypeOK, settings, evidence, world, bounds
<1>2. CASE RequestRestart
  <2>1. ScriptTypes'
    BY <1>2, DoneTypes DEF RequestRestart, Begins, TypeOK, ScriptTypes, Phases
  <2>2. QED
    BY <1>2, <2>1
    DEF RequestRestart, Begins, ScriptTypes, TypeOK, settings, evidence, world, bounds
<1>3. CASE RequestStop
  <2>1. ScriptTypes'
    BY <1>3, DoneTypes DEF RequestStop, Begins, TypeOK, ScriptTypes, Phases
  <2>2. QED
    BY <1>3, <2>1
    DEF RequestStop, Begins, ScriptTypes, TypeOK, settings, evidence, world, bounds
<1>4. CASE Boots
  <2>1. ScriptTypes'
    BY <1>4, DoneTypes DEF Boots, TypeOK, ScriptTypes, Phases
  <2>2. boot' \in BOOLEAN /\ asked' \in BOOLEAN
    BY <1>4 DEF Boots, TypeOK
  <2>3. QED
    BY <1>4, <2>1, <2>2
    DEF Boots, ScriptTypes, TypeOK, settings, evidence, service, bounds
<1>5. QED
  BY <1>1, <1>2, <1>3, <1>4 DEF Request

LEMMA SurroundTypes == TypeOK /\ Surround => TypeOK'
<1> SUFFICES ASSUME TypeOK, Surround PROVE TypeOK'
  OBVIOUS
<1>1. CASE SettingChanges
  <2>1. ScriptTypes'
    BY <1>1 DEF SettingChanges, TypeOK, ScriptTypes, script
  <2>2. enable' \in BOOLEAN /\ recover' \in BOOLEAN
    BY <1>1 DEF SettingChanges, TypeOK
  <2>3. QED
    BY <1>1, <2>1, <2>2
    DEF SettingChanges, ScriptTypes, TypeOK, evidence, service, world, history, bounds
<1>2. CASE CommandLine
  <2>1. want' \in BOOLEAN /\ asked' \in BOOLEAN
    BY <1>2 DEF CommandLine, TypeOK
  <2>2. QED
    BY <1>2, <2>1
    DEF CommandLine, TypeOK, settings, evidence, service, world, script, bounds
<1>3. CASE DaemonChanges
  <2>1. ScriptTypes'
    BY <1>3 DEF DaemonChanges, TypeOK, ScriptTypes, script
  <2>2. QED
    BY <1>3, <2>1
    DEF DaemonChanges, ScriptTypes, TypeOK, settings, evidence, service, world, history, bounds
<1>4. CASE NetChanges
  <2>1. ScriptTypes'
    BY <1>4 DEF NetChanges, TypeOK, ScriptTypes, script
  <2>2. QED
    BY <1>4, <2>1
    DEF NetChanges, ScriptTypes, TypeOK, settings, evidence, service, history, bounds
<1>5. CASE TimePasses
  <2>1. clock' \in Clock
    BY <1>5, ClockAssumption DEF TimePasses, TypeOK, Clock
  <2>2. QED
    BY <1>5, <2>1
    DEF TimePasses, TypeOK, settings, evidence, service, script, history, bounds
<1>6. CASE ClockJumps
  <2>1. ScriptTypes'
    BY <1>6 DEF ClockJumps, TypeOK, ScriptTypes, script
  <2>2. clock' \in Clock
    BY <1>6 DEF ClockJumps, TypeOK
  <2>3. QED
    BY <1>6, <2>1, <2>2, BoundAssumption
    DEF ClockJumps, ScriptTypes, TypeOK, settings, evidence, service, history
<1>7. QED
  BY <1>1, <1>2, <1>3, <1>4, <1>5, <1>6 DEF Surround

LEMMA CrashTypes == TypeOK /\ (Killed \/ Reboot) => TypeOK'
<1> SUFFICES ASSUME TypeOK, Killed \/ Reboot PROVE TypeOK'
  OBVIOUS
<1>1. CASE Killed
  <2>1. ScriptTypes'
    BY <1>1, DoneTypes DEF Killed, TypeOK, ScriptTypes, Phases
  <2>2. QED
    BY <1>1, <2>1, BoundAssumption
    DEF Killed, ScriptTypes, TypeOK, settings, evidence, service, world, history
<1>2. CASE Reboot
  <2>1. ScriptTypes'
    BY <1>2, DoneTypes DEF Reboot, TypeOK, ScriptTypes, Phases
  <2>2. stopped' \in BOOLEAN /\ cron' \in BOOLEAN /\ boot' \in BOOLEAN
    BY <1>2 DEF Reboot, TypeOK
  <2>3. QED
    BY <1>2, <2>1, <2>2, BoundAssumption
    DEF Reboot, ScriptTypes, TypeOK, Strikes, NoTime, settings, history
<1>3. QED
  BY <1>1, <1>2

LEMMA StepTypes == TypeOK /\ [Next]_vars => TypeOK'
<1> SUFFICES ASSUME TypeOK, [Next]_vars PROVE TypeOK'
  OBVIOUS
<1>1. CASE UNCHANGED vars
  <2>1. ScriptTypes'
    BY <1>1 DEF vars, script, TypeOK, ScriptTypes
  <2>2. QED
    BY <1>1, <2>1
    DEF vars, ScriptTypes, TypeOK, settings, evidence, service, world, history, bounds
<1>2. CASE Next
  BY <1>2, TickTypes, JudgeTypes, ConfirmTypes, SpendTypes, StopOrStartTypes,
     RequestTypes, SurroundTypes, CrashTypes
  DEF Next, ScriptStep
<1>3. QED
  BY <1>1, <1>2

\* Every variable keeps its type, for all values of the constants: in particular
\* the failure counter never leaves its cap, and every time that is written down
\* is a reading of the clock.
THEOREM TypeCorrect == Spec => []TypeOK
<1>1. QED
  BY InitTypes, StepTypes, PTL DEF Spec

-----------------------------------------------------------------------------
(* The restart budget *)

\* The budget that a script has read still holds until it spends it: the ledger
\* is its own meanwhile, and so is the time it goes by.
StillAllowed == pc \in {"confirm", "probe", "reserve"} => Allowed(now)

\* The strengthened budget.  BudgetKept alone is not inductive: that a recovery
\* may begin now is known from the ledger, so every recovery that still matters
\* must be in it, and what the script read from it before its probes must still
\* hold when it spends the budget.
Budget == TypeOK /\ BudgetKept /\ Counted /\ StillAllowed

\* The phases in which a script relies on the budget it has read.
Relying == {"confirm", "probe", "reserve"}

\* A step that spends nothing and, if it relies on the budget afterwards, either
\* did so before for the same time or has just read it.
Frugal ==
  /\ UNCHANGED <<ledger, attempts, dropped>>
  /\ pc' = "begin" => pc = "begin" /\ now' = now
  /\ pc' \in Relying => (pc \in Relying /\ now' = now) \/ Allowed(now)'

\* Two different members make a set of at least two.
LEMMA TwoMembers ==
  ASSUME NEW S, IsFiniteSet(S), NEW a \in S, NEW b \in S, a # b
  PROVE  ~(Cardinality(S) < 2)
<1>1. IsFiniteSet({a}) /\ Cardinality({a}) = 1
  BY FS_Singleton
<1>2. Cardinality({a} \cup {b}) = Cardinality({a}) + 1 /\ IsFiniteSet({a} \cup {b})
  BY <1>1, FS_AddElement
<1>3. {a} \cup {b} \subseteq S
  OBVIOUS
<1>4. Cardinality({a} \cup {b}) <= Cardinality(S)
  BY <1>3, FS_Subset
<1>5. Cardinality(S) \in Nat
  BY FS_CardinalityType
<1>6. QED
  BY <1>1, <1>2, <1>4, <1>5

\* What the ledger allows now is far enough from every recovery on the books,
\* because those the ledger has forgotten are more than a Day old.
LEMMA AllowedIsApart ==
  ASSUME TypeOK, pc # "begin", Counted, NEW t \in Clock, Allowed(t)
  PROVE  /\ \A a \in attempts \ dropped : t - a >= Gap
         /\ \A a, b \in attempts \ dropped : a < b => t - a >= Day
<1> USE LimitsAssumption
<1>1. t \in Int /\ ledger \subseteq Int /\ attempts \ dropped \subseteq Int
  BY ClockAssumption DEF TypeOK, Clock
<1>2. \A a \in attempts \ dropped : a \in ledger \/ t - a >= Day
  BY <1>1 DEF Counted, Booked, Begun, Allowed
<1>3. \A a \in attempts \ dropped : t - a >= Gap
  BY <1>1, <1>2 DEF Allowed
<1>4. ASSUME NEW a \in attempts \ dropped, NEW b \in attempts \ dropped,
             a < b, ~(t - a >= Day)
      PROVE  FALSE
  <2>1. a \in Recent(t) /\ b \in Recent(t)
    BY <1>1, <1>2, <1>3, <1>4 DEF Recent
  <2>2. a # b
    BY <1>1, <1>4
  <2>3. IsFiniteSet(Recent(t))
    BY RecentType
  <2>4. QED
    BY <2>1, <2>2, <2>3, TwoMembers DEF Allowed, PerDay
<1>5. QED
  BY <1>3, <1>4

LEMMA InitBudget == Init => Budget
<1>1. Init => BudgetKept /\ Counted /\ StillAllowed
  BY DEF Init, BudgetKept, Counted, StillAllowed, Booked, Begun
<1>2. QED
  BY <1>1, InitTypes DEF Budget

\* A frugal step keeps the budget.
LEMMA FrugalKeeps ==
  ASSUME Budget, TypeOK', Frugal
  PROVE  Budget'
<1>1. Booked' \subseteq Booked
  BY DEF Frugal, Booked, Begun
<1>2. pc' = "begin" => now' \notin attempts' \ dropped'
  BY DEF Frugal, Budget, BudgetKept
<1>3. BudgetKept'
  BY <1>1, <1>2 DEF Budget, BudgetKept
<1>4. Counted'
  BY <1>1 DEF Budget, Counted, Frugal
<1>5. Allowed(now) /\ UNCHANGED <<ledger, now>> => Allowed(now)'
  BY DEF Allowed, Recent
<1>6. StillAllowed'
  BY <1>5 DEF Budget, StillAllowed, Frugal, Relying
<1>7. QED
  BY <1>3, <1>4, <1>6 DEF Budget

\* A recovery that is booked with the budget that was read keeps the limits.
LEMMA SpendingKeepsLimits ==
  ASSUME Budget, pc = "reserve", pc' = "begin", UNCHANGED <<now, attempts>>,
         dropped \subseteq dropped'
  PROVE  BudgetKept'
<1> USE LimitsAssumption
<1>1. now \in Clock /\ now \in Int /\ attempts \subseteq Int
  BY ClockAssumption DEF Budget, TypeOK, Clock
<1>2. /\ \A a \in attempts \ dropped : now - a >= Gap
      /\ \A a, b \in attempts \ dropped : a < b => now - a >= Day
  BY <1>1, AllowedIsApart DEF Budget, StillAllowed
<1>3. Booked = attempts \ dropped /\ Booked' \subseteq (attempts \ dropped) \cup {now}
  BY DEF Booked, Begun
<1>4. now' \notin attempts' \ dropped'
  BY <1>1, <1>2
<1>5. \A a, b \in Booked' : a < b => b - a >= Gap
  BY <1>1, <1>2, <1>3 DEF Budget, BudgetKept
<1>6. \A a, b, c \in Booked' : a < b /\ b < c => c - a >= Day
  <2> SUFFICES ASSUME NEW a \in Booked', NEW b \in Booked', NEW c \in Booked',
                      a < b, b < c
               PROVE  c - a >= Day
    OBVIOUS
  <2>1. a \in attempts \ dropped /\ b \in attempts \ dropped
    BY <1>1, <1>2, <1>3
  <2>2. CASE c = now
    BY <1>2, <2>1, <2>2
  <2>3. CASE c \in attempts \ dropped
    BY <1>3, <2>1, <2>3 DEF Budget, BudgetKept
  <2>4. QED
    BY <1>3, <2>2, <2>3
<1>7. QED
  BY <1>4, <1>5, <1>6 DEF BudgetKept

\* A recovery that is missing in a ledger which was allowed to be pruned is
\* more than a Day older than the new entry.
LEMMA PrunedIsOld ==
  ASSUME Budget, pc = "reserve", NEW a \in attempts \ dropped, a \notin Recent(now)
  PROVE  now - a >= Day
<1> USE LimitsAssumption
<1>1. now \in Int /\ ledger \subseteq Int /\ a \in Int
  BY ClockAssumption DEF Budget, TypeOK, Clock
<1>2. Allowed(now) /\ a \in Booked
  BY DEF Budget, StillAllowed, Booked, Begun
<1>3. CASE a \in ledger
  BY <1>1, <1>2, <1>3 DEF Allowed, Recent
<1>4. CASE a \notin ledger
  <2>1. PICK l \in ledger : l - a >= Day
    BY <1>2, <1>4 DEF Budget, Counted
  <2>2. QED
    BY <1>1, <1>2, <2>1 DEF Allowed
<1>5. QED
  BY <1>3, <1>4

\* Writing the ledger spends the budget that was read.
LEMMA ReserveKeeps ==
  ASSUME Budget, TypeOK', Reserve
  PROVE  Budget'
<1>1. /\ now' = now /\ attempts' = attempts /\ dropped' = dropped
      /\ pc = "reserve" /\ pc' = "begin" /\ ledger' = Recent(now) \cup {now}
  BY DEF Reserve, history
<1>2. BudgetKept'
  BY <1>1, SpendingKeepsLimits
<1>3. ASSUME NEW a \in Booked'
      PROVE  a \in ledger' \/ \E l \in ledger' : l - a >= Day
  <2>1. a \in (attempts \ dropped) \cup {now}
    BY <1>1, <1>3 DEF Booked, Begun
  <2>2. QED
    BY <1>1, <2>1, PrunedIsOld
<1>4. Counted' /\ StillAllowed'
  BY <1>1, <1>3 DEF Counted, StillAllowed
<1>5. QED
  BY <1>2, <1>4 DEF Budget

\* So does writing a part of it: what stays on the books is listed, or is old by
\* the new entry.
LEMMA LosingKeeps ==
  ASSUME Budget, TypeOK', ReserveLosesLines
  PROVE  Budget'
<1>1. PICK kept \in SUBSET (Recent(now) \cup {now}) :
        ledger' = kept /\ dropped' = dropped \cup Unrecorded(kept)
  BY DEF ReserveLosesLines
<1>2. /\ now' = now /\ attempts' = attempts
      /\ pc = "reserve" /\ pc' = "begin"
  BY DEF ReserveLosesLines
<1>3. BudgetKept'
  BY <1>1, <1>2, SpendingKeepsLimits
<1>4. ASSUME NEW a \in Booked', a \notin ledger'
      PROVE  \E l \in ledger' : l - a >= Day
  <2>1. a \in (attempts \cup {now}) \ dropped /\ a \notin Unrecorded(kept)
    BY <1>1, <1>2, <1>4 DEF Booked, Begun
  <2>2. now \in kept /\ a \in attempts \ dropped /\ a \notin Recent(now)
    BY <1>1, <1>4, <2>1 DEF Unrecorded
  <2>3. QED
    BY <1>1, <1>2, <2>2, PrunedIsOld
<1>5. Counted' /\ StillAllowed'
  BY <1>2, <1>4 DEF Counted, StillAllowed
<1>6. QED
  BY <1>3, <1>5 DEF Budget

\* Beginning the recovery only moves it from the script to the history.
LEMMA BeginKeeps ==
  ASSUME Budget, TypeOK', Begin
  PROVE  Budget'
<1>1. /\ pc = "begin" /\ pc' = "unschedule" /\ ledger' = ledger
      /\ attempts' = attempts \cup {now} /\ dropped' = dropped
  BY DEF Begin
<1>2. Booked' = Booked
  BY <1>1 DEF Booked, Begun
<1>3. QED
  BY <1>1, <1>2 DEF Budget, BudgetKept, Counted, StillAllowed

\* A check either ends or goes on with the budget it has just read.
LEMMA JudgeIsFrugal == Judge => Frugal
<1> SUFFICES ASSUME Judge PROVE Frugal
  OBVIOUS
<1>1. UNCHANGED <<ledger, attempts, dropped, clock>>
  BY DEF Judge, GrantGrace, StayInGrace, Settle, CountFailure, TimeOutage, world, history
<1>2. Done \/ Consider("service") \/ Consider("control")
  BY DEF Judge, GrantGrace, StayInGrace, Settle, CountFailure, TimeOutage
<1>3. CASE Done
  BY <1>1, <1>3 DEF Done, Frugal, Relying
<1>4. ASSUME NEW reason, Consider(reason), ~Done
      PROVE  Frugal
  <2>1. pc' = "confirm" /\ now' = clock /\ Allowed(clock)
    BY <1>4 DEF Consider
  <2>2. Allowed(now)'
    BY <1>1, <2>1 DEF Allowed, Recent
  <2>3. QED
    BY <1>1, <2>1, <2>2 DEF Frugal, Relying
<1>5. QED
  BY <1>2, <1>3, <1>4

\* The fresh sample and the WAN probe leave the budget as it was read.
LEMMA ConfirmIsFrugal == Confirm \/ Probe => Frugal
<1> SUFFICES ASSUME Confirm \/ Probe PROVE Frugal
  OBVIOUS
<1>1. UNCHANGED <<ledger, attempts, dropped>> /\ pc \in Relying
  BY DEF Confirm, Probe, Relying, history
<1>2. Done \/ (pc' \in Relying /\ now' = now)
  BY DEF Confirm, Probe, Relying
<1>3. QED
  BY <1>1, <1>2 DEF Frugal, Relying, Done

\* Everything else keeps its hands off the ledger and the script's reading of it.
LEMMA OthersAreFrugal ==
  Tick \/ ReserveFails \/ StopOrStart \/ Request \/ Boots \/ Surround \/ Killed \/ Reboot
    => Frugal
<1> DEFINE Apart == UNCHANGED <<ledger, attempts, dropped>>
           Elsewhere == pc' \notin Relying \cup {"begin"}
<1>1. Tick => Apart /\ (Elsewhere \/ UNCHANGED <<pc, now>>)
  BY DEF Tick, Relying, history
<1>2. ReserveFails \/ Killed \/ Reboot => Apart /\ Elsewhere
  BY DEF ReserveFails, Killed, Reboot, Done, Relying, history
<1>3. StopOrStart => Apart /\ Elsewhere
  BY DEF StopOrStart, Unschedule, KillDaemon, ReadConfig, ReadConfigFails, Launch,
         LaunchFails, Launches, Apply, ApplyFails, Done, Relying, history
<1>4. Request \/ Boots => Apart /\ Elsewhere
  BY DEF Request, RequestStart, RequestRestart, RequestStop, Begins, Boots, Relying
<1>5. Surround => Apart /\ UNCHANGED <<pc, now>>
  BY DEF Surround, SettingChanges, CommandLine, DaemonChanges, NetChanges,
         TimePasses, ClockJumps, script, history
<1>6. Apart /\ (Elsewhere \/ UNCHANGED <<pc, now>>) => Frugal
  BY DEF Frugal, Relying
<1>7. QED
  BY <1>1, <1>2, <1>3, <1>4, <1>5, <1>6

\* A step is frugal unless it writes the ledger or begins what was written.
LEMMA StepKinds ==
  [Next]_vars => Frugal \/ Reserve \/ ReserveLosesLines \/ Begin
<1>1. UNCHANGED vars => Frugal
  BY DEF vars, Frugal, script, history
<1>2. QED
  BY <1>1, JudgeIsFrugal, ConfirmIsFrugal, OthersAreFrugal DEF Next, ScriptStep, Spend

LEMMA BudgetInvariant == Spec => []Budget
<1>1. Budget /\ [Next]_vars => Budget'
  <2>1. Budget /\ [Next]_vars => TypeOK'
    BY StepTypes DEF Budget
  <2>2. QED
    BY <2>1, StepKinds, FrugalKeeps, ReserveKeeps, LosingKeeps, BeginKeeps
<1>2. QED
  BY <1>1, InitBudget, PTL DEF Spec

\* The limits of automatic recovery hold whatever the limits are: no two within
\* Gap, no three within a Day, over crashes, reboots and clock changes, and a
\* full flash excuses only the recoveries whose lines it lost.
THEOREM RestartsAreLimited == Spec => []BudgetKept
<1>1. Budget => BudgetKept
  BY DEF Budget
<1>2. QED
  BY <1>1, BudgetInvariant, PTL

\* No recovery begins before the ledger has it, and it stays there while it counts.
THEOREM RestartsAreCounted == Spec => []Counted
<1>1. Budget => Counted
  BY DEF Budget
<1>2. QED
  BY <1>1, BudgetInvariant, PTL

-----------------------------------------------------------------------------
(* The user's intent *)

\* A step that leaves the intent alone, or follows what was asked for.
Obeys ==
  \/ want' = want /\ (asked' = asked \/ asked' = TRUE)
  \/ want' => asked'

LEMMA StepObeys == TypeOK /\ [Next]_vars => Obeys
<1> SUFFICES ASSUME TypeOK, [Next]_vars PROVE Obeys
  OBVIOUS
<1> DEFINE Same == want' = want /\ asked' = asked
<1>1. Tick \/ Judge \/ Confirm \/ Probe \/ Spend => Same
  BY DEF Tick, Judge, GrantGrace, StayInGrace, Settle, CountFailure, TimeOutage,
         Confirm, Probe, Spend, Reserve, ReserveFails, ReserveLosesLines, Begin, history
<1>2. StopOrStart => Same \/ Apply
  BY DEF StopOrStart, Unschedule, KillDaemon, ReadConfig, ReadConfigFails, Launch,
         LaunchFails, Launches, ApplyFails, history
<1>3. Apply => Obeys
  BY DEF Apply, Connects, Obeys
<1>4. Request \/ Boots => Obeys
  BY DEF Request, RequestStart, RequestRestart, RequestStop, Begins, Boots, Obeys
<1>5. Surround => Same \/ CommandLine
  BY DEF Surround, SettingChanges, DaemonChanges, NetChanges,
         TimePasses, ClockJumps, history
<1>6. CommandLine => Obeys
  BY DEF CommandLine, Obeys
<1>7. Killed \/ Reboot \/ UNCHANGED vars => Same
  BY DEF Killed, Reboot, vars, history
<1>8. Same => Obeys
  BY DEF Obeys
<1>9. QED
  BY <1>1, <1>2, <1>3, <1>4, <1>5, <1>6, <1>7, <1>8 DEF Next, ScriptStep

\* An intent that a disconnect withdrew returns only with a start that the user
\* or the boot script asked for, or with the user's own command, however starts,
\* recoveries, crashes and those commands are interleaved.
THEOREM RecoveryNeverConnects == Spec => []NeverUninvited
<1>1. Init => NeverUninvited
  BY DEF Init, NeverUninvited
<1>2. NeverUninvited /\ Obeys => NeverUninvited'
  BY DEF NeverUninvited, Obeys
<1>3. QED
  BY <1>1, <1>2, StepObeys, TypeCorrect, PTL DEF Spec

-----------------------------------------------------------------------------
(* The steps a script has left *)

StepsFrom ==
  [idle |-> 0, apply |-> 1, launch |-> 2, start |-> 3, kill |-> 4, unschedule |-> 5,
   begin |-> 6, reserve |-> 7, probe |-> 8, confirm |-> 9, judge |-> 10]

\* A script that holds the lock gets nearer to its end with each of its steps,
\* and nothing around it sends it back (tailscale_lib.sh:736-816).
ScriptsEnd ==
  [][/\ ScriptStep => StepsFrom[pc'] < StepsFrom[pc]
     /\ pc # "idle" => StepsFrom[pc'] <= StepsFrom[pc]]_vars

\* The bound on the steps from each place.
LEMMA StepsFromIs ==
  /\ StepsFrom["idle"] = 0 /\ StepsFrom["apply"] = 1 /\ StepsFrom["launch"] = 2
  /\ StepsFrom["start"] = 3 /\ StepsFrom["kill"] = 4 /\ StepsFrom["unschedule"] = 5
  /\ StepsFrom["begin"] = 6 /\ StepsFrom["reserve"] = 7 /\ StepsFrom["probe"] = 8
  /\ StepsFrom["confirm"] = 9 /\ StepsFrom["judge"] = 10
BY DEF StepsFrom

\* Each step of a script leads to a place with fewer.
LEMMA ScriptStepsDown ==
  ASSUME TypeOK, ScriptStep
  PROVE  StepsFrom[pc'] < StepsFrom[pc]
<1> USE StepsFromIs
<1>1. CASE Judge
  BY <1>1 DEF Judge, GrantGrace, StayInGrace, Settle, CountFailure, TimeOutage, Consider, Done
<1>2. CASE Confirm
  <2>1. pc = "confirm" /\ (pc' = "idle" \/ pc' \in {"reserve", "probe"})
    BY <1>2, Zenon DEF Confirm, Done
  <2> QED BY <2>1
<1>3. CASE Probe
  BY <1>3 DEF Probe, Done
<1>4. CASE Spend
  BY <1>4 DEF Spend, Reserve, ReserveFails, ReserveLosesLines, Begin, Done
<1>5. CASE StopOrStart
  BY <1>5 DEF StopOrStart, Unschedule, KillDaemon, ReadConfig, ReadConfigFails, Launch,
     LaunchFails, Launches, Apply, ApplyFails, Done
<1> QED BY <1>1, <1>2, <1>3, <1>4, <1>5 DEF ScriptStep

\* A script is over after at most ten of its steps, whatever fails and whatever
\* happens around it.
THEOREM EveryScriptEnds == Spec => ScriptsEnd
<1>1. TypeOK /\ [Next]_vars =>
        [/\ ScriptStep => StepsFrom[pc'] < StepsFrom[pc]
         /\ pc # "idle" => StepsFrom[pc'] <= StepsFrom[pc]]_vars
  <2> SUFFICES ASSUME TypeOK, [Next]_vars
               PROVE  /\ ScriptStep => StepsFrom[pc'] < StepsFrom[pc]
                      /\ pc # "idle" => StepsFrom[pc'] <= StepsFrom[pc]
    OBVIOUS
  <2>1. StepsFrom[pc] \in 0 .. 10 /\ StepsFrom[pc'] \in 0 .. 10
    BY StepTypes, StepsFromIs DEF TypeOK, Phases
  <2>2. ASSUME pc # "idle", ~ScriptStep PROVE pc' \in {pc, "idle"}
    BY <2>2
    DEF Next, Tick, Request, RequestStart, RequestRestart, RequestStop, Begins, Boots,
        Surround, SettingChanges, CommandLine, DaemonChanges, NetChanges, TimePasses,
        ClockJumps, Killed, Reboot, Done, vars, script
  <2> QED BY <2>1, <2>2, ScriptStepsDown, StepsFromIs
<1> QED BY <1>1, TypeCorrect, PTL DEF Spec, ScriptsEnd

-----------------------------------------------------------------------------
(* What a stuck service is owed *)

\* The service is gone or hung, and the watchdog may act.
Stuck == daemon # "live" /\ Armed

\* The checks that may still have to count before one considers a recovery: one
\* may only grant grace for a lost started-at.
ChecksLeft == (IF started = NoTime THEN 1 ELSE 0) + (Strikes - failures)

\* The script that runs is the check, or the recovery, that the service needs.
Informed ==
  \/ pc = "judge" /\ Failed
  \/ pc = "confirm" /\ kind = "service"
  \/ pc \in {"reserve", "begin"}
  \/ pc = "unschedule" /\ mode = "automatic"

\* How far a stuck service is from its restart.  A script that is about something
\* else, or judges by a sample from before, has to end first.
StepsToRestart ==
  IF pc = "idle" THEN 20 + 2 * ChecksLeft
  ELSE IF pc = "judge" /\ Informed THEN 19 + 2 * ChecksLeft
  ELSE IF Informed THEN StepsFrom[pc]
  ELSE 40 + StepsFrom[pc]

\* No command fails, nobody kills a script or asks for an operation.
Undisturbed == faults' = faults /\ crashes' = crashes /\ ~Request

\* As long as the service is stuck and the watchdog may act, every minute and
\* every step of a script brings the restart nearer, and neither the clock nor
\* the settings, the network or the daemon puts it off (tailscale_lib.sh:755-816).
StuckWearsOff ==
  [][Stuck /\ Stuck' /\ Undisturbed =>
       /\ StepsToRestart' <= StepsToRestart
       /\ Tick \/ ScriptStep => StepsToRestart' < StepsToRestart]_vars

\* The check counts, or considers a recovery that the budget allows; one that
\* judges by an older sample ends.
LEMMA JudgeBringsNearer ==
  ASSUME TypeOK, Judge, Stuck, Stuck'
  PROVE  StepsToRestart' < StepsToRestart
<1> USE StepsFromIs
<1>1. /\ started # NoTime => ~InGrace(clock)
      /\ Allowed(clock)
      /\ ChecksLeft \in 0 .. 4 /\ ChecksLeft' \in 0 .. 4
  BY StepTypes DEF Stuck, Armed, ChecksLeft, TypeOK, Strikes, Next, ScriptStep
<1>2. pc = "judge" /\ (pc' = "idle" \/ (pc' = "confirm" /\ ~Failed) \/ (pc' = "confirm" /\ kind' = "service"))
  BY DEF Judge, GrantGrace, StayInGrace, Settle, CountFailure, TimeOutage, Consider, Done
<1>3. CASE ~Failed
  BY <1>1, <1>2, <1>3 DEF StepsToRestart, Informed
<1>4. CASE Failed /\ pc' = "confirm"
  BY <1>1, <1>2, <1>4 DEF StepsToRestart, Informed
<1>5. CASE Failed /\ pc' = "idle"
  <2>1. CASE GrantGrace
    <3>1. started' # NoTime /\ started = NoTime /\ failures' = failures
      BY <2>1, ClockAssumption DEF GrantGrace, TypeOK, Clock, NoTime, evidence
    <3> QED
      BY <1>1, <1>2, <1>5, <2>1, <3>1 DEF StepsToRestart, Informed, ChecksLeft, TypeOK, Strikes
  <2>2. CASE CountFailure
    <3>1. /\ started # NoTime /\ started' = started
          /\ failures' = failures + 1
      BY <1>1, <1>5, <2>2 DEF CountFailure, TypeOK, Strikes, Consider, service
    <3> QED
      BY <1>1, <1>2, <1>5, <3>1 DEF StepsToRestart, Informed, ChecksLeft, TypeOK, Strikes
  <2> QED
    BY <1>1, <1>5, <2>1, <2>2 DEF Judge, StayInGrace, Settle, TimeOutage, Failed
<1> QED BY <1>2, <1>3, <1>4, <1>5

\* So does every other step of a script.
LEMMA OthersBringNearer ==
  ASSUME TypeOK, Confirm \/ Probe \/ Spend \/ StopOrStart, Stuck, Stuck', Undisturbed
  PROVE  StepsToRestart' < StepsToRestart
<1> USE StepsFromIs
<1>1. ChecksLeft' \in 0 .. 4
  BY StepTypes DEF ChecksLeft, TypeOK, Strikes, Next, ScriptStep
<1>2. cron' /\ faults' = faults /\ faults \in Nat
  BY BoundAssumption DEF Stuck, Armed, Undisturbed, TypeOK
<1>3. CASE Confirm
  <2>1. Statuses = {"failed"}
    BY Zenon DEF Statuses, Stuck
  <2>2. /\ pc = "confirm"
        /\ \/ kind = "service" /\ pc' = "reserve"
           \/ kind # "service" /\ pc' = "idle"
    BY <1>3, <2>1, Zenon DEF Confirm, Done
  <2> QED BY <1>1, <2>2 DEF StepsToRestart, Informed
<1>4. CASE Probe
  BY <1>1, <1>4 DEF Probe, Done, StepsToRestart, Informed
<1>5. CASE Spend
  BY <1>1, <1>2, <1>5
  DEF Spend, Reserve, ReserveFails, ReserveLosesLines, Begin, Done, StepsToRestart, Informed
<1>6. CASE StopOrStart
  <2>1. ~Unschedule
    BY <1>2 DEF Unschedule
  <2>2. CASE pc' = "idle"
    <3>1. pc \in {"kill", "start", "launch", "apply"}
      BY <1>6, <2>1
      DEF StopOrStart, KillDaemon, ReadConfig, ReadConfigFails, Launch, LaunchFails,
          Apply, ApplyFails
    <3> QED BY <1>1, <2>2, <3>1 DEF StepsToRestart, Informed
  <2>3. CASE pc' # "idle"
    <3>1. ~(ReadConfigFails \/ LaunchFails \/ ApplyFails)
      BY <1>2 DEF ReadConfigFails, LaunchFails, ApplyFails
    <3>2. \/ pc = "kill" /\ pc' = "start"
          \/ pc = "start" /\ pc' = "launch"
          \/ pc = "launch" /\ pc' = "apply"
      BY <1>6, <2>1, <2>3, <3>1
      DEF StopOrStart, KillDaemon, ReadConfig, Launch, Launches, Apply, Done
    <3> QED BY <3>2 DEF StepsToRestart, Informed
  <2> QED BY <2>2, <2>3
<1> QED BY <1>3, <1>4, <1>5, <1>6

\* The check that the minute brings is about the service as it is.
LEMMA TickBringsNearer ==
  ASSUME TypeOK, Tick, Stuck
  PROVE  StepsToRestart' < StepsToRestart
<1>1. Statuses = {"failed"}
  BY Zenon DEF Statuses, Stuck
<1>2. pc = "idle" /\ pc' = "judge" /\ sample' = "failed"
  BY <1>1 DEF Tick
<1>3. ChecksLeft' = ChecksLeft /\ ChecksLeft \in 0 .. 4
  BY DEF Tick, ChecksLeft, TypeOK, Strikes, service, evidence
<1> QED BY <1>2, <1>3 DEF StepsToRestart, Informed, Failed

\* What happens around the script puts nothing off: a daemon that hangs and then
\* dies only makes an older sample agree.
LEMMA NothingPutsOff ==
  ASSUME TypeOK, Boots \/ Surround \/ Killed \/ Reboot \/ UNCHANGED vars,
         Stuck, Stuck', Undisturbed
  PROVE  StepsToRestart' <= StepsToRestart
<1>1. ~(Boots \/ Killed \/ Reboot)
  BY BoundAssumption DEF Boots, Killed, Reboot, Stuck, Armed, Undisturbed, TypeOK
<1>2. /\ UNCHANGED <<pc, kind, mode, sample, started, failures>>
      /\ daemon = "gone" => daemon' = "gone"
  BY <1>1 DEF Surround, SettingChanges, CommandLine, DaemonChanges, NetChanges, TimePasses,
     ClockJumps, vars, script, service, evidence
<1>3. ChecksLeft' = ChecksLeft /\ ChecksLeft \in 0 .. 4
  BY <1>2 DEF ChecksLeft, TypeOK, Strikes
<1>4. Informed => Informed'
  BY <1>2 DEF Informed, Failed
<1>5. Informed' => Informed \/ pc = "judge"
  BY <1>2 DEF Informed
<1> QED
  BY <1>2, <1>3, <1>4, <1>5, StepsFromIs DEF StepsToRestart, TypeOK, Phases

\* The argument beneath StuckServiceRestarted, but for fairness: while the service
\* is stuck and the watchdog may act, at most 50 checks and steps of scripts are
\* left before it is restarted, and nothing but a command that fails, a crash or
\* the user adds to them.
THEOREM RestartComesNearer == Spec => StuckWearsOff
<1>1. TypeOK /\ [Next]_vars =>
        [Stuck /\ Stuck' /\ Undisturbed =>
           /\ StepsToRestart' <= StepsToRestart
           /\ Tick \/ ScriptStep => StepsToRestart' < StepsToRestart]_vars
  <2> SUFFICES ASSUME TypeOK, [Next]_vars, Stuck, Stuck', Undisturbed
               PROVE  /\ StepsToRestart' <= StepsToRestart
                      /\ Tick \/ ScriptStep => StepsToRestart' < StepsToRestart
    OBVIOUS
  <2>1. StepsToRestart \in Nat /\ StepsToRestart' \in Nat
    BY StepTypes, StepsFromIs
    DEF StepsToRestart, ChecksLeft, TypeOK, Strikes, Phases
  <2>2. Tick \/ ScriptStep => StepsToRestart' < StepsToRestart
    BY JudgeBringsNearer, OthersBringNearer, TickBringsNearer DEF ScriptStep
  <2>3. CASE Tick \/ ScriptStep
    BY <2>1, <2>2, <2>3
  <2>4. CASE ~(Tick \/ ScriptStep)
    BY <2>2, <2>4, NothingPutsOff DEF Next, Undisturbed
  <2> QED BY <2>3, <2>4
<1> QED BY <1>1, TypeCorrect, PTL DEF Spec, StuckWearsOff
=============================================================================
