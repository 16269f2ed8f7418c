------------------------------ MODULE Watchdog ------------------------------
(***************************************************************************)
(* The automatic recovery of tailscale_lib.sh: the minute task that checks *)
(* the service, the evidence it gathers, the persistent ledger that limits *)
(* it to two restarts a day, and the start and stop it shares with the     *)
(* user's operations.                                                      *)
(*                                                                         *)
(* Scripts hold the operation lock, so one program counter is enough.      *)
(* Between two of its steps the daemon may die or hang, the network, the   *)
(* settings and the clock may change, the script may be killed and the     *)
(* router may lose power.  No core transaction is pending: while one is,   *)
(* the task does nothing, and CoreTxn has what ends it.                    *)
(*                                                                         *)
(* Time is counted in units in which Grace, Patience, Gap and Day stand    *)
(* for 180, 600, 1800 and 86400 seconds.                                   *)
(***************************************************************************)
EXTENDS Integers, FiniteSets

CONSTANTS Grace,       \* a started service is not judged for so long
          Patience,    \* how long the control connection must have been away
          Gap,         \* least time between two recoveries
          Day,         \* the window in which there are at most two
          Events,      \* what may happen around the watchdog
          First,       \* the earliest reading of the clock
          MaxNow,      \* bound on the readings of the clock
          MaxJumps,    \* bound on the times the clock is set
          MaxFaults,   \* bound on commands that fail
          MaxCrashes,  \* bound on killed scripts and reboots
          MaxLost      \* bound on ledger lines that are lost without an error

UserOps == {"start", "stop", "restart", "web_submit"}
Surroundings == {"settings", "cli", "die", "hang", "net"}

ASSUME LimitsAssumption ==
  /\ Grace \in Nat /\ Patience \in Nat /\ Gap \in Nat /\ Day \in Nat
  /\ 0 < Gap /\ Gap < Day
ASSUME ClockAssumption == First \in Nat \ {0} /\ MaxNow \in Nat /\ First <= MaxNow
ASSUME EventsAssumption == Events \subseteq UserOps \cup Surroundings
ASSUME BoundAssumption ==
  MaxJumps \in Nat /\ MaxFaults \in Nat /\ MaxCrashes \in Nat /\ MaxLost \in Nat

Strikes == 3
PerDay == 2
NoTime == -1
Clock == First .. MaxNow

VARIABLES
  \* on flash
  enable,     \* tailscale_enable
  recover,    \* tailscale_watchdog_enable
  ledger,     \* the times in watchdog-ledger
  want,       \* the daemon's persisted intent: connected and logged in
  \* in RAM
  failures,   \* the failures line of watchdog-state
  control,    \* its control_since line; 0 when there is no outage
  started,    \* started-at, or NoTime
  stopped,    \* the manual-stop flag
  cron,       \* the minute task is installed
  \* the surroundings
  clock,
  daemon,     \* "gone", "hung" (alive, LocalAPI silent) or "live"
  net,        \* "up"; "stuck", the control connection has failed although the WAN
              \* and the control plane's HTTPS answer; or "down", one of them is away
  boot,       \* the boot script has not run yet
  \* the script
  pc,         \* where it is; "idle" when nobody holds the lock
  mode,       \* what its ts_start and ts_stop are part of
  sample,     \* the status it read last
  kind,       \* the reason for a recovery
  now,        \* NOW
  \* history and bounds
  attempts,   \* the NOW of every recovery that began
  asked,      \* a start was asked for, by the user or at boot, since the user
              \* last disconnected
  dropped,    \* the recoveries whose record a full flash has lost
  jumps, faults, crashes, lost

settings == <<enable, recover>>
evidence == <<failures, control>>
service == <<started, stopped, cron>>
world == <<clock, net, boot>>
script == <<pc, mode, sample, kind, now>>
history == <<attempts, asked, dropped>>
bounds == <<jumps, faults, crashes, lost>>
vars == <<settings, ledger, want, evidence, service, world, daemon,
          script, history, bounds>>

Phases == {"idle", "judge", "confirm", "probe", "reserve", "begin",
           "unschedule", "kill", "start", "launch", "apply"}

TypeOK ==
  /\ enable \in BOOLEAN /\ recover \in BOOLEAN
  /\ ledger \subseteq Clock /\ IsFiniteSet(ledger)
  /\ want \in BOOLEAN
  /\ failures \in 0 .. Strikes
  /\ control \in Clock \cup {0}
  /\ started \in Clock \cup {NoTime}
  /\ stopped \in BOOLEAN /\ cron \in BOOLEAN
  /\ clock \in Clock
  /\ daemon \in {"gone", "hung", "live"}
  /\ net \in {"up", "stuck", "down"}
  /\ boot \in BOOLEAN
  /\ pc \in Phases
  /\ mode \in {"manual", "automatic", "stop"}
  /\ sample \in {"none", "failed", "deliberate", "offline", "fine"}
  /\ kind \in {"none", "service", "control"}
  /\ now \in Clock
  /\ attempts \subseteq Clock
  /\ asked \in BOOLEAN
  /\ dropped \subseteq Clock
  /\ jumps \in 0 .. MaxJumps /\ faults \in 0 .. MaxFaults
  /\ crashes \in 0 .. MaxCrashes /\ lost \in 0 .. MaxLost

\* The router has just booted with the service and the watchdog enabled.
Init ==
  /\ enable = TRUE /\ recover = TRUE /\ ledger = {} /\ want = TRUE
  /\ failures = 0 /\ control = 0
  /\ started = NoTime /\ stopped = FALSE /\ cron = FALSE
  /\ clock = First /\ net = "up" /\ boot = TRUE
  /\ daemon = "gone"
  /\ pc = "idle" /\ mode = "manual" /\ sample = "none" /\ kind = "none" /\ now = First
  /\ attempts = {} /\ asked = TRUE /\ dropped = {}
  /\ jumps = 0 /\ faults = 0 /\ crashes = 0 /\ lost = 0

-----------------------------------------------------------------------------
(* What a check sees *)

\* ts_status_file and what the caller reads from it.  A daemon that is offline
\* is only known to be while its monitoring data is available.
Statuses ==
  CASE daemon # "live"          -> {"failed"}
    [] daemon = "live" /\ ~want -> {"deliberate"}
    [] daemon = "live" /\ want  -> IF net = "up" THEN {"fine"} ELSE {"fine", "offline"}

\* WD_HISTORY: the recorded recoveries of the last Day.
Recent(t) == {s \in ledger : s <= t /\ t - s < Day}

\* A bug: two recoveries are taken as still below the limit.
AllowedThree(t) ==
  /\ \A s \in ledger \cup {0} : s <= t /\ t - s >= Gap
  /\ Cardinality(Recent(t)) <= PerDay

\* The budget.  0 stands for an empty ledger, as WD_LAST does.
Allowed(t) ==
  /\ \A s \in ledger \cup {0} : s <= t /\ t - s >= Gap
  /\ Cardinality(Recent(t)) < PerDay

\* NOW is early: the service has only just been started, or the clock went back.
InGrace(t) == t < started \/ t - started < Grace

\* The script ends, and its variables with it.
Done ==
  pc' = "idle" /\ mode' = "manual" /\ sample' = "none" /\ kind' = "none" /\ now' = First

-----------------------------------------------------------------------------
(* The minute task *)

\* cron runs tailscale_watchdog.  Without the watchdog flag it only looks
\* after addresses.
Tick ==
  /\ pc = "idle" /\ ~boot /\ cron
  /\ enable /\ ~stopped /\ recover
  /\ pc' = "judge" /\ sample' \in Statuses
  /\ UNCHANGED <<settings, ledger, want, evidence, service, world, daemon,
                 mode, kind, now, history, bounds>>

\* What the check finds: a status that failed, or a daemon that has gone since.
Failed == sample = "failed" \/ (sample # "deliberate" /\ daemon = "gone")

\* A bug: the missing started-at is not written.
GrantGraceEachTick ==
  /\ pc = "judge" /\ started = NoTime
  /\ Done
  /\ UNCHANGED <<settings, ledger, want, evidence, service, world, daemon,
                 history, bounds>>

\* started-at is missing: the RAM directory was lost, so grace starts here.
GrantGrace ==
  /\ pc = "judge" /\ started = NoTime
  /\ started' = clock
  /\ Done
  /\ UNCHANGED <<settings, ledger, want, evidence, stopped, cron, world, daemon,
                 history, bounds>>

StayInGrace ==
  /\ pc = "judge" /\ started # NoTime /\ InGrace(clock)
  /\ Done
  /\ UNCHANGED <<settings, ledger, want, evidence, service, world, daemon,
                 history, bounds>>

\* Deliberate states and a working service clear both counters.
Settle ==
  /\ pc = "judge" /\ started # NoTime /\ ~InGrace(clock)
  /\ sample \in {"deliberate", "fine"} /\ ~Failed
  /\ failures' = 0 /\ control' = 0
  /\ Done
  /\ UNCHANGED <<settings, ledger, want, service, world, daemon,
                 history, bounds>>

\* A recovery is considered when there is a reason and the budget allows it.
Consider(reason) ==
  IF Allowed(clock)
  THEN /\ pc' = "confirm" /\ kind' = reason /\ now' = clock /\ sample' = "none"
       /\ UNCHANGED mode
  ELSE Done

CountFailure ==
  /\ pc = "judge" /\ started # NoTime /\ ~InGrace(clock) /\ Failed
  /\ failures' = IF failures >= Strikes THEN failures ELSE failures + 1
  /\ control' = 0
  /\ IF failures' < Strikes THEN Done ELSE Consider("service")
  /\ UNCHANGED <<settings, ledger, want, service, world, daemon,
                 history, bounds>>

TimeOutage ==
  /\ pc = "judge" /\ started # NoTime /\ ~InGrace(clock)
  /\ sample = "offline" /\ ~Failed
  /\ failures' = 0
  /\ control' = IF control > 0 THEN control ELSE clock
  /\ IF clock >= control' /\ clock - control' >= Patience
     THEN Consider("control") ELSE Done
  /\ UNCHANGED <<settings, ledger, want, service, world, daemon,
                 history, bounds>>

\* ts_watch_confirm: a fresh status before the budget is spent.
Confirm ==
  /\ pc = "confirm"
  /\ \E s \in Statuses :
       LET failed == s = "failed"
           cleared == s = "deliberate" \/ (kind = "service" /\ ~failed)
           next == CASE kind = "service" /\ failed         -> "reserve"
                     [] kind = "control" /\ s = "offline"  -> "probe"
                     [] OTHER                              -> "idle"
       IN /\ failures' = IF cleared THEN 0 ELSE failures
          /\ control' = IF cleared \/ (kind = "control" /\ next = "idle") THEN 0 ELSE control
          /\ IF next = "idle" THEN Done
             ELSE pc' = next /\ UNCHANGED <<mode, sample, kind, now>>
  /\ UNCHANGED <<settings, ledger, want, service, world, daemon, history, bounds>>

\* ts_wan_healthy: the WAN is connected and the control plane answers by HTTPS,
\* so that the outage is the daemon's own.
Probe ==
  /\ pc = "probe"
  /\ IF net # "down" THEN pc' = "reserve" /\ UNCHANGED <<mode, sample, kind, now>>
     ELSE Done
  /\ UNCHANGED <<settings, ledger, want, evidence, service, world, daemon,
                 history, bounds>>

-----------------------------------------------------------------------------
(* Spending the budget *)

\* A bug: the new entry replaces the old ones.
ReserveForgets ==
  /\ pc = "reserve"
  /\ ledger' = {now}
  /\ pc' = "begin"
  /\ UNCHANGED <<settings, want, evidence, service, world, daemon,
                 mode, sample, kind, now, history, bounds>>

\* The new ledger is written beside the old one and moved over it.
Reserve ==
  /\ pc = "reserve"
  /\ ledger' = Recent(now) \cup {now}
  /\ pc' = "begin"
  /\ UNCHANGED <<settings, want, evidence, service, world, daemon,
                 mode, sample, kind, now, history, bounds>>

\* chmod or mv fails: nothing was spent and nothing is restarted.
ReserveFails ==
  /\ pc = "reserve" /\ faults < MaxFaults
  /\ faults' = faults + 1
  /\ Done
  /\ UNCHANGED <<settings, ledger, want, evidence, service, world, daemon,
                 history, jumps, crashes, lost>>

\* The recoveries that are left without a record when only the lines in kept
\* reach the flash: those whose line is lost, and with the new line also all
\* that are no longer listed, because nothing says any more how old they are.
Unrecorded(kept) ==
  IF now \in kept THEN Recent(now) \ kept ELSE (attempts \cup {now}) \ kept

\* The writes of the lines themselves are not checked: a full flash shortens
\* the new ledger and the script goes on.
ReserveLosesLines ==
  /\ pc = "reserve" /\ lost < MaxLost
  /\ \E kept \in SUBSET (Recent(now) \cup {now}) :
       /\ kept # Recent(now) \cup {now}
       /\ ledger' = kept
       /\ dropped' = dropped \cup Unrecorded(kept)
  /\ lost' = lost + 1
  /\ pc' = "begin"
  /\ UNCHANGED <<settings, want, evidence, service, world, daemon,
                 mode, sample, kind, now, attempts, asked, jumps, faults, crashes>>

Begin ==
  /\ pc = "begin"
  /\ failures' = 0 /\ control' = 0
  /\ attempts' = attempts \cup {now}
  /\ pc' = "unschedule" /\ mode' = "automatic" /\ kind' = "none"
  /\ UNCHANGED <<settings, ledger, want, service, world, daemon,
                 sample, now, asked, dropped, bounds>>

-----------------------------------------------------------------------------
(* ts_stop and ts_start *)

\* The minute task goes first, then the daemon.
Unschedule ==
  /\ pc = "unschedule"
  /\ cron' = FALSE
  /\ pc' = "kill"
  /\ UNCHANGED <<settings, ledger, want, evidence, started, stopped, world, daemon,
                 mode, sample, kind, now, history, bounds>>

KillDaemon ==
  /\ pc = "kill"
  /\ daemon' = "gone"
  /\ IF mode = "stop" THEN Done
     ELSE pc' = "start" /\ UNCHANGED <<mode, sample, kind, now>>
  /\ UNCHANGED <<settings, ledger, want, evidence, service, world, history, bounds>>

\* ts_config_read and ts_cron.  A disabled service has no minute task.
ReadConfig ==
  /\ pc = "start"
  /\ cron' = enable
  /\ IF enable THEN pc' = "launch" /\ UNCHANGED <<mode, sample, kind, now>> ELSE Done
  /\ UNCHANGED <<settings, ledger, want, evidence, started, stopped, world, daemon,
                 history, bounds>>

\* The settings cannot be read: ts_start returns before it installs the task.
ReadConfigFails ==
  /\ pc = "start" /\ faults < MaxFaults
  /\ faults' = faults + 1
  /\ Done
  /\ UNCHANGED <<settings, ledger, want, evidence, service, world, daemon,
                 history, jumps, crashes, lost>>

\* ts_daemon_start.  The ready sample holds the intent the daemon then had.
Launches(outcome) ==
  /\ stopped' = FALSE
  /\ started' = clock
  /\ daemon' = IF daemon = "gone" THEN outcome ELSE daemon
  /\ IF daemon' = "live"
     THEN /\ pc' = "apply" /\ sample' = IF want THEN "fine" ELSE "deliberate"
          /\ UNCHANGED <<mode, kind, now>>
     ELSE Done
  /\ UNCHANGED <<settings, ledger, want, evidence, cron, world, history,
                 jumps, crashes, lost>>

Launch == pc = "launch" /\ Launches("live") /\ UNCHANGED faults

LaunchFails ==
  /\ pc = "launch" /\ daemon = "gone" /\ faults < MaxFaults /\ faults' = faults + 1
  /\ \E outcome \in {"gone", "hung"} : Launches(outcome)

\* A bug: an automatic start connects too.
ConnectsAlways == sample = "deliberate"

\* The rest of ts_start: managed preferences, and for a manual start a request
\* to connect if the ready sample was not connected.  Automatic starts leave
\* the intent as the daemon restored it.
Connects == mode = "manual" /\ sample = "deliberate"

Apply ==
  /\ pc = "apply"
  /\ IF daemon = "live" /\ Connects
     THEN want' = TRUE /\ asked' = (mode = "manual" \/ asked)
     ELSE UNCHANGED <<want, asked>>
  /\ Done
  /\ UNCHANGED <<settings, ledger, evidence, service, world, daemon,
                 attempts, dropped, bounds>>

\* A preference cannot be read or set, or connect fails.
ApplyFails ==
  /\ pc = "apply" /\ faults < MaxFaults /\ faults' = faults + 1
  /\ Done
  /\ UNCHANGED <<settings, ledger, want, evidence, service, world, daemon,
                 history, jumps, crashes, lost>>

-----------------------------------------------------------------------------
(* The user's operations *)

\* ts_mutation takes the lock.  An update or a rollback stops and starts the
\* service as restart does.
Begins(ops) ==
  /\ pc = "idle" /\ ~boot
  /\ ops \cap Events # {}
  /\ UNCHANGED <<settings, ledger, want, evidence, started, cron, world, daemon,
                 sample, kind, now, attempts, dropped, bounds>>

RequestStart ==
  /\ Begins({"start"})
  /\ pc' = "start" /\ mode' = "manual" /\ asked' = TRUE
  /\ UNCHANGED stopped

\* restart, and web_submit while the service is enabled.
RequestRestart ==
  /\ Begins(IF enable THEN {"restart", "web_submit"} ELSE {"restart"})
  /\ pc' = "unschedule" /\ mode' = "manual" /\ asked' = TRUE
  /\ UNCHANGED stopped

\* stop, and web_submit while the service is disabled.
RequestStop ==
  /\ Begins(IF enable THEN {"stop"} ELSE {"stop", "web_submit"})
  /\ pc' = "unschedule" /\ mode' = "stop" /\ stopped' = TRUE
  /\ UNCHANGED asked

\* The boot script runs start.
Boots ==
  /\ pc = "idle" /\ boot
  /\ boot' = FALSE
  /\ pc' = "start" /\ mode' = "manual" /\ asked' = TRUE
  /\ UNCHANGED <<settings, ledger, want, evidence, service, clock, net, daemon,
                 sample, kind, now, attempts, dropped, bounds>>

-----------------------------------------------------------------------------
(* The surroundings *)

\* The web server writes a setting; it does not take the lock.
SettingChanges ==
  /\ "settings" \in Events
  /\ \/ enable' = ~enable /\ UNCHANGED recover
     \/ recover' = ~recover /\ UNCHANGED enable
  /\ UNCHANGED <<ledger, want, evidence, service, world, daemon, script,
                 history, bounds>>

\* tailscale up, or down and logout, outside the plugin.  While an operation
\* that the user asked for is under way, its request still stands.
CommandLine ==
  /\ "cli" \in Events /\ daemon = "live"
  /\ want' = ~want
  /\ asked' = (want' \/ (asked /\ pc # "idle" /\ mode = "manual"))
  /\ UNCHANGED <<settings, ledger, evidence, service, world, daemon, script,
                 attempts, dropped, bounds>>

DaemonChanges ==
  /\ \/ "die" \in Events /\ daemon # "gone" /\ daemon' = "gone"
     \/ "hang" \in Events /\ daemon = "live" /\ daemon' = "hung"
     \/ "hang" \in Events /\ daemon = "hung" /\ daemon' = "live"
  /\ UNCHANGED <<settings, ledger, want, evidence, service, world, script,
                 history, bounds>>

NetChanges ==
  /\ "net" \in Events
  /\ net' \in {"up", "stuck", "down"} \ {net}
  /\ UNCHANGED <<settings, ledger, want, evidence, service, clock, boot, daemon,
                 script, history, bounds>>

TimePasses ==
  /\ clock < MaxNow
  /\ clock' = clock + 1
  /\ UNCHANGED <<settings, ledger, want, evidence, service, net, boot, daemon,
                 script, history, bounds>>

\* Somebody or NTP sets the clock.
ClockJumps ==
  /\ jumps < MaxJumps /\ jumps' = jumps + 1
  /\ clock' \in Clock \ {clock}
  /\ UNCHANGED <<settings, ledger, want, evidence, service, net, boot, daemon,
                 script, history, faults, crashes, lost>>

\* The script is killed; the kernel releases its lock.
Killed ==
  /\ pc # "idle" /\ crashes < MaxCrashes /\ crashes' = crashes + 1
  /\ Done
  /\ UNCHANGED <<settings, ledger, want, evidence, service, world, daemon,
                 history, jumps, faults, lost>>

\* Power is lost: RAM is empty when the boot script runs.
Reboot ==
  /\ crashes < MaxCrashes /\ crashes' = crashes + 1
  /\ failures' = 0 /\ control' = 0
  /\ started' = NoTime /\ stopped' = FALSE /\ cron' = FALSE
  /\ daemon' = "gone" /\ boot' = TRUE
  /\ Done
  /\ UNCHANGED <<settings, ledger, want, clock, net, history, jumps, faults, lost>>

-----------------------------------------------------------------------------
Judge == GrantGrace \/ StayInGrace \/ Settle \/ CountFailure \/ TimeOutage
Spend == Reserve \/ ReserveFails \/ ReserveLosesLines \/ Begin
StopOrStart == Unschedule \/ KillDaemon \/ ReadConfig \/ ReadConfigFails
               \/ Launch \/ LaunchFails \/ Apply \/ ApplyFails
ScriptStep == Judge \/ Confirm \/ Probe \/ Spend \/ StopOrStart
Request == RequestStart \/ RequestRestart \/ RequestStop
Surround == SettingChanges \/ CommandLine \/ DaemonChanges
            \/ NetChanges \/ TimePasses \/ ClockJumps

Next == Tick \/ ScriptStep \/ Request \/ Boots \/ Surround \/ Killed \/ Reboot

Spec == Init /\ [][Next]_vars

\* A running script goes on, cron fires every minute while the lock is free, and
\* the boot script is run.
FairSpec == Spec /\ WF_vars(ScriptStep) /\ WF_vars(Tick) /\ WF_vars(Boots)

-----------------------------------------------------------------------------
(* Properties *)

\* The recoveries that began, with the one whose budget has just been spent.
Begun == IF pc = "begin" THEN attempts \cup {now} ELSE attempts

\* Those whose record no full flash has lost.
Booked == Begun \ dropped

\* No two automatic recoveries are within Gap of each other, and no three within
\* a Day, whatever is done to the clock and however often the script or the
\* router dies.  A full flash, which the code does not notice, takes only the
\* recoveries out of the account whose lines it lost
\* (tailscale_lib.sh:800-815).
BudgetKept ==
  /\ pc = "begin" => now \notin attempts \ dropped
  /\ \A a, b \in Booked : a < b => b - a >= Gap
  /\ \A a, b, c \in Booked : a < b /\ b < c => c - a >= Day

\* Every recovery is in the ledger before it begins, and stays there until a
\* later entry is a Day younger: a crash between spending the budget and
\* restarting, or during the restart, cannot leave one uncounted, and neither
\* can a line lost of another (tailscale_lib.sh:800-810).
Counted ==
  \A a \in Booked : a \in ledger \/ \E l \in ledger : l - a >= Day

\* A daemon that the user took down is not made to connect again by a recovery:
\* only a start does so, which the user asked for since or which the boot script
\* runs, in the same manual mode, when the router comes up.  A recovery that
\* began while the user was connected restarts a daemon he has meanwhile taken
\* down, and leaves it so (tailscale_lib.sh:594, 813-815; S96tailscale.sh:2).
NeverUninvited == want => asked

\* The watchdog may act: it is on, nobody stopped the service, and neither the
\* grace period nor the budget is in the way.
Armed ==
  /\ enable /\ recover /\ cron /\ ~stopped /\ ~boot
  /\ started # NoTime => ~InGrace(clock)
  /\ Allowed(clock)

\* A service that stays gone or hung does not stay so while the watchdog may
\* act: it is restarted, or something takes the watchdog's leave away.  It is
\* enough that cron keeps firing and scripts keep running; in particular the
\* grace for a lost RAM directory is granted once (tailscale_lib.sh:766-770).
StuckServiceRestarted == []<>~(daemon # "live" /\ Armed)

\* Between operations, a service that was started, is enabled and was not stopped
\* by the user has its minute task (CONTRACT.md:135).
EnabledIsChecked ==
  pc = "idle" /\ started # NoTime /\ enable /\ ~stopped => cron
=============================================================================
