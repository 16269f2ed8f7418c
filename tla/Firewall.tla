------------------------------ MODULE Firewall ------------------------------
(***************************************************************************)
(* The plugin's firewall rules and their upkeep.  ts_firewall_apply builds *)
(* them step by step, at the end of every start, after a NAT event and when*)
(* the minute task finds that the router's tailnet address has changed.    *)
(* The firmware may take the rules away at any moment, also while they are *)
(* being built; it then runs the NAT hook, which gives up when the lock is *)
(* taken, and leaves nat-pending for the minute task.                      *)
(*                                                                         *)
(* The lock is held from "begin" (the minute task: from its sample) until  *)
(* "idle".  Commands fail, scripts are killed, the router loses power, the *)
(* daemon dies and its address changes.  Whether the minute task restarts  *)
(* the service is a choice here: Watchdog has the decision.  No core       *)
(* transaction is interrupted: CoreTxn has those.                          *)
(***************************************************************************)
EXTENDS Naturals

CONSTANTS Addr,        \* tailnet addresses
          NoAddr,      \* not logged in: status without addresses
          Absent,      \* no firewall-status.json
          Own,         \* ts_firewall_apply takes a sample of its own
          None,
          MaxEvents,   \* bound on NAT events and address changes
          MaxOps,      \* bound on operations and automatic restarts
          MaxFaults    \* bound on failures, kills and power losses

Rules == {"filter", "nat"}
Operation == {"start", "stop", "restart", "web_submit"}

\* What a script that holds the lock is doing.
Work == Operation \cup {"start_nat", "undo", "tick", "auto"}

ASSUME FirewallAssumption ==
  /\ NoAddr \notin Addr
  /\ {Absent, Own} \cap (Addr \cup {NoAddr}) = {}
  /\ None \notin Work /\ None \notin [enabled : BOOLEAN, stopped : BOOLEAN, running : BOOLEAN]
  /\ MaxEvents \in Nat /\ MaxOps \in Nat /\ MaxFaults \in Nat

VARIABLES
  enabled,   \* tailscale_enable
  stopped,   \* manual-stop
  cron,      \* the minute task is installed
  daemon,    \* the daemon answers on LocalAPI
  addr,      \* its tailnet address
  chains,    \* the tables whose plugin chains are complete
  dnat,      \* the address TSKS_PREROUTING rewrites, NoAddr: none
  cache,     \* the addresses in firewall-status.json
  marker,    \* nat-pending
  hooks,     \* NAT hooks on their way to the lock
  late,      \* NAT hooks that found it taken
  op, pc,    \* the script that holds the lock and its next step
  sample,    \* the status ts_firewall_apply works with
  saved,     \* what web_submit sampled before it wrote
  excused,   \* history: how a due refresh was lost since the last full one
  events, ops, faults

files == <<cache, marker>>
rules == <<chains, dnat>>
service == <<enabled, cron, daemon>>
script == <<op, pc, sample, saved>>
world == <<addr, hooks, late, events, ops>>
vars == <<service, stopped, rules, files, script, world, excused, faults>>

-----------------------------------------------------------------------------
(* Helpers *)

Installed == chains = Rules /\ dnat # NoAddr

Fault == faults < MaxFaults /\ faults' = faults + 1

\* A refresh that is due does not happen.
Lose(way) == excused' = IF Installed THEN excused ELSE excused \cup {way}

\* The script goes on with another step.
Goto(step) == pc' = step /\ UNCHANGED <<op, sample, saved>>

Exit == pc' = "idle" /\ op' = None /\ sample' = Own /\ saved' = None

\* An operation, or the refresh of the minute task, is over.  Settings whose
\* submission failed are undone; undoing ends with the manual-stop flag put back.
Return(ok, flag) ==
  /\ stopped' = IF op = "undo" THEN saved.stopped ELSE flag
  /\ \/ op = "tick" /\ pc' = "decide" /\ sample' = Own /\ UNCHANGED <<op, saved>>
     \/ op = "web_submit" /\ ~ok /\ saved # None /\ Goto("undo")
     \/ op # "tick" /\ (ok \/ op # "web_submit" \/ saved = None) /\ Exit

\* What is excused when ts_start, or the NAT hook, gives up before the refresh.
GaveUp ==
  \/ op = "start_nat" /\ Lose("event")
  \/ op = "tick" /\ UNCHANGED excused
  \/ op \notin {"start_nat", "tick"} /\ Lose("start")

-----------------------------------------------------------------------------
(* Init *)

Init ==
  /\ enabled \in BOOLEAN
  /\ stopped = FALSE /\ cron = FALSE /\ daemon = FALSE
  /\ addr \in {NoAddr} \cup Addr
  /\ chains = {} /\ dnat = NoAddr
  /\ cache = Absent /\ marker = FALSE
  /\ hooks = 0 /\ late = 0
  /\ op = None /\ pc = "idle" /\ sample = Own /\ saved = None
  /\ excused = {}
  /\ events = 0 /\ ops = 0 /\ faults = 0

-----------------------------------------------------------------------------
(* The firmware, the daemon and the NAT hook *)

\* The firmware rebuilds its tables and starts the hook.
NatEvent ==
  /\ events < MaxEvents
  /\ \E lost \in {{"nat"}, Rules} : chains' = chains \ lost
  /\ dnat' = NoAddr
  /\ hooks' = hooks + 1 /\ events' = events + 1
  /\ UNCHANGED <<service, stopped, files, script, addr, late, ops, excused, faults>>

\* Login, logout, another address.
Move ==
  /\ events < MaxEvents /\ daemon
  /\ \E a \in {NoAddr} \cup Addr : a # addr /\ addr' = a
  /\ events' = events + 1
  /\ UNCHANGED <<service, stopped, rules, files, script, hooks, late, ops, excused, faults>>

Die ==
  /\ Fault /\ daemon /\ daemon' = FALSE
  /\ UNCHANGED <<enabled, cron, stopped, rules, files, script, world, excused>>

\* The hook takes the lock, or finds it taken and has still to say so.
Hook ==
  /\ hooks > 0 /\ hooks' = hooks - 1
  /\ \/ /\ pc = "idle" /\ pc' = "begin" /\ op' = "start_nat"
        /\ UNCHANGED late
     \/ pc # "idle" /\ late' = late + 1 /\ UNCHANGED <<pc, op>>
  /\ UNCHANGED <<service, stopped, rules, files, sample, saved, addr, events, ops, excused, faults>>

LeaveMarker ==
  /\ late > 0 /\ late' = late - 1
  /\ marker' = TRUE
  /\ UNCHANGED <<service, stopped, rules, cache, script, addr, hooks, events, ops, excused, faults>>

-----------------------------------------------------------------------------
(* Operations *)

Request ==
  /\ pc = "idle" /\ ops < MaxOps /\ ops' = ops + 1
  /\ op' \in Operation /\ pc' = "begin"
  /\ UNCHANGED <<service, stopped, rules, files, sample, saved, addr, hooks, late, events, excused, faults>>

\* ts_core_recover, the job record or the snapshot fails: nothing is done.
Refuse ==
  /\ pc = "begin" /\ Fault /\ Exit
  /\ IF op = "start_nat" THEN Lose("event") ELSE UNCHANGED excused
  /\ UNCHANGED <<service, stopped, rules, files, world>>

Dispatch ==
  /\ pc = "begin"
  /\ \/ op = "start" /\ Goto("up") /\ UNCHANGED stopped
     \/ op = "stop" /\ Goto("cron") /\ stopped' = TRUE
     \/ op = "restart" /\ Goto("cron") /\ UNCHANGED stopped
     \/ op = "start_nat" /\ Goto("refresh") /\ UNCHANGED stopped
  /\ UNCHANGED <<service, rules, files, world, excused, faults>>

\* What a submission that carries settings samples before it writes them; a
\* daemon that does not answer may be running.
Samples == [enabled : {enabled}, stopped : {stopped}, running : {daemon, TRUE}]

\* The settings, if any, are written, and the service is restarted or stopped.
Submit ==
  /\ pc = "begin" /\ op = "web_submit"
  /\ \/ saved' = None /\ UNCHANGED enabled
     \/ \E r \in Samples : saved' = r /\ enabled' \in BOOLEAN
  /\ stopped' = (stopped \/ ~enabled')
  /\ pc' = "cron"
  /\ UNCHANGED <<op, sample, cron, daemon, rules, files, world, excused, faults>>

\* The settings cannot be written, and perhaps not be restored either; or they
\* cannot be read back.
SubmitFails ==
  /\ pc = "begin" /\ op = "web_submit" /\ Fault
  /\ enabled' \in BOOLEAN
  /\ \/ Exit
     \/ saved' \in Samples /\ pc' = "undo" /\ UNCHANGED <<op, sample>>
  /\ UNCHANGED <<cron, daemon, stopped, rules, files, world, excused>>

\* ts_config_restore, and the service as it was; both begin with ts_stop.
Undo ==
  /\ pc = "undo"
  /\ \/ /\ enabled' = saved.enabled
        /\ op' = "undo" /\ pc' = "cron" /\ UNCHANGED <<sample, saved, faults>>
     \/ /\ Fault /\ Exit
        /\ enabled' \in {enabled, saved.enabled}
  /\ UNCHANGED <<cron, daemon, stopped, rules, files, world, excused>>

-----------------------------------------------------------------------------
(* ts_stop *)

RemoveCron ==
  /\ pc = "cron" /\ Goto("kill") /\ cron' = FALSE
  /\ UNCHANGED <<enabled, daemon, stopped, rules, files, world, excused, faults>>

KillDaemon ==
  /\ pc = "kill" /\ Goto("remove") /\ daemon' = FALSE
  /\ UNCHANGED <<enabled, cron, stopped, rules, files, world, excused, faults>>

Restarts ==
  \/ op \in {"restart", "auto"}
  \/ op = "web_submit" /\ enabled
  \/ op = "undo" /\ saved.running

\* The rules go; the address cache stays.
ts_firewall_remove ==
  /\ pc = "remove"
  /\ chains' = {} /\ dnat' = NoAddr
  /\ IF Restarts THEN Goto("up") /\ UNCHANGED stopped ELSE Return(TRUE, stopped)
  /\ UNCHANGED <<service, files, world, excused, faults>>

-----------------------------------------------------------------------------
(* ts_start *)

\* ts_config_read fails.
StartUnread ==
  /\ pc = "up" /\ Fault /\ Return(FALSE, stopped) /\ GaveUp
  /\ UNCHANGED <<service, rules, files, world>>

StartDisabled ==
  /\ pc = "up" /\ ~enabled /\ Return(TRUE, stopped)
  /\ cron' = FALSE
  /\ UNCHANGED <<enabled, daemon, rules, files, world, excused, faults>>

\* ts_cron and ts_daemon_start.
StartDaemon ==
  /\ pc = "up" /\ enabled /\ Goto("settings")
  /\ cron' = TRUE /\ stopped' = FALSE /\ daemon' = TRUE
  /\ UNCHANGED <<enabled, rules, files, world, excused, faults>>

\* There is no core, or LocalAPI is not ready in 15 seconds but may be later.
StartLate ==
  /\ pc = "up" /\ enabled /\ Fault
  /\ cron' = TRUE /\ daemon' \in {daemon, TRUE}
  /\ \E flag \in {stopped, FALSE} : Return(FALSE, flag)
  /\ GaveUp
  /\ UNCHANGED <<enabled, rules, files, world>>

\* The connector switch, the routes plan, the preferences and the connection.
Settings ==
  /\ pc = "settings"
  /\ \/ Goto("refresh") /\ UNCHANGED <<stopped, excused, faults>>
     \/ Fault /\ Return(FALSE, stopped) /\ GaveUp
  /\ UNCHANGED <<service, rules, files, world>>

\* The status after the refresh is read, and may be one of an unhealthy daemon.
Settle ==
  /\ pc = "settle"
  /\ \/ Return(TRUE, stopped) /\ UNCHANGED faults
     \/ Fault /\ Return(FALSE, stopped)
  /\ UNCHANGED <<service, rules, files, world, excused>>
-----------------------------------------------------------------------------
(* ts_firewall_apply *)

\* The refresh is over; ts_start goes on.
Refreshed ==
  IF op \in {"start", "restart", "web_submit", "undo", "auto"}
    THEN Goto("settle") /\ UNCHANGED stopped
    ELSE Return(TRUE, stopped)

\* A command of the refresh fails.
RefreshFails == Fault /\ Return(FALSE, stopped)

RefreshUnread ==
  /\ pc = "refresh" /\ RefreshFails /\ GaveUp
  /\ UNCHANGED <<service, rules, files, world>>

\* The rules of a service that is disabled go.  It only still runs when settings
\* could not be restored, and a second such failure may enable it again.
RefreshDisabled ==
  /\ pc = "refresh" /\ ~enabled /\ Refreshed
  /\ chains' = {} /\ dnat' = NoAddr
  /\ excused' = IF daemon THEN excused \cup {"disabled"} ELSE excused
  /\ UNCHANGED <<service, files, world, faults>>

\* Only the events before this moment are consumed.
ConsumeEvents ==
  /\ pc = "refresh" /\ enabled /\ Goto("forget")
  /\ marker' = FALSE
  /\ UNCHANGED <<service, stopped, rules, cache, world, excused, faults>>

\* A bug: the cache of the last refresh stays while the next one is at work.
KeepAddress ==
  /\ pc = "forget" /\ Goto("filter")
  /\ UNCHANGED <<service, stopped, rules, files, world, excused, faults>>

ForgetAddress ==
  /\ pc = "forget" /\ Goto("filter")
  /\ cache' = Absent
  /\ UNCHANGED <<service, stopped, rules, marker, world, excused, faults>>

\* The chains are flushed and filled.  Without a valid LAN address they stay
\* incomplete, the NAT chains are left alone, and that is all.
BuildFilter ==
  /\ pc = "filter"
  /\ \/ Goto("nat") /\ chains' = chains \cup {"filter"} /\ UNCHANGED <<stopped, faults>>
     \/ chains' = chains \ {"filter"} /\ Fault /\ Refreshed
     \/ chains' \in {chains, chains \ {"filter"}} /\ RefreshFails
  /\ UNCHANGED <<service, dnat, files, world, excused>>

BuildNat ==
  /\ pc = "nat"
  /\ \/ /\ Goto("sample") /\ chains' = chains \cup {"nat"} /\ dnat' = NoAddr
        /\ UNCHANGED <<stopped, faults>>
     \/ chains' = chains \ {"nat"} /\ dnat' \in {dnat, NoAddr} /\ RefreshFails
  /\ UNCHANGED <<service, files, world, excused>>

\* The sample that was given is copied; otherwise a new one is taken, which has
\* no address when the daemon does not answer.
TakeSample ==
  /\ pc = "sample"
  /\ \/ /\ sample' = IF sample # Own THEN sample ELSE IF daemon THEN addr ELSE NoAddr
        /\ pc' = "dnat" /\ UNCHANGED <<op, saved, stopped, faults>>
     \/ sample # Own /\ RefreshFails
     \/ sample = Own /\ Fault /\ Refreshed
  /\ UNCHANGED <<service, rules, files, world, excused>>

InstallDnat ==
  /\ pc = "dnat"
  /\ \/ dnat' = sample /\ Goto("cache") /\ UNCHANGED <<stopped, faults>>
     \/ sample # NoAddr /\ RefreshFails /\ UNCHANGED dnat
  /\ UNCHANGED <<service, chains, files, world, excused>>

\* A bug: the events are consumed when the refresh is over.
ConsumeAtTheEnd ==
  /\ pc = "cache"
  /\ \/ cache' = sample /\ marker' = FALSE /\ excused' = {} /\ Refreshed /\ UNCHANGED faults
     \/ RefreshFails /\ UNCHANGED <<files, excused>>
  /\ UNCHANGED <<service, rules, world>>

RecordAddress ==
  /\ pc = "cache"
  /\ \/ cache' = sample /\ excused' = {} /\ Refreshed /\ UNCHANGED faults
     \/ RefreshFails /\ UNCHANGED <<cache, excused>>
  /\ UNCHANGED <<service, rules, marker, world>>

-----------------------------------------------------------------------------
(* The minute task *)

\* A bug: nat-pending is not looked at.
RefreshMovedOnly == daemon /\ addr # NoAddr /\ addr # cache

\* The sample has addresses, and they are not those of the last full refresh or
\* there was a NAT event.
RefreshDue == daemon /\ addr # NoAddr /\ (addr # cache \/ marker)

Tick ==
  /\ pc = "idle" /\ cron /\ enabled /\ ~stopped
  /\ op' = "tick"
  /\ IF RefreshDue THEN pc' = "refresh" /\ sample' = addr
                   ELSE pc' = "decide" /\ UNCHANGED sample
  /\ UNCHANGED <<service, stopped, rules, files, saved, world, excused, faults>>

\* Automatic recovery.
Decide ==
  /\ pc = "decide"
  /\ \/ Exit /\ UNCHANGED ops
     \/ /\ ops < MaxOps /\ ops' = ops + 1
        /\ op' = "auto" /\ pc' = "cron" /\ UNCHANGED <<sample, saved>>
  /\ UNCHANGED <<service, stopped, rules, files, addr, hooks, late, events, excused, faults>>

-----------------------------------------------------------------------------
(* Kills and power losses *)

Kill ==
  /\ pc # "idle" /\ Fault /\ Exit
  /\ IF \/ pc = "forget"
        \/ pc \in {"settings", "refresh"} /\ op # "tick"
        \/ pc = "begin" /\ op = "start_nat"
       THEN Lose("kill") ELSE UNCHANGED excused
  /\ UNCHANGED <<service, stopped, rules, files, world>>

PowerLoss ==
  /\ Fault /\ Exit
  /\ daemon' = FALSE /\ cron' = FALSE /\ stopped' = FALSE
  /\ chains' = {} /\ dnat' = NoAddr
  /\ cache' = Absent /\ marker' = FALSE
  /\ hooks' = 0 /\ late' = 0 /\ excused' = {}
  /\ UNCHANGED <<enabled, addr, events, ops>>

-----------------------------------------------------------------------------
(* Specification *)

Script ==
  \/ Refuse \/ Dispatch \/ Submit \/ SubmitFails \/ Undo
  \/ RemoveCron \/ KillDaemon \/ ts_firewall_remove
  \/ StartUnread \/ StartDisabled \/ StartDaemon \/ StartLate \/ Settings \/ Settle
  \/ RefreshUnread \/ RefreshDisabled \/ ConsumeEvents \/ ForgetAddress
  \/ BuildFilter \/ BuildNat \/ TakeSample \/ InstallDnat \/ RecordAddress
  \/ Decide

\* Nobody asks for anything, and a stopped service has no minute task.
Rest == pc = "idle" /\ hooks + late = 0 /\ UNCHANGED vars

Next ==
  \/ NatEvent \/ Move \/ Die \/ Hook \/ LeaveMarker
  \/ Request \/ Script \/ Tick \/ Kill \/ PowerLoss \/ Rest

\* Scripts keep running and cron keeps firing.
Spec ==
  /\ Init /\ [][Next]_vars
  /\ WF_vars(Script) /\ WF_vars(Hook) /\ WF_vars(LeaveMarker) /\ WF_vars(Tick)

-----------------------------------------------------------------------------
(* Properties *)

Step == {"idle", "begin", "undo", "cron", "kill", "remove", "up", "settings", "settle",
         "refresh", "forget", "filter", "nat", "sample", "dnat", "cache", "decide"}

\* Every variable has its type (tailscale_lib.sh:386-448).
TypeOK ==
  /\ enabled \in BOOLEAN /\ stopped \in BOOLEAN /\ cron \in BOOLEAN
  /\ daemon \in BOOLEAN /\ marker \in BOOLEAN
  /\ addr \in Addr \cup {NoAddr} /\ chains \subseteq Rules
  /\ dnat \in Addr \cup {NoAddr} /\ cache \in Addr \cup {NoAddr, Absent}
  /\ op \in Work \cup {None} /\ pc \in Step
  /\ (op = None) <=> (pc = "idle")
  /\ sample \in Addr \cup {NoAddr, Own}
  /\ saved \in [enabled : BOOLEAN, stopped : BOOLEAN, running : BOOLEAN] \cup {None}
  /\ excused \subseteq {"start", "event", "kill", "disabled"}
  /\ hooks \in Nat /\ late \in Nat /\ hooks + late <= events
  /\ events \in 0..MaxEvents /\ ops \in 0..MaxOps /\ faults \in 0..MaxFaults

\* A service that runs, is logged in and was not stopped is entitled to its rules.
Entitled == enabled /\ ~stopped /\ daemon /\ addr # NoAddr

Current == chains = Rules /\ dnat = addr

\* Rules that are missing or of an old address are never taken for applied ones,
\* whatever the firmware does while they are built and whichever command of the
\* refresh fails: a hook is on its way, nat-pending exists, or the cache differs
\* from the address.  The exceptions are the ways of losing a refresh before it
\* began (tailscale_lib.sh:390-395, 741).
LossIsKnown ==
  pc = "idle" /\ Entitled /\ ~Current
    => hooks + late > 0 \/ marker \/ cache # addr \/ excused # {}

\* The cache never names another address than the rule, not even in the middle of
\* a refresh for a new one (tailscale_lib.sh:393-395, 438).
CacheNamesTheRule == cache # Absent => dnat \in {NoAddr, cache}

\* When failures and events cease, the rules of a service that is entitled to
\* them come back without anybody's help, and the minute task then leaves them
\* alone (tailscale_lib.sh:737-748).
RulesComeBack ==
  <>[](Entitled /\ cron /\ excused = {}) => <>[](Current /\ ~marker /\ cache = addr)
=============================================================================
