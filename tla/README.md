# A TLA+ model of the tailscale-koolshare plugin

The plugin installs Tailscale on routers with the koolshare software center. It is a set of
shell scripts (`plugin/scripts`), a Go helper (`cmd/tsks-helper`), an installer, a web page, two
event hooks and the tools that build and publish its releases. What makes it hard is not any one
script but that they share a router: power is lost in the middle of an update, a hook fires
while an operation runs, a command fails half way, a cron job looks at a state it did not
expect. This directory models that part.

## The system

| component | state it keeps | operations | talks to |
|---|---|---|---|
| core transaction (`tailscale_core_lib.sh`, `tailscale_core`) | on flash: `DATA/current`, `DATA/previous`, `DATA/cores/*`, `DATA/update.txn`, `DATA/update.state` | check, update, rollback, recover | service start and stop, helper (pointer, download, verification), job records |
| lifecycle operations (`ts_mutation`, `tailscale_config`) | the settings (dbus), `RUN/config.previous`, `RUN/manual-stop` | start, stop, restart, web_submit, start_nat | core recovery, service, firewall, job records |
| service (`ts_daemon_start`, `ts_start`, `ts_stop`) | the daemon, `RUN/tailscaled.pid`, `RUN/started-at`, the cron entry, `STATE` (written by the daemon) | start, stop | LocalAPI through the helper |
| watchdog (`ts_watchdog_run`) | `RUN/watchdog-state` in RAM, `watchdog-ledger` on flash | one tick a minute | service, firewall maintenance |
| firewall (`ts_firewall_apply`, `ts_address_maintenance`) | the plugin's chains, `RUN/nat-pending`, `RUN/firewall-status.json` | apply, remove, maintain | iptables |
| jobs (`ts_job_*`, `tailscale_job`, `tailscale3.js`) | `WEB/tailscale3_<id>.json` and `.log`, the page's tracked operation | begin, write, log, poll | every operation |
| lock (`ts_lock`) | an flock on `RUN/operation.lock`, never waited for | try, release | every operation |
| helper (`tsks-helper`) | none but the files it replaces | atomic-link, routes-plan, connect, appc-prime, timeout, verify, extract, status | LocalAPI, the network |
| installer (`install.sh`, `uninstall.sh`) | the installed tree and its backup | install, upgrade, roll back | service |
| event hooks (`S96`, `N96`) | none | start after power on, start_nat after a NAT rebuild | lifecycle operations |
| publication (`publish_core.py`, `check_stable.py`, `core-release.yml`) | the release of each tag and the feed `core-stable` on GitHub | look for a new version, make a draft, publish it, advance the feed, resume what broke off | GitHub; the routers read the feed |
| dependency lock (`resolve_core.py`, `build_core.py`) | `build/core-lock.json`, `.cache/locks`, `.cache/downloads`, the Actions cache, the lock in a release | resolve, download, compile | upstream's tags and archives, publication |
| helper toolchain (`build_helper.py`, `toolchain.py`) | `build/helper-toolchain.json`, archives and trees in `.cache` | select, provision, build | the Go catalog, the container |
| build tree and packaging (`build_core.py`, `container_build.py`, `release_core.py`, `prepare_bundle.py`, `package.py`) | `build/` and the packages | compile for both architectures, sign, prepare, package | publication takes `build/core-release` |
| release tests (`smoke_*.py`, `firmware_compat.py`) | none | fixed test scripts | a container, a firmware image |

All operations take one lock without waiting. Flash survives a reboot; the daemon, the lock,
`RUN` and the job records do not. Nothing runs in parallel inside one script, so the concurrency
is between a script and the daemon, a script and the environment (kill, power, NAT events, the
user), and inside the Go helper. The release tools have no lock at all: what keeps them apart is
the concurrency group of the workflow, renames, and that GitHub refuses to create what is there.

What is hard, and where, is the list of hazards in `PROJECT.json`; what would make each
component correct:

* core transaction: a switch is atomic whatever fails and whenever power is lost; a candidate
  that is not accepted leaves no trace in the identity file; recovery always finds what it
  needs; reports are true; an interrupted switch is recovered without anybody asking.
* lifecycle operations: a failed submission leaves the old settings and the old service; an
  accepted one is what runs.
* watchdog: at most two recoveries in any 24 hours, across reboots and clock changes; never
  against the user's intent; never while a transaction is pending.
* firewall: an event is never lost between two refreshes; the cache never claims rules that are
  not there.
* jobs: a page that gave up on an answer does not start a second operation over a running one; a
  poll never reports an operation's record missing and the lock free while it runs.
* helper: the pointer is replaced atomically; route planning keeps what it does not manage; the
  query pool ends by its deadline with consistent counts.
* installer: an interrupted or failed installation leaves the old plugin or the new one.
* publication: the feed names a whole, public release with the very envelope the release
  carries; a public release never changes; the feed gets to the newest version and does not go
  back.
* dependency lock: what is compiled is what the lock names, the lock is of a commit the tag
  named, and a published core is rebuilt exactly or not at all.
* helper toolchain: a build uses a whole toolchain of the version its own source requires; what
  earlier runs left behind does not make a later one fail.
* build tree: only finished results are signed, packaged and published.

## Modules

| module | what it is |
|---|---|
| `CoreSwitch` | the promise: one accepted core, one to fall back to, changed by atomic switches |
| `CoreTxn` | the scripts that hold the lock, one action per write, with the daemon, failures, kills and reboots |
| `CoreTxnInductive` | the inductive invariant of `CoreTxn`, in seven named parts, and the steps its scripts have left |
| `MCCoreTxn` | the module TLC runs |
| `CoreTxnProofs` | proofs: every step keeps the types and the invariant; the safety properties; the refinement of `CoreSwitch`; scripts and recoveries end |
| `Watchdog` | the minute task, its evidence and its ledger, with the starts and stops of the user and of the boot script |
| `MCWatchdog` | the module TLC runs |
| `WatchdogProofs` | proofs: types, the restart budget, the user's intent; scripts end, a restart comes nearer |
| `SettingsPromise` | the promise: a submission takes effect as a whole or not at all, and the verdict tells |
| `ConfigTxn` | the settings transaction: snapshot, writing key by key, the operation, restoration of settings and service |
| `ConfigTxnInductive` | its inductive invariant, in eight named parts, and the steps its scripts have left |
| `MCConfigTxn` | the module TLC runs |
| `ConfigTxnProofs` | proofs: every step keeps the invariant; all properties; the refinement of `SettingsPromise`; scripts end |
| `Firewall` | the rules, the address cache and `nat-pending` under starts, stops, NAT events and the minute task |
| `FirewallProofs` | proofs: types, what the cache means, that losses are known; scripts end, rules come nearer |
| `ReleaseFeed` | the promise of publication: releases that never change, a feed that names one of them |
| `Publish` | runs of `publish_core.py` and of the schedule, request by request |
| `PublishProofs` | proofs: types, the feed, immutability, the refinement of `ReleaseFeed`; runs end, and for a cause |
| `CoreLock` | the dependency lock from the upstream tag to the published core, in the workflow and on a maintainer's machine |
| `CoreLockProofs` | proofs: types, the three safety properties, public releases stay; runs end, and deliver |
| `Toolchain` | selection and provisioning of the helper's Go toolchain by overlapping runs |
| `ToolchainProofs` | proofs: types and all three properties; runs end, and deliver |
| `BuildTree` | the build directory and the tools that share it, file by file |
| `BuildTreeProofs` | proofs: types and all four properties; tools end, and carry through |
| `MCFirewall`, `MCPublish`, `MCCoreLock`, `MCToolchain`, `MCBuildTree` | the modules TLC runs |

### CoreTxn

The script that holds the lock is a program counter `pc`, the report it makes `job` and the
shell variables that outlive a step `local`. `pc = "idle"` means the lock is free. A step is
what happens between two points where a crash would leave different things on flash: `Prepare`,
`MarkBackedUp`, `MarkSwitched` and `Commit` are the four `ts_core_journal` calls, `Halt` is
`ts_stop`, `BackupBegin` and `BackupEnd` the copy of the state file, `Link` the pointer change,
and so on; `RecoverBegin` to `Drop` are `ts_core_recover` in its own order, entered from the
start of an operation or from a failed step (`local.cause` remembers which, because the script
does different things after it). Every command that can fail has its failing outcome as a second
disjunct, which consumes one of `MaxFaults`; `MaxCrashes` bounds kills and reboots and
`MaxWrites` the daemon's writes. Begin is enabled for every operation in `Ops` whenever the lock
is free, so an operation may follow any crash, repeatedly.

The identity file is abstracted to the set of numbered writes it reflects. That is what the
properties need to tell apart: what a candidate wrote on trial (`stray`), what was there before,
and a copy cut short (`Torn`). Cores are numbers in release order, because an update only
accepts a newer one.

Abstractions, and why they are sound for what is claimed:

* Writes to flash persist in the order they are made. A power loss that loses unsynced writes is
  then the same as an earlier power loss. Renames that survive without the data written before
  them are outside the model (the scripts rely on `sync` and on the helper's fsync for this).
* `rm -f` of the journal and snapshot does not fail. `ts_job_log` may, where its status is that
  of the function (`Drop`).
* A script is killed between two commands: a child that runs inherits descriptor 9 and keeps the
  lock until it ends.
* `ts_stop` leaves no daemon running: it ends with SIGKILL.
* `ts_start` is one step with all its outcomes: nothing, a daemon that runs, a failure with or
  without one. The health check accepts or rejects freely. Download, signature and archive
  verification succeed or fail freely.
* The watchdog may restart whenever the journal and the settings allow it; when it does is left
  to its own module. Its cron entry is made by `ts_start`, so there is none before the boot
  script has run.
* `web_submit` sets the enable flag in one step, and its undoing is one step. The other settings
  do not matter to cores; `ConfigTxn` has them.
* `SettingChanges` is the web server storing the flag for the page's oldest form, without the
  lock: while the lock is free, while a script runs, and while a journal is pending. A switch
  reads the flag once (`Sample`); `ts_start` reads it again each time.

### Properties

`SnapshotReady`, `SnapshotComplete`, `NoCoreOnStrayState`, `NothingDangles`,
`PendingIsExclusive`, `ServiceMatchesPointer`, `RestartMatchesSetting` and `ReportTrue` are
invariants; `SwitchesAtomically` is the refinement; `LockReleased` and `RecoveredAfterBoot` are
liveness. `RestartMatchesSetting` speaks of everything the lock orders; what the web server
stores without it makes the journal's copy stale, and `rewritten` remembers that. Each is stated
in words above its definition. Every one is violated by a faulty variant of the code kept in the
same module (the operators commented "Faulty", in other modules "A bug" or "Mutant"), which is
how we know that it says something.

The refinement maps the accepted core to the journal's old core while a transaction is
uncommitted and to `DATA/current` otherwise. So the commit point is the rename of the committed
journal, and a crash before it is invisible, after it complete.

### Watchdog

A tick is cut where something else can come in between: the status sample (`Tick`), the
judgement with the reading of the clock, the counters and the ledger (`GrantGrace`,
`StayInGrace`, `Settle`, `CountFailure`, `TimeOutage`), the fresh sample (`Confirm`), the WAN
probe (`Probe`), the ledger (`Reserve`), and the restart. `ts_stop` and `ts_start` are shared by
the watchdog, the user and the boot script, `mode` says for whom: the minute task goes
(`Unschedule`), then the daemon (`KillDaemon`); the settings are read and the task installed
(`ReadConfig`); the manual-stop flag, `started-at` and the daemon follow (`Launch`); then the
ready sample decides whether a manual start connects (`Apply`).

The clock is a number that passes or is set to anything else; every time in the model is one of
its readings. The ledger is the set of its stamps (its order and duplicates are not used). A
status is what the script distinguishes: failed, deliberate (login, approval, stopped, logged
out, sync off), offline, fine. A daemon that is offline may count as fine because its monitoring
data may be missing. The network is up, down, or stuck: then the control plane answers HTTPS,
which is what `ts_wan_healthy` asks it, and the daemon's own connection to it is still not made.
`attempts`, `asked` (a start was asked for since the user last disconnected) and `dropped` are
history, `lost` counts the times a full flash lost ledger lines: no step decides by them.

Abstractions: a write to `RUN` (a RAM disk) does not fail. `ts_config_read` at the start of a
tick that fails ends it without a change. web_submit without a snapshot reads the settings as
the web server stored them; the forms that carry a snapshot are in `ConfigTxn`. A pending core
transaction is left to `CoreTxn`. Address maintenance is in `Firewall`. An update or rollback is
a restart here. The limits keep their names: Grace, Patience, Gap and Day are constants that
only have to satisfy 0 < Gap < Day.

`BudgetKept`, `Counted` and `NeverUninvited` are invariants, `StuckServiceRestarted` is
liveness. The script writes the ledger's lines without looking at the result: a recovery whose
line a full flash has lost (`dropped`) no longer counts, and `BudgetKept` and `Counted` are
about all others, those next to a lost one included. `NeverUninvited` is about recoveries. A
start by the boot script counts as asked for: it runs in the manual mode, so a router that is
switched on connects again although `tailscale down` came before (see Known limits).
`EnabledIsChecked` is what the contract says and the code does not do.

### ConfigTxn

`pc` is where the script is; a step is what happens between two commands that may fail. `Submit`
is a request that passed the checks before the lock and took it; `Snapshot` is
`ts_config_snapshot` with the capture of the service and of the connector switch; `Write`,
`WriteList` are `ts_config_bits_apply` at key `at`; `Dispatch` is the case over the operation;
`Stop` is `ts_stop`, and `Read`, `Launch`, `Adopt`, `SetPrefs`, `Rest` are `ts_start` in its
order, entered by the operation or, with `undoing`, by the restart after a failure (`next` says
what follows the stop). `Restore`, `RestoreList` and `Migrate` are `ts_config_restore` and
`ts_connector_restore_migration`; `Undone`, `Flag`, `GiveUp`, `Succeed` and `FailPlain` are the
ends of `ts_mutation`. Every command that can fail has a failing action, in which a write may
have taken effect all the same. `was` (what was there when the request came) and `spoiled` (what
a failure during restoration may have left wrong) are history; no step reads them.

Abstractions:

* The ten keys are three, because the code treats them in three ways: the seven of the oldest
  form ("enable", the only one the operation branches on), the two that the nine-bit form adds
  ("custom"), and the connector switch, which the ten-bit form adds and `ts_start` adopts when
  it is absent. `Order` keeps their order and the form is how many of them a submission carries.
  A failing write of one of the seven is a failing write of "enable".
* A list of routes is a value; `Bad` is one that the helper rejects. LAN routes, default routes
  and the plan of the helper are not modelled: `Wanted` is the part of the edit that depends on
  the connector switch and on the custom list.
* Stored keys are absent, 0 or 1. The web server does not write the settings itself while the
  lock is held.
* The daemon does not die by itself and nobody edits its preferences; `Watchdog` has both. The
  recovery of a core transaction at the start is a step that may fail; `CoreTxn` has it. The
  firewall and the connection are part of `Rest`; `Firewall` has the rules. `start_nat` touches
  no setting.
* Writes to RAM (job record, flags) do not fail, except those of the snapshot, which the script
  checks.

`FailedLeavesOld`, `ServiceComesBack`, `SuccessInForce` and `UncarriedKept` are invariants.
`FailedLeavesOld` excuses only what a failure during the restoration spoiled.
`SubmitsAtomically` is the refinement of `SettingsPromise`: a reader of the settings sees of
each item the old or the submitted value, at every step, and after a verdict of success all
submitted ones, after one of failure all old ones. The items are the keys and the list *in
effect*: for the connector switch that is the setting or, where the key is absent, what the core
has, which is what makes its way back hard (`SwitchKept`, which is proved as a theorem of its
own). When the way back fails the verdict is "spoiled" in the promise: the script reports a
failure and its log says that the old settings could not be restored. A killed script gives no
verdict and leaves items of both kinds.

### Firewall

The script that holds the lock is `op` (which operation, or the minute task) and `pc` (its next
step). `ConsumeEvents`, `ForgetAddress`, `BuildFilter`, `BuildNat`, `TakeSample`, `InstallDnat`
and `RecordAddress` are `ts_firewall_apply` in its own order: remove `nat-pending`, remove the
cache, fill the filter chains, fill the NAT chains, take a status, rewrite the address, write
the cache. It is entered from `ts_start`, from the NAT hook and from the minute task. The
firmware takes rules away at any moment (`NatEvent`), also between two of these steps, and then
starts the hook, which takes the lock (`Hook`) or, when it is taken, leaves `nat-pending`
(`LeaveMarker`), which is a step of its own because the lock may be released in between.

`LossIsKnown` says that when nothing runs, rules that are missing are known to be missing: a
hook is on its way, the marker is there, or the cache is not the router's address. It does not
hold without exceptions, and the history variable `excused` names each way in which a refresh
that was due got lost *before it began*: `ts_start` gave up between daemon and refresh
("start"), the hook's operation did before it ("event"), the script was killed between the
removal of the marker and of the cache ("kill"), or the hook found the service disabled although
its daemon runs ("disabled"). Each of the four is reached: without it the run fails.
`CacheNamesTheRule` relates the cache to the rule at every step, `RulesComeBack` is the liveness
of the repair.

Abstractions: the rules of a table are there completely or not; the IPv4 and the IPv6 command
are one; an address stands for the list of the router's addresses, and the first IPv4 address is
taken to be among them. An invalid LAN address is a failing outcome of `BuildFilter` that, as in
the code, is no failure of the refresh. `ts_legacy_cleanup` is left out. External: the firmware
removes its tables before it runs the hook. The decision to restart is a choice (`Watchdog` has
it), and no core transaction is interrupted (`CoreTxn` has those).

### Publish and ReleaseFeed

A run of `publish_core.py` is a record in `job`: where it is, the envelope it goes by and what
it has seen of the release, of `core-stable` and of the feed. Every request to GitHub is a step,
because another run may come in between: the workflow excludes itself, a maintainer's run is
excluded by nobody. What a run saw is kept and used later, as in the code, which lists once and
acts many requests later. `Abort` is a failed command or a cancelled run at any place; what it
leaves (a draft with some assets, a published release without a feed, a feed without manifest)
is what later runs find. The schedule is `Scheduled` with `UpdateNeeded` of `check_stable.py`.

`FeedIsReleased`, `FeedNeverLower`, `Immutable` are safety; `FeedImplemented` is the refinement
of `ReleaseFeed`: what is offered is the manifest of each public release, what is named is the
feed. `NewestOffered` says that the feed gets to the newest version again and again or a state
only a maintainer can resolve is reached (`NeedsHelp`). `FeedNeverLower` excuses two runs at
work at once and a replacement that broke off half-way; `NoDowngrade` is what the documentation
says without the excuses.

External, modelled from how the code uses it: `gh release upload --clobber` deletes the asset
before it uploads the new one; `releases/tags` and the listing report drafts to an authenticated
run; `gh release create` fails if the tag has a release; the maintainer removes drafts only when
nobody works on them. Release notes are left out, both architectures are one asset, and an
identity is a number in the order of versions.

### CoreLock

Two machines: `ci`, whose runs start afresh with a lock from the Actions cache or from the
release, and `hand`, which keeps locks and archives. `Discover`, `BuildByHand` and `BuildFrom`
start a run; `CheckTag`, `ReadRelease`, `ReadFile` and `Fetch` are `resolve` in its order;
`SaveCache` is the workflow's cache step (an entry is never replaced); `Download` and `Compile`
are `build_core.py`; `Publish`, `Upload` and `Undraft` are what of publication matters here.
Around them the tag moves, archives are served with other bytes or not at all, the recipe is
edited, the cache is evicted, runs die.

`SoundLocks`, `CurrentSource` and `RebuildsThePublished` are safety. `DeliveredUnlessBlocked`:
once the faults are over the core gets published, unless one of the refusals in `Blocked`
stands, each of which the code makes on purpose. The Go part of a lock is a function of the
source and left out; so is the verification of the compiled core.

### Toolchain

A run of `build_helper.py` selects the lock (`Prepare`), validates it once more (`Validate`) and
renames it over the saved one (`Replace`), provisions the archive and the tree (`CheckArchive`
to `Install`, with the double check and the move aside of `provision_go`) and goes into the
container, which validates the lock it finds there (`Enter`) and runs three builds (`Compile`,
once for each of `Builds`). The checkout is mounted, not copied: each of them reads it anew, as
it is or, where an editor has put another file in the place of the mounted one, as it was. Runs
overlap; between any two of their steps others come in, the source is edited, runs are killed.
`excuses` remembers what was done to a run, and `built` what each of its builds went by.

`SoundBuild`, `UndisturbedBuilds` and `FittingLockStays`. Two windows of the code are excused by
name: an edit while the container compiles ("overtaken"), whose sources are then compiled by the
toolchain of the source before, and one between the validation of a new lock and its rename
("outdated"), where a stale lock can take the place of a fitting one. Both were found by TLC
before they were excused. A tree is whole, damaged or absent:
staging directories and downloads are private to a run and not variables. A Go version is a
number. UPX is not modelled.

### BuildTree

One tool at a time (`op`), but a build has a container for each architecture (`worker`), and
they interleave. Every file of `build/` the tools share is a value that is absent, whole or cut
short; a tool writes it in one step, and `Kill` may cut short the file it is writing. `Build` to
`BuildEnds` are `build_core.py` with `container_build.py`; `Release` to `CopyMetadata`
`release_core.py`; `Publish` what `publish_core.py` takes; `Prepare` to `MoveRel`
`prepare_bundle.py`; `BuildPackages` to `WriteDistSums` `package.py`. `intact` and `refused` are
history: which results are complete and untouched since, and what was refused all the same.

`SignedIsBuilt`, `PackagesAgree`, `ShippedIsWhole` and `RefusedForCause`. Assumed: a maintainer
runs one tool at a time; a build that is killed takes its containers with it; builds are
reproducible, so that a lock determines its binaries. Signing and archive formats are left out:
an envelope is what it binds together.

### Fairness

`ConfigTxn`, `Toolchain` and `BuildTree` claim no liveness and assume no fairness. In `CoreTxn`
and `Watchdog`, `ScriptStep` is weakly fair: every wait of a script is bounded (`ts_bound`
around LocalAPI, iptables and the CLI, 15 tries in `ts_daemon_start`, 10 in `ts_stop`, curl's
own limits), so a script that holds the lock moves. The boot script is run after power on.
Nothing is assumed of users, the daemon, failures or crashes. `RecoveredAfterBoot` is
conditional: once no more commands fail and nobody pulls the plug, a boot with a free lock ends
with no transaction pending.

`Tick` is weakly fair: cron runs the task every minute and it takes the lock if it is free; the
run's failures and crashes are bounded, and a user who starts, stops or restarts the service for
ever either has it running or has stopped it. `StuckServiceRestarted` assumes nothing of the
clock: it asks for a restart only while grace and budget allow one.

In `Firewall` the script, the hook with its marker, and the minute task are weakly fair for the
same reasons. `RulesComeBack` asks for the rules only while the service is entitled to them, has
its minute task and no refresh was lost in one of the named ways.

In `Publish` every run is weakly fair (its commands end, at the latest by the time limit of the
job) and so is the schedule, which looks every day. Failures are bounded; maintainers owe
nothing, which is why `NeedsHelp` is part of the property. In `CoreLock` only the workflow is
weakly fair; the maintainer's machine may stop at any place.

## Runs

| run | instance | shows | states |
|---|---|---|---|
| `core_safety` | 3 cores, updates, rollbacks, restarts, submissions, unlocked settings, 2 writes, 2 failures, 1 crash | all invariants, and that `CoreTxn` implements `CoreSwitch` | 3.8 M |
| `core_liveness` | 2 cores, all operations, 1 write, 1 failure, 1 crash | the lock is released; boot recovers | 165 k |
| `watchdog_budget` | daemon deaths and network changes, 1 clock change, 1 failure, 1 crash, 1 full flash | `BudgetKept`, `Counted` | 1.9 M |
| `watchdog_live` | all operations, settings, up and down, deaths and hangs, 1 failure, 1 crash, 1 full flash | `NeverUninvited`, `StuckServiceRestarted` | 242 k |
| `watchdog_cron` | deaths, network changes, 1 failure | finding: the minute task is lost | |
| `config` | the oldest and the newest form one after the other, every old configuration, no list but the empty and the bad one, 2 failures, kills or reboots | the three properties of a verdict, nothing uncarried is touched, `ConfigTxn` implements `SettingsPromise` | 1.0 M |
| `firewall` | 2 addresses, 2 events, 3 operations, 2 failures, kills or power losses | `LossIsKnown`, `CacheNamesTheRule`, `RulesComeBack` | 1.8 M |
| `publish_feed` | workflow and maintainer, 2 versions, 2 contents, 2 requested runs, 1 failure | the feed, immutability, `ReleaseFeed`, the newest version is offered | 640 k |
| `publish_downgrade` | the workflow alone, 3 versions, 1 failure | finding: the feed goes back | |
| `corelock` | 3 commits (one not of the version), 2 digests, 2 recipes, one pinned, 2 faults | all four properties | 317 k |
| `toolchain` | 2 runs, 3 versions (2 in the catalog), 3 faults | all three properties | 938 k |
| `buildtree` | 3 locks (two of one version), 2 packages, 4 runs of tools, 2 failures or kills | all four properties | 1.9 M |

The operations that `core_safety` leaves out end at once (`check`, `start_nat`) or take only
steps of a restart or submission; `core_liveness` has them all. Three cores are the smallest
number with an update away from a core that itself has one to fall back to. Two writes allow one
before and one during a trial. One failure or one crash reaches every step of recovery; a second
failure reaches a recovery of a failed recovery. In `Watchdog` the limits shrink to Grace 1,
Patience 2, Gap 2, Day 5 and the clock has seven readings: enough for recoveries at the second,
fourth and seventh, the third of which the window must have let go of the first. One clock
change goes to any reading, forward or back. In `ConfigTxn` the empty and the bad list tell
files that were left behind from new ones; the old configuration is any of those that the
versions of the plugin can have left. `MaxFaults` bounds failed commands, killed scripts and
reboots together: two are a failure that starts a rollback and another, or a kill or reboot,
within it; a job that is killed or fails over a longer form's files and one of the oldest form
after it need one and no more.

In `Firewall` two events are a loss and an address change, or a second loss during the repair of
the first; three operations are needed to disable, to fail in restoring and to enable again. In
`Publish` two publishers, two versions and two contents are a collision of every kind (same tag,
same version with other artifacts, older and newer); `publish_downgrade` needs a third version.
In `CoreLock` one genuine commit to move to and one that is not of the version, one other
digest, a pinned recipe and one without a pin reach every refusal; two faults are a change and a
dead run or two changes. Two overlapping runs reach every collision over one lock, three faults
any three of an edit, a kill, a foreign lock and a damaged file in one behaviour. In `BuildTree`
four runs are a build, a release, a second build or preparation that breaks off, and packaging
or publication after it. The proofs need none of these bounds.

The types (`TypeOK` of each module) and the inductive invariants (`Inductive`) were checked on
these instances before they were proved; as they are proved for all values of the constants, the
runs spend their time on the other properties.

## Proofs

`CoreTxnProofs` proves for every set of cores, set of operations and bounds that `Inductive` is
an invariant, that it implies each safety invariant above, and that `CoreTxn` implements
`CoreSwitch`. The only assumptions are that cores are positive numbers and that operations are
the ones the scripts know.

None of the properties is inductive. That recovery finds a complete snapshot depends on where
the script was when it stopped; so `JournalInv` ties `pc` to the journal's phase, `PointerInv`
ties the phase to the pointers, `DaemonInv` says which daemon can run in which phase,
`SnapshotInv` and `StrayInv` relate the three sets of writes, `DirectoryInv` adds the
directories the script itself is about to use, and `JobInv` what the script is going to report.
The weakest link is the time after a crash, when `pc` says nothing: there the parts speak of
`txn` alone. Each of the five step lemmas (recovery, update, switch, lifecycle, environment) has
a step per action. The types are kept by a set of lemmas of their own, because the types of what
is copied from the journal or the report need the other parts.

The refinement needs the invariant at two points: at the commit, to know that the journal's old
core is the accepted one and that the new one is newer or the kept one; and when recovery clears
the journal, to know that the pointer is back.

`WatchdogProofs` proves for every value of the limits, every set of events and every bound that
the types hold and that `NeverUninvited`, `BudgetKept` and `Counted` do. The last two are not
inductive alone: `Budget` joins them with the types and with `StillAllowed`, that what the
script has read of the ledger still allows the recovery it is about to book. The heart is
`AllowedIsApart`: the ledger forgets an entry only when a later one is a Day younger, so what
the ledger allows now is far from every recovery there ever was, the forgotten ones included;
`ReserveKeeps` carries it over the one step that spends, and `LosingKeeps` over the same step on
a full flash, which drops from the account exactly the recoveries it loses. All other steps are
`Frugal`: they leave the ledger and the script's reading of it alone. The clock may have been
set to anything: the argument never uses that time passes.

`ConfigTxnProofs` proves `Inductive` of `ConfigTxn` for every set of lists and forms and every
bound, and the properties from it. They look only at the moment a job has ended, so everything
before has to be carried by the invariant: `PlaceInv` says which flags and which index go with
which place, so that `saved.keys[at]` is the line of key `at`; `SnapshotInv` that the snapshot
is what was there when the request came; `OldInv` which keys are old at each place, of those the
form carries and of the others; `NewInv` which are new; `SwitchInv` that whenever the core may
have taken a new switch the old one is in a key or in `before`; `ServiceInv` where the daemon,
the stop flag and the preferences are along the operation and along the way back; `MixInv` that
each item is the old or the submitted one even where a failure or a kill has left some of each.
The types alone are not inductive: that the index stays within the snapshot needs `PlaceInv` and
`SnapshotInv`. There is one lemma per part, each with a step per action that disturbs it.

The refinement of `SettingsPromise` has a lemma per action too. Most steps map to a stutter or
to one item written; the verdicts are where `OldInv`, `NewInv` and `SwitchInv` are needed, and
`MixInv` where the way back was given up. The step of the start that adopts the core's switch
changes a key but nothing in effect.

`FirewallProofs`. `LossIsKnown` looks at idle states only. `Rebuilding` says what a refresh has
built at each place, unless an event since has left a hook or a marker (`Noted`); `Accounted`
says that a cache with an address stands for complete rules of that address, or the loss is
noted, excused, or in the hand of a script that has not come to its refresh yet (`InHand`).
`CacheNamesTheRule` is part of the invariant.

`PublishProofs`. `JobFits` relates the place of each run to the release of its tag: what is
being uploaded is a draft that no other run uploads (`OneUploader`), what is about to be named
is public, whole and of the run's envelope. `ReleasesFit` and `StableFits` are about the
releases and `core-stable`; `HistoryFits` is the order of the feed, which holds while no two
runs met and no replacement broke off. Immutability and the refinement follow from one lemma,
`PublicStays`.

`CoreLockProofs`. Soundness of locks has to be known wherever a lock may rest: in the cache, on
the machine, in a release, in the hand of a run (`RunFits`, `LockFits`, `ReleaseFits`);
`PublicFits` ties a run that started under a public release to its lock.

`ToolchainProofs`. The invariant relates the place of a run to its lock, and to the tree when
nothing has excused the run; that two locks which fit one source are equal gives
`FittingLockStays`, because a run that no edit has outdated renames a lock that fits. What a
container has compiled so far is kept with the lock it validated, and `NewestIsAbove` shows that
a compiler never has to refuse the source it was chosen for.

`BuildTreeProofs`. `Recorded` says that a record `build.json` is only there for a finished
binary; `Working`, `Signing`, `Preparing` and `Packaging` what each tool has done at each place;
`Kept` what the results in `intact` guarantee.

### Progress

That something eventually happens rests on fairness and is out of the prover's reach, and so are
the six liveness properties (`LockReleased`, `RecoveredAfterBoot`, `StuckServiceRestarted`,
`RulesComeBack`, `NewestOffered`, `DeliveredUnlessBlocked`): TLC checks them on the instances
above. What they rest on besides fairness is proved for all values of the constants. There are
two kinds of such theorems.

*No one goes on for ever.* `StepsLeft` of each module is a number that every step of the script,
run or tool makes smaller, whatever fails in it, and that nobody else makes larger. The bound is
29 steps of a script in `CoreTxn` and `Firewall`, 26 in `ConfigTxn`, 10 in `Watchdog`; 13 of a
run in `Publish`, 15 in `Toolchain`, 10 in `CoreLock`; in `BuildTree` 10 of a build, 7 of a
release, 6 of a bundle, and one for each package and another (`EveryScriptEnds`, `EveryRunEnds`,
`EveryToolEnds`). So no operation waits for another, and none retries without end; with a
fair scheduler the lock is released.

*Whoever ends has done its work, or for a cause.*

* `RecoveryIsNotStuck`: a recovery ends with the journal gone, or because a command failed in it
  or it was crashed. Nothing a crash left on flash makes it give up.
* `RestartComesNearer`: while the service is stuck and grace and budget allow a restart, each
  minute and each step of a script, of whatever it is about, makes `StepsToRestart` smaller, and
  only a failure, a crash or the user makes it larger.
* `RulesAreOnTheWay`, `NothingIsForgotten`: the same of the rules. Between scripts a hook is on
  its way, or the minute task has a refresh due, or the rules are right; when they are they
  stay.
* `LoneRunSeesTrue`, `NoRunEndsInVain` of `PublishProofs`: a run acts many requests after it has
  looked. As long as no other run was at work what it has seen is still so; hence a run that
  ends without a failure has its version released and named or a later one is, or a draft or a
  release that does not agree waits for the maintainer.
* `NoRunEndsInVain` of `CoreLockProofs`: a workflow run starts `Fresh`, its commit the tag's,
  its lock the cached or the published one; it stays so unless there is a fault, against a
  maintainer who works meanwhile; and a fresh run ends with the core published or one of the
  refusals of `Blocked`. `PublishedStays` is what keeps a published lock what it is.
* `NoRunEndsInVain` of `ToolchainProofs`: a run nothing disturbed ends with all its builds of
  the source as it is by an undamaged toolchain of the required version, or with a lock that
  fits.
* `ToolsCarryThrough`: no container fails but by a fault (`MakingFits`: the metadata it checks
  are those of its build), and a tool that is not killed leaves all its files whole and of one
  lock, from whatever an earlier one has left broken.

### Assumptions

The constants are restricted by what the code's own data are: versions and identities are
numbers in an order, `None` is no lock, pin or digest, a torn file is not a whole one, the
packages are a finite set, two released locks with the same identity are the same. Each is a
named `ASSUME` of the module that declares the constants, which TLC evaluates on every run.

## Findings

* `watchdog_cron`: a recovery stops the service, which removes the minute task, and installs it
  again only after it has read the settings. If that read fails, the service stays down with
  nobody to check it; CONTRACT.md:135 says that an enabled service is checked every minute.
* `publish_downgrade`: the replacement of the feed's manifest deletes the old one first. A run
  broken off in between leaves a feed that looks as if it had never named anything, and a run
  for an older version is let through; docs/BUILD.md:104 says that a version or build number
  that goes backwards is refused.

### Known limits

Seen while modelling, each named in a comment, an excuse or a history variable of the module, or
left out of it:

* Core. `N96tailscale.sh` says the NAT event "never restarts the daemon", but it goes through
  `ts_mutation`, which first recovers an interrupted transaction, which stops the daemon. When a
  recovery starts the old core and fails after that, the next operation recovers again and puts
  the same snapshot back over what that core has saved since (CONTRACT.md:20). The oldest form
  of the page stores the enable setting without the lock, so that the journal's copy can be
  stale: a service enabled meanwhile is not started by the recovery, but by the submission, if
  that got the lock, or by the next start; one disabled meanwhile is not started, as `ts_start`
  looks again, and a candidate on trial is then rejected for having no daemon.
* Watchdog. The failure counter survives a restart by the user, the grace period and a disabled
  watchdog, so that three failures need not be consecutive (CONTRACT.md:135). The ledger's lines
  are written without a check (tailscale_lib.sh:808-809): a recovery whose line is lost does not
  count against the budget. After `tailscale down` or a logout a power cycle connects again: the
  boot script starts the service in the manual mode, which ends with `connect` (S96tailscale.sh,
  tailscale_lib.sh:531, 594). CONTRACT.md:137-139 keeps the user's disconnection for automatic
  starts, by which the code means those of the watchdog only.
* Settings. When a write fails during the restoration, the `&&` after it skips the migration of
  the captured connector switch, and the next start adopts the refused one (CONTRACT.md:101).
* Firewall. `ts_stop` leaves `firewall-status.json`: a start that leaves a daemon but gives up
  before its refresh, or whose LocalAPI comes up later than 15 seconds, never gets its rules
  back, as the minute task takes the cache for them. A NAT event whose operation fails before
  `nat-pending` is removed is not retried, nor is one that is killed between the two removals. A
  NAT event after a manual stop puts rules back. A LAN address that changes alone is not
  noticed.
* Publication. A new release is public before its archives are read back (docs/BUILD.md:102).
* Dependency lock. The key of the cache does not hold the commit: after a tag has moved, the
  cached lock is refused until it is evicted or the recipe changes. A lock whose digest is no
  longer served cannot be built from.
* Toolchain. A second provisioner can move away a tree that was just installed
  (toolchain.py:218-222); `except FileExistsError` does not see ENOTEMPTY, and the rename aside
  does not expect that another run was faster; two runs can do this to each other. After an edit
  of the source the container may go by a tree nobody has checked. An edit after the container
  has validated the lock is compiled by the toolchain of the source before, as a toolchain line
  means nothing under `GOTOOLCHAIN=local`; only a newer go line is refused. A lock selected for
  the source before an edit can replace a fitting one in the moment before its rename; the next
  run, or the container, finds that it does not fit. The download of an archive damaged after
  its check gets a valid marker. UPX's directory and the `.partial` file of
  `build_core.download` are shared.
* Build tree. `release_core.py` killed between signing and copying leaves checksums and metadata
  of an older build, which `publish_core.py` does not compare. `package.py` takes a locally
  signed core of the pinned identity for the published one. Containers that outlive a killed
  build are outside the model.

## Not modelled

* The job protocol (record, log, poll, page): the next module, see below. `CoreTxn` has the
  report of an operation only.
* The installer and uninstaller: in the plan.
* Route planning, the application connector's query pool, deadlines and the connection request
  of the helper: pure functions or single requests with unit tests of their own; every module
  lets the commands fail that they stand behind.
* Status and checks: projections of LocalAPI and settings into JSON, which change nothing.
* Signatures, archives, descriptors: cryptography and parsing; their verdict is an outcome of
  the steps that ask for it.
* The page's presentation. UPX's provisioning. The release tests, which are fixed scripts.

## Plan

Done, in this order: `CoreTxn`, `Watchdog`, `ConfigTxn`, `Publish`, `Toolchain`, `CoreLock`,
`BuildTree`, `Firewall`. Next:

1. `JobProtocol`: page, job record, lock, delayed and lost requests; abstract specification: at
   most one operation per press of a button.
2. `Install`: the installation transaction as a refinement of "old or new".
3. `RoutesPlan`, `AppcPrime`, `Connect`, `Deadline`: the helper's algorithms as operators
   checked against reference definitions, and its concurrent parts as state machines.
4. Proofs: that the lock of a release in `CoreLock` and the envelope of a release in `Publish`
   are of the same immutable release, as one composition; an abstract specification of the
   service that `Watchdog` and `Firewall` both implement.
