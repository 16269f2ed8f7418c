CONSTANTS
  Core = {1, 2, 3}
  Ops = {"update", "rollback", "restart", "web_submit"}
  MaxWrites = 2
  MaxFaults = 2
  MaxCrashes = 1
SPECIFICATION Spec
INVARIANTS
  SnapshotReady
  SnapshotComplete
  NoCoreOnStrayState
  NothingDangles
  PendingIsExclusive
  ServiceMatchesPointer
  RestartMatchesSetting
  ReportTrue
PROPERTIES
  SwitchesAtomically
