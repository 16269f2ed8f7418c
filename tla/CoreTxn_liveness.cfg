CONSTANTS
  Core = {1, 2}
  Ops = {"check", "update", "rollback", "start", "stop", "restart", "web_submit", "start_nat"}
  MaxWrites = 1
  MaxFaults = 1
  MaxCrashes = 1
SPECIFICATION FairSpec
PROPERTIES
  LockReleased
  RecoveredAfterBoot
