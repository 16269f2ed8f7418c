CONSTANTS
  Grace = 1
  Patience = 2
  Gap = 2
  Day = 4
  First = 2
  MaxNow = 4
  Events = {"start", "restart", "stop", "web_submit", "settings", "cli", "die", "hang"}
  MaxJumps = 0
  MaxFaults = 1
  MaxCrashes = 1
  MaxLost = 1
SPECIFICATION FairSpec
INVARIANTS
  NeverUninvited
PROPERTIES
  StuckServiceRestarted
