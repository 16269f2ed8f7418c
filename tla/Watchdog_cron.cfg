CONSTANTS
  Grace = 1
  Patience = 2
  Gap = 2
  Day = 4
  First = 2
  MaxNow = 6
  Events = {"die", "net"}
  MaxJumps = 0
  MaxFaults = 1
  MaxCrashes = 0
  MaxLost = 0
SPECIFICATION Spec
INVARIANTS
  EnabledIsChecked
