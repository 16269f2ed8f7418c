CONSTANTS
  Grace = 1
  Patience = 2
  Gap = 2
  Day = 5
  First = 2
  MaxNow = 7
  Events = {"die", "net"}
  MaxJumps = 1
  MaxFaults = 1
  MaxCrashes = 1
  MaxLost = 1
SPECIFICATION Spec
INVARIANTS
  BudgetKept
  Counted
