CONSTANTS
  Addr = {a1, a2}
  NoAddr = NoAddr
  Absent = Absent
  Own = Own
  None = None
  MaxEvents = 2
  MaxOps = 3
  MaxFaults = 2
SPECIFICATION Spec
INVARIANTS
  LossIsKnown
  CacheNamesTheRule
PROPERTIES
  RulesComeBack
