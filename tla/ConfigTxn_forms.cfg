CONSTANTS
  Lists = {}
  Forms = {1, 3}
  MaxFaults = 2
SPECIFICATION Spec
INVARIANTS
  FailedLeavesOld
  ServiceComesBack
  SuccessInForce
  UncarriedKept
PROPERTY
  SubmitsAtomically
