CONSTANTS
  released = released
  other = other
  newer = newer
  universal = universal
  hnd = hnd
  Lock = {released, other, newer}
  Released = {released}
  Identity = {1, 2}
  IdOf <- Identities
  Platform = {universal, hnd}
  ArchesOf <- Contents
  None = None
  Torn = Torn
  MaxRuns = 4
  MaxFaults = 2
SPECIFICATION Spec
INVARIANTS
  SignedIsBuilt
  PackagesAgree
  ShippedIsWhole
  RefusedForCause
