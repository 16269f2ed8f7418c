CONSTANTS
  c1 = c1
  d1 = d1
  Commit = {c1, c2, c3}
  Genuine = {c1, c2}
  Digest = {d1, d2}
  FirstDigest = d1
  Text = {1, 2}
  BuildOf <- Builds
  PinOf <- Pins
  None = None
  MaxFaults = 2
SPECIFICATION Spec
INVARIANTS
  SoundLocks
  CurrentSource
  RebuildsThePublished
PROPERTIES
  DeliveredUnlessBlocked
