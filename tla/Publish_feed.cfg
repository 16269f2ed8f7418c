CONSTANTS
  Publisher = {ci, hand}
  Workflow = ci
  Identity = {1, 2}
  Content = {same, other}
  Built = same
  None = None
  MaxAsks = 2
  MaxFaults = 1
SPECIFICATION FairSpec
INVARIANTS
  FeedIsReleased
  FeedNeverLower
PROPERTIES
  Immutable
  FeedImplemented
  NewestOffered
CHECK_DEADLOCK FALSE
