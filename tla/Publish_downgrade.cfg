CONSTANTS
  Publisher = {ci}
  Workflow = ci
  Identity = {1, 2, 3}
  Content = {same}
  Built = same
  None = None
  MaxAsks = 1
  MaxFaults = 1
SPECIFICATION Spec
INVARIANT NoDowngrade
CHECK_DEADLOCK FALSE
