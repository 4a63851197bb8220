\* The first attempt to delete the rule fails.
SPECIFICATION Spec
CONSTANTS
  Requests = {}
  FiveSeconds = 1
  Options <- MCOptions
INVARIANT RemovalRetried
