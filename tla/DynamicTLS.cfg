\* Two generations, torn and missing files, an event that waits behind the
\* one being handled.
SPECIFICATION FairSpec
CONSTANTS
  Generations = {1, 2}
  Torn = Torn
  Missing = Missing
  None = None
  MaxEvents = 1
INVARIANTS
  TypeOK
  NoSilentStale
PROPERTIES
  Converges
  CloseReturns
