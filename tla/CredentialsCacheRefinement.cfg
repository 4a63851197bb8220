\* Two calls, two identities, two ticks: an item set at time 0 is hit at
\* time 1, is expired at time 2 and overwritten or purged.  Liveness, so no
\* symmetry.
SPECIFICATION FairSpecR
CONSTANTS
  Calls = {c1, c2}
  Tokens <- MCTokens
  Identities <- MCIdentities
  SessionDuration = 2
  SessionRefresh = 1
  MaxTime = 2
  None = None
INVARIANTS
  TypeOK
  ServedForOwnIdentity
  FreshHit
  NoPoisonedEntry
  GaugeCoversItems
PROPERTIES
  ImplementsProvider
  CallsReturn
  JanitorReturns
