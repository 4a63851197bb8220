\* Two roles, full channels, failing requests and calls, replaced pods.
SPECIFICATION FairSpec
CONSTANTS
  Pods = {p1}
  Identities <- MCIdentities
  Managers = {m1}
  Futures <- MCFutures
  Objects <- MCRunning
  PrefetchBufferSize = 1
  Replacements = TRUE
  STSFails = TRUE
  Asked <- MCAsked
  None = None
INVARIANTS
  TypeOK
  NoSilentLoss
PROPERTY KeepsRolesWarm
