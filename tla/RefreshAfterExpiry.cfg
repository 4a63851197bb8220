\* session-refresh as long as session-duration: the TTL is not positive.
SPECIFICATION Spec
CONSTANTS
  Calls = {c1, c2}
  Tokens <- MCTokens
  Identities <- MCOneIdentity
  SessionDuration = 1
  SessionRefresh = 1
  MaxTime = 2
  None = None
SYMMETRY MCSymmetry
INVARIANT RefreshedBeforeExpiration
