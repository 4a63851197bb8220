\* Roles of up to two tokens in every form; session names around the limit.
SPECIFICATION Spec
CONSTANTS
  MaxRole = 2
  MaxField = 2
  SessionLens = {0, 1, 2, 57, 58, 59, 60, 61, 80}
INVARIANTS
  SameRoleIffSameARN
  KeyDeterminesIdentity
  SessionNameAccepted
  SessionNameKept
