\* Two roles share the channel of expiring credentials, which holds one.
SPECIFICATION FairSpec
CONSTANTS
  Pods = {p1, p2}
  Identities <- MCIdentities
  Managers = {m1}
  Futures <- MCOneFuture
  Objects <- MCObjects
  PrefetchBufferSize = 2
  Replacements = FALSE
  STSFails = FALSE
  Asked = {}
  None = None
PROPERTY ExpiringRefreshed
