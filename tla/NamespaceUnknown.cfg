\* The pod is known before its namespace is.
SPECIFICATION Spec
CONSTANTS
  Pods = {p1}
  Objects <- MCObjects
  PrefetchBufferSize = 0
  Replacements = FALSE
  Requests = {r1, r2}
  IPs = {a1}
  Roles = {x1}
  Sessions = {"s1", "s2"}
  Namespaces = {n1}
  None = None
INVARIANT RefusedWithoutAnnotation
