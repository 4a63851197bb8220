\* One request while two pods share an address and permissions come and go.
SPECIFICATION Spec
CONSTANTS
  Pods = {p1, p2}
  Objects <- MCObjects
  PrefetchBufferSize = 0
  Replacements = TRUE
  Requests = {r1}
  IPs = {a1}
  Roles = {x1, x2}
  Sessions = {"s1", "s2"}
  Namespaces = {n1}
  None = None
SYMMETRY MCSymmetry
INVARIANTS
  TypeOK
  GrantedDuringRequest
  EntitledNotRefused
