SPECIFICATION Spec
CONSTANTS
  a = a
  b = b
  k1 = k1
  k2 = k2
  k3 = k3
  g1 = g1
  Senders = {a, b}
  Keys = {k1, k2, k3, g1}
  NoRequest = NoRequest
  NoLimit = NoLimit
  NoGrant = NoGrant
  Calls = {c1}
  Requests <- MCSchemes
  Policies <- MCPolicies
  MaxEntries = 3
  Skew = 1
  MaxAge = 1
  maxKeys = 2
  MaxDelay = 0
  MaxClock = 2
INVARIANT OwnSchemeOnly
