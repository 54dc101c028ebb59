SPECIFICATION Spec
CONSTANTS
  a = a
  b = b
  k1 = k1
  k2 = k2
  k3 = k3
  g1 = g1
  Senders = {a, b}
  Keys = {k1, k2, k3, g1}
  NoRequest = NoRequest
  NoLimit = NoLimit
  NoGrant = NoGrant
  Calls = {c1, c2}
  Requests <- MCRoutes
  Policies <- MCRoutePolicies
  MaxEntries = 3
  Skew = 1
  MaxAge = 1
  maxKeys = 2
  MaxDelay = 1
  MaxClock = 4
SYMMETRY Symmetry
PROPERTY SecondUseNeedsEarlyFirst
