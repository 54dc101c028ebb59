SPECIFICATION MCSpec
CONSTANTS
  i1 = i1
  i2 = i2
  i3 = i3
  Ids = {i1, i2, i3}
  Payments <- MCPayments
  Grants <- MCGrants
  NoPayment = NoPayment
  NoGrant = NoGrant
  Presentations = {c1, c2}
  Ceiling = 6
  Threshold = 2

  Senders = {a, b, c, d}
  Policies <- OnePolicy
  maxKeys = 2
  MaxClock = 3

  Calls = {c1, c2}
  Junk = junk
  Elsewhere = elsewhere
  Stranger = stranger
  MaxFaults = 2

  RpcLines = {l1, l2}
  TokenQuota = 1
  MaxUpsets = 2

  Keys = {k1, k2, k3, k4, k5}
  MaxEntries = 4
  Expiries <- MCExpiries
  Instants <- MCInstants
INVARIANTS
  PartsConsistent
  CeilingHolds
  PaymentsAccounted
  WithinQuota
  RunsOnceForItsCaller
  AnswerMatchesTrail
PROPERTIES
  EverythingSettles
  QuotaSurvivesFlood
  ImplementsReplayCache
