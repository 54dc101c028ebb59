SPECIFICATION MCSpec
CONSTANTS
  Requests = {x1, x2}
  Hosts = {y1, y2}
  Shards = {s1, s2}
  Main = s1
  n1 = n1
  Nonces = {n1}
  ExpiresAt <- MCExpiresAt
  Batches <- MCBatches
  MaxTime = 2

  Workers = {x1, x2}
  Datacenters = {y1, y2}
  e1 = e1
  e2 = e2
  EdgeNonces = {e1, e2}
  Ttl <- MCTtl
  Second = 2
  KvFloor = 2
  Limit = 2
  Window = 3
  MaxLag = 1
  MaxWall = 4
  MaxPassed = 5

  SdkTimes <- MCTimes
  SdkTtls <- MCTtls
  SdkSkewMs = 1
  SdkMaxTtlMs = 2
  MaxSdkTime = 3

  Agents = {y1, y2}
  Known = {y1, y2}
  Literals = {"a", "b", ""}
  PathLength = 2
  ScopeLists = {"all", "part"}
  Scopes <- MCScopes
  Methods = {"GET", "PUT"}
  Lifetimes = {1, 2}
  Budgets <- MCBudgets
  MaxTokens = 3
  MaxCapTime = 1

  bot1 = "bot1"
  Bots = {"bot1", "bot2"}
  Directory <- MCDirectory
  HsAllowed = {"bot1"}
  HsLifetimes = {2, 4}
  HsMaxAge = 2
  HsSkew = 1
  MaxHsTime = 7
  MaxChanges = 1
  MaxVerified = 2

  Signers = {"p1", "p2", "p3"}
  Messages = {"m1", "m2"}
  MinSigners = 2
  MaxDelivered = 3
  FieldOrder = 7
  IndexRange = 6
  MinShares = {2, 3}
  ShareCount = 4

  Nodes = {y1, y2}
  Reads = {x1, x2}
  CacheTtl = 1
  OnError = "reject"
  MaxNow = 2

  Rotations = {x1, x2}
  Lookups = {k1}
  MaxAgeMs = 2
  OverlapMs = 1
  CacheMs = 1
  TtlMs = 1
  MaxKeys = 2
  MaxKeyTime = 2
SYMMETRY IdentitySymmetry
INVARIANTS
  AnsweredFreshOnce
  SdksAgree
  DelegationSound
  AcceptedRequestsHold
  ThresholdSound
  RevocationTakesEffect
  AnswersBounded
  PartsTypeOK
PROPERTIES
  EdgeStoresHold
  RotationHolds
