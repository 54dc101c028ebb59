SPECIFICATION AdmissionSpec
CONSTANTS
  a = a
  b = b
  k1 = k1
  k2 = k2
  k3 = k3
  g1 = g1
  Senders = {a, b}
  Keys = {k1, k2, k3, g1}
  NoRequest = NoRequest
  NoLimit = NoLimit
  NoGrant = NoGrant
  Calls = {c1, c2}
  Requests <- MCRequests
  Policies <- MCPolicies
  MaxEntries = 2
  Skew = 1
  MaxAge = 1
  maxKeys = 2
  MaxDelay = 1
  MaxClock = 4
  p1 = p1
  agent = agent
  shop = shop
  stall = stall
  here = here
  elsewhere = elsewhere
  DpopCalls = {d1, d2}
  ClientKeys = {p1, p2}
  Targets = {x, y}
  Tokens = {tok}
  NoToken = NoToken
  BoundTo <- MCBoundTo
  Jtis = {j1}
  IssueTimes = {1}
  NoNonce = NoNonce
  NonceRequired = FALSE
  TicksPerSecond = 2
  SkewS = 1
  MaxAgeS = 1
  NonceSkewS = 1
  NonceLifetime = 3
  MaxProofs = 1
  MaxNonces = 1
  DpopDelay = 1
  DpopTimeLimit = 7
  StepAgents = {bot, aide}
  Approvers = {human, bot}
  StepRequests <- MCStepRequests
  NoClaim = NoClaim
  NoSignoff = NoSignoff
  MAX_PROVENANCE_SOURCES = 1
  ClaimTtl = 1
  MaxClaimTtl = 1
  GrantTtl = 1
  MaxGrantTtl = 1
  StepSkew = 0
  MaxClaims = 1
  MaxApprovals = 1
  StepTimeLimit = 1
  Lookups = {l1, l2}
  Workloads = {w1}
  AgentKeys = {ak1, ak2}
  NoKey = NoKey
  Attesters = {t1}
  AllowedAttesters = {t1}
  Builds = {b1, b2}
  ApprovedBuilds = {b1}
  StatementLife = 2
  AttestSkew = 0
  MaxStatementAge = 1
  CacheMs = 2
  MaxCacheEntries = 1
  LookupDelay = 1
  MaxStatements = 1
  AttestTimeLimit = 2
  CardCalls = {v1}
  KeyIds = {i1, i2}
  Contents = {here, elsewhere}
  OriginsOf <- MCOriginsOf
  ExpectedOrigin = here
  RequireAll = TRUE
  MaxSignatures = 2
  MaxSignings = 2
  Payer = payer
  Agents = {agent, other}
  Merchants = {shop, stall}
  Constraints <- MCConstraints
  Items <- MCItems
  Currencies = {"EUR", "USD"}
  DocIds = {1, 2}
  NoBound = NoBound
  MaxSafe = 5
  IntentLifetime = 1
  CartLifetime = 1
  PaymentLifetime = 1
  ChainSkew = 0
  MaxIntents = 1
  MaxCarts = 2
  MaxPayments = 1
  ChainTimeLimit = 1
SYMMETRY AdmissionSymmetry
INVARIANTS
  PassesWithinQuota
  RefusalKeepsGrant
  ProofsHold
  UntrustedNeedsHuman
  IdentitiesHold
  PaidAsAgreed
