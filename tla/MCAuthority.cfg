SPECIFICATION MCSpec
CONSTANTS
  g1 = g1
  g2 = g2
  pay = pay
  read = read
  Keys = {g1, g2}
  Actions = {pay, read}
  Grants <- MCGrants
  NoGrant = NoGrant
  Presentations = {p1, p2}
  MaxEntries = 1
  Skew = 1
  MAX_APPROVAL_TTL_MS = 3
  MaxDelay = 1
  MaxClock = 6

  Stamp <- MCStamp
  Lifetime <- MCLifetime
  BindSkew = 1
  Slots = {x1, x2}
  MaxStarts = 2
  MaxBindTime = 3

  GuardCalls = {x1, x2}
  WebGrants <- MCWebGrants
  Chain <- MCChain
  GrantExpiry <- MCExpiry
  GrantCap <- MCCap
  Covers <- MCCovers
  ToolMax = 2
  Inputs <- MCInputs
  NoNonce = ""
  MaxReceipts = 2
  MaxGuardTime = 1

  Requests = {x1, x2}
  Names <- MCNames
  Page <- MCPage
  Pages = 2
  ToolTexts = {"v1", "v2"}
  Absent = "absent"
  Unfit = "unfit"
  Servers = {"here", "there"}
  Server = "here"
  Approved <- MCApproved
  AllowUnpinned = TRUE
  MaxAge = 1
  MaxPinTime = 1
  MaxChanges = 1

  Calls <- MCCalls
  NoKey = "none"
  Appends = {x1, x2}
  RefreshMs = 1
  MaxLog = 3
  MaxLogTime = 1
  MaxRestarts = 1

  Texts <- MCTexts
  MaxWrites = 3
  MaxChunks = 3
  MaxFed = 4
  OtherStream <- MCOther

  Stream = s
  Other = o
  Anything = any
  Expect = any
  OtherEvents <- MCOtherEvents
  MaxSent = 3
  MaxEvents = 4

  Loggers = {l1, l2}
  AuditEvents = {e1, e2}
  MaxAuditEntries = 2
  MaxLogged = 4
SYMMETRY AuthoritySymmetry
INVARIANTS
  PartsConsistent
  HandedOverOnce
  RunsAuthorised
  ReceiptsHold
  PinnedToolsOnly
  StreamWhole
  SseDelivers
  AuditChainHolds
PROPERTIES
  SingleUse
  ResolvesTrustedKeys
