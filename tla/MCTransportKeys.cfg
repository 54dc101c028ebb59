SPECIFICATION Spec
CONSTANTS
  s1 = s1
  s2 = s2
  m1 = m1
  m2 = m2
  k1 = k1
  k2 = k2
  k3 = k3
  NoMaterial = NoMaterial
  NoSignature = NoSignature
  Forged = Forged
  NoEnvelope = NoEnvelope
  Calls = {c1, c2}
  Keys = {k1}
  Slots = {s1, s2}
  Materials = {m1}
  Envelopes <- MCKeyEnvelopes
  RequireSignature = FALSE
  UseMaterialCache = TRUE
  MaxMaterials = 1
  MaxEntries = 2
  maxClockSkewMs = 1
  MAX_CLOCK_SKEW_MS = 1
  MAX_TTL_MS = 2
  MaxClock = 3
SYMMETRY CallSymmetry
INVARIANT MaterialCacheHolds
