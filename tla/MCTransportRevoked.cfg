SPECIFICATION Spec
CONSTANTS
  s1 = s1
  s2 = s2
  m1 = m1
  m2 = m2
  k1 = k1
  k2 = k2
  k3 = k3
  NoMaterial = NoMaterial
  NoSignature = NoSignature
  Forged = Forged
  NoEnvelope = NoEnvelope
  Calls = {c1}
  Keys = {k1, k2, k3}
  Slots = {s1}
  Materials = {m1}
  Envelopes <- MCTwoEnvelopes
  RequireSignature = TRUE
  UseMaterialCache = TRUE
  MaxMaterials = 1
  MaxEntries = 3
  maxClockSkewMs = 1
  MAX_CLOCK_SKEW_MS = 1
  MAX_TTL_MS = 2
  MaxClock = 4
PROPERTY RevokedIsRejected
