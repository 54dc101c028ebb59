----------------------------- MODULE Transport ------------------------------
(***************************************************************************)
(* receiveEnvelope() and the state its calls share: the replay cache and   *)
(* the verification-material cache a SessionTransport owns, and the key    *)
(* registry behind the signature resolver.  Calls run concurrently: each   *)
(* reads the time once, when it starts, and gives up the thread at every   *)
(* await; an action is what runs between two awaits.                       *)
(***************************************************************************)
EXTENDS ReplayWindow, Sequences

CONSTANTS Calls,              \* concurrent receiveEnvelope() calls
          Envelopes,          \* the envelopes that may arrive
          Slots,              \* material-cache keys: (sender, alg, keyId)
          Materials,          \* verification materials
          NoMaterial,         \* undefined
          NoSignature,        \* an envelope without a signature
          Forged,             \* a signature no material verifies
          NoEnvelope,
          RequireSignature,   \* options.requireSignature
          UseMaterialCache,   \* options.verificationMaterialCache is given
          MaxMaterials,       \* its maxEntries
          maxClockSkewMs,     \* options.maxClockSkewMs
          MAX_CLOCK_SKEW_MS,  \* validateEnvelope's own limit
          MAX_TTL_MS,
          MaxClock            \* bound on the clock

ASSUME TransportAssumption ==
  /\ Envelopes \subseteq
       [key : Keys, slot : Slots, signedWith : Materials \cup {NoSignature, Forged},
        wellFormed : BOOLEAN, timestampMs : Nat, ttlMs : Int]
  /\ NoMaterial \notin Materials
  /\ {NoSignature, Forged} \cap Materials = {}
  /\ NoMaterial \notin {NoSignature, Forged}
  /\ NoEnvelope \notin Envelopes
  /\ RequireSignature \in BOOLEAN
  /\ UseMaterialCache \in BOOLEAN
  /\ MaxMaterials \in Nat \ {0}
  /\ maxClockSkewMs \in Nat
  /\ MAX_CLOCK_SKEW_MS \in Nat
  /\ MAX_TTL_MS \in Nat
  /\ MaxClock \in Nat

VARIABLES clock,          \* Date.now()
          registry,       \* slot -> material the resolver finds, or NoMaterial
          held,           \* the replay cache (module ReplayWindow)
          cached,         \* slot -> material and expiry in the material cache
          order,          \* the slots in it, in order of insertion
          pc, env, now, mat,  \* the calls: place, envelope, nowMs, material
          (* history, read by the properties only *)
          acceptedUntil,  \* key -> latest expiry it was accepted with
          evictedLive,    \* keys the cache dropped before they expired, and
                          \* has not recorded again since
          revokedSince,   \* slot -> when it was last revoked, or Never
          lastStart       \* slot -> latest nowMs a call looked it up with

cacheVars == <<cached, order>>
callVars == <<pc, env, now, mat>>
replayVars == <<held, acceptedUntil, evictedLive>>
keyVars == <<registry, revokedSince>>
vars == <<clock, keyVars, replayVars, cacheVars, callVars, lastStart>>

Never == -1
NoCached == [material |-> NoMaterial, expiresAtMs |-> 0]

PCs == {"idle", "decoded", "resolving", "resolved", "verifying",
        "accepted", "rejected"}

-----------------------------------------------------------------------------
ExpiresAt(e) == e.timestampMs + e.ttlMs

(* Fault: ttlMs has no ceiling. *)
ValidAnyTtl(e, t) ==
  /\ e.wellFormed
  /\ e.ttlMs > 0
  /\ e.timestampMs <= t + MAX_CLOCK_SKEW_MS
  /\ ExpiresAt(e) >= t

(* validateEnvelope() reports no error.  wellFormed stands for its checks  *)
(* of version, messageId, sender, nonce and finite times.                  *)
Valid(e, t) ==
  /\ e.wellFormed
  /\ e.ttlMs > 0
  /\ e.ttlMs <= MAX_TTL_MS
  /\ e.timestampMs <= t + MAX_CLOCK_SKEW_MS
  /\ ExpiresAt(e) >= t

(* What receiveEnvelope checks before it looks at the signature. *)
Screened(e, t) == e.timestampMs <= t + maxClockSkewMs /\ Valid(e, t)

Signed(e) == e.signedWith # NoSignature

Later(a, b) == IF a >= b THEN a ELSE b

(* InMemoryVerificationMaterialCache.get: a live entry *)
Hit(s, t) ==
  /\ UseMaterialCache
  /\ cached[s].material # NoMaterial
  /\ cached[s].expiresAtMs > t

(* Map.delete: the Map's order lists a key once, if at all. *)
Without(q, s) ==
  IF \E i \in 1 .. Len(q) : q[i] = s
  THEN LET p == CHOOSE i \in 1 .. Len(q) : q[i] = s
       IN  [i \in 1 .. Len(q) - 1 |-> IF i < p THEN q[i] ELSE q[i + 1]]
  ELSE q

(* InMemoryVerificationMaterialCache.get: an expired entry is deleted      *)
DropExpired(s) ==
  IF UseMaterialCache
  THEN /\ cached' = [cached EXCEPT ![s] = NoCached]
       /\ order' = Without(order, s)
  ELSE UNCHANGED cacheVars

(* InMemoryVerificationMaterialCache.set as receiveEnvelope calls it: when *)
(* the Map is full its oldest entry goes, even if s is already in it; an   *)
(* existing entry keeps its place in the Map's order.                      *)
Remember(s, m, t, e) ==
  LET full == Len(order) >= MaxMaterials
      kept == IF full THEN Tail(order) ELSE order
      base == IF full THEN [cached EXCEPT ![Head(order)] = NoCached] ELSE cached
      entry == [material |-> m, expiresAtMs |-> Later(t + 1, ExpiresAt(e))]
  IN  IF UseMaterialCache
      THEN /\ cached' = [base EXCEPT ![s] = entry]
           /\ order' = IF \E i \in 1 .. Len(kept) : kept[i] = s
                       THEN kept ELSE Append(kept, s)
      ELSE UNCHANGED cacheVars

-----------------------------------------------------------------------------
Init ==
  /\ clock = 0
  /\ registry \in [Slots -> Materials]
  /\ held = Empty
  /\ cached = [s \in Slots |-> NoCached]
  /\ order = << >>
  /\ pc = [c \in Calls |-> "idle"]
  /\ env = [c \in Calls |-> NoEnvelope]
  /\ now = [c \in Calls |-> 0]
  /\ mat = [c \in Calls |-> NoMaterial]
  /\ acceptedUntil = [k \in Keys |-> NoEntry]
  /\ evictedLive = {}
  /\ revokedSince = [s \in Slots |-> Never]
  /\ lastStart = [s \in Slots |-> Never]

Goto(c, from, to) == pc[c] = from /\ pc' = [pc EXCEPT ![c] = to]

(* A call starts and decodes its input; the first await is telemetry.  The *)
(* items of a batch are calls that start together: they share its nowMs,   *)
(* however late a worker takes one.                                        *)
Receive(c, e) ==
  /\ Goto(c, "idle", "decoded")
  /\ env' = [env EXCEPT ![c] = e]
  /\ now' = [now EXCEPT ![c] = clock]
  /\ UNCHANGED <<clock, keyVars, replayVars, cacheVars, mat, lastStart>>

(* Bytes, or an item of a batch, that do not decode are returned as an     *)
(* error.                                                                  *)
DecodeFails(c) ==
  /\ Goto(c, "idle", "rejected")
  /\ UNCHANGED <<clock, keyVars, replayVars, cacheVars, env, now, mat, lastStart>>

(* Clock skew, validation, and a missing signature where one is required.  *)
RejectEarly(c) ==
  /\ Goto(c, "decoded", "rejected")
  /\ \/ ~Screened(env[c], now[c])
     \/ ~Signed(env[c]) /\ RequireSignature
  /\ UNCHANGED <<clock, keyVars, replayVars, cacheVars, env, now, mat, lastStart>>

(* Without requireSignature an unsigned envelope is accepted at once; the  *)
(* replay cache is not consulted.                                          *)
AcceptUnsigned(c) ==
  /\ Goto(c, "decoded", "accepted")
  /\ Screened(env[c], now[c])
  /\ ~Signed(env[c]) /\ ~RequireSignature
  /\ UNCHANGED <<clock, keyVars, replayVars, cacheVars, env, now, mat, lastStart>>

Lookup(c, to) ==
  /\ Goto(c, "decoded", to)
  /\ Screened(env[c], now[c])
  /\ Signed(env[c])
  /\ lastStart' = [lastStart EXCEPT ![env[c].slot] = Later(@, now[c])]

(* The material cache answers: the entry is written back with the expiry   *)
(* of this envelope, and the signature is verified without the resolver.   *)
LookupHit(c) ==
  LET s == env[c].slot
  IN  /\ Lookup(c, "verifying")
      /\ Hit(s, now[c])
      /\ mat' = [mat EXCEPT ![c] = cached[s].material]
      /\ Remember(s, cached[s].material, now[c], env[c])
      /\ UNCHANGED <<clock, keyVars, replayVars, env, now>>

(* It does not: the call awaits the resolver. *)
LookupMiss(c) ==
  /\ Lookup(c, "resolving")
  /\ ~Hit(env[c].slot, now[c])
  /\ DropExpired(env[c].slot)
  /\ UNCHANGED <<clock, keyVars, replayVars, env, now, mat>>

(* The resolver reads the registry at some moment of the await. *)
ResolverReads(c) ==
  /\ Goto(c, "resolving", "resolved")
  /\ mat' = [mat EXCEPT ![c] = registry[env[c].slot]]
  /\ UNCHANGED <<clock, keyVars, replayVars, cacheVars, env, now, lastStart>>

(* The resolver throws, and receiveEnvelope with it. *)
ResolverThrows(c) ==
  /\ Goto(c, "resolving", "rejected")
  /\ UNCHANGED <<clock, keyVars, replayVars, cacheVars, env, now, mat, lastStart>>

(* The call resumes with what the resolver found, and stores it before the *)
(* signature is verified.                                                  *)
StoreMaterial(c) ==
  /\ Goto(c, "resolved", "verifying")
  /\ mat[c] # NoMaterial
  /\ Remember(env[c].slot, mat[c], now[c], env[c])
  /\ UNCHANGED <<clock, keyVars, replayVars, env, now, mat, lastStart>>

RejectNoMaterial(c) ==
  /\ Goto(c, "resolved", "rejected")
  /\ mat[c] = NoMaterial
  /\ UNCHANGED <<clock, keyVars, replayVars, cacheVars, env, now, mat, lastStart>>

SignatureOk(c) == mat[c] = env[c].signedWith

(* Fault: the replay key is taken up before the signature is known good. *)
RejectAfterConsume(c) ==
  /\ Goto(c, "verifying", "rejected")
  /\ ~SignatureOk(c)
  /\ held' \in Consumed(held, env[c].key, ExpiresAt(env[c]), now[c])
  /\ UNCHANGED <<clock, keyVars, acceptedUntil, evictedLive, cacheVars, env, now, mat,
                 lastStart>>

RejectBadSignature(c) ==
  /\ Goto(c, "verifying", "rejected")
  /\ ~SignatureOk(c)
  /\ UNCHANGED <<clock, keyVars, replayVars, cacheVars, env, now, mat, lastStart>>

(* replayCache.consume(envelope, nowMs) with the nowMs of the call's start *)
RejectReplay(c) ==
  /\ Goto(c, "verifying", "rejected")
  /\ SignatureOk(c)
  /\ Replayed(held, env[c].key, now[c])
  /\ held' = Prune(held, now[c])
  /\ UNCHANGED <<clock, keyVars, acceptedUntil, evictedLive, cacheVars, env, now, mat,
                 lastStart>>

Accept(c) ==
  LET k == env[c].key
      x == ExpiresAt(env[c])
      dropped == {j \in Keys \ {k} : held[j] > clock /\ held'[j] = NoEntry}
      restored == IF x >= acceptedUntil[k] THEN {k} ELSE {}
  IN  /\ Goto(c, "verifying", "accepted")
      /\ SignatureOk(c)
      /\ ~Replayed(held, k, now[c])
      /\ held' \in Consumed(held, k, x, now[c])
      /\ acceptedUntil' = [acceptedUntil EXCEPT ![k] = Later(@, x)]
      /\ evictedLive' = (evictedLive \ restored) \cup dropped
      /\ UNCHANGED <<clock, keyVars, cacheVars, env, now, mat, lastStart>>

(* The caller has its answer; the slot in Calls is free for another call.  *)
Return(c) ==
  /\ pc[c] \in {"accepted", "rejected"}
  /\ pc' = [pc EXCEPT ![c] = "idle"]
  /\ env' = [env EXCEPT ![c] = NoEnvelope]
  /\ now' = [now EXCEPT ![c] = 0]
  /\ mat' = [mat EXCEPT ![c] = NoMaterial]
  /\ UNCHANGED <<clock, keyVars, replayVars, cacheVars, lastStart>>

(* Fault: the resolver does not ask the revocation store. *)
RevokeUnseen(s) ==
  /\ registry[s] # NoMaterial
  /\ revokedSince' = [revokedSince EXCEPT ![s] = clock]
  /\ UNCHANGED <<clock, registry, replayVars, cacheVars, callVars, lastStart>>

(* RevocationStore.revoke under withRevocationCheck: from now on the       *)
(* resolver finds no material.                                             *)
Revoke(s) ==
  /\ registry[s] # NoMaterial
  /\ registry' = [registry EXCEPT ![s] = NoMaterial]
  /\ revokedSince' = [revokedSince EXCEPT ![s] = clock]
  /\ UNCHANGED <<clock, replayVars, cacheVars, callVars, lastStart>>

(* Another key is registered under the same sender and keyId. *)
Rotate(s, m) ==
  /\ registry' = [registry EXCEPT ![s] = m]
  /\ revokedSince' = [revokedSince EXCEPT ![s] = Never]
  /\ UNCHANGED <<clock, replayVars, cacheVars, callVars, lastStart>>

Tick ==
  /\ clock < MaxClock
  /\ clock' = clock + 1
  /\ UNCHANGED <<keyVars, replayVars, cacheVars, callVars, lastStart>>

CallStep(c) ==
  \/ \E e \in Envelopes : Receive(c, e)
  \/ DecodeFails(c)
  \/ RejectEarly(c)
  \/ AcceptUnsigned(c)
  \/ LookupHit(c)
  \/ LookupMiss(c)
  \/ ResolverReads(c)
  \/ ResolverThrows(c)
  \/ StoreMaterial(c)
  \/ RejectNoMaterial(c)
  \/ RejectBadSignature(c)
  \/ RejectReplay(c)
  \/ Accept(c)
  \/ Return(c)

Next ==
  \/ \E c \in Calls : CallStep(c)
  \/ \E s \in Slots : Revoke(s)
  \/ \E s \in Slots, m \in Materials : Rotate(s, m)
  \/ Tick

Spec == Init /\ [][Next]_vars

-----------------------------------------------------------------------------
(* Properties *)

TypeOK ==
  /\ clock \in Nat
  /\ registry \in [Slots -> Materials \cup {NoMaterial}]
  /\ held \in Windows
  /\ cached \in [Slots -> [material : Materials \cup {NoMaterial}, expiresAtMs : Nat]]
  /\ pc \in [Calls -> PCs]
  /\ env \in [Calls -> Envelopes \cup {NoEnvelope}]
  /\ \A c \in Calls : env[c] = NoEnvelope => pc[c] \in {"idle", "rejected"}
  /\ now \in [Calls -> Nat]
  /\ mat \in [Calls -> Materials \cup {NoMaterial}]
  /\ acceptedUntil \in Windows
  /\ evictedLive \subseteq Keys
  /\ revokedSince \in [Slots -> Nat \cup {Never}]
  /\ lastStart \in [Slots -> Nat \cup {Never}]

(* The step by which call c accepts a signed envelope *)
Accepts(c) == pc[c] = "verifying" /\ pc'[c] = "accepted"

(* No two calls accept the same replay key while the first acceptance is   *)
(* unexpired, however long either of them waited for the resolver and      *)
(* whatever its captured nowMs: unless the cache had to evict the key to   *)
(* stay within its capacity.                                               *)
NoReplayBeforeExpiry ==
  [][\A c \in Calls : Accepts(c) =>
       LET k == env[c].key IN acceptedUntil[k] <= clock \/ k \in evictedLive]_vars

(* Only an accepted envelope takes up its replay key: a forged, unsigned,  *)
(* malformed or failed copy never makes the genuine envelope look like a   *)
(* replay (consume() runs after the signature check, not before).          *)
OnlyAcceptedHeld == \A k \in Keys : held[k] <= acceptedUntil[k]

(* The material cache: order lists exactly the cached slots, once each,    *)
(* and they fit.                                                           *)
MaterialCacheBounded ==
  /\ Len(order) <= MaxMaterials
  /\ \A s \in Slots : cached[s].material # NoMaterial
                       <=> \E i \in 1 .. Len(order) : order[i] = s
  /\ \A i, j \in 1 .. Len(order) : order[i] = order[j] => i = j

(* Cached material is forgotten at the latest one skew and one maximal ttl *)
(* after the last call that asked for its slot started.                    *)
QuietPeriodFlushes ==
  \A s \in Slots : cached[s].material # NoMaterial =>
    cached[s].expiresAtMs <= lastStart[s] + MAX_CLOCK_SKEW_MS + MAX_TTL_MS

(* protocolTransport.ts:106: the material cache keeps to its capacity, in  *)
(* step with its order, and forgets what is no longer asked for.           *)
MaterialCacheHolds == MaterialCacheBounded /\ QuietPeriodFlushes

(* An envelope whose key was already revoked when its call started is      *)
(* never accepted.                                                         *)
RevokedIsRejected ==
  [][\A c \in Calls : Accepts(c) =>
       LET s == env[c].slot
       IN  ~(revokedSince[s] # Never /\ revokedSince[s] < now[c])]_vars

-----------------------------------------------------------------------------
(* The inductive invariant *)

(* A call's nowMs is a past reading of the clock. *)
CallsInPast == \A c \in Calls : now[c] <= clock

(* Past the early checks, a call carries a signed envelope that passed     *)
(* them, and its slot knows of it.                                         *)
InFlight ==
  \A c \in Calls : pc[c] \in {"resolving", "resolved", "verifying"} =>
    /\ env[c] \in Envelopes
    /\ Signed(env[c])
    /\ Screened(env[c], now[c])
    /\ now[c] <= lastStart[env[c].slot]

(* A live acceptance is still in the replay cache, unless it was evicted.  *)
AcceptedHeld ==
  \A k \in Keys : acceptedUntil[k] > clock /\ k \notin evictedLive =>
    held[k] = acceptedUntil[k]

IInv ==
  /\ TypeOK
  /\ CallsInPast
  /\ InFlight
  /\ OnlyAcceptedHeld
  /\ AcceptedHeld
  /\ QuietPeriodFlushes

(* What a transport without a material cache adds: material in hand was    *)
(* registered at some moment since the call started.                       *)
FreshMaterial ==
  /\ \A s \in Slots : registry[s] # NoMaterial => revokedSince[s] = Never
  /\ \A c \in Calls :
       /\ pc[c] \in {"resolved", "verifying"}
       /\ mat[c] # NoMaterial
       => LET since == revokedSince[env[c].slot]
          IN  since = Never \/ since >= now[c]
=============================================================================
