-------------------------- MODULE TransportProofs ---------------------------
(* Proofs of the properties of Transport, for every set of calls, keys and *)
(* envelopes, every clock and every capacity; then that the Map and the    *)
(* heap of InMemoryReplayCache implement the replay cache Transport takes  *)
(* as a function from keys to expiries.                                    *)
EXTENDS Transport, InMemoryReplayCache, ListProofs, TLAPS

(* What prune and consume() do to one key of the window. *)
LEMMA PruneType ==
  ASSUME NEW h \in Windows, NEW t \in Nat
  PROVE  /\ Prune(h, t) \in Windows
         /\ \A k \in Keys : /\ h[k] > t => Prune(h, t)[k] = h[k]
                            /\ h[k] <= t => Prune(h, t)[k] = NoEntry
BY DEF Windows, Prune, NoEntry

LEMMA ConsumedType ==
  ASSUME NEW h \in Windows, NEW k \in Keys, NEW x \in Nat, NEW t \in Nat,
         NEW g \in Consumed(h, k, x, t)
  PROVE  /\ g \in Windows
         /\ g[k] = x
         /\ \A j \in Keys \ {k} : g[j] = NoEntry \/ (g[j] = h[j] /\ h[j] > t)
<1> DEFINE p == Prune(h, t)
<1>1. p \in Windows /\ \A j \in Keys : p[j] = NoEntry \/ (p[j] = h[j] /\ h[j] > t)
  BY PruneType DEF Windows, NoEntry
<1>2. PICK r \in MakeRoom(p) : g = [r EXCEPT ![k] = x]
  BY DEF Consumed
<1> HIDE DEF p
<1>3. r = p \/ \E v \in Keys : r = [p EXCEPT ![v] = NoEntry]
  BY <1>2 DEF MakeRoom, Earliest, Held
<1>4. r \in Windows /\ \A j \in Keys : r[j] = NoEntry \/ r[j] = p[j]
  BY <1>1, <1>3 DEF Windows, NoEntry
<1> QED BY <1>1, <1>2, <1>4 DEF Windows

-----------------------------------------------------------------------------
LEMMA InitInv == Init => IInv
BY TransportAssumption DEF Init, IInv, TypeOK, CallsInPast, InFlight, OnlyAcceptedHeld,
   AcceptedHeld, QuietPeriodFlushes, Empty, Windows, NoEntry, Never, NoCached, PCs

(* Storing material keeps the material cache within its horizon. *)
LEMMA RememberHorizon ==
  ASSUME IInv, NEW e \in Envelopes, NEW t \in Nat, NEW m \in Materials,
         NEW starts \in [Slots -> Nat \cup {Never}],
         \A s \in Slots : lastStart[s] <= starts[s],
         Screened(e, t), t <= starts[e.slot], Remember(e.slot, m, t, e)
  PROVE  /\ cached' \in [Slots -> [material : Materials \cup {NoMaterial}, expiresAtMs : Nat]]
         /\ \A s \in Slots : cached'[s].material # NoMaterial =>
              cached'[s].expiresAtMs <= starts[s] + MAX_CLOCK_SKEW_MS + MAX_TTL_MS
<1> DEFINE x == Later(t + 1, ExpiresAt(e))
           base == IF Len(order) >= MaxMaterials
                   THEN [cached EXCEPT ![Head(order)] = NoCached] ELSE cached
           Bounded(f) == \A s \in Slots : f[s].material # NoMaterial =>
              f[s].expiresAtMs <= starts[s] + MAX_CLOCK_SKEW_MS + MAX_TTL_MS
           T == [Slots -> [material : Materials \cup {NoMaterial}, expiresAtMs : Nat]]
<1>1. /\ e.slot \in Slots /\ e.timestampMs \in Nat /\ e.ttlMs \in Int
      /\ starts[e.slot] \in Int
  BY TransportAssumption DEF IInv, TypeOK, Never
<1>2. x \in Nat /\ x <= starts[e.slot] + MAX_CLOCK_SKEW_MS + MAX_TTL_MS
  BY <1>1, TransportAssumption DEF Screened, Valid, ExpiresAt, Later
<1>3. cached \in T /\ Bounded(cached)
  BY TransportAssumption DEF IInv, TypeOK, QuietPeriodFlushes, Never
<1>4. base \in T /\ Bounded(base)
  <2>1. NoCached \in [material : Materials \cup {NoMaterial}, expiresAtMs : Nat]
        /\ NoCached.material = NoMaterial
    BY DEF NoCached
  <2>2. CASE Len(order) >= MaxMaterials
    <3>1. base = [cached EXCEPT ![Head(order)] = NoCached]
      BY <2>2
    <3> HIDE DEF base
    <3>2. \A s \in Slots : base[s] = NoCached \/ base[s] = cached[s]
      BY <3>1, <1>3
    <3>3. base \in T
      BY <3>1, <1>3, <2>1
    <3> QED BY <3>2, <3>3, <1>3, <2>1
  <2>3. CASE ~(Len(order) >= MaxMaterials)
    BY <2>3, <1>3
  <2> QED BY <2>2, <2>3
<1>5. cached' = [base EXCEPT ![e.slot] = [material |-> m, expiresAtMs |-> x]]
      \/ cached' = cached
  BY DEF Remember, cacheVars
<1> HIDE DEF x, base
<1>6. CASE cached' = cached
  BY <1>3, <1>6
<1>7. CASE cached' = [base EXCEPT ![e.slot] = [material |-> m, expiresAtMs |-> x]]
  <2>1. cached' \in T
    BY <1>2, <1>4, <1>7
  <2>2. ASSUME NEW s \in Slots, cached'[s].material # NoMaterial
        PROVE  cached'[s].expiresAtMs <= starts[s] + MAX_CLOCK_SKEW_MS + MAX_TTL_MS
    <3>1. CASE s = e.slot
      <4>1. cached'[s].expiresAtMs = x
        BY <1>1, <1>4, <1>7, <3>1
      <4> QED BY <4>1, <3>1, <1>2
    <3>2. CASE s # e.slot
      <4>1. cached'[s] = base[s]
        BY <1>4, <1>7, <3>2
      <4> QED BY <4>1, <1>4, <2>2
    <3> QED BY <3>1, <3>2
  <2> QED BY <2>1, <2>2
<1> QED BY <1>5, <1>6, <1>7

-----------------------------------------------------------------------------
(* The inductive step, one step of the proof per action. *)
LEMMA NextInv == IInv /\ [Next]_vars => IInv'
<1> SUFFICES ASSUME IInv, [Next]_vars PROVE IInv'
  OBVIOUS
<1> USE TransportAssumption
<1>t. TypeOK /\ CallsInPast /\ InFlight /\ OnlyAcceptedHeld /\ AcceptedHeld
      /\ QuietPeriodFlushes
  BY DEF IInv
<1>e. \A e \in Envelopes : /\ e.key \in Keys /\ e.slot \in Slots
                           /\ e.timestampMs \in Nat /\ e.ttlMs \in Int
  OBVIOUS
<1>1. ASSUME NEW c \in Calls, NEW e \in Envelopes, Receive(c, e) PROVE IInv'
  BY <1>1, <1>t DEF IInv, TypeOK, CallsInPast, InFlight, OnlyAcceptedHeld,
     AcceptedHeld, QuietPeriodFlushes, Receive, Goto, keyVars, replayVars, cacheVars, PCs
<1>2. ASSUME NEW c \in Calls, DecodeFails(c) \/ RejectEarly(c) \/ AcceptUnsigned(c)
                              \/ ResolverThrows(c) \/ RejectNoMaterial(c)
                              \/ RejectBadSignature(c)
      PROVE  IInv'
  <2>1. /\ \E to \in {"accepted", "rejected"} : pc' = [pc EXCEPT ![c] = to]
        /\ env[c] = NoEnvelope => pc'[c] = "rejected"
        /\ UNCHANGED <<clock, keyVars, replayVars, cacheVars, env, now, mat, lastStart>>
    BY <1>2, <1>t DEF DecodeFails, RejectEarly, AcceptUnsigned, ResolverThrows,
       RejectNoMaterial, RejectBadSignature, Goto, TypeOK
  <2> QED
    BY <2>1, <1>t DEF IInv, TypeOK, CallsInPast, InFlight, OnlyAcceptedHeld,
       AcceptedHeld, QuietPeriodFlushes,
       keyVars, replayVars, cacheVars, PCs
<1>3. ASSUME NEW c \in Calls, LookupHit(c) PROVE IInv'
  <2> DEFINE sl == env[c].slot
  <2>1. /\ pc' = [pc EXCEPT ![c] = "verifying"]
        /\ lastStart' = [lastStart EXCEPT ![sl] = Later(@, now[c])]
        /\ mat' = [mat EXCEPT ![c] = cached[sl].material]
        /\ UNCHANGED <<clock, keyVars, replayVars, env, now>>
        /\ Signed(env[c]) /\ Screened(env[c], now[c])
        /\ cached[sl].material # NoMaterial
        /\ Remember(sl, cached[sl].material, now[c], env[c])
    BY <1>3 DEF LookupHit, Lookup, Goto, Hit
  <2>2. env[c] \in Envelopes /\ sl \in Slots /\ cached[sl].material \in Materials
        /\ now[c] \in Nat
    BY <1>3, <1>t, <1>e, <2>1 DEF TypeOK, LookupHit, Lookup, Goto
  <2>3. /\ lastStart' \in [Slots -> Nat \cup {Never}]
        /\ now[c] <= lastStart'[sl]
        /\ \A s \in Slots : lastStart[s] <= lastStart'[s]
    BY <2>1, <2>2, <1>t DEF TypeOK, Later, Never
  <2>4. /\ cached' \in [Slots -> [material : Materials \cup {NoMaterial}, expiresAtMs : Nat]]
        /\ QuietPeriodFlushes'
    BY <2>1, <2>2, <2>3, RememberHorizon DEF QuietPeriodFlushes
  <2>5. TypeOK'
    BY <2>1, <2>2, <2>3, <2>4, <1>t DEF TypeOK, keyVars, replayVars, PCs
  <2>6. InFlight'
    BY <2>1, <2>2, <2>3, <1>t, <1>e DEF InFlight, TypeOK, Never
  <2> QED
    BY <2>1, <2>4, <2>5, <2>6, <1>t DEF IInv, CallsInPast, OnlyAcceptedHeld,
       AcceptedHeld, replayVars
<1>4. ASSUME NEW c \in Calls, LookupMiss(c) PROVE IInv'
  <2> DEFINE sl == env[c].slot
  <2>1. /\ pc' = [pc EXCEPT ![c] = "resolving"]
        /\ lastStart' = [lastStart EXCEPT ![sl] = Later(@, now[c])]
        /\ UNCHANGED <<clock, keyVars, replayVars, env, now, mat>>
        /\ Signed(env[c]) /\ Screened(env[c], now[c])
        /\ cached' = cached \/ cached' = [cached EXCEPT ![sl] = NoCached]
    BY <1>4 DEF LookupMiss, Lookup, Goto, DropExpired, cacheVars
  <2>2. env[c] \in Envelopes /\ sl \in Slots /\ now[c] \in Nat
    BY <1>4, <1>t, <1>e DEF TypeOK, LookupMiss, Lookup, Goto
  <2>3. /\ lastStart' \in [Slots -> Nat \cup {Never}]
        /\ now[c] <= lastStart'[sl]
        /\ \A s \in Slots : lastStart[s] <= lastStart'[s]
    <3>1. lastStart' = [lastStart EXCEPT ![sl] = Later(@, now[c])]
      BY <2>1
    <3> QED BY <3>1, <2>2, <1>t DEF TypeOK, Later, Never
  <2>4. /\ cached' \in [Slots -> [material : Materials \cup {NoMaterial}, expiresAtMs : Nat]]
        /\ \A s \in Slots : cached'[s] = cached[s] \/ cached'[s] = NoCached
    BY <2>1, <2>2, <1>t DEF TypeOK, NoCached
  <2>5. QuietPeriodFlushes'
    BY <2>3, <2>4, <1>t DEF TypeOK, QuietPeriodFlushes, NoCached, Never
  <2>6. TypeOK'
    BY <2>1, <2>2, <2>3, <2>4, <1>t DEF TypeOK, keyVars, replayVars, PCs
  <2>7. InFlight'
    BY <2>1, <2>2, <2>3, <1>t, <1>e DEF InFlight, TypeOK, Never
  <2> QED
    BY <2>1, <2>5, <2>6, <2>7, <1>t DEF IInv, CallsInPast, OnlyAcceptedHeld,
       AcceptedHeld, replayVars
<1>5. ASSUME NEW c \in Calls, ResolverReads(c) PROVE IInv'
  BY <1>5, <1>t, <1>e DEF IInv, TypeOK, CallsInPast, InFlight, OnlyAcceptedHeld,
     AcceptedHeld, QuietPeriodFlushes, ResolverReads, Goto, keyVars, replayVars,
     cacheVars, PCs
<1>6. ASSUME NEW c \in Calls, StoreMaterial(c) PROVE IInv'
  <2>1. /\ pc[c] = "resolved" /\ pc' = [pc EXCEPT ![c] = "verifying"]
        /\ UNCHANGED <<clock, keyVars, replayVars, env, now, mat, lastStart>>
        /\ mat[c] \in Materials
        /\ Remember(env[c].slot, mat[c], now[c], env[c])
    BY <1>6, <1>t DEF StoreMaterial, Goto, TypeOK
  <2>2. env[c] \in Envelopes /\ Screened(env[c], now[c]) /\ now[c] \in Nat
        /\ now[c] <= lastStart[env[c].slot]
    BY <2>1, <1>t DEF InFlight, TypeOK
  <2>3. /\ cached' \in [Slots -> [material : Materials \cup {NoMaterial}, expiresAtMs : Nat]]
        /\ QuietPeriodFlushes'
    <3>0. lastStart \in [Slots -> Nat \cup {Never}]
      BY <1>t DEF TypeOK
    <3>1. \A s \in Slots : lastStart[s] <= lastStart[s]
      BY <3>0 DEF Never
    <3>2. /\ cached' \in [Slots -> [material : Materials \cup {NoMaterial}, expiresAtMs : Nat]]
          /\ \A s \in Slots : cached'[s].material # NoMaterial =>
               cached'[s].expiresAtMs <= lastStart[s] + MAX_CLOCK_SKEW_MS + MAX_TTL_MS
      BY <2>1, <2>2, <3>0, <3>1, RememberHorizon
    <3> QED BY <2>1, <3>2 DEF QuietPeriodFlushes
  <2>4. TypeOK'
    BY <2>1, <2>2, <2>3, <1>t DEF TypeOK, keyVars, replayVars, PCs
  <2> QED
    BY <2>1, <2>3, <2>4, <1>t DEF IInv, CallsInPast, InFlight, OnlyAcceptedHeld,
       AcceptedHeld, replayVars
<1>7. ASSUME NEW c \in Calls, RejectReplay(c) PROVE IInv'
  <2>1. /\ pc' = [pc EXCEPT ![c] = "rejected"]
        /\ held' = Prune(held, now[c])
        /\ UNCHANGED <<clock, keyVars, acceptedUntil, evictedLive, cacheVars, env, now, mat, lastStart>>
    BY <1>7 DEF RejectReplay, Goto
  <2>2. now[c] \in Nat /\ now[c] <= clock /\ clock \in Nat /\ held \in Windows
    BY <1>t DEF TypeOK, CallsInPast
  <2>3. /\ held' \in Windows
        /\ \A k \in Keys : held[k] > clock => held'[k] = held[k]
        /\ \A k \in Keys : held'[k] = held[k] \/ held'[k] = NoEntry
    <3>1. /\ held' \in Windows
          /\ \A k \in Keys : /\ held[k] > now[c] => held'[k] = held[k]
                             /\ held[k] <= now[c] => held'[k] = NoEntry
      BY <2>1, <2>2, PruneType
    <3> QED BY <3>1, <2>2 DEF Windows, NoEntry
  <2>4. TypeOK'
    BY <2>1, <2>3, <1>t DEF TypeOK, keyVars, cacheVars, PCs
  <2>5. OnlyAcceptedHeld' /\ AcceptedHeld'
    BY <2>1, <2>3, <1>t DEF TypeOK, Windows, NoEntry, OnlyAcceptedHeld, AcceptedHeld
  <2> QED
    BY <2>1, <2>4, <2>5, <1>t DEF IInv, CallsInPast, InFlight, QuietPeriodFlushes, cacheVars
<1>8. ASSUME NEW c \in Calls, Accept(c) PROVE IInv'
  <2> DEFINE k == env[c].key
             x == ExpiresAt(env[c])
  <2>1. /\ pc[c] = "verifying" /\ pc' = [pc EXCEPT ![c] = "accepted"]
        /\ ~Replayed(held, k, now[c])
        /\ held' \in Consumed(held, k, x, now[c])
        /\ acceptedUntil' = [acceptedUntil EXCEPT ![k] = Later(@, x)]
        /\ evictedLive' = (evictedLive \ (IF x >= acceptedUntil[k] THEN {k} ELSE {}))
             \cup {j \in Keys \ {k} : held[j] > clock /\ held'[j] = NoEntry}
        /\ UNCHANGED <<clock, keyVars, cacheVars, env, now, mat, lastStart>>
    BY <1>8 DEF Accept, Goto
  <2>2. /\ now[c] \in Nat /\ now[c] <= clock /\ clock \in Nat
        /\ held \in Windows /\ acceptedUntil \in Windows
        /\ env[c] \in Envelopes /\ Screened(env[c], now[c])
    BY <2>1, <1>t DEF TypeOK, CallsInPast, InFlight
  <2>3. k \in Keys /\ x \in Nat
    BY <2>2, <1>e DEF Screened, Valid, ExpiresAt
  <2> HIDE DEF k, x
  <2>4. /\ held' \in Windows /\ held'[k] = x
        /\ \A j \in Keys \ {k} : held'[j] = NoEntry \/ held'[j] = held[j]
    BY <2>1, <2>2, <2>3, ConsumedType
  <2>5. held[k] <= now[c]
    <3>1. Prune(held, now[c])[k] = NoEntry
      BY <2>1 DEF Replayed
    <3>2. held[k] > now[c] => Prune(held, now[c])[k] = held[k]
      BY <2>2, <2>3, PruneType
    <3> QED BY <3>1, <3>2, <2>2, <2>3 DEF Windows, NoEntry
  <2>6. acceptedUntil' \in Windows /\ evictedLive' \subseteq Keys
    BY <2>1, <2>2, <2>3, <1>t DEF Windows, Later, NoEntry, TypeOK
  <2>7. TypeOK'
    BY <2>1, <2>2, <2>4, <2>6, <1>t DEF TypeOK, keyVars, cacheVars, PCs
  <2>8. OnlyAcceptedHeld'
    BY <2>1, <2>2, <2>3, <2>4, <1>t DEF OnlyAcceptedHeld, Windows, NoEntry, Later
  <2>9. ASSUME NEW j \in Keys, acceptedUntil'[j] > clock', j \notin evictedLive'
        PROVE  held'[j] = acceptedUntil'[j]
    <3>1. CASE j = k
      <4>1. x >= acceptedUntil[k]
        BY <2>1, <2>2, <2>3, <2>5, <2>9, <3>1, <1>t DEF AcceptedHeld, Windows, NoEntry, Later
      <4> QED BY <4>1, <3>1, <2>1, <2>2, <2>3, <2>4 DEF Windows, Later, NoEntry
    <3>2. CASE j # k
      <4>1. acceptedUntil'[j] = acceptedUntil[j] /\ j \notin evictedLive
        BY <2>1, <2>2, <2>9, <3>2 DEF Windows
      <4>2. held[j] = acceptedUntil[j] /\ held[j] > clock
        BY <2>1, <2>9, <4>1, <1>t DEF AcceptedHeld
      <4>3. held'[j] # NoEntry
        BY <2>1, <2>9, <3>2, <4>2
      <4> QED BY <2>4, <3>2, <4>1, <4>2, <4>3
    <3> QED BY <3>1, <3>2
  <2>10. AcceptedHeld'
    BY <2>9 DEF AcceptedHeld
  <2> QED
    BY <2>1, <2>7, <2>8, <2>10, <1>t DEF IInv, CallsInPast, InFlight,
       QuietPeriodFlushes, cacheVars
<1>9. ASSUME NEW c \in Calls, Return(c) PROVE IInv'
  BY <1>9, <1>t DEF IInv, TypeOK, CallsInPast, InFlight, OnlyAcceptedHeld,
     AcceptedHeld, QuietPeriodFlushes, Return, keyVars, replayVars, cacheVars, PCs
<1>10. ASSUME NEW s \in Slots, Revoke(s) PROVE IInv'
  BY <1>10, <1>t DEF IInv, TypeOK, CallsInPast, InFlight, OnlyAcceptedHeld,
     AcceptedHeld, QuietPeriodFlushes, Revoke, replayVars, cacheVars, callVars
<1>11. ASSUME NEW s \in Slots, NEW m \in Materials, Rotate(s, m) PROVE IInv'
  BY <1>11, <1>t DEF IInv, TypeOK, CallsInPast, InFlight, OnlyAcceptedHeld,
     AcceptedHeld, QuietPeriodFlushes, Rotate, replayVars, cacheVars, callVars
<1>12. CASE Tick
  BY <1>12, <1>t DEF IInv, TypeOK, CallsInPast, InFlight, OnlyAcceptedHeld, Windows, NoEntry,
     AcceptedHeld, QuietPeriodFlushes, Tick, keyVars, replayVars, cacheVars, callVars
<1>13. CASE UNCHANGED vars
  BY <1>13, <1>t DEF IInv, TypeOK, CallsInPast, InFlight, OnlyAcceptedHeld,
     AcceptedHeld, QuietPeriodFlushes, vars, keyVars, replayVars, cacheVars, callVars
<1> QED
  BY <1>1, <1>2, <1>3, <1>4, <1>5, <1>6, <1>7, <1>8, <1>9, <1>10, <1>11, <1>12, <1>13
     DEF Next, CallStep

(* The inductive invariant holds of every reachable state. *)
THEOREM Invariance == Spec => []IInv
<1>1. Init => IInv
  BY InitInv
<1>2. IInv /\ [Next]_vars => IInv'
  BY NextInv
<1> QED BY <1>1, <1>2, PTL DEF Spec

(* Type correctness of the transport's state. *)
THEOREM TypeCorrect == Spec => []TypeOK
<1>1. IInv => TypeOK
  BY DEF IInv
<1> QED BY <1>1, Invariance, PTL

(* A call leaves "verifying" for "accepted" by Accept and by no other step. *)
LEMMA OnlyAcceptAccepts ==
  ASSUME TypeOK, [Next]_vars, NEW c \in Calls, Accepts(c)
  PROVE  Accept(c)
<1>0. pc \in [Calls -> PCs] /\ pc[c] = "verifying" /\ pc'[c] = "accepted"
  BY DEF TypeOK, Accepts
<1>1. ~UNCHANGED pc
  BY <1>0
<1>2. ASSUME NEW d \in Calls, CallStep(d) PROVE Accept(c)
  <2>1. ASSUME NEW p \in {"decoded", "rejected", "verifying", "resolving",
                          "resolved", "idle"}, pc' = [pc EXCEPT ![d] = p]
        PROVE  FALSE
    BY <1>0, <2>1
  <2>2. ASSUME AcceptUnsigned(d) PROVE FALSE
    BY <1>0, <2>2 DEF AcceptUnsigned, Goto
  <2>3. Accept(d)
    BY <1>2, <2>1, <2>2 DEF CallStep, Receive, DecodeFails, RejectEarly, LookupHit,
       LookupMiss, Lookup, ResolverReads, ResolverThrows, StoreMaterial,
       RejectNoMaterial, RejectBadSignature, RejectReplay, Return, Goto
  <2>4. d = c
    BY <1>0, <2>3 DEF Accept, Goto
  <2> QED BY <2>3, <2>4
<1> QED
  BY <1>1, <1>2 DEF Next, Revoke, Rotate, Tick, callVars, vars

(* For every number of concurrent calls, every capacity and every delay    *)
(* between a call's start and its consume(): a replay key is not accepted  *)
(* again before the expiry it was accepted with, unless it was evicted.    *)
THEOREM ReplaySafety == Spec => NoReplayBeforeExpiry
<1>1. ASSUME IInv, [Next]_vars, NEW c \in Calls, Accepts(c)
      PROVE  acceptedUntil[env[c].key] <= clock \/ env[c].key \in evictedLive
  <2> DEFINE k == env[c].key
  <2>1. Accept(c)
    BY <1>1, OnlyAcceptAccepts DEF IInv
  <2>2. /\ now[c] \in Nat /\ now[c] <= clock /\ clock \in Nat
        /\ held \in Windows /\ acceptedUntil \in Windows /\ env[c] \in Envelopes
    BY <1>1 DEF IInv, TypeOK, CallsInPast, InFlight, Accepts
  <2>3. k \in Keys
    BY <2>2, TransportAssumption
  <2>4. Prune(held, now[c])[k] = NoEntry
    BY <2>1 DEF Accept, Replayed
  <2>5. held[k] > now[c] => Prune(held, now[c])[k] = held[k]
    BY <2>2, <2>3, PruneType
  <2>6. held[k] <= clock
    BY <2>2, <2>3, <2>4, <2>5 DEF Windows, NoEntry
  <2> QED
    BY <1>1, <2>2, <2>3, <2>6 DEF IInv, AcceptedHeld, Windows, NoEntry
<1>2. IInv /\ [Next]_vars =>
        [\A c \in Calls : Accepts(c) =>
           LET k == env[c].key IN acceptedUntil[k] <= clock \/ k \in evictedLive]_vars
  BY <1>1
<1> QED BY <1>2, Invariance, PTL DEF Spec, NoReplayBeforeExpiry

(* A copy of an envelope that is not accepted never takes up its replay    *)
(* key, in any number of concurrent calls.                                 *)
THEOREM ForgedNeverHeld == Spec => []OnlyAcceptedHeld
<1>1. IInv => OnlyAcceptedHeld
  BY DEF IInv
<1> QED BY <1>1, Invariance, PTL

(* Material leaves the cache within one skew and one ttl of its last use.  *)
THEOREM MaterialHorizon == Spec => []QuietPeriodFlushes
<1>1. IInv => QuietPeriodFlushes
  BY DEF IInv
<1> QED BY <1>1, Invariance, PTL

-----------------------------------------------------------------------------
(* The material cache                                                      *)

Listed(q, s) == \E i \in 1 .. Len(q) : q[i] = s

(* What deleting a key does to the order of a Map, and what adding one. *)
LEMMA WithoutOne ==
  ASSUME NEW q \in Seq(Slots), NEW s \in Slots, Once(q), NEW r, r = Without(q, s)
  PROVE  /\ r \in Seq(Slots) /\ Len(r) <= Len(q) /\ Once(r)
         /\ \A x \in Slots : Listed(r, x) <=> Listed(q, x) /\ x # s
<1>1. CASE ~Listed(q, s)
  BY <1>1 DEF Without, Listed
<1>2. CASE Listed(q, s)
  <2>1. PICK p : p = CHOOSE i \in 1 .. Len(q) : q[i] = s
    OBVIOUS
  <2>2. p \in 1 .. Len(q) /\ q[p] = s
    BY <2>1, <1>2 DEF Listed
  <2>3. r = [i \in 1 .. Len(q) - 1 |-> IF i < p THEN q[i] ELSE q[i + 1]]
    BY <2>1, <1>2 DEF Without, Listed
  <2>4. /\ Len(q) \in Nat \ {0} /\ \A i \in 1 .. Len(q) : q[i] \in Slots
    BY <2>2
  <2>5. r \in Seq(Slots) /\ Len(r) = Len(q) - 1
    BY <2>2, <2>3, <2>4
  <2>6. \A i \in 1 .. Len(r) : r[i] = IF i < p THEN q[i] ELSE q[i + 1]
    BY <2>3, <2>5
  <2>7. Once(r)
    <3>1. SUFFICES ASSUME NEW i \in 1 .. Len(r), NEW j \in 1 .. Len(r), r[i] = r[j] PROVE i = j
      BY DEF Once
    <3> QED BY <3>1, <2>2, <2>4, <2>5, <2>6 DEF Once
  <2>8. ASSUME NEW x \in Slots PROVE Listed(r, x) <=> Listed(q, x) /\ x # s
    <3>1. ASSUME NEW i \in 1 .. Len(r), r[i] = x PROVE Listed(q, x) /\ x # s
      <4>1. PICK k : k = IF i < p THEN i ELSE i + 1
        OBVIOUS
      <4>2. k \in 1 .. Len(q) /\ q[k] = x /\ k # p
        BY <4>1, <3>1, <2>2, <2>4, <2>5, <2>6
      <4> QED BY <4>2, <2>2 DEF Listed, Once
    <3>2. ASSUME NEW k \in 1 .. Len(q), q[k] = x, x # s PROVE Listed(r, x)
      <4>1. PICK i : i = IF k < p THEN k ELSE k - 1
        OBVIOUS
      <4>2. i \in 1 .. Len(r) /\ r[i] = x
        BY <4>1, <3>2, <2>2, <2>4, <2>5, <2>6
      <4> QED BY <4>2 DEF Listed
    <3> QED BY <3>1, <3>2 DEF Listed
  <2> QED BY <2>4, <2>5, <2>7, <2>8
<1> QED BY <1>1, <1>2

LEMMA TailOne ==
  ASSUME NEW q \in Seq(Slots), q # << >>, Once(q)
  PROVE  /\ Tail(q) \in Seq(Slots) /\ Len(Tail(q)) = Len(q) - 1 /\ Once(Tail(q))
         /\ Head(q) \in Slots
         /\ \A x \in Slots : Listed(Tail(q), x) <=> Listed(q, x) /\ x # Head(q)
<1>1. PICK r : r = Tail(q)
  OBVIOUS
<1>2. /\ Len(q) \in Nat \ {0} /\ r \in Seq(Slots) /\ Len(r) = Len(q) - 1
      /\ \A i \in 1 .. Len(r) : r[i] = q[i + 1]
      /\ q[1] \in Slots /\ Head(q) = q[1]
  BY <1>1
<1>3. Once(r)
  <2>1. SUFFICES ASSUME NEW i \in 1 .. Len(r), NEW j \in 1 .. Len(r), r[i] = r[j] PROVE i = j
    BY DEF Once
  <2> QED BY <2>1, <1>2 DEF Once
<1>4. ASSUME NEW x \in Slots PROVE Listed(r, x) <=> Listed(q, x) /\ x # q[1]
  <2>1. ASSUME NEW i \in 1 .. Len(r), r[i] = x PROVE Listed(q, x) /\ x # q[1]
    <3>1. i + 1 \in 1 .. Len(q) /\ q[i + 1] = x /\ i + 1 # 1 /\ 1 \in 1 .. Len(q)
      BY <2>1, <1>2
    <3> QED BY <3>1 DEF Listed, Once
  <2>2. ASSUME NEW k \in 1 .. Len(q), q[k] = x, x # q[1] PROVE Listed(r, x)
    <3>1. k - 1 \in 1 .. Len(r) /\ r[k - 1] = x
      BY <2>2, <1>2
    <3> QED BY <3>1 DEF Listed
  <2> QED BY <2>1, <2>2 DEF Listed
<1> QED BY <1>1, <1>2, <1>3, <1>4

LEMMA AppendOne ==
  ASSUME NEW q \in Seq(Slots), NEW s \in Slots, Once(q), ~Listed(q, s)
  PROVE  /\ Append(q, s) \in Seq(Slots) /\ Len(Append(q, s)) = Len(q) + 1
         /\ Once(Append(q, s))
         /\ \A x \in Slots : Listed(Append(q, s), x) <=> Listed(q, x) \/ x = s
<1>1. PICK r : r = Append(q, s)
  OBVIOUS
<1>2. /\ Len(q) \in Nat /\ r \in Seq(Slots) /\ Len(r) = Len(q) + 1
      /\ \A i \in 1 .. Len(q) : r[i] = q[i]
      /\ r[Len(q) + 1] = s
  BY <1>1
<1>3. Once(r)
  <2>1. SUFFICES ASSUME NEW i \in 1 .. Len(r), NEW j \in 1 .. Len(r), r[i] = r[j] PROVE i = j
    BY DEF Once
  <2> QED BY <2>1, <1>2 DEF Once, Listed
<1>4. ASSUME NEW x \in Slots PROVE Listed(r, x) <=> Listed(q, x) \/ x = s
  BY <1>2 DEF Listed
<1> QED BY <1>1, <1>2, <1>3, <1>4

(* The Map's order is a sequence of slots, and lists what is cached. *)
CacheSound == order \in Seq(Slots) /\ MaterialCacheBounded

LEMMA DropKeepsOrder ==
  ASSUME TypeOK, CacheSound, NEW s \in Slots, DropExpired(s)
  PROVE  CacheSound'
<1> USE TransportAssumption
<1>1. CASE ~UseMaterialCache
  BY <1>1 DEF DropExpired, cacheVars, CacheSound, MaterialCacheBounded
<1>2. CASE UseMaterialCache
  <2>1. /\ order \in Seq(Slots) /\ Len(order) <= MaxMaterials /\ Once(order)
        /\ \A x \in Slots : cached[x].material # NoMaterial <=> Listed(order, x)
    BY DEF CacheSound, MaterialCacheBounded, Once, Listed
  <2>2. PICK q, r : q = order /\ r = Without(order, s)
    OBVIOUS
  <2>3. /\ r \in Seq(Slots) /\ Len(r) <= Len(q) /\ Once(r)
        /\ \A x \in Slots : Listed(r, x) <=> Listed(q, x) /\ x # s
    <3>1. q \in Seq(Slots) /\ Once(q) /\ r = Without(q, s)
      BY <2>1, <2>2
    <3> QED BY ONLY <3>1, WithoutOne, s \in Slots
  <2>4. order' = r /\ cached' = [cached EXCEPT ![s] = NoCached]
    BY <1>2, <2>2 DEF DropExpired
  <2>5. Len(order') <= MaxMaterials
    <3>1. Len(r) \in Nat /\ Len(q) \in Nat
      BY <2>1, <2>2, <2>3
    <3> QED BY <3>1, <2>1, <2>2, <2>3, <2>4
  <2>6. \A x \in Slots : cached'[x] = IF x = s THEN NoCached ELSE cached[x]
    BY <2>4 DEF TypeOK
  <2>7. NoCached.material = NoMaterial
    BY DEF NoCached
  <2>8. \A x \in Slots : cached'[x].material # NoMaterial <=> Listed(r, x)
    BY <2>1, <2>2, <2>3, <2>6, <2>7
  <2> QED BY <2>3, <2>4, <2>5, <2>8 DEF CacheSound, MaterialCacheBounded, Once, Listed
<1> QED BY <1>1, <1>2

LEMMA RememberKeepsOrder ==
  ASSUME TypeOK, CacheSound, NEW s \in Slots, NEW m \in Materials, NEW t, NEW e,
         Remember(s, m, t, e)
  PROVE  CacheSound'
<1> USE TransportAssumption
<1>1. CASE ~UseMaterialCache
  BY <1>1 DEF Remember, cacheVars, CacheSound, MaterialCacheBounded
<1>2. CASE UseMaterialCache
  <2>1. /\ order \in Seq(Slots) /\ Len(order) <= MaxMaterials /\ Once(order)
        /\ \A x \in Slots : cached[x].material # NoMaterial <=> Listed(order, x)
        /\ Len(order) \in Nat
    BY DEF CacheSound, MaterialCacheBounded, Once, Listed
  <2>2. PICK kept, base, entry :
          /\ kept = (IF Len(order) >= MaxMaterials THEN Tail(order) ELSE order)
          /\ base = (IF Len(order) >= MaxMaterials
                     THEN [cached EXCEPT ![Head(order)] = NoCached] ELSE cached)
          /\ entry = [material |-> m, expiresAtMs |-> Later(t + 1, ExpiresAt(e))]
    OBVIOUS
  <2>3. /\ cached' = [base EXCEPT ![s] = entry]
        /\ order' = IF Listed(kept, s) THEN kept ELSE Append(kept, s)
    BY <1>2, <2>2 DEF Remember, Listed
  <2>4. entry.material = m /\ NoCached.material = NoMaterial
    BY <2>2 DEF NoCached
  <2>5. DOMAIN cached = Slots
    BY DEF TypeOK
  (* The oldest entry goes when the Map is full: what is left leaves room. *)
  <2>6. /\ kept \in Seq(Slots) /\ Once(kept) /\ Len(kept) \in Nat /\ Len(kept) < MaxMaterials
        /\ \A x \in Slots : base[x].material # NoMaterial <=> Listed(kept, x)
        /\ DOMAIN base = Slots
    <3>1. CASE Len(order) >= MaxMaterials
      <4>1. PICK q : q = order
        OBVIOUS
      <4>2. q \in Seq(Slots) /\ q # << >> /\ Once(q) /\ kept = Tail(q)
        BY <4>1, <3>1, <2>1, <2>2
      <4>3. /\ kept \in Seq(Slots) /\ Len(kept) = Len(q) - 1 /\ Once(kept) /\ Head(q) \in Slots
            /\ \A x \in Slots : Listed(kept, x) <=> Listed(q, x) /\ x # Head(q)
        BY ONLY <4>2, TailOne
      <4>4. base = [cached EXCEPT ![Head(q)] = NoCached]
        BY <4>1, <3>1, <2>2
      <4>5. \A x \in Slots : base[x] = IF x = Head(q) THEN NoCached ELSE cached[x]
        BY <4>4, <2>5
      <4>6. DOMAIN base = Slots
        BY <4>4, <2>5
      <4>7. Len(kept) \in Nat /\ Len(kept) < MaxMaterials
        BY <4>1, <4>3, <2>1
      <4> QED BY <4>1, <4>3, <4>5, <4>6, <4>7, <2>1, <2>4
    <3>2. CASE ~(Len(order) >= MaxMaterials)
      BY <3>2, <2>1, <2>2, <2>5
    <3> QED BY <3>1, <3>2
  <2>7. \A x \in Slots : cached'[x] = IF x = s THEN entry ELSE base[x]
    BY <2>3, <2>6
  <2>8. m # NoMaterial
    OBVIOUS
  <2>9. PICK r : r = IF Listed(kept, s) THEN kept ELSE Append(kept, s)
    OBVIOUS
  <2>10. /\ r \in Seq(Slots) /\ Once(r) /\ Len(r) <= MaxMaterials
         /\ \A x \in Slots : Listed(r, x) <=> Listed(kept, x) \/ x = s
    <3>1. CASE Listed(kept, s)
      BY <3>1, <2>6, <2>9
    <3>2. CASE ~Listed(kept, s)
      <4>1. kept \in Seq(Slots) /\ Once(kept) /\ r = Append(kept, s)
        BY <3>2, <2>6, <2>9
      <4>2. /\ r \in Seq(Slots) /\ Len(r) = Len(kept) + 1 /\ Once(r)
            /\ \A x \in Slots : Listed(r, x) <=> Listed(kept, x) \/ x = s
        BY ONLY <3>2, <4>1, AppendOne, s \in Slots
      <4> QED BY <4>2, <2>6
    <3> QED BY <3>1, <3>2
  <2>11. order' = r
    BY <2>3, <2>9
  <2>12. \A x \in Slots : cached'[x].material # NoMaterial <=> Listed(r, x)
    BY <2>4, <2>6, <2>7, <2>8, <2>10
  <2> QED BY <2>10, <2>11, <2>12 DEF CacheSound, MaterialCacheBounded, Once, Listed
<1> QED BY <1>1, <1>2

LEMMA OrderStep == IInv /\ CacheSound /\ [Next]_vars => CacheSound'
<1> SUFFICES ASSUME IInv, CacheSound, [Next]_vars PROVE CacheSound'
  OBVIOUS
<1>t. TypeOK /\ InFlight
  BY DEF IInv
<1>0. ASSUME UNCHANGED cacheVars PROVE CacheSound'
  BY <1>0 DEF cacheVars, CacheSound, MaterialCacheBounded
<1>1. ASSUME NEW c \in Calls, CallStep(c) PROVE CacheSound'
  <2>0. ASSUME pc[c] \in {"decoded", "resolved"} PROVE env[c] \in Envelopes /\ env[c].slot \in Slots
    BY <2>0, <1>t, TransportAssumption DEF TypeOK
  <2>1. CASE LookupHit(c)
    <3>1. pc[c] = "decoded"
      BY <2>1 DEF LookupHit, Lookup, Goto
    <3>2. env[c].slot \in Slots
      BY <3>1, <2>0
    <3>3. PICK s, m : s = env[c].slot /\ m = cached[s].material
      OBVIOUS
    <3>4. s \in Slots /\ m \in Materials
      BY <3>2, <3>3, <2>1, <1>t DEF LookupHit, Hit, TypeOK
    <3>5. Remember(s, m, now[c], env[c])
      BY <3>3, <2>1 DEF LookupHit
    <3> QED BY <3>4, <3>5, <1>t, RememberKeepsOrder
  <2>2. CASE LookupMiss(c)
    <3>1. pc[c] = "decoded" /\ DropExpired(env[c].slot)
      BY <2>2 DEF LookupMiss, Lookup, Goto
    <3> QED BY <3>1, <2>0, <1>t, DropKeepsOrder
  <2>3. CASE StoreMaterial(c)
    <3>1. /\ pc[c] = "resolved" /\ mat[c] # NoMaterial
          /\ Remember(env[c].slot, mat[c], now[c], env[c])
      BY <2>3 DEF StoreMaterial, Goto
    <3>2. mat[c] \in Materials /\ env[c].slot \in Slots
      BY <3>1, <2>0, <1>t DEF TypeOK
    <3> QED BY <3>1, <3>2, <1>t, RememberKeepsOrder
  <2>4. CASE ~(LookupHit(c) \/ LookupMiss(c) \/ StoreMaterial(c))
    <3>1. UNCHANGED cacheVars
      BY <2>4, <1>1 DEF CallStep, Receive, DecodeFails, RejectEarly, AcceptUnsigned,
         ResolverReads, ResolverThrows, RejectNoMaterial, RejectBadSignature,
         RejectReplay, Accept, Return
    <3> QED BY <3>1, <1>0
  <2> QED BY <2>1, <2>2, <2>3, <2>4
<1>2. ASSUME (\E s \in Slots : Revoke(s)) \/ (\E s \in Slots, m \in Materials : Rotate(s, m))
             \/ Tick \/ UNCHANGED vars
      PROVE  CacheSound'
  <2>1. UNCHANGED cacheVars
    BY <1>2 DEF Revoke, Rotate, Tick, vars
  <2> QED BY <2>1, <1>0
<1> QED BY <1>1, <1>2 DEF Next

(* protocolTransport.ts:106: the material cache keeps to its capacity, in  *)
(* step with its order, and forgets what is no longer asked for.           *)
THEOREM MaterialCacheSound == Spec => []MaterialCacheHolds
<1>1. Init => CacheSound
  BY TransportAssumption DEF Init, CacheSound, MaterialCacheBounded, NoCached
<1>2. IInv /\ CacheSound => MaterialCacheHolds
  BY DEF IInv, CacheSound, MaterialCacheHolds
<1> QED BY <1>1, <1>2, OrderStep, Invariance, PTL DEF Spec

-----------------------------------------------------------------------------
(* Without a material cache, material in hand is never older than the call. *)
LEMMA FreshMaterialStep ==
  ASSUME UseMaterialCache = FALSE, IInv, FreshMaterial, [Next]_vars
  PROVE  FreshMaterial'
<1> USE TransportAssumption
<1>t. TypeOK /\ CallsInPast /\ InFlight
  BY DEF IInv
<1>e. \A e \in Envelopes : e.slot \in Slots
  OBVIOUS
<1>1. ASSUME NEW c \in Calls, CallStep(c) PROVE FreshMaterial'
  <2>1. UNCHANGED <<registry, revokedSince>>
    BY <1>1 DEF CallStep, Receive, DecodeFails, RejectEarly, AcceptUnsigned, LookupHit,
       LookupMiss, ResolverReads, ResolverThrows, StoreMaterial, RejectNoMaterial,
       RejectBadSignature, RejectReplay, Accept, Return, keyVars
  <2>2. /\ \A d \in Calls \ {c} : /\ pc'[d] = pc[d] /\ env'[d] = env[d]
                                  /\ now'[d] = now[d] /\ mat'[d] = mat[d]
        /\ \/ pc'[c] \notin {"resolved", "verifying"}
           \/ ResolverReads(c)
           \/ /\ pc[c] = "resolved"
              /\ env'[c] = env[c] /\ now'[c] = now[c] /\ mat'[c] = mat[c]
    BY <1>1, <1>t DEF TypeOK, CallStep, Receive, DecodeFails, RejectEarly, AcceptUnsigned,
       LookupHit, LookupMiss, Lookup, Hit, ResolverReads, ResolverThrows, StoreMaterial,
       RejectNoMaterial, RejectBadSignature, RejectReplay, Accept, Return, Goto
  <2>3. CASE ResolverReads(c)
    <3>1. /\ mat'[c] = registry[env[c].slot] /\ env'[c] = env[c]
          /\ env[c] \in Envelopes
      BY <2>3, <1>t DEF ResolverReads, Goto, TypeOK, InFlight
    <3>2. mat'[c] # NoMaterial => revokedSince[env[c].slot] = Never
      BY <3>1, <1>e DEF FreshMaterial
    <3> QED BY <2>1, <2>2, <3>1, <3>2 DEF FreshMaterial
  <2>4. CASE ~ResolverReads(c)
    BY <2>1, <2>2, <2>4 DEF FreshMaterial
  <2> QED BY <2>3, <2>4
<1>2. ASSUME NEW s \in Slots, Revoke(s) PROVE FreshMaterial'
  <2>1. /\ registry' = [registry EXCEPT ![s] = NoMaterial]
        /\ revokedSince' = [revokedSince EXCEPT ![s] = clock]
        /\ pc' = pc /\ env' = env /\ now' = now /\ mat' = mat
    BY <1>2 DEF Revoke, callVars
  <2>2. \A r \in Slots : \/ registry'[r] = NoMaterial
                         \/ registry'[r] = registry[r] /\ revokedSince'[r] = revokedSince[r]
    BY <2>1, <1>t DEF TypeOK
  <2>3. \A c \in Calls : pc[c] \in {"resolved", "verifying"} =>
          \/ revokedSince'[env[c].slot] = revokedSince[env[c].slot]
          \/ revokedSince'[env[c].slot] >= now[c]
    BY <2>1, <1>t, <1>e DEF TypeOK, CallsInPast, InFlight
  <2> QED BY <2>1, <2>2, <2>3 DEF FreshMaterial
<1>3. ASSUME NEW s \in Slots, NEW m \in Materials, Rotate(s, m) PROVE FreshMaterial'
  BY <1>3, <1>t, <1>e DEF FreshMaterial, Rotate, callVars, TypeOK, InFlight
<1>4. CASE Tick \/ UNCHANGED vars
  BY <1>4 DEF FreshMaterial, Tick, vars, keyVars, callVars
<1> QED BY <1>1, <1>2, <1>3, <1>4 DEF Next

(* A transport that asks its resolver every time never accepts an envelope *)
(* whose key was revoked before the call started, however the revocation   *)
(* and the awaits of concurrent calls interleave.                          *)
THEOREM RevocationEffective ==
  ASSUME UseMaterialCache = FALSE
  PROVE  Spec => RevokedIsRejected
<1>1. Init => FreshMaterial
  BY DEF Init, FreshMaterial
<1>2. IInv /\ FreshMaterial /\ [Next]_vars => FreshMaterial'
  BY FreshMaterialStep
<1>3. ASSUME IInv, FreshMaterial, [Next]_vars, NEW c \in Calls, Accepts(c)
      PROVE  ~(revokedSince[env[c].slot] # Never /\ revokedSince[env[c].slot] < now[c])
  <2>1. Accept(c)
    BY <1>3, OnlyAcceptAccepts DEF IInv
  <2>2. pc[c] = "verifying" /\ mat[c] = env[c].signedWith /\ env[c] \in Envelopes
    BY <1>3, <2>1 DEF Accept, Goto, SignatureOk, IInv, InFlight
  <2>3. mat[c] # NoMaterial
    BY <2>2, TransportAssumption
  <2>4. /\ now[c] \in Nat
        /\ revokedSince[env[c].slot] \in Nat \cup {Never}
    BY <1>3, <2>2, TransportAssumption DEF IInv, TypeOK
  <2> QED BY <1>3, <2>2, <2>3, <2>4 DEF FreshMaterial, Never
<1>4. IInv /\ FreshMaterial /\ [Next]_vars =>
        [\A c \in Calls : Accepts(c) =>
           LET s == env[c].slot
           IN  ~(revokedSince[s] # Never /\ revokedSince[s] < now[c])]_vars
  BY <1>3
<1> QED BY <1>1, <1>2, <1>4, Invariance, PTL DEF Spec, RevokedIsRejected

-----------------------------------------------------------------------------
(* A loop stays within what its rounds stay within.                        *)
LEMMA RoundsReach ==
  ASSUME NEW step, NEW x, NEW n \in Nat, NEW P,
         x \in P[0], \A m \in Nat : \A y \in P[m] : step[y] \in P[m + 1]
  PROVE  Rounds(step, x, n) \in P[n]
<1> DEFINE Rec(g, k) == g = [m \in 0 .. k |-> IF m = 0 THEN x ELSE step[g[m - 1]]]
           Some == {k \in Nat : \E f : Rec(f, k)}
<1>1. 0 \in Some
  <2>1. PICK f : f = [m \in 0 .. 0 |-> x]
    OBVIOUS
  <2>2. Rec(f, 0)
    BY <2>1
  <2> QED BY <2>2
<1>2. ASSUME NEW k \in Some PROVE k + 1 \in Some
  <2>1. PICK f : Rec(f, k)
    OBVIOUS
  <2>2. k \in Nat /\ k + 1 \in Nat
    OBVIOUS
  <2>3. PICK s : s = step[f[k]]
    OBVIOUS
  <2>4. \A m \in 0 .. k : f[m] = IF m = 0 THEN x ELSE step[f[m - 1]]
    BY <2>1
  <2>5. PICK g : g = [m \in 0 .. k + 1 |-> IF m = k + 1 THEN s ELSE f[m]]
    OBVIOUS
  <2>6. g[k + 1] = s /\ \A m \in 0 .. k : g[m] = f[m]
    BY <2>2, <2>5
  <2>7. ASSUME NEW m \in 0 .. k + 1 PROVE g[m] = IF m = 0 THEN x ELSE step[g[m - 1]]
    <3>1. CASE m = k + 1
      BY <2>2, <2>3, <2>6, <3>1
    <3>2. CASE m # k + 1 /\ m # 0
      <4>1. m \in 0 .. k /\ m - 1 \in 0 .. k
        BY <2>2, <3>2
      <4> QED BY <2>4, <2>6, <3>2, <4>1
    <3>3. CASE m = 0
      <4>1. m \in 0 .. k
        BY <2>2, <3>3
      <4> QED BY <2>4, <2>6, <3>3, <4>1
    <3> QED BY <3>1, <3>2, <3>3
  <2>8. g = [m \in 0 .. k + 1 |-> g[m]]
    BY <2>5
  <2>9. Rec(g, k + 1)
    BY <2>7, <2>8
  <2> QED BY <2>2, <2>9
<1>3. n \in Some
  <2>1. Some \subseteq Nat
    OBVIOUS
  <2> HIDE DEF Some
  <2>2. Some = Nat
    BY <1>1, <1>2, <2>1, Induction
  <2> QED BY <2>2
<1>4. PICK g : g = CHOOSE h : Rec(h, n)
  OBVIOUS
<1>5. Rec(g, n)
  BY <1>3, <1>4
<1>6. Rounds(step, x, n) = g[n]
  BY <1>4 DEF Rounds
<1> DEFINE Q == {m \in Nat : m <= n => g[m] \in P[m]}
<1>7. 0 \in Q
  BY <1>5
<1>8. ASSUME NEW m \in Q PROVE m + 1 \in Q
  <2>1. m \in Nat /\ m + 1 \in Nat /\ (m + 1) - 1 = m /\ m + 1 # 0
    OBVIOUS
  <2>2. ASSUME m + 1 <= n PROVE g[m + 1] \in P[m + 1]
    <3>1. g[m] \in P[m] /\ m + 1 \in 0 .. n
      BY <2>1, <2>2
    <3>2. g[m + 1] = step[g[m]]
      BY <1>5, <2>1, <3>1
    <3> QED BY <2>1, <3>1, <3>2
  <2> QED BY <2>1, <2>2
<1>9. n \in Q
  <2>1. Q \subseteq Nat
    OBVIOUS
  <2> HIDE DEF Q
  <2>2. Q = Nat
    BY <1>7, <1>8, <2>1, Induction
  <2> QED BY <2>2
<1> QED BY <1>6, <1>9

-----------------------------------------------------------------------------
(* The heap *)

(* No item is earlier than its parent: the order of ExpiryMinHeap.         *)
Ordered(s) == \A j \in 2 .. Len(s) : s[j \div 2].expiresAt <= s[j].expiresAt

(* x is an item of the heap; no two items have the same key.               *)
Holds(s, x) == \E i \in 1 .. Len(s) : s[i] = x
Distinct(s) == \A i, j \in 1 .. Len(s) : s[i].key = s[j].key => i = j

(* t has the items of s. *)
SameItems(s, t) ==
  /\ t \in Seq(Items) /\ Len(t) = Len(s)
  /\ \A x : Holds(s, x) <=> Holds(t, x)
  /\ Distinct(s) => Distinct(t)

(* The fields of an item of the heap.                                      *)
LEMMA ItemTimes ==
  ASSUME NEW s \in Seq(Items), NEW i \in 1 .. Len(s)
  PROVE  s[i] \in Items /\ s[i].key \in Keys /\ s[i].expiresAt \in Expiries
         /\ s[i].expiresAt \in Nat
<1>1. PICK x : x = s[i]
  OBVIOUS
<1>2. x \in Items
  BY <1>1
<1> QED BY <1>1, <1>2, HeapAssumption DEF Items

(* A parent comes before its child in the array.                           *)
LEMMA Parents ==
  ASSUME NEW i \in Nat, i > 1
  PROVE  i \div 2 \in Nat /\ 1 <= i \div 2 /\ i \div 2 < i
OBVIOUS

(* An exchange leaves the items as they are.                               *)
LEMMA Swapped ==
  ASSUME NEW s \in Seq(Items), NEW i \in 1 .. Len(s), NEW j \in 1 .. Len(s),
         NEW t, t = Swap(s, i, j)
  PROVE  /\ SameItems(s, t)
         /\ t[i] = s[j] /\ t[j] = s[i]
         /\ \A k \in 1 .. Len(s) : k # i /\ k # j => t[k] = s[k]
<1>1. s[i] \in Items /\ s[j] \in Items
  OBVIOUS
<1>2. /\ t \in Seq(Items) /\ Len(t) = Len(s)
      /\ t[i] = s[j] /\ t[j] = s[i]
      /\ \A k \in 1 .. Len(s) : k # i /\ k # j => t[k] = s[k]
  BY <1>1 DEF Swap
<1>3. ASSUME NEW x PROVE Holds(s, x) <=> Holds(t, x)
  <2>1. ASSUME Holds(s, x) PROVE Holds(t, x)
    <3>1. PICK k \in 1 .. Len(s) : s[k] = x
      BY <2>1 DEF Holds
    <3> QED BY <1>2, <3>1 DEF Holds
  <2>2. ASSUME Holds(t, x) PROVE Holds(s, x)
    <3>1. PICK k \in 1 .. Len(s) : t[k] = x
      BY <1>2, <2>2 DEF Holds
    <3> QED BY <1>2, <3>1 DEF Holds
  <2> QED BY <2>1, <2>2
<1>4. ASSUME Distinct(s) PROVE Distinct(t)
  <2> SUFFICES ASSUME NEW k \in 1 .. Len(s), NEW l \in 1 .. Len(s), t[k].key = t[l].key
               PROVE  k = l
    BY <1>2 DEF Distinct
  <2>1. PICK m \in 1 .. Len(s) : /\ s[m] = t[k]
                                 /\ m = IF k = i THEN j ELSE IF k = j THEN i ELSE k
    BY <1>2
  <2>2. PICK o \in 1 .. Len(s) : /\ s[o] = t[l]
                                 /\ o = IF l = i THEN j ELSE IF l = j THEN i ELSE l
    BY <1>2
  <2>3. m = o
    BY <1>4, <2>1, <2>2 DEF Distinct
  <2> QED BY <2>1, <2>2, <2>3
<1> QED BY <1>2, <1>3, <1>4 DEF SameItems

(* As do any number of them.                                               *)
LEMMA SameSame ==
  ASSUME NEW r, NEW s, NEW t, SameItems(r, s), SameItems(s, t) PROVE SameItems(r, t)
BY DEF SameItems

(* The first item of a heap is the earliest.                               *)
LEMMA FirstEarliest ==
  ASSUME NEW s \in Seq(Items), Ordered(s), NEW i \in 1 .. Len(s)
  PROVE  s[1].expiresAt <= s[i].expiresAt
<1> DEFINE T == {j \in 1 .. Len(s) : s[j].expiresAt < s[1].expiresAt}
<1>1. Len(s) \in Nat /\ T \subseteq Nat
  OBVIOUS
<1>2. T = {}
  <2>1. SUFFICES ASSUME T # {} PROVE FALSE
    OBVIOUS
  <2>2. PICK j \in T : \A k \in T : j <= k
    <3> HIDE DEF T
    <3> QED BY <1>1, <2>1, LeastNatural
  <2>3. j \in 1 .. Len(s) /\ s[j].expiresAt < s[1].expiresAt /\ j \in Nat
    OBVIOUS
  <2>4. /\ s[1].expiresAt \in Nat /\ s[j].expiresAt \in Nat
    BY <1>1, <2>3, ItemTimes
  <2>5. j > 1
    BY <2>3, <2>4
  <2>6. PICK p : p = j \div 2
    OBVIOUS
  <2>7. p \in Nat /\ 1 <= p /\ p < j /\ p \in 1 .. Len(s)
    BY <1>1, <2>3, <2>5, <2>6, Parents
  <2>8. s[p].expiresAt <= s[j].expiresAt
    BY <1>1, <2>3, <2>5, <2>6 DEF Ordered
  <2>9. s[p].expiresAt \in Nat
    BY <2>7, ItemTimes
  <2>10. p \in T
    BY <2>3, <2>4, <2>7, <2>8, <2>9
  <2> QED BY <2>2, <2>3, <2>7, <2>10
<1>3. s[i].expiresAt \in Nat /\ s[1].expiresAt \in Nat
  BY <1>1, ItemTimes
<1> QED BY <1>2, <1>3

(* A heap but for the item at i, which may be earlier than its parent.     *)
RisesIn(s, i) ==
  /\ i \in 1 .. Len(s)
  /\ \A j \in 2 .. Len(s) : j # i => s[j \div 2].expiresAt <= s[j].expiresAt
  /\ \A j \in 2 .. Len(s) : j \div 2 = i /\ i > 1 => s[i \div 2].expiresAt <= s[j].expiresAt

(* A heap but for the item at i, which may be later than its children.     *)
SinksIn(s, i) ==
  /\ i \in 1 .. Len(s)
  /\ \A j \in 2 .. Len(s) : j \div 2 # i => s[j \div 2].expiresAt <= s[j].expiresAt
  /\ \A j \in 2 .. Len(s) : j \div 2 = i /\ i > 1 => s[i \div 2].expiresAt <= s[j].expiresAt

(* One round of bubbleUp.                                                  *)
LEMMA RiseStep ==
  ASSUME NEW b \in Bubbles, RisesIn(b.heap, b.at), NEW c, c = Rise[b]
  PROVE  /\ c \in Bubbles /\ SameItems(b.heap, c.heap) /\ RisesIn(c.heap, c.at)
         /\ Ordered(b.heap) => c = b
         /\ (c = b /\ Ordered(b.heap)) \/ c.at < b.at
<1>1. PICK s, i, p : s = b.heap /\ i = b.at /\ p = i \div 2
  OBVIOUS
<1>2. s \in Seq(Items) /\ i \in 1 .. Len(s) /\ Len(s) \in Nat /\ i \in Nat
      /\ b = [heap |-> s, at |-> i]
  BY <1>1 DEF Bubbles, RisesIn
<1>3. c = IF i = 1 \/ s[p].expiresAt <= s[i].expiresAt THEN b
          ELSE [heap |-> Swap(s, i, p), at |-> p]
  BY <1>1 DEF Rise
<1>4. SameItems(s, s)
  BY <1>2 DEF SameItems
<1>5. CASE i = 1 \/ s[p].expiresAt <= s[i].expiresAt
  <2>1. c = b
    BY <1>3, <1>5
  <2>2. Ordered(s)
    BY <1>1, <1>2, <1>5 DEF Ordered, RisesIn
  <2> QED BY <1>1, <1>4, <2>1, <2>2
<1>6. CASE i # 1 /\ ~(s[p].expiresAt <= s[i].expiresAt)
  <2>1. p \in 1 .. Len(s) /\ p < i /\ p \in Nat
    BY <1>1, <1>2, <1>6, Parents
  <2>2. PICK t : t = Swap(s, i, p)
    OBVIOUS
  <2>3. c = [heap |-> t, at |-> p]
    BY <1>3, <1>6, <2>2
  <2>4. /\ SameItems(s, t) /\ t[i] = s[p] /\ t[p] = s[i]
        /\ \A k \in 1 .. Len(s) : k # i /\ k # p => t[k] = s[k]
    BY <1>2, <2>1, <2>2, Swapped
  <2>5. t \in Seq(Items) /\ Len(t) = Len(s)
    BY <2>4 DEF SameItems
  <2>6. \A k \in 1 .. Len(s) : s[k].expiresAt \in Nat
    BY <1>2, ItemTimes
  <2>7. s[i].expiresAt < s[p].expiresAt
    BY <1>2, <1>6, <2>1, <2>6
  <2>8. /\ \A j \in 2 .. Len(s) : j # i => s[j \div 2].expiresAt <= s[j].expiresAt
        /\ \A j \in 2 .. Len(s) : j \div 2 = i => s[p].expiresAt <= s[j].expiresAt
    <3>1. RisesIn(s, i) /\ i > 1
      BY <1>1, <1>2, <1>6
    <3> QED BY ONLY <1>1, <3>1 DEF RisesIn
  <2>9. ~Ordered(s)
    <3>1. i \in 2 .. Len(s) /\ i \div 2 = p
      BY <1>1, <1>2, <1>6 DEF RisesIn
    <3> QED BY <1>6, <3>1 DEF Ordered
  <2>10. ASSUME NEW j \in 2 .. Len(s), j # p PROVE t[j \div 2].expiresAt <= t[j].expiresAt
    <3>1. PICK q : q = j \div 2
      OBVIOUS
    <3>2. q \in 1 .. Len(s) /\ q < j /\ j \in 1 .. Len(s) /\ q \in Nat
      BY <1>2, <3>1, Parents
    <3>3. CASE j = i
      <4>1. q = p /\ t[q] = s[i] /\ t[j] = s[p]
        BY <1>1, <2>4, <3>1, <3>3
      <4>2. s[i].expiresAt \in Nat /\ s[p].expiresAt \in Nat
        BY <1>2, <2>1, <2>6
      <4> QED BY <2>7, <3>1, <4>1, <4>2
    <3>4. CASE j # i /\ q = i
      <4>1. s[p].expiresAt <= s[j].expiresAt
        BY <2>8, <3>1, <3>4
      <4> QED BY <2>4, <2>10, <3>1, <3>2, <3>4, <4>1
    <3>5. CASE j # i /\ q = p
      <4>1. s[p].expiresAt <= s[j].expiresAt
        BY <2>8, <3>1, <3>5
      <4> QED BY <1>2, <2>1, <2>4, <2>6, <2>7, <2>10, <3>1, <3>2, <3>5, <4>1
    <3>6. CASE j # i /\ q # i /\ q # p
      <4>1. s[q].expiresAt <= s[j].expiresAt
        BY <2>8, <3>1, <3>6
      <4> QED BY <2>4, <2>10, <3>1, <3>2, <3>6, <4>1
    <3> QED BY <3>3, <3>4, <3>5, <3>6
  <2>11. ASSUME NEW j \in 2 .. Len(s), j \div 2 = p, p > 1
         PROVE  t[p \div 2].expiresAt <= t[j].expiresAt
    <3>1. PICK q : q = p \div 2
      OBVIOUS
    <3>2. q \in 1 .. Len(s) /\ q < p /\ q \in Nat /\ j \in 1 .. Len(s) /\ p < j
      BY <1>2, <2>1, <2>11, <3>1, Parents
    <3>3. s[q].expiresAt <= s[p].expiresAt
      BY <1>2, <2>1, <2>8, <2>11, <3>1
    <3>4. t[q] = s[q]
      BY <2>1, <2>4, <3>2
    <3>5. CASE j = i
      BY <2>4, <3>1, <3>3, <3>4, <3>5
    <3>6. CASE j # i
      <4>1. s[p].expiresAt <= s[j].expiresAt
        BY <2>8, <2>11, <3>6
      <4>2. t[j] = s[j] /\ t[q] = s[q]
        BY <2>1, <2>4, <3>2, <3>4, <3>6
      <4>3. s[q].expiresAt \in Nat /\ s[p].expiresAt \in Nat /\ s[j].expiresAt \in Nat
        BY <2>1, <2>6, <3>2
      <4> QED BY <3>1, <3>3, <4>1, <4>2, <4>3
    <3> QED BY <3>5, <3>6
  <2>12. RisesIn(t, p)
    BY <2>1, <2>5, <2>10, <2>11 DEF RisesIn
  <2>13. c \in Bubbles /\ c.heap = t /\ c.at = p
    BY <2>1, <2>3, <2>5 DEF Bubbles
  <2> QED BY <1>1, <2>1, <2>4, <2>9, <2>12, <2>13
<1> QED BY <1>5, <1>6

(* bubbleUp makes a heap of the items it is given.                         *)
LEMMA BubbleUpOrders ==
  ASSUME NEW s \in Seq(Items), NEW i, RisesIn(s, i), NEW t, t = BubbleUp(s, i)
  PROVE  Ordered(t) /\ SameItems(s, t)
<1> DEFINE P == [m \in Nat |-> {b \in Bubbles :
                   /\ RisesIn(b.heap, b.at) /\ SameItems(s, b.heap)
                   /\ Ordered(b.heap) \/ b.at + m <= i}]
<1>1. i \in 1 .. Len(s) /\ i \in Nat /\ Len(s) \in Nat /\ SameItems(s, s)
  BY DEF RisesIn, SameItems
<1>2. PICK x : x = [heap |-> s, at |-> i]
  OBVIOUS
<1>3. x \in Bubbles /\ x \in P[0]
  BY <1>1, <1>2 DEF Bubbles
<1>4. ASSUME NEW m \in Nat, NEW b \in P[m] PROVE Rise[b] \in P[m + 1]
  <2>1. PICK c : c = Rise[b]
    OBVIOUS
  <2>2. /\ b \in Bubbles /\ RisesIn(b.heap, b.at) /\ SameItems(s, b.heap) /\ b.at \in Nat
        /\ Ordered(b.heap) \/ b.at + m <= i
    BY <1>4 DEF Bubbles
  <2>3. /\ c \in Bubbles /\ SameItems(b.heap, c.heap) /\ RisesIn(c.heap, c.at)
        /\ Ordered(b.heap) => c = b
        /\ (c = b /\ Ordered(b.heap)) \/ c.at < b.at
    BY <2>1, <2>2, RiseStep
  <2>4. SameItems(s, c.heap)
    BY <2>2, <2>3, SameSame
  <2>5. Ordered(c.heap) \/ c.at + (m + 1) <= i
    <3>1. c.at \in Nat
      BY <2>3 DEF Bubbles
    <3> QED BY <1>1, <2>2, <2>3, <3>1
  <2> QED BY <2>1, <2>3, <2>4, <2>5
<1>6. PICK r : r = Rounds(Rise, x, Len(s))
  OBVIOUS
<1>7. r \in P[Len(s)]
  <2> HIDE DEF P
  <2> QED BY <1>1, <1>3, <1>4, <1>6, RoundsReach
<1>8. /\ r \in Bubbles /\ RisesIn(r.heap, r.at) /\ SameItems(s, r.heap)
      /\ Ordered(r.heap) \/ r.at + Len(s) <= i
  BY <1>1, <1>7
<1>9. ~(r.at + Len(s) <= i)
  <2>1. r.at \in Nat /\ r.at >= 1
    BY <1>8 DEF RisesIn, SameItems, Bubbles
  <2> QED BY <1>1, <2>1
<1> QED BY <1>2, <1>6, <1>8, <1>9 DEF BubbleUp

(* What bubbleDown compares: the earliest of an item and its children.     *)
LEMMA SmallestChild ==
  ASSUME NEW s \in Seq(Items), NEW i \in 1 .. Len(s), NEW m, m = Smallest(s, i)
  PROVE  /\ m \in 1 .. Len(s)
         /\ m # i => m \div 2 = i /\ m > i /\ s[m].expiresAt < s[i].expiresAt
         /\ \A j \in 2 .. Len(s) : j \div 2 = i => s[m].expiresAt <= s[j].expiresAt
<1> DEFINE e(k) == s[k].expiresAt
<1>1. PICK n \in Nat : n = Len(s)
  OBVIOUS
<1>2. PICK l, r, c : l = 2 * i /\ r = 2 * i + 1 /\ c = Smaller(s, i, l)
  OBVIOUS
<1>3. /\ i \in 1 .. n /\ l \in Nat /\ r \in Nat /\ l > i /\ r > i
      /\ l \div 2 = i /\ r \div 2 = i
      /\ \A j \in 2 .. n : j \div 2 = i => j = l \/ j = r
  BY <1>1, <1>2
<1>4. \A k \in 1 .. n : e(k) \in Nat
  BY <1>1, ItemTimes
<1>5. /\ c = IF l <= n /\ e(l) < e(i) THEN l ELSE i
      /\ m = IF r <= n /\ e(r) < e(c) THEN r ELSE c
  BY <1>1, <1>2 DEF Smaller, Smallest
<1> HIDE DEF e
<1>6. /\ c \in 1 .. n /\ (c = i \/ (c = l /\ e(l) < e(i)))
      /\ l <= n => e(c) <= e(l)
      /\ e(c) <= e(i)
  <2>1. CASE l <= n /\ e(l) < e(i)
    BY <1>1, <1>3, <1>4, <1>5, <2>1
  <2>2. CASE ~(l <= n /\ e(l) < e(i))
    <3>1. l <= n => l \in 1 .. n
      BY <1>1, <1>3
    <3> QED BY <1>1, <1>3, <1>4, <1>5, <2>2, <3>1
  <2> QED BY <2>1, <2>2
<1>7. /\ m \in 1 .. n /\ (m = i \/ (m \in {l, r} /\ e(m) < e(i)))
      /\ l <= n => e(m) <= e(l)
      /\ r <= n => e(m) <= e(r)
  <2>1. /\ l <= n => l \in 1 .. n
        /\ r <= n => r \in 1 .. n
    BY <1>1, <1>3
  <2>2. CASE r <= n /\ e(r) < e(c)
    BY <1>1, <1>3, <1>4, <1>5, <1>6, <2>1, <2>2
  <2>3. CASE ~(r <= n /\ e(r) < e(c))
    BY <1>1, <1>3, <1>4, <1>5, <1>6, <2>1, <2>3
  <2> QED BY <2>2, <2>3
<1>8. \A j \in 2 .. n : j \div 2 = i => e(m) <= e(j)
  <2>1. ASSUME NEW j \in 2 .. n, j \div 2 = i PROVE e(m) <= e(j)
    <3>1. j <= n /\ (j = l \/ j = r)
      BY <1>1, <1>3, <2>1
    <3> QED BY <1>7, <3>1
  <2> QED BY <2>1
<1>9. m # i => m \div 2 = i /\ m > i /\ e(m) < e(i)
  BY <1>3, <1>7
<1> QED BY <1>1, <1>7, <1>8, <1>9 DEF e

(* One round of bubbleDown.                                                *)
LEMMA SinkStep ==
  ASSUME NEW b \in Bubbles, SinksIn(b.heap, b.at), NEW c, c = Sink[b]
  PROVE  /\ c \in Bubbles /\ SameItems(b.heap, c.heap) /\ SinksIn(c.heap, c.at)
         /\ Ordered(b.heap) => c = b
         /\ (c = b /\ Ordered(b.heap)) \/ c.at > b.at
<1>1. PICK s, i, m : s = b.heap /\ i = b.at /\ m = Smallest(s, i)
  OBVIOUS
<1>2. s \in Seq(Items) /\ i \in 1 .. Len(s) /\ Len(s) \in Nat /\ i \in Nat
      /\ b = [heap |-> s, at |-> i]
  BY <1>1 DEF Bubbles, SinksIn
<1>3. c = IF m = i THEN b ELSE [heap |-> Swap(s, i, m), at |-> m]
  BY <1>1 DEF Sink
<1>4. SameItems(s, s)
  BY <1>2 DEF SameItems
<1>5. /\ m \in 1 .. Len(s)
      /\ m # i => m \div 2 = i /\ m > i /\ s[m].expiresAt < s[i].expiresAt
      /\ \A j \in 2 .. Len(s) : j \div 2 = i => s[m].expiresAt <= s[j].expiresAt
  BY <1>1, <1>2, SmallestChild
<1>6. \A k \in 1 .. Len(s) : s[k].expiresAt \in Nat
  BY <1>2, ItemTimes
<1>7. /\ \A j \in 2 .. Len(s) : j \div 2 # i => s[j \div 2].expiresAt <= s[j].expiresAt
      /\ \A j \in 2 .. Len(s) : j \div 2 = i /\ i > 1 => s[i \div 2].expiresAt <= s[j].expiresAt
  BY <1>1 DEF SinksIn
<1>8. CASE m = i
  <2>1. c = b
    BY <1>3, <1>8
  <2>2. Ordered(s)
    BY <1>2, <1>5, <1>7, <1>8 DEF Ordered
  <2> QED BY <1>1, <1>4, <2>1, <2>2
<1>9. CASE m # i
  <2>1. m \in 1 .. Len(s) /\ m > i /\ m \in Nat /\ m \in 2 .. Len(s) /\ m \div 2 = i
        /\ s[m].expiresAt < s[i].expiresAt
    BY <1>2, <1>5, <1>9
  <2>2. PICK t : t = Swap(s, i, m)
    OBVIOUS
  <2>3. c = [heap |-> t, at |-> m]
    BY <1>3, <1>9, <2>2
  <2>4. /\ SameItems(s, t) /\ t[i] = s[m] /\ t[m] = s[i]
        /\ \A k \in 1 .. Len(s) : k # i /\ k # m => t[k] = s[k]
    BY <1>2, <2>1, <2>2, Swapped
  <2>5. t \in Seq(Items) /\ Len(t) = Len(s)
    BY <2>4 DEF SameItems
  <2>9. ~Ordered(s)
    <3>1. s[m].expiresAt \in Nat /\ s[i].expiresAt \in Nat
      BY <1>2, <1>6, <2>1
    <3>2. Ordered(s) => s[i].expiresAt <= s[m].expiresAt
      BY <2>1 DEF Ordered
    <3> QED BY <2>1, <3>1, <3>2
  <2>10. ASSUME NEW j \in 2 .. Len(s), j \div 2 # m
         PROVE  t[j \div 2].expiresAt <= t[j].expiresAt
    <3>1. PICK q : q = j \div 2
      OBVIOUS
    <3>2. q \in 1 .. Len(s) /\ q < j /\ j \in 1 .. Len(s) /\ q \in Nat
      BY <1>2, <3>1, Parents
    <3>3. CASE j = m
      <4>1. t[q] = s[m] /\ t[j] = s[i]
        BY <2>1, <2>4, <3>1, <3>3
      <4>2. s[i].expiresAt \in Nat /\ s[m].expiresAt \in Nat
        BY <1>2, <1>6, <2>1
      <4> QED BY <2>1, <3>1, <4>1, <4>2
    <3>4. CASE j # m /\ q = i
      <4>1. s[m].expiresAt <= s[j].expiresAt
        BY <1>5, <3>1, <3>4
      <4>2. t[q] = s[m] /\ t[j] = s[j]
        BY <2>4, <3>2, <3>4
      <4> QED BY <3>1, <4>1, <4>2
    <3>5. CASE j = i
      <4>1. i > 1 /\ s[q].expiresAt <= s[m].expiresAt
        BY <1>7, <2>1, <3>1, <3>5
      <4>2. t[q] = s[q] /\ t[j] = s[m]
        BY <2>1, <2>4, <2>10, <3>1, <3>2, <3>5
      <4> QED BY <3>1, <4>1, <4>2
    <3>6. CASE j # m /\ j # i /\ q # i
      <4>1. s[q].expiresAt <= s[j].expiresAt
        BY <1>7, <3>1, <3>6
      <4>2. t[q] = s[q] /\ t[j] = s[j]
        BY <2>4, <2>10, <3>1, <3>2, <3>6
      <4> QED BY <3>1, <4>1, <4>2
    <3> QED BY <3>3, <3>4, <3>5, <3>6
  <2>11. ASSUME NEW j \in 2 .. Len(s), j \div 2 = m, m > 1
         PROVE  t[m \div 2].expiresAt <= t[j].expiresAt
    <3>1. j > m /\ j \in 1 .. Len(s)
      BY <1>2, <2>1, <2>11, Parents
    <3>2. t[j] = s[j] /\ t[m \div 2] = s[m]
      BY <1>2, <2>1, <2>4, <3>1
    <3>3. s[m].expiresAt <= s[j].expiresAt
      BY <1>7, <1>9, <2>11
    <3> QED BY <3>2, <3>3
  <2>12. SinksIn(t, m)
    BY <2>1, <2>5, <2>10, <2>11 DEF SinksIn
  <2>13. c \in Bubbles /\ c.heap = t /\ c.at = m
    BY <2>1, <2>3, <2>5 DEF Bubbles
  <2> QED BY <1>1, <2>1, <2>4, <2>9, <2>12, <2>13
<1> QED BY <1>8, <1>9

(* bubbleDown makes a heap of the items it is given.                       *)
LEMMA BubbleDownOrders ==
  ASSUME NEW s \in Seq(Items), SinksIn(s, 1), NEW t, t = BubbleDown(s, 1)
  PROVE  Ordered(t) /\ SameItems(s, t)
<1> DEFINE P == [m \in Nat |-> {b \in Bubbles :
                   /\ SinksIn(b.heap, b.at) /\ SameItems(s, b.heap)
                   /\ Ordered(b.heap) \/ b.at > m}]
<1>1. Len(s) \in Nat /\ SameItems(s, s)
  BY DEF SameItems
<1>2. PICK x : x = [heap |-> s, at |-> 1]
  OBVIOUS
<1>3. x \in Bubbles /\ x \in P[0]
  BY <1>1, <1>2 DEF Bubbles
<1>4. ASSUME NEW m \in Nat, NEW b \in P[m] PROVE Sink[b] \in P[m + 1]
  <2>1. PICK c : c = Sink[b]
    OBVIOUS
  <2>2. /\ b \in Bubbles /\ SinksIn(b.heap, b.at) /\ SameItems(s, b.heap) /\ b.at \in Nat
        /\ Ordered(b.heap) \/ b.at > m
    BY <1>4 DEF Bubbles
  <2>3. /\ c \in Bubbles /\ SameItems(b.heap, c.heap) /\ SinksIn(c.heap, c.at)
        /\ Ordered(b.heap) => c = b
        /\ (c = b /\ Ordered(b.heap)) \/ c.at > b.at
    BY <2>1, <2>2, SinkStep
  <2>4. SameItems(s, c.heap)
    BY <2>2, <2>3, SameSame
  <2>5. Ordered(c.heap) \/ c.at > m + 1
    <3>1. c.at \in Nat
      BY <2>3 DEF Bubbles
    <3> QED BY <1>1, <2>2, <2>3, <3>1
  <2> QED BY <2>1, <2>3, <2>4, <2>5
<1>6. PICK r : r = Rounds(Sink, x, Len(s))
  OBVIOUS
<1>7. r \in P[Len(s)]
  <2> HIDE DEF P
  <2> QED BY <1>1, <1>3, <1>4, <1>6, RoundsReach
<1>8. /\ r \in Bubbles /\ SinksIn(r.heap, r.at) /\ SameItems(s, r.heap)
      /\ Ordered(r.heap) \/ r.at > Len(s)
  BY <1>1, <1>7
<1>9. ~(r.at > Len(s))
  <2>1. r.at \in Nat /\ r.at <= Len(s)
    BY <1>1, <1>8 DEF SinksIn, SameItems, Bubbles
  <2> QED BY <1>1, <2>1
<1> QED BY <1>2, <1>6, <1>8, <1>9 DEF BubbleDown

(* push() adds an item.                                                    *)
LEMMA PushAdds ==
  ASSUME NEW s \in Seq(Items), Ordered(s), NEW x \in Items, NEW t, t = Push(s, x),
         Distinct(s), \A i \in 1 .. Len(s) : s[i].key # x.key
  PROVE  /\ t \in Seq(Items) /\ Ordered(t) /\ Distinct(t) /\ Len(t) = Len(s) + 1
         /\ \A y : Holds(t, y) <=> Holds(s, y) \/ y = x
<1>1. PICK r, n : r = Append(s, x) /\ n = Len(s)
  OBVIOUS
<1>2. /\ r \in Seq(Items) /\ Len(r) = n + 1 /\ r[n + 1] = x /\ n \in Nat
      /\ \A j \in 1 .. n : r[j] = s[j]
  BY <1>1
<1>3. RisesIn(r, n + 1)
  <2>1. ASSUME NEW j \in 2 .. n + 1, j # n + 1
        PROVE  r[j \div 2].expiresAt <= r[j].expiresAt
    <3>1. j \in 2 .. n /\ j \div 2 \in 1 .. n /\ j \in 1 .. n
      BY <1>2, <2>1, Parents
    <3>2. s[j \div 2].expiresAt <= s[j].expiresAt
      BY <1>1, <3>1 DEF Ordered
    <3> QED BY <1>2, <3>1, <3>2
  <2>2. \A j \in 2 .. n + 1 : j \div 2 # n + 1
    BY <1>2, Parents
  <2> QED BY <1>2, <2>1, <2>2 DEF RisesIn
<1>4. Ordered(t) /\ SameItems(r, t)
  BY <1>1, <1>2, <1>3, BubbleUpOrders DEF Push
<1>5. \A y : Holds(r, y) <=> Holds(s, y) \/ y = x
  <2>1. \A j \in 1 .. n + 1 : j \in 1 .. n \/ j = n + 1
    BY <1>2
  <2>2. n + 1 \in 1 .. n + 1 /\ \A j \in 1 .. n : j \in 1 .. n + 1
    BY <1>2
  <2>3. ASSUME NEW y, Holds(r, y) PROVE Holds(s, y) \/ y = x
    BY <1>1, <1>2, <2>1, <2>3 DEF Holds
  <2>4. ASSUME NEW y, Holds(s, y) PROVE Holds(r, y)
    BY <1>1, <1>2, <2>2, <2>4 DEF Holds
  <2>5. Holds(r, x)
    BY <1>2, <2>2 DEF Holds
  <2> QED BY <2>3, <2>4, <2>5
<1>6. Distinct(r)
  <2> SUFFICES ASSUME NEW i \in 1 .. n + 1, NEW j \in 1 .. n + 1, r[i].key = r[j].key
               PROVE  i = j
    BY <1>2 DEF Distinct
  <2>1. CASE i \in 1 .. n /\ j \in 1 .. n
    BY <1>1, <1>2, <2>1 DEF Distinct
  <2>2. CASE i = n + 1 \/ j = n + 1
    BY <1>1, <1>2, <2>2
  <2> QED BY <1>2, <2>1, <2>2
<1> QED BY <1>1, <1>2, <1>4, <1>5, <1>6 DEF SameItems

(* pop() takes the first item out.                                         *)
LEMMA PopTakesFirst ==
  ASSUME NEW s \in Seq(Items), Ordered(s), Distinct(s), s # << >>, NEW t, t = Pop(s)
  PROVE  /\ t \in Seq(Items) /\ Ordered(t) /\ Distinct(t) /\ Len(t) = Len(s) - 1
         /\ \A y : Holds(t, y) <=> Holds(s, y) /\ y # s[1]
<1>1. PICK n : n = Len(s)
  OBVIOUS
<1>2. n \in Nat /\ n >= 1
  BY <1>1
<1>3. CASE n = 1
  <2>1. t = << >>
    BY <1>1, <1>3 DEF Pop
  <2>2. t \in Seq(Items) /\ Len(t) = 0
    BY <2>1
  <2>3. \A y : ~Holds(t, y)
    BY <2>2 DEF Holds
  <2>4. \A y : Holds(s, y) => y = s[1]
    BY <1>1, <1>3 DEF Holds
  <2> QED BY <1>1, <1>3, <2>2, <2>3, <2>4 DEF Ordered, Distinct
<1>4. CASE n > 1
  <2>1. PICK u : u = SubSeq(s, 1, n - 1)
    OBVIOUS
  <2>2. u \in Seq(Items) /\ Len(u) = n - 1 /\ \A j \in 1 .. n - 1 : u[j] = s[j]
    BY <1>1, <1>2, <1>4, <2>1
  <2>3. PICK r : r = [u EXCEPT ![1] = s[n]]
    OBVIOUS
  <2>4. s[n] \in Items
    BY <1>1, <1>2
  <2>5. /\ r \in Seq(Items) /\ Len(r) = n - 1 /\ r[1] = s[n]
        /\ \A j \in 2 .. n - 1 : r[j] = s[j]
    BY <1>2, <1>4, <2>2, <2>3, <2>4
  <2>6. t = BubbleDown(r, 1)
    BY <1>1, <1>2, <1>4, <2>1, <2>3 DEF Pop, LastFirst
  <2>7. SinksIn(r, 1)
    <3>1. ASSUME NEW j \in 2 .. n - 1, j \div 2 # 1
          PROVE  r[j \div 2].expiresAt <= r[j].expiresAt
      <4>1. j \div 2 \in 2 .. n - 1 /\ j \in 2 .. n
        BY <1>2, <3>1, Parents
      <4>2. s[j \div 2].expiresAt <= s[j].expiresAt
        BY <1>1, <4>1 DEF Ordered
      <4> QED BY <2>5, <4>1, <4>2
    <3>2. 1 \in 1 .. n - 1
      BY <1>2, <1>4
    <3> QED BY <2>5, <3>1, <3>2 DEF SinksIn
  <2>8. Ordered(t) /\ SameItems(r, t)
    BY <2>5, <2>6, <2>7, BubbleDownOrders
  <2>9. \A i, j \in 1 .. n : s[i].key = s[j].key => i = j
    BY <1>1 DEF Distinct
  <2>10. ASSUME NEW j \in 1 .. n - 1
         PROVE  \E i \in 2 .. n : r[j] = s[i] /\ i = IF j = 1 THEN n ELSE j
    BY <1>2, <1>4, <2>5
  <2>11. ASSUME NEW y PROVE Holds(r, y) <=> Holds(s, y) /\ y # s[1]
    <3>1. ASSUME Holds(r, y) PROVE Holds(s, y) /\ y # s[1]
      <4>1. PICK j \in 1 .. n - 1 : r[j] = y
        BY <2>5, <3>1 DEF Holds
      <4>2. PICK i \in 2 .. n : y = s[i]
        BY <2>10, <4>1
      <4>3. i \in 1 .. n /\ 1 \in 1 .. n /\ i # 1
        BY <1>2
      <4> QED BY <1>1, <2>9, <4>2, <4>3 DEF Holds
    <3>2. ASSUME Holds(s, y), y # s[1] PROVE Holds(r, y)
      <4>1. PICK i \in 1 .. n : s[i] = y
        BY <1>1, <3>2 DEF Holds
      <4>2. i # 1
        BY <3>2, <4>1
      <4>3. PICK j \in 1 .. n - 1 : r[j] = s[i]
        <5>1. CASE i = n
          BY <1>2, <1>4, <2>5, <5>1
        <5>2. CASE i # n
          <6>1. i \in 2 .. n - 1 /\ i \in 1 .. n - 1
            BY <1>2, <4>2, <5>2
          <6> QED BY <2>5, <6>1
        <5> QED BY <5>1, <5>2
      <4> QED BY <2>5, <4>1, <4>3 DEF Holds
    <3> QED BY <3>1, <3>2
  <2>12. Distinct(r)
    <3> SUFFICES ASSUME NEW i \in 1 .. n - 1, NEW j \in 1 .. n - 1, r[i].key = r[j].key
                 PROVE  i = j
      BY <2>5 DEF Distinct
    <3>1. PICK k \in 2 .. n : r[i] = s[k] /\ k = IF i = 1 THEN n ELSE i
      BY <2>10
    <3>2. PICK l \in 2 .. n : r[j] = s[l] /\ l = IF j = 1 THEN n ELSE j
      BY <2>10
    <3>3. k = l
      BY <1>2, <2>9, <3>1, <3>2
    <3> QED BY <1>2, <3>1, <3>2, <3>3
  <2> QED BY <1>1, <2>5, <2>8, <2>11, <2>12 DEF SameItems
<1> QED BY <1>2, <1>3, <1>4

(* The heap is in order and has one item for each key of the Map, with the *)
(* Map's expiry.                                                           *)
Mirrors(c) ==
  /\ c \in Caches /\ \A k \in Keys : c.map[k] \in Expiries \cup {NoEntry}
  /\ Ordered(c.heap) /\ Distinct(c.heap)
  /\ \A x \in Items : Holds(c.heap, x) <=> c.map[x.key] = x.expiresAt

(* So there are as many.                                                   *)
LEMMA AsMany ==
  ASSUME NEW c, Mirrors(c)
  PROVE  Cardinality(Held(c.map)) = Len(c.heap)
<1>1. PICK s, m, n : s = c.heap /\ m = c.map /\ n = Len(s)
  OBVIOUS
<1>2. /\ s \in Seq(Items) /\ n \in Nat /\ Distinct(s)
      /\ \A k \in Keys : m[k] \in Expiries \cup {NoEntry}
      /\ \A x \in Items : Holds(s, x) <=> m[x.key] = x.expiresAt
  BY <1>1 DEF Mirrors, Caches
<1>3. PICK f : f = [i \in 1 .. n |-> s[i].key]
  OBVIOUS
<1>4. ASSUME NEW i \in 1 .. n PROVE f[i] \in Held(m)
  <2>1. s[i] \in Items /\ s[i].key \in Keys /\ s[i].expiresAt \in Nat
    BY <1>1, <1>2, ItemTimes
  <2>2. Holds(s, s[i])
    BY <1>1 DEF Holds
  <2>3. m[s[i].key] = s[i].expiresAt
    BY <1>2, <2>1, <2>2
  <2> QED BY <1>3, <2>1, <2>3 DEF Held, NoEntry
<1>5. \A i, j \in 1 .. n : f[i] = f[j] => i = j
  BY <1>1, <1>2, <1>3 DEF Distinct
<1>6. ASSUME NEW k \in Held(m) PROVE \E i \in 1 .. n : f[i] = k
  <2>1. k \in Keys /\ m[k] \in Expiries
    BY <1>2 DEF Held
  <2>2. PICK x : x = [key |-> k, expiresAt |-> m[k]]
    OBVIOUS
  <2>3. x \in Items /\ x.key = k /\ x.expiresAt = m[k]
    BY <2>1, <2>2 DEF Items
  <2>4. Holds(s, x)
    BY <1>2, <2>3
  <2> QED BY <1>1, <1>3, <2>3, <2>4 DEF Holds
<1>7. f \in Bijection(1 .. n, Held(m))
  <2>1. f \in [1 .. n -> Held(m)]
    BY <1>3, <1>4
  <2> QED BY <1>5, <1>6, <2>1 DEF Bijection, Injection, Surjection, IsInjective
<1>8. ExistsBijection(1 .. n, Held(m))
  BY <1>7 DEF ExistsBijection
<1>9. Cardinality(Held(m)) = n
  BY <1>2, <1>8, FS_CountingElements
<1> QED BY <1>1, <1>9

(* The first item of the heap is in the Map, with the earliest expiry; the *)
(* cache without the two is as it should be.                               *)
TakeFirst(c) == [map |-> WithoutKey(c, c.heap[1].key), heap |-> Pop(c.heap)]

LEMMA FirstOut ==
  ASSUME NEW c, Mirrors(c), c.heap # << >>, NEW d, d = TakeFirst(c)
  PROVE  /\ Mirrors(d) /\ Len(d.heap) = Len(c.heap) - 1
         /\ c.heap[1].key \in Keys /\ c.heap[1].expiresAt \in Nat
         /\ Matches(c, c.heap[1]) /\ c.heap[1].key \in Earliest(c.map)
         /\ d.map = [c.map EXCEPT ![c.heap[1].key] = NoEntry]
<1>1. PICK s, m, x : s = c.heap /\ m = c.map /\ x = s[1]
  OBVIOUS
<1>2. /\ s \in Seq(Items) /\ m \in Windows /\ s # << >> /\ Ordered(s) /\ Distinct(s)
      /\ \A k \in Keys : m[k] \in Expiries \cup {NoEntry}
      /\ \A y \in Items : Holds(s, y) <=> m[y.key] = y.expiresAt
  BY <1>1 DEF Mirrors, Caches
<1>3. 1 \in 1 .. Len(s)
  BY <1>2
<1>4. x \in Items /\ x.key \in Keys /\ x.expiresAt \in Expiries /\ x.expiresAt \in Nat
  BY <1>1, <1>2, <1>3, ItemTimes
<1>5. m[x.key] = x.expiresAt
  <2>1. Holds(s, x)
    BY <1>1, <1>3 DEF Holds
  <2> QED BY <1>2, <1>4, <2>1
<1>6. x.key \in Earliest(m)
  <2>1. x.key \in Held(m)
    BY <1>4, <1>5 DEF Held, NoEntry
  <2>2. ASSUME NEW k \in Held(m) PROVE m[x.key] <= m[k]
    <3>1. k \in Keys /\ m[k] \in Expiries
      BY <1>2 DEF Held
    <3>2. PICK y : y = [key |-> k, expiresAt |-> m[k]]
      OBVIOUS
    <3>3. y \in Items /\ y.key = k /\ y.expiresAt = m[k]
      BY <3>1, <3>2 DEF Items
    <3>4. PICK i \in 1 .. Len(s) : s[i] = y
      BY <1>2, <3>3 DEF Holds
    <3>5. x.expiresAt <= s[i].expiresAt
      BY <1>1, <1>2, FirstEarliest
    <3> QED BY <1>5, <3>3, <3>4, <3>5
  <2> QED BY <2>1, <2>2 DEF Earliest
<1>7. PICK t, r : t = Pop(s) /\ r = [m EXCEPT ![x.key] = NoEntry]
  OBVIOUS
<1>8. /\ t \in Seq(Items) /\ Ordered(t) /\ Distinct(t) /\ Len(t) = Len(s) - 1
      /\ \A y : Holds(t, y) <=> Holds(s, y) /\ y # x
  BY <1>1, <1>2, <1>7, PopTakesFirst
<1>9. /\ r \in Windows /\ r[x.key] = NoEntry
      /\ \A k \in Keys : k # x.key => r[k] = m[k]
  BY <1>2, <1>4, <1>7 DEF Windows
<1>10. ASSUME NEW y \in Items PROVE Holds(t, y) <=> r[y.key] = y.expiresAt
  <2>1. y.key \in Keys /\ y.expiresAt \in Nat
    BY HeapAssumption DEF Items
  <2>2. CASE y.key = x.key
    <3>1. r[y.key] # y.expiresAt
      BY <1>9, <2>1, <2>2 DEF NoEntry
    <3>2. Holds(s, y) => y = x
      <4>1. ASSUME Holds(s, y) PROVE y = x
        <5>1. y.expiresAt = x.expiresAt
          BY <1>2, <1>5, <2>2, <4>1
        <5> QED BY <1>4, <2>2, <5>1 DEF Items
      <4> QED BY <4>1
    <3> QED BY <1>8, <3>1, <3>2
  <2>3. CASE y.key # x.key
    BY <1>2, <1>8, <1>9, <2>1, <2>3
  <2> QED BY <2>2, <2>3
<1>11. d = [map |-> r, heap |-> t]
  BY <1>1, <1>7 DEF TakeFirst, WithoutKey
<1>12. Mirrors(d)
  <2>1. d \in Caches /\ d.map = r /\ d.heap = t
    BY <1>8, <1>9, <1>11 DEF Caches
  <2>2. \A k \in Keys : r[k] \in Expiries \cup {NoEntry}
    BY <1>2, <1>9
  <2> QED BY <1>8, <1>10, <2>1, <2>2 DEF Mirrors
<1> QED BY <1>1, <1>4, <1>5, <1>6, <1>7, <1>8, <1>11, <1>12 DEF Matches

(* Nothing of the heap is over.                                            *)
AllLater(d, instant) == d.heap = << >> \/ d.heap[1].expiresAt > instant

(* prune() leaves the entries that are not over, and the heap in step.     *)
LEMMA PruneHeapPrunes ==
  ASSUME NEW c, Mirrors(c), NEW instant \in Nat, NEW d, d = PruneHeap(c, instant)
  PROVE  Mirrors(d) /\ d.map = Prune(c.map, instant) /\ Len(d.heap) <= Len(c.heap)
<1> DEFINE Left(a) == \A k \in Keys : \/ a.map[k] = c.map[k]
                                      \/ a.map[k] = NoEntry /\ c.map[k] <= instant
           P == [m \in Nat |-> {a \in Caches :
                   /\ Mirrors(a) /\ Left(a) /\ Len(a.heap) <= Len(c.heap)
                   /\ AllLater(a, instant) \/ Len(a.heap) + m <= Len(c.heap)}]
<1>1. c \in Caches /\ Len(c.heap) \in Nat
  BY DEF Mirrors, Caches
<1>2. c \in P[0]
  BY <1>1
<1>3. ASSUME NEW m \in Nat, NEW a \in P[m] PROVE PruneFirst(instant)[a] \in P[m + 1]
  <2>1. /\ a \in Caches /\ Mirrors(a) /\ Left(a) /\ Len(a.heap) <= Len(c.heap)
        /\ AllLater(a, instant) \/ Len(a.heap) + m <= Len(c.heap)
    BY <1>3
  <2>2. CASE AllLater(a, instant)
    <3>1. PruneFirst(instant)[a] = a
      BY <2>1, <2>2 DEF PruneFirst, AllLater
    <3> QED BY <2>1, <2>2, <3>1
  <2>3. CASE ~AllLater(a, instant)
    <3>1. PICK b, k : b = TakeFirst(a) /\ k = a.heap[1].key
      OBVIOUS
    <3>2. /\ Mirrors(b) /\ Len(b.heap) = Len(a.heap) - 1
          /\ k \in Keys /\ a.heap[1].expiresAt \in Nat
          /\ Matches(a, a.heap[1])
          /\ b.map = [a.map EXCEPT ![k] = NoEntry]
      BY <2>1, <2>3, <3>1, FirstOut DEF AllLater
    <3>3. PruneFirst(instant)[a] = b
      BY <2>1, <2>3, <3>1, <3>2 DEF PruneFirst, AllLater, TakeFirst
    <3>4. a.map[k] <= instant /\ a.map[k] # NoEntry
      BY <2>3, <3>1, <3>2 DEF Matches, AllLater, NoEntry
    <3>5. ASSUME NEW j \in Keys
          PROVE  b.map[j] = c.map[j] \/ (b.map[j] = NoEntry /\ c.map[j] <= instant)
      <4>1. a.map[j] = c.map[j] \/ (a.map[j] = NoEntry /\ c.map[j] <= instant)
        BY <2>1
      <4>2. a.map \in Windows
        BY <2>1 DEF Caches
      <4>3. b.map[j] = IF j = k THEN NoEntry ELSE a.map[j]
        BY <3>2, <4>2 DEF Windows
      <4> QED BY <3>4, <4>1, <4>3
    <3>6. b \in Caches /\ Len(b.heap) <= Len(c.heap) /\ Len(b.heap) + (m + 1) <= Len(c.heap)
      <4>1. b \in Caches /\ Len(a.heap) \in Nat /\ Len(b.heap) \in Nat
        BY <2>1, <3>2 DEF Mirrors, Caches
      <4>2. PICK la, lb, lc : la = Len(a.heap) /\ lb = Len(b.heap) /\ lc = Len(c.heap)
        OBVIOUS
      <4>3. la \in Nat /\ lb \in Nat /\ lc \in Nat /\ lb = la - 1 /\ la <= lc /\ la + m <= lc
        BY <1>1, <2>1, <2>3, <3>2, <4>1, <4>2
      <4>4. lb <= lc /\ lb + (m + 1) <= lc
        BY ONLY m \in Nat, <4>3
      <4> QED BY <4>1, <4>2, <4>4
    <3>7. Left(b)
      BY <3>5
    <3>8. b \in P[m + 1]
      <4> HIDE DEF Left
      <4>1. m + 1 \in Nat
        OBVIOUS
      <4> QED BY <3>2, <3>6, <3>7, <4>1
    <3> QED BY <3>3, <3>8
  <2> QED BY <2>2, <2>3
<1>4. d \in P[Len(c.heap)]
  <2> HIDE DEF P
  <2> QED BY <1>1, <1>2, <1>3, RoundsReach DEF PruneHeap
<1>5. /\ d \in Caches /\ Mirrors(d) /\ Left(d) /\ Len(d.heap) <= Len(c.heap)
      /\ AllLater(d, instant) \/ Len(d.heap) + Len(c.heap) <= Len(c.heap)
  BY <1>1, <1>4
<1>6. AllLater(d, instant)
  <2>1. Len(d.heap) \in Nat /\ d.heap \in Seq(Items)
    BY <1>5 DEF Caches
  <2>2. ASSUME Len(d.heap) + Len(c.heap) <= Len(c.heap) PROVE d.heap = << >>
    <3>1. Len(d.heap) = 0
      <4>1. PICK ld, lc : ld = Len(d.heap) /\ lc = Len(c.heap)
        OBVIOUS
      <4>2. ld \in Nat /\ lc \in Nat /\ ld + lc <= lc
        BY <1>1, <2>1, <2>2, <4>1
      <4>3. ld = 0
        BY ONLY <4>2
      <4> QED BY <4>1, <4>3
    <3> QED BY <2>1, <3>1
  <2> QED BY <1>5, <2>2 DEF AllLater
<1>7. ASSUME NEW k \in Keys PROVE d.map[k] = Prune(c.map, instant)[k]
  <2>1. /\ c.map[k] \in Nat \cup {NoEntry}
        /\ Prune(c.map, instant)[k] = IF c.map[k] <= instant THEN NoEntry ELSE c.map[k]
    BY <1>1 DEF Caches, Windows, Prune
  <2>2. d.map[k] # NoEntry => d.map[k] > instant
    <3>1. SUFFICES ASSUME d.map[k] # NoEntry PROVE d.map[k] > instant
      OBVIOUS
    <3>2. PICK y : y = [key |-> k, expiresAt |-> d.map[k]]
      OBVIOUS
    <3>3. y \in Items /\ y.key = k /\ y.expiresAt = d.map[k] /\ d.map[k] \in Nat
      BY <1>5, <3>1, <3>2, HeapAssumption DEF Mirrors, Items
    <3>4. PICK i \in 1 .. Len(d.heap) : d.heap[i] = y
      BY <1>5, <3>3 DEF Mirrors, Holds
    <3>5. PICK s : s = d.heap
      OBVIOUS
    <3>6. s \in Seq(Items) /\ Ordered(s) /\ i \in 1 .. Len(s) /\ s[i] = y
      BY <1>5, <3>4, <3>5 DEF Mirrors, Caches
    <3>7. s[1].expiresAt <= d.map[k] /\ s[1].expiresAt \in Nat
      <4>1. 1 \in 1 .. Len(s)
        BY <3>6
      <4>2. s[1].expiresAt <= s[i].expiresAt
        BY <3>6, FirstEarliest
      <4> QED BY <3>3, <3>6, <4>1, <4>2, ItemTimes
    <3>8. s[1].expiresAt > instant
      BY <1>6, <3>5, <3>6 DEF AllLater
    <3> QED BY <3>3, <3>7, <3>8
  <2>3. d.map[k] = c.map[k] \/ (d.map[k] = NoEntry /\ c.map[k] <= instant)
    BY <1>5
  <2> QED BY <2>1, <2>2, <2>3 DEF NoEntry
<1>8. d.map = Prune(c.map, instant)
  <2>1. d.map \in Windows /\ Prune(c.map, instant) = [k \in Keys |-> Prune(c.map, instant)[k]]
    BY <1>5 DEF Caches, Prune
  <2> QED BY <1>7, <2>1 DEF Windows
<1> QED BY <1>5, <1>8

(* evictOne() takes out the first item, and its key.                       *)
LEMMA EvictTakesFirst ==
  ASSUME NEW c, Mirrors(c), c.heap # << >>
  PROVE  EvictOne(c) = {TakeFirst(c)}
<1> DEFINE P == [m \in Nat |-> {c}]
<1>1. c \in Caches /\ Len(c.heap) \in Nat /\ Matches(c, c.heap[1])
  <2>1. PICK d : d = TakeFirst(c)
    OBVIOUS
  <2>2. Matches(c, c.heap[1])
    BY <2>1, FirstOut
  <2> QED BY <2>2 DEF Mirrors, Caches
<1>2. PassOver[c] = c
  BY <1>1 DEF PassOver
<1>3. \A m \in Nat : \A y \in P[m] : PassOver[y] \in P[m + 1]
  BY <1>2
<1>4. Rounds(PassOver, c, Len(c.heap)) \in P[Len(c.heap)]
  <2>1. c \in P[0]
    OBVIOUS
  <2> HIDE DEF P
  <2> QED BY <1>1, <1>3, <2>1, RoundsReach
<1>5. Rounds(PassOver, c, Len(c.heap)) = c
  BY <1>1, <1>4
<1> QED BY <1>5 DEF EvictOne, TakeFirst

(* Room is made for one more key as the abstract cache makes it.           *)
LEMMA RoomMade ==
  ASSUME NEW c, Mirrors(c), Len(c.heap) <= MaxEntries, NEW d \in Room(c)
  PROVE  /\ Mirrors(d) /\ d.map \in MakeRoom(c.map) /\ Len(d.heap) < MaxEntries
         /\ \A k \in Keys : c.map[k] = NoEntry => d.map[k] = NoEntry
<1>1. /\ c \in Caches /\ Len(c.heap) \in Nat /\ Cardinality(Held(c.map)) = Len(c.heap)
      /\ MaxEntries \in Nat /\ MaxEntries >= 1
  BY AsMany, MaxEntriesAssumption DEF Mirrors, Caches
<1>2. CASE Cardinality(Held(c.map)) >= MaxEntries
  <2>1. c.heap # << >>
    BY <1>1, <1>2
  <2>2. d = TakeFirst(c)
    BY <1>2, <2>1, EvictTakesFirst DEF Room
  <2>3. PICK v : v = c.heap[1].key
    OBVIOUS
  <2>4. /\ Mirrors(d) /\ Len(d.heap) = Len(c.heap) - 1
        /\ v \in Earliest(c.map) /\ v \in Keys /\ d.map = [c.map EXCEPT ![v] = NoEntry]
    BY <2>1, <2>2, <2>3, FirstOut
  <2>5. d.map \in MakeRoom(c.map)
    BY <1>2, <2>4 DEF MakeRoom
  <2>6. \A k \in Keys : c.map[k] = NoEntry => d.map[k] = NoEntry
    <3>1. c.map \in Windows
      BY <1>1 DEF Caches
    <3> QED BY <2>4, <3>1 DEF Windows
  <2> QED BY <1>1, <2>4, <2>5, <2>6
<1>3. CASE ~(Cardinality(Held(c.map)) >= MaxEntries)
  <2>1. d = c /\ d.map \in MakeRoom(c.map)
    BY <1>3 DEF Room, MakeRoom
  <2> QED BY <1>1, <1>3, <2>1
<1> QED BY <1>2, <1>3

(* A key that is not in the Map is recorded. *)
LEMMA RecordedKey ==
  ASSUME NEW c, Mirrors(c), NEW k \in Keys, c.map[k] = NoEntry, NEW x \in Expiries,
         NEW d, d = [map  |-> [c.map EXCEPT ![k] = x],
                     heap |-> Push(c.heap, [key |-> k, expiresAt |-> x])]
  PROVE  Mirrors(d) /\ Len(d.heap) = Len(c.heap) + 1
<1>1. PICK s, m, y : s = c.heap /\ m = c.map /\ y = [key |-> k, expiresAt |-> x]
  OBVIOUS
<1>2. /\ s \in Seq(Items) /\ m \in Windows /\ Ordered(s) /\ Distinct(s)
      /\ \A j \in Keys : m[j] \in Expiries \cup {NoEntry}
      /\ \A z \in Items : Holds(s, z) <=> m[z.key] = z.expiresAt
  BY <1>1 DEF Mirrors, Caches
<1>3. y \in Items /\ y.key = k /\ y.expiresAt = x /\ x \in Nat
  BY <1>1, HeapAssumption DEF Items
<1>4. ASSUME NEW i \in 1 .. Len(s) PROVE s[i].key # k
  <2>1. s[i] \in Items /\ s[i].expiresAt \in Nat
    BY <1>2, ItemTimes
  <2>2. Holds(s, s[i])
    BY DEF Holds
  <2>3. m[s[i].key] = s[i].expiresAt
    BY <1>2, <2>1, <2>2
  <2> QED BY <1>1, <2>1, <2>3 DEF NoEntry
<1>5. PICK t, r : t = Push(s, y) /\ r = [m EXCEPT ![k] = x]
  OBVIOUS
<1>6. /\ t \in Seq(Items) /\ Ordered(t) /\ Distinct(t) /\ Len(t) = Len(s) + 1
      /\ \A z : Holds(t, z) <=> Holds(s, z) \/ z = y
  BY <1>2, <1>3, <1>4, <1>5, PushAdds
<1>7. r \in Windows /\ r[k] = x /\ \A j \in Keys : j # k => r[j] = m[j]
  BY <1>2, <1>3, <1>5 DEF Windows
<1>8. ASSUME NEW z \in Items PROVE Holds(t, z) <=> r[z.key] = z.expiresAt
  <2>1. z.key \in Keys /\ z.expiresAt \in Nat
    BY HeapAssumption DEF Items
  <2>2. CASE z.key = k
    <3>1. ~Holds(s, z)
      BY <1>1, <1>2, <2>1, <2>2 DEF NoEntry
    <3>2. z = y <=> z.expiresAt = x
      BY <1>3, <2>2 DEF Items
    <3> QED BY <1>6, <1>7, <2>2, <3>1, <3>2
  <2>3. CASE z.key # k
    BY <1>2, <1>3, <1>6, <1>7, <2>1, <2>3
  <2> QED BY <2>2, <2>3
<1>9. d \in Caches /\ d.map = r /\ d.heap = t
  BY <1>1, <1>5, <1>6, <1>7 DEF Caches
<1>10. \A j \in Keys : r[j] \in Expiries \cup {NoEntry}
  BY <1>2, <1>7
<1> QED BY <1>1, <1>6, <1>8, <1>9, <1>10 DEF Mirrors

(* The invariant of the cache. *)
CacheIInv == Mirrors(Cache) /\ Len(items) <= MaxEntries

(* It holds at first.                                                      *)
LEMMA CacheInit == HeapInit => CacheIInv
<1> SUFFICES ASSUME HeapInit PROVE CacheIInv
  OBVIOUS
<1>1. entries = Empty /\ items = << >>
  BY DEF HeapInit
<1>2. PICK c : c = Cache
  OBVIOUS
<1>3. c = [map |-> Empty, heap |-> << >>]
  BY <1>1, <1>2 DEF Cache
<1>4. /\ << >> \in Seq(Items) /\ Len(<< >>) = 0 /\ Empty \in Windows
      /\ \A k \in Keys : Empty[k] = NoEntry
  BY DEF Empty, Windows
<1>5. c \in Caches
  BY <1>3, <1>4 DEF Caches
<1>6. Ordered(c.heap) /\ Distinct(c.heap) /\ \A x : ~Holds(c.heap, x)
  BY <1>3, <1>4 DEF Ordered, Distinct, Holds
<1>7. \A x \in Items : c.map[x.key] # x.expiresAt
  BY <1>3, <1>4, HeapAssumption DEF Items, NoEntry
<1>8. Mirrors(c)
  BY <1>3, <1>4, <1>5, <1>6, <1>7 DEF Mirrors
<1> QED BY <1>1, <1>2, <1>4, <1>8, MaxEntriesAssumption DEF CacheIInv

(* It holds when Map and heap become those of a cache that is in step.     *)
LEMMA BecomesSound ==
  ASSUME NEW c, Mirrors(c), Len(c.heap) <= MaxEntries, entries' = c.map, items' = c.heap
  PROVE  CacheIInv'
<1>1. PICK m, h : m = c.map /\ h = c.heap
  OBVIOUS
<1>2. c = [map |-> m, heap |-> h]
  BY <1>1 DEF Mirrors, Caches
<1>3. Cache' = c
  BY <1>1, <1>2 DEF Cache
<1> QED BY <1>3 DEF CacheIInv, Mirrors

(* The abstract cache reads the window as this module does. *)
LEMMA SameWindows ==
  /\ Abstract!Empty = Empty
  /\ Abstract!NoEntry = NoEntry
  /\ \A h, instant : Abstract!Prune(h, instant) = Prune(h, instant)
  /\ \A h, k, instant : Abstract!Replayed(h, k, instant) <=> Replayed(h, k, instant)
  /\ \A h, k, x, instant : Abstract!Consumed(h, k, x, instant) = Consumed(h, k, x, instant)
<1>1. Abstract!NoEntry = NoEntry /\ Abstract!Empty = Empty
  BY DEF Abstract!NoEntry, NoEntry, Abstract!Empty, Empty
<1>2. \A h, instant : Abstract!Prune(h, instant) = Prune(h, instant)
  BY <1>1 DEF Abstract!Prune, Prune
<1>3. \A h, k, instant : Abstract!Replayed(h, k, instant) <=> Replayed(h, k, instant)
  BY <1>1, <1>2 DEF Abstract!Replayed, Replayed
<1>4. \A h : Abstract!Held(h) = Held(h)
  BY <1>1 DEF Abstract!Held, Held
<1>5. \A h : Abstract!Earliest(h) = Earliest(h)
  BY <1>4 DEF Abstract!Earliest, Earliest
<1>6. \A h : Abstract!MakeRoom(h) = MakeRoom(h)
  <2>1. \A h : Abstract!Cardinality(Held(h)) = Cardinality(Held(h))
    BY DEF Abstract!Cardinality, Cardinality
  <2> QED BY <1>1, <1>4, <1>5, <2>1 DEF Abstract!MakeRoom, MakeRoom
<1>7. \A h, k, x, instant : Abstract!Consumed(h, k, x, instant) = Consumed(h, k, x, instant)
  BY <1>2, <1>6 DEF Abstract!Consumed, Consumed
<1> QED BY <1>1, <1>2, <1>3, <1>7

(* What prune() leaves is in step, and a step of the abstract cache.       *)
LEMMA PruneCallStep ==
  ASSUME CacheIInv, NEW instant \in Instants, PruneCall(instant)
  PROVE  CacheIInv' /\ Abstract!PruneOnly(instant)
<1>1. PICK c, d : c = Cache /\ d = PruneHeap(c, instant)
  OBVIOUS
<1>2. instant \in Nat /\ Mirrors(c) /\ c.map = entries /\ c.heap = items
  BY <1>1, HeapAssumption DEF CacheIInv, Cache
<1>3. Mirrors(d) /\ d.map = Prune(entries, instant) /\ Len(d.heap) <= Len(items)
  BY <1>1, <1>2, PruneHeapPrunes
<1>4. entries' = d.map /\ items' = d.heap /\ reply' = reply
  BY <1>1 DEF PruneCall, Becomes
<1>5. Len(d.heap) <= MaxEntries
  <2>1. Len(d.heap) \in Nat /\ Len(items) \in Nat /\ MaxEntries \in Nat
    BY <1>2, <1>3, MaxEntriesAssumption DEF Mirrors, Caches
  <2>2. Len(items) <= MaxEntries
    BY DEF CacheIInv
  <2> QED BY <1>3, <2>1, <2>2
<1>6. CacheIInv'
  BY <1>3, <1>4, <1>5, BecomesSound
<1> QED BY <1>3, <1>4, <1>6, SameWindows DEF Abstract!PruneOnly

(* So is what consume() leaves, whatever it answers.                       *)
LEMMA ConsumeStep ==
  ASSUME CacheIInv, NEW instant \in Instants, NEW k \in Keys,
         NEW x \in Expiries \cup {NonFinite}, HeapConsume(k, x, instant)
  PROVE  /\ CacheIInv'
         /\ \/ Abstract!Refuse(k, instant) \/ Abstract!RefuseNonFinite(k, instant)
            \/ x \in Expiries /\ Abstract!Reserve(k, x, instant)
<1>1. PICK b, c : b = Cache /\ c = PruneHeap(b, instant)
  OBVIOUS
<1>2. instant \in Nat /\ Mirrors(b) /\ b.map = entries /\ b.heap = items /\ Len(items) <= MaxEntries
  BY <1>1, HeapAssumption DEF CacheIInv, Cache
<1>3. Mirrors(c) /\ c.map = Prune(entries, instant) /\ Len(c.heap) <= Len(items)
  BY <1>1, <1>2, PruneHeapPrunes
<1>4. Len(c.heap) <= MaxEntries
  <2>1. Len(c.heap) \in Nat /\ Len(items) \in Nat /\ MaxEntries \in Nat
    BY <1>2, <1>3, MaxEntriesAssumption DEF Mirrors, Caches
  <2> QED BY <1>2, <1>3, <2>1
<1>5. c.map[k] # NoEntry => c.map[k] > instant
  <2>1. entries[k] \in Nat \cup {NoEntry}
    BY <1>2 DEF Mirrors, Caches, Windows
  <2> QED BY <1>2, <1>3, <2>1 DEF Prune, NoEntry
<1>6. Replayed(entries, k, instant) <=> c.map[k] # NoEntry
  BY <1>3 DEF Replayed
<1>7. CASE c.map[k] # NoEntry
  <2>1. Becomes(c, HeapAnswer(k, "replay"))
    BY <1>1, <1>5, <1>7 DEF HeapConsume
  <2>2. entries' = c.map /\ items' = c.heap /\ reply' = HeapAnswer(k, "replay")
    BY <2>1 DEF Becomes
  <2>3. Abstract!Refuse(k, instant)
    BY <1>3, <1>6, <1>7, <2>2, SameWindows DEF HeapAnswer, Abstract!Refuse, Abstract!Answer
  <2>4. CacheIInv'
    BY <1>3, <1>4, <2>2, BecomesSound
  <2> QED BY <2>3, <2>4
<1>8. CASE c.map[k] = NoEntry /\ x = NonFinite
  <2>1. Becomes(c, HeapAnswer(k, "untrackable"))
    BY <1>1, <1>8 DEF HeapConsume
  <2>2. entries' = c.map /\ items' = c.heap /\ reply' = HeapAnswer(k, "untrackable")
    BY <2>1 DEF Becomes
  <2>3. Abstract!RefuseNonFinite(k, instant)
    BY <1>3, <1>6, <1>8, <2>2, SameWindows
       DEF HeapAnswer, Abstract!RefuseNonFinite, Abstract!Answer
  <2>4. CacheIInv'
    BY <1>3, <1>4, <2>2, BecomesSound
  <2> QED BY <2>3, <2>4
<1>9. CASE c.map[k] = NoEntry /\ x # NonFinite
  <2>0. x \in Expiries
    BY <1>9
  <2>1. PICK d \in Room(c) :
          Becomes([map  |-> [d.map EXCEPT ![k] = x],
                   heap |-> Push(d.heap, [key |-> k, expiresAt |-> x])],
                  HeapAnswer(k, "ok"))
    BY <1>1, <1>9 DEF HeapConsume
  <2>2. /\ Mirrors(d) /\ d.map \in MakeRoom(c.map) /\ Len(d.heap) < MaxEntries
        /\ d.map[k] = NoEntry
    BY <1>3, <1>4, <1>9, RoomMade
  <2>3. PICK e : e = [map  |-> [d.map EXCEPT ![k] = x],
                      heap |-> Push(d.heap, [key |-> k, expiresAt |-> x])]
    OBVIOUS
  <2>4. Mirrors(e) /\ Len(e.heap) = Len(d.heap) + 1
    BY <2>0, <2>2, <2>3, RecordedKey
  <2>5. Len(e.heap) <= MaxEntries
    <3>1. Len(d.heap) \in Nat /\ MaxEntries \in Nat
      BY <2>2, MaxEntriesAssumption DEF Mirrors, Caches
    <3> QED BY <2>2, <2>4, <3>1
  <2>6. entries' = e.map /\ items' = e.heap /\ reply' = HeapAnswer(k, "ok")
    BY <2>1, <2>3 DEF Becomes
  <2>7. CacheIInv'
    BY <2>4, <2>5, <2>6, BecomesSound
  <2>8. entries' \in Consumed(entries, k, x, instant)
    <3>1. entries' = [d.map EXCEPT ![k] = x]
      BY <2>3, <2>6
    <3> QED BY <1>3, <2>2, <3>1 DEF Consumed
  <2>9. Abstract!Reserve(k, x, instant)
    BY <1>6, <1>9, <2>6, <2>8, SameWindows DEF HeapAnswer, Abstract!Reserve, Abstract!Answer
  <2> QED BY <2>0, <2>7, <2>9
<1> QED BY <1>7, <1>8, <1>9

(* Each step keeps the invariant, and is one of the abstract cache or none. *)
LEMMA CacheStep ==
  ASSUME CacheIInv, [HeapNext]_heapVars
  PROVE  CacheIInv' /\ [Abstract!Next]_<<entries, reply>>
<1>1. CASE UNCHANGED heapVars
  BY <1>1 DEF heapVars, CacheIInv, Cache
<1>2. CASE HeapNext
  <2>1. PICK instant \in Instants :
          \/ PruneCall(instant)
          \/ \E k \in Keys, x \in Expiries \cup {NonFinite} : HeapConsume(k, x, instant)
    BY <1>2 DEF HeapNext
  <2>2. CASE PruneCall(instant)
    BY <2>1, <2>2, PruneCallStep DEF Abstract!Next
  <2>3. CASE \E k \in Keys, x \in Expiries \cup {NonFinite} : HeapConsume(k, x, instant)
    <3>1. PICK k \in Keys, x \in Expiries \cup {NonFinite} : HeapConsume(k, x, instant)
      BY <2>3
    <3> QED BY <2>1, <3>1, ConsumeStep DEF Abstract!Next
  <2> QED BY <2>1, <2>2, <2>3
<1> QED BY <1>1, <1>2

(* The Map with its ExpiryMinHeap (protocolReplay.ts: prune, evictOne,     *)
(* consume) implements the abstract cache, for every set of keys, expiries *)
(* and instants and every capacity: a key is refused exactly while it is   *)
(* held, and the one evicted is the one nearest to its expiry.             *)
THEOREM HeapCacheImplements == HeapSpec => ImplementsReplayCache
<1>1. HeapInit => Abstract!Init
  BY SameWindows DEF HeapInit, HeapAnswer, Abstract!Init, Abstract!Answer
<1>2. CacheIInv /\ [HeapNext]_heapVars => CacheIInv' /\ [Abstract!Next]_<<entries, reply>>
  BY CacheStep
<1> QED BY <1>1, <1>2, CacheInit, PTL DEF HeapSpec, ImplementsReplayCache, Abstract!Spec

(* Map and heap never come apart, the array stays a heap through every     *)
(* push and pop, and the cache keeps to its capacity: prune and evictOne   *)
(* find what they look for, and the fallback of evictOne never runs.       *)
THEOREM HeapInStep == HeapSpec => [](HeapMatchesEntries /\ HeapOrdered /\ WithinCapacity)
<1>1. CacheIInv => HeapMatchesEntries /\ HeapOrdered /\ WithinCapacity
  <2> SUFFICES ASSUME CacheIInv PROVE HeapMatchesEntries /\ HeapOrdered /\ WithinCapacity
    OBVIOUS
  <2>1. PICK c : c = Cache
    OBVIOUS
  <2>2. Mirrors(c) /\ c.map = entries /\ c.heap = items /\ Len(items) <= MaxEntries
    BY <2>1 DEF CacheIInv, Cache
  <2>3. Cardinality(Held(entries)) = Len(items)
    BY <2>2, AsMany
  <2>4. ASSUME NEW k \in Held(entries)
        PROVE  \E i \in 1 .. Len(items) : items[i] = [key |-> k, expiresAt |-> entries[k]]
    <3>1. PICK x : x = [key |-> k, expiresAt |-> entries[k]]
      OBVIOUS
    <3>2. x \in Items /\ x.key = k /\ x.expiresAt = entries[k]
      BY <2>2, <3>1 DEF Mirrors, Held, Items
    <3>3. Holds(items, x)
      BY <2>2, <3>2 DEF Mirrors
    <3> QED BY <3>1, <3>3 DEF Holds
  <2> QED BY <2>2, <2>3, <2>4 DEF Mirrors, Ordered, HeapMatchesEntries, HeapOrdered, WithinCapacity
<1>2. CacheIInv /\ [HeapNext]_heapVars => CacheIInv'
  BY CacheStep
<1> QED BY <1>1, <1>2, CacheInit, PTL DEF HeapSpec
=============================================================================
