-------------------------- MODULE KeyDistribution ---------------------------
(***************************************************************************)
(* From a signer's KeyRotationManager to a verifier: rotateIfNeeded()      *)
(* calls in progress together, the well-known document made of its keys,   *)
(* and lookups by a createCachingKeyRegistry() around a RevocationRegistry *)
(* around a createHttpKeyRegistry(), each with its cache.                  *)
(***************************************************************************)
EXTENDS Integers, SequencesExt

CONSTANTS Rotations,      \* rotateIfNeeded() calls in progress at once
          Lookups,        \* getPublicKey() calls in progress at once
          MaxAgeMs, OverlapMs,
          CacheMs,        \* of the document, in createHttpKeyRegistry
          TtlMs,          \* of an answer, in createCachingKeyRegistry
          MaxKeys,        \* bound on the keys ever made
          MaxKeyTime      \* bound on the clock

ASSUME DistributionAssumption ==
  /\ MaxAgeMs \in Nat /\ OverlapMs \in Nat \ {0} /\ OverlapMs <= MaxAgeMs
  /\ CacheMs \in Nat /\ TtlMs \in Nat /\ MaxKeys \in Nat \ {0} /\ MaxKeyTime \in Nat

VARIABLES keyTime,
          ring,           \* the manager's keys: [created, expires], a key's id its place
          rotating,       \* the rotations waiting for a key pair
          rotationFailed, \* the last rotation to end threw
          docCache,       \* the verifier's copy of the document
          answerCache,    \* the answers kept for each key
          lookup,         \* the lookups in progress
          withdrawn       \* RevocationRegistry.revoked: id -> when

kdVars == <<keyTime, ring, rotating, rotationFailed, docCache, answerCache, lookup,
            withdrawn>>

NoEnd == MaxKeyTime + OverlapMs + 1
KeySlots == 1 .. MaxKeys
NoDoc == [known |-> FALSE, keys |-> <<>>, until |-> 0, sampled |-> 0]
NoAnswer == [known |-> FALSE, found |-> FALSE, until |-> 0, sampled |-> 0]
NoLookup == [at |-> "idle", id |-> 1, began |-> 0, keys |-> <<>>, sampled |-> 0]
NotRotating == [at |-> "idle", began |-> 0]

KeysInit ==
  /\ keyTime = 0 /\ ring = <<[created |-> 0, expires |-> NoEnd]>>
  /\ rotating = [p \in Rotations |-> NotRotating] /\ rotationFailed = FALSE
  /\ docCache = NoDoc /\ answerCache = [k \in KeySlots |-> NoAnswer]
  /\ lookup = [l \in Lookups |-> NoLookup]
  /\ withdrawn = [k \in KeySlots |-> NoEnd]

(* getCurrentKey(): the newest key that has not expired, the later one of  *)
(* two as new; none when all have expired.                                 *)
ActiveKeys == {k \in DOMAIN ring : ring[k].expires > keyTime}
CurrentKey ==
  {k \in ActiveKeys : \A j \in ActiveKeys :
     ring[j].created < ring[k].created \/ (ring[j].created = ring[k].created /\ j <= k)}

(* The ring after the current key was given its end, if it has none. *)
Ending(end) ==
  [k \in DOMAIN ring |-> IF k \in CurrentKey /\ ring[k].expires = NoEnd
                         THEN [ring[k] EXCEPT !.expires = end] ELSE ring[k]]

-----------------------------------------------------------------------------
(* rotateIfNeeded() up to its await: the current key is given its end, and *)
(* a key pair is generated.                                                *)
BeginRotation(p) ==
  /\ rotating[p].at = "idle"
  /\ Len(ring) + Cardinality({q \in Rotations : rotating[q].at # "idle"}) < MaxKeys
  /\ \A k \in CurrentKey : keyTime - ring[k].created >= MaxAgeMs - OverlapMs
  /\ ring' = Ending(keyTime + OverlapMs)
  /\ rotating' = [rotating EXCEPT ![p] = [at |-> "generating", began |-> keyTime]]
  /\ UNCHANGED <<keyTime, rotationFailed, docCache, answerCache, lookup, withdrawn>>

(* Fault: the end is given to the key that is current once the new one is  *)
(* there, which is the new one.                                            *)
RotatedMarksNew(p) ==
  /\ rotating[p].at = "generating"
  /\ ring' = Append(ring, [created |-> rotating[p].began, expires |-> keyTime + OverlapMs])
  /\ rotating' = [rotating EXCEPT ![p] = NotRotating] /\ rotationFailed' = FALSE
  /\ UNCHANGED <<keyTime, docCache, answerCache, lookup, withdrawn>>

(* The pair is there: it joins the others, created when the call began. *)
Rotated(p) ==
  /\ rotating[p].at = "generating"
  /\ ring' = Append(ring, [created |-> rotating[p].began, expires |-> NoEnd])
  /\ rotating' = [rotating EXCEPT ![p] = NotRotating] /\ rotationFailed' = FALSE
  /\ UNCHANGED <<keyTime, docCache, answerCache, lookup, withdrawn>>

(* Generation throws: the old key keeps its end. *)
RotationFails(p) ==
  /\ rotating[p].at = "generating"
  /\ rotating' = [rotating EXCEPT ![p] = NotRotating] /\ rotationFailed' = TRUE
  /\ UNCHANGED <<keyTime, ring, docCache, answerCache, lookup, withdrawn>>

(* RevocationRegistry.revoke() of a key's identity. *)
Withdraw(k) ==
  /\ k \in DOMAIN ring /\ withdrawn[k] = NoEnd
  /\ withdrawn' = [withdrawn EXCEPT ![k] = keyTime]
  /\ UNCHANGED <<keyTime, ring, rotating, rotationFailed, docCache, answerCache, lookup>>

(* doc.keys.find(): the key is listed and has not expired. *)
Found(keys, k) == k \in DOMAIN keys /\ keys[k].expires > keyTime

(* Fault: an answer is kept from the moment it arrived. *)
KeepAnswerLate(k, found, sampled, began) ==
  answerCache' = [answerCache EXCEPT ![k] =
    [known |-> TRUE, found |-> found, until |-> keyTime + TtlMs, sampled |-> sampled]]

(* The caching registry keeps an answer from the start of the lookup. *)
KeepAnswer(k, found, sampled, began) ==
  answerCache' = [answerCache EXCEPT ![k] =
    [known |-> TRUE, found |-> found, until |-> began + TtlMs, sampled |-> sampled]]

(* A lookup begins: an answer that is kept serves it.  Otherwise a         *)
(* withdrawn identity has no key, a copy of the document that is kept is   *)
(* searched, and without one the document is fetched.                      *)
BeginLookup(l, k) ==
  /\ lookup[l].at = "idle"
  /\ ~(answerCache[k].known /\ answerCache[k].until > keyTime)
  /\ IF withdrawn[k] # NoEnd
     THEN KeepAnswer(k, FALSE, keyTime, keyTime) /\ UNCHANGED lookup
     ELSE IF docCache.known /\ docCache.until > keyTime
          THEN /\ KeepAnswer(k, Found(docCache.keys, k), docCache.sampled, keyTime)
               /\ UNCHANGED lookup
          ELSE /\ lookup' = [lookup EXCEPT ![l] = [NoLookup EXCEPT !.at = "fetching",
                                                   !.id = k, !.began = keyTime]]
               /\ UNCHANGED answerCache
  /\ UNCHANGED <<keyTime, ring, rotating, rotationFailed, docCache, withdrawn>>

(* The signer's server answers with the document as it stands. *)
Served(l) ==
  /\ lookup[l].at = "fetching"
  /\ lookup' = [lookup EXCEPT ![l].at = "served", ![l].keys = ring, ![l].sampled = keyTime]
  /\ UNCHANGED <<keyTime, ring, rotating, rotationFailed, docCache, answerCache, withdrawn>>

(* The document arrives: the copy is kept from the start of the fetch.     *)
Arrived(l) ==
  LET q == lookup[l] IN
  /\ q.at = "served"
  /\ docCache' = [known |-> TRUE, keys |-> q.keys, until |-> q.began + CacheMs,
                  sampled |-> q.sampled]
  /\ KeepAnswer(q.id, Found(q.keys, q.id), q.sampled, q.began)
  /\ lookup' = [lookup EXCEPT ![l] = NoLookup]
  /\ UNCHANGED <<keyTime, ring, rotating, rotationFailed, withdrawn>>

(* The fetch fails or times out: there is no key, and that answer is kept. *)
FetchFails(l) ==
  /\ lookup[l].at \in {"fetching", "served"}
  /\ KeepAnswer(lookup[l].id, FALSE, lookup[l].began, lookup[l].began)
  /\ lookup' = [lookup EXCEPT ![l] = NoLookup]
  /\ UNCHANGED <<keyTime, ring, rotating, rotationFailed, docCache, withdrawn>>

KeysLater ==
  /\ keyTime < MaxKeyTime
  /\ keyTime' = keyTime + 1
  /\ UNCHANGED <<ring, rotating, rotationFailed, docCache, answerCache, lookup, withdrawn>>

KeysNext ==
  \/ \E p \in Rotations : BeginRotation(p) \/ Rotated(p) \/ RotationFails(p)
  \/ \E k \in KeySlots : Withdraw(k) \/ \E l \in Lookups : BeginLookup(l, k)
  \/ \E l \in Lookups : Served(l) \/ Arrived(l) \/ FetchFails(l)
  \/ KeysLater

KeysSpec == KeysInit /\ [][KeysNext]_kdVars

-----------------------------------------------------------------------------
KeysTypeOK ==
  /\ keyTime \in 0 .. MaxKeyTime
  /\ Len(ring) \in 1 .. MaxKeys
  /\ \A k \in DOMAIN ring :
       ring[k].created \in 0 .. MaxKeyTime /\ ring[k].expires \in 0 .. NoEnd
  /\ \A p \in Rotations : rotating[p].at \in {"idle", "generating"}
  /\ \A l \in Lookups :
       lookup[l].at \in {"idle", "fetching", "served"} /\ lookup[l].id \in KeySlots
  /\ withdrawn \in [KeySlots -> 0 .. NoEnd]

(* keyInfra.ts:165: however rotations overlap, the newest key a signer     *)
(* holds has no end unless its successor is being generated or could not   *)
(* be, so there is always a key to sign with while generation keeps up     *)
(* with OverlapMs.                                                         *)
SigningKeyContinues ==
  \/ \E k \in DOMAIN ring : ring[k].expires = NoEnd
  \/ rotationFailed
  \/ \E p \in Rotations : rotating[p].at = "generating"

(* keyInfra.ts:165: a key that was current when its rotation began can     *)
(* still be looked up for the whole overlap: nothing ends it sooner.       *)
OverlapKept ==
  \A k \in DOMAIN ring : ring'[k].expires # ring[k].expires =>
    ring[k].expires = NoEnd /\ ring'[k].expires >= keyTime + OverlapMs

(* keyInfra.ts:174: whatever overlaps or fails, a rotation neither leaves  *)
(* its signer without a key nor cuts an overlap short.                     *)
RotationHolds == [][SigningKeyContinues' /\ OverlapKept]_kdVars

(* keyRegistry.ts:51: what a verifier may be told from its caches is what  *)
(* the signer published less than CacheMs + TtlMs ago, whatever was in     *)
(* flight: a new key is found, and an ended one lost, within that time.    *)
(* A key whose identity was withdrawn is told for less than TtlMs.         *)
AnswersBounded ==
  /\ docCache.known /\ docCache.until > keyTime => keyTime - docCache.sampled < CacheMs
  /\ \A k \in KeySlots : answerCache[k].known /\ answerCache[k].until > keyTime =>
       /\ keyTime - answerCache[k].sampled < CacheMs + TtlMs
       /\ answerCache[k].found => keyTime < withdrawn[k] + TtlMs
=============================================================================
