--------------------------- MODULE IdentityProofs ---------------------------
(***************************************************************************)
(* Revocation and key distribution: what a verifier may still be told, and *)
(* for how long, for any number of nodes, reads, rotations and lookups in  *)
(* progress and any cache lifetimes; what a peer of another SDK reads, for *)
(* any times and lifetimes; what the shared stores keep; what a published  *)
(* key log lets a registry resolve; and who signed what m of n             *)
(* participants signed.                                                    *)
(***************************************************************************)
EXTENDS Revocation, KeyDistribution, RedisReplay, HttpSignatures, SdkInterop,
        CloudflareStores, KeyLog, ThresholdSigning, ListProofs, TLAPS

-----------------------------------------------------------------------------
(* Revocation                                                              *)

(* A read began in the past, a cache entry is fresh for at most one        *)
(* lifetime from now, and a revocation that is there was made in the past. *)
PastReads == \A r \in Reads : read[r].started <= time
FreshBriefly == \A n \in Nodes : nodeCache[n].freshUntil <= time + CacheTtl
FoundBriefly == \A r \in Reads : read[r].cached.freshUntil <= time + CacheTtl
PastRevocation == revokedAt # Never => revokedAt <= time

(* The grounds of the last answer lie in the past, too. *)
PastAnswer ==
  /\ told.from = "cache" => told.started < time + CacheTtl
  /\ told.from = "redis" => told.started <= time
  /\ told.from = "stale" => told.freshUntil <= time + CacheTtl
  /\ told.from = "policy" /\ ~told.revoked => OnError = "allow"

(* What the nodes may hold against a revocation: an entry, a reply and an  *)
(* entry found when a call began, all read no later than it was made.      *)
OldEntry(c) == c.known /\ ~c.revoked => c.freshUntil <= revokedAt + CacheTtl
OldEntries ==
  revokedAt # Never /\ time < until =>
    /\ \A n \in Nodes : OldEntry(nodeCache[n])
    /\ \A r \in Reads : OldEntry(read[r].cached)
    /\ \A r \in Reads : read[r].at = "replied" /\ ~read[r].value =>
         read[r].started <= revokedAt

(* What does not concern the revocation, and what does. *)
HeldInTime ==
  RevocationTypeOK /\ PastReads /\ FreshBriefly /\ FoundBriefly /\ PastRevocation /\ PastAnswer
RevocationIInv == HeldInTime /\ OldEntries /\ RevocationTakesEffect

-----------------------------------------------------------------------------
(* The invariant holds when every cache is empty. *)
LEMMA RevocationInitInv == RevocationInit => RevocationIInv
<1> SUFFICES ASSUME RevocationInit PROVE RevocationIInv
  OBVIOUS
<1>0. CacheTtl \in Nat /\ MaxNow \in Nat
  BY RevocationAssumption
<1>1. RevocationTypeOK
  BY <1>0 DEF RevocationInit, RevocationTypeOK, NoCache, NoRead, Never, CacheEntries,
     ReadStates, NothingTold, RevocationAnswers
<1>2. PastReads /\ FreshBriefly /\ FoundBriefly /\ PastRevocation /\ PastAnswer
  BY <1>0 DEF RevocationInit, PastReads, FreshBriefly, FoundBriefly, PastRevocation, PastAnswer,
     NoCache, NoRead, Never, NothingTold
<1>3. OldEntries /\ RevocationTakesEffect
  BY <1>0 DEF RevocationInit, OldEntries, RevocationTakesEffect
<1> QED BY <1>1, <1>2, <1>3 DEF RevocationIInv, HeldInTime

(* The types, spelt out. *)
LEMMA RevocationForm ==
  ASSUME RevocationTypeOK
  PROVE  /\ CacheTtl \in Nat /\ MaxNow \in Nat /\ Never = MaxNow + 1
         /\ OnError \in {"reject", "allow"}
         /\ time \in Nat /\ revokedAt \in Nat /\ until \in Nat /\ time < Never
         /\ \A n \in Nodes : nodeCache[n] \in CacheEntries
         /\ \A r \in Reads : read[r] \in ReadStates
         /\ told \in RevocationAnswers
  BY RevocationAssumption DEF RevocationTypeOK, Never

(* An answer leaves the caches and Redis alone: its grounds are checked.   *)
LEMMA AnswerKeeps ==
  ASSUME RevocationIInv, UNCHANGED <<time, revokedAt, until, nodeCache, revoking>>,
         read' \in [Reads -> ReadStates],
         \A r \in Reads : read'[r] = read[r] \/ read'[r] = NoRead,
         told' \in RevocationAnswers, PastAnswer', RevocationTakesEffect'
  PROVE  RevocationIInv'
<1>t. HeldInTime /\ OldEntries /\ RevocationTypeOK
  BY DEF RevocationIInv, HeldInTime
<1>f. /\ CacheTtl \in Nat /\ time \in Nat /\ revokedAt \in Nat
      /\ \A r \in Reads : read[r] \in ReadStates
  BY <1>t, RevocationForm
<1>1. RevocationTypeOK'
  <2>1. \A r \in Reads : read'[r].at # "idle" => read'[r].node \in Nodes
    BY <1>t DEF RevocationTypeOK, NoRead
  <2> QED BY <1>t, <2>1 DEF RevocationTypeOK, Never
<1>2. PastReads' /\ FoundBriefly'
  BY <1>t, <1>f DEF HeldInTime, PastReads, FoundBriefly, NoRead, NoCache
<1>3. FreshBriefly' /\ PastRevocation'
  BY <1>t DEF HeldInTime, FreshBriefly, PastRevocation, Never
<1>4. OldEntries'
  BY <1>t, <1>f DEF OldEntries, OldEntry, NoRead, NoCache, Never
<1> QED BY <1>1, <1>2, <1>3, <1>4 DEF RevocationIInv, HeldInTime

(* A fresh entry answers. *)
LEMMA AnswerCachedKeeps ==
  ASSUME RevocationIInv, NEW n \in Nodes, AnswerCached(n) PROVE RevocationIInv'
<1>t. HeldInTime /\ OldEntries /\ RevocationTypeOK
  BY DEF RevocationIInv, HeldInTime
<1>f. CacheTtl \in Nat /\ time \in Nat /\ revokedAt \in Nat /\ nodeCache[n] \in CacheEntries
  BY <1>t, RevocationForm
<1>1. PICK c : c = nodeCache[n]
  OBVIOUS
<1>2. /\ c.known /\ c.freshUntil > time /\ c.freshUntil <= time + CacheTtl
      /\ c.freshUntil \in Nat /\ c.revoked \in BOOLEAN
      /\ told' = [from |-> "cache", started |-> time, freshUntil |-> c.freshUntil,
                  revoked |-> c.revoked]
      /\ UNCHANGED <<time, revokedAt, until, nodeCache, read, revoking>>
  BY <1>1, <1>t, <1>f DEF AnswerCached, Fresh, Tell, HeldInTime, FreshBriefly, CacheEntries
<1>3. told' \in RevocationAnswers
  BY <1>2, <1>f DEF RevocationAnswers
<1>4. PastAnswer'
  BY <1>2, <1>f DEF PastAnswer
<1>5. RevocationTakesEffect'
  <2> SUFFICES ASSUME revokedAt # Never, time < until, ~c.revoked
               PROVE  time < revokedAt + CacheTtl
    BY <1>2 DEF RevocationTakesEffect, Never
  <2>1. c.freshUntil <= revokedAt + CacheTtl
    BY <1>1, <1>2, <1>t DEF OldEntries, OldEntry
  <2> QED BY <1>2, <1>f, <2>1
<1>6. read' \in [Reads -> ReadStates]
  BY <1>2, <1>t DEF RevocationTypeOK
<1> QED BY <1>2, <1>3, <1>4, <1>5, <1>6, AnswerKeeps

(* The client throws. *)
LEMMA ReadThrowsKeeps ==
  ASSUME RevocationIInv, NEW r \in Reads, ReadThrows(r) PROVE RevocationIInv'
<1>t. HeldInTime /\ OldEntries /\ RevocationTypeOK
  BY DEF RevocationIInv, HeldInTime
<1>f. /\ CacheTtl \in Nat /\ time \in Nat /\ revokedAt \in Nat /\ read[r] \in ReadStates
      /\ OnError \in {"reject", "allow"}
  BY <1>t, RevocationForm
<1>1. PICK c, st : c = read[r].cached /\ st = read[r].started
  OBVIOUS
<1>2. c \in CacheEntries /\ st \in Nat /\ c.freshUntil <= time + CacheTtl
  BY <1>1, <1>t, <1>f DEF ReadStates, HeldInTime, FoundBriefly
<1>3. /\ told' = IF c.known
                 THEN [from |-> "stale", started |-> st, freshUntil |-> c.freshUntil,
                       revoked |-> c.revoked]
                 ELSE [from |-> "policy", started |-> st, freshUntil |-> 0,
                       revoked |-> OnError = "reject"]
      /\ read' = [read EXCEPT ![r] = NoRead]
      /\ UNCHANGED <<time, revokedAt, until, nodeCache, revoking>>
  BY <1>1 DEF ReadThrows, Tell
<1>4. read' \in [Reads -> ReadStates] /\ \A q \in Reads : read'[q] = read[q] \/ read'[q] = NoRead
  <2>1. NoRead \in ReadStates
    BY DEF NoRead, NoCache, ReadStates, CacheEntries
  <2> QED BY <1>3, <1>t, <2>1 DEF RevocationTypeOK
<1>5. CASE c.known
  <2>1. told' \in RevocationAnswers
    BY <1>2, <1>3, <1>5 DEF RevocationAnswers, CacheEntries
  <2>2. PastAnswer'
    BY <1>2, <1>3, <1>5 DEF PastAnswer
  <2>3. RevocationTakesEffect'
    <3> SUFFICES ASSUME revokedAt # Never, time < until, ~c.revoked
                 PROVE  c.freshUntil <= revokedAt + CacheTtl
      BY <1>3, <1>5 DEF RevocationTakesEffect, Never
    <3> QED BY <1>1, <1>5, <1>t DEF OldEntries, OldEntry
  <2> QED BY <1>3, <1>4, <2>1, <2>2, <2>3, AnswerKeeps
<1>6. CASE ~c.known
  <2>0. (OnError = "reject") \in BOOLEAN
    OBVIOUS
  <2>1. told' \in RevocationAnswers
    BY <1>2, <1>3, <1>6, <2>0 DEF RevocationAnswers
  <2>2. PastAnswer'
    BY <1>3, <1>6, <1>f DEF PastAnswer
  <2>3. RevocationTakesEffect'
    BY <1>3, <1>6, <1>f DEF RevocationTakesEffect
  <2> QED BY <1>3, <1>4, <2>1, <2>2, <2>3, AnswerKeeps
<1> QED BY <1>5, <1>6

(* The reply of Redis is cached and returned. *)
LEMMA ReadDoneKeeps ==
  ASSUME RevocationIInv, NEW r \in Reads, ReadDone(r) PROVE RevocationIInv'
<1>t. HeldInTime /\ OldEntries /\ RevocationTypeOK
  BY DEF RevocationIInv, HeldInTime
<1>f. /\ CacheTtl \in Nat /\ time \in Nat /\ revokedAt \in Nat /\ until \in Nat
      /\ \A q \in Reads : read[q] \in ReadStates
      /\ \A n \in Nodes : nodeCache[n] \in CacheEntries
  BY <1>t, RevocationForm
<1>1. PICK m, st, v : m = read[r].node /\ st = read[r].started /\ v = read[r].value
  OBVIOUS
<1>2. /\ m \in Nodes /\ st \in Nat /\ st <= time /\ v \in BOOLEAN /\ read[r].at = "replied"
  BY <1>1, <1>t, <1>f DEF ReadDone, RevocationTypeOK, ReadStates, HeldInTime, PastReads
<1>3. /\ nodeCache' = [nodeCache EXCEPT ![m] =
           [known |-> TRUE, revoked |-> v, freshUntil |-> st + CacheTtl]]
      /\ told' = [from |-> "redis", started |-> st, freshUntil |-> 0, revoked |-> v]
      /\ read' = [read EXCEPT ![r] = NoRead]
      /\ UNCHANGED <<time, revokedAt, until, revoking>>
  BY <1>1 DEF ReadDone, RevocationCache, Tell
<1>4. /\ read' \in [Reads -> ReadStates]
      /\ \A q \in Reads : read'[q] = read[q] \/ read'[q] = NoRead
      /\ \A n \in Nodes : nodeCache'[n] = nodeCache[n]
           \/ nodeCache'[n] = [known |-> TRUE, revoked |-> v, freshUntil |-> st + CacheTtl]
      /\ nodeCache' \in [Nodes -> CacheEntries]
  <2>1. NoRead \in ReadStates
    BY DEF NoRead, NoCache, ReadStates, CacheEntries
  <2>2. [known |-> TRUE, revoked |-> v, freshUntil |-> st + CacheTtl] \in CacheEntries
    BY <1>2, <1>f DEF CacheEntries
  <2> QED BY <1>3, <1>t, <2>1, <2>2 DEF RevocationTypeOK
<1>5. RevocationTypeOK'
  <2>1. told' \in RevocationAnswers
    BY <1>2, <1>3 DEF RevocationAnswers
  <2>2. \A q \in Reads : read'[q].at # "idle" => read'[q].node \in Nodes
    BY <1>4, <1>t DEF RevocationTypeOK, NoRead
  <2> QED BY <1>3, <1>4, <1>t, <2>1, <2>2 DEF RevocationTypeOK, Never
<1>6. PastReads' /\ FoundBriefly'
  BY <1>3, <1>4, <1>t, <1>f DEF HeldInTime, PastReads, FoundBriefly, NoRead, NoCache
<1>7. FreshBriefly' /\ PastRevocation' /\ PastAnswer'
  <2>1. FreshBriefly'
    BY <1>2, <1>3, <1>4, <1>t, <1>f DEF HeldInTime, FreshBriefly
  <2> QED BY <1>2, <1>3, <1>t, <2>1 DEF HeldInTime, PastRevocation, PastAnswer, Never
<1>8. OldEntries' /\ RevocationTakesEffect'
  <2> SUFFICES ASSUME revokedAt # Never, time < until
               PROVE  OldEntries' /\ RevocationTakesEffect'
    BY <1>3 DEF OldEntries, RevocationTakesEffect, Never
  <2>1. ~v => st <= revokedAt
    BY <1>1, <1>2, <1>t DEF OldEntries
  <2>2. \A n \in Nodes : OldEntry(nodeCache[n])'
    BY <1>2, <1>3, <1>4, <1>t, <1>f, <2>1 DEF OldEntries, OldEntry
  <2>3. \A q \in Reads : OldEntry(read[q].cached)'
    BY <1>3, <1>4, <1>t DEF OldEntries, OldEntry, NoRead, NoCache
  <2>4. OldEntries'
    BY <1>3, <1>4, <1>t, <2>2, <2>3 DEF OldEntries, NoRead
  <2>5. RevocationTakesEffect'
    BY <1>3, <2>1 DEF RevocationTakesEffect
  <2> QED BY <2>4, <2>5
<1> QED BY <1>5, <1>6, <1>7, <1>8 DEF RevocationIInv, HeldInTime

(* A read is sent. *)
LEMMA AskRedisKeeps ==
  ASSUME RevocationIInv, NEW n \in Nodes, NEW r \in Reads, AskRedis(n, r) PROVE RevocationIInv'
<1>t. HeldInTime /\ OldEntries /\ RevocationTakesEffect /\ RevocationTypeOK
  BY DEF RevocationIInv, HeldInTime
<1>f. /\ CacheTtl \in Nat /\ time \in Nat /\ revokedAt \in Nat
      /\ \A q \in Reads : read[q] \in ReadStates
      /\ nodeCache[n] \in CacheEntries
  BY <1>t, RevocationForm
<1>1. PICK c, e : c = nodeCache[n]
        /\ e = [at |-> "sent", node |-> n, started |-> time, value |-> FALSE, cached |-> c]
  OBVIOUS
<1>2. /\ read' = [read EXCEPT ![r] = e]
      /\ UNCHANGED <<time, revokedAt, until, nodeCache, revoking, told>>
  BY <1>1 DEF AskRedis
<1>3. /\ e \in ReadStates /\ c.freshUntil <= time + CacheTtl
      /\ e.cached = c /\ e.at = "sent" /\ e.started = time /\ e.node = n
  BY <1>1, <1>t, <1>f DEF ReadStates, HeldInTime, FreshBriefly
<1>4. /\ read' \in [Reads -> ReadStates]
      /\ \A q \in Reads : read'[q] = read[q] \/ read'[q] = e
  BY <1>2, <1>3, <1>t DEF RevocationTypeOK
<1>5. RevocationTypeOK'
  <2>1. \A q \in Reads : read'[q].at # "idle" => read'[q].node \in Nodes
    BY <1>3, <1>4, <1>t DEF RevocationTypeOK
  <2> QED BY <1>2, <1>4, <1>t, <2>1 DEF RevocationTypeOK, Never
<1>6. PastReads' /\ FoundBriefly'
  BY <1>2, <1>3, <1>4, <1>t, <1>f DEF HeldInTime, PastReads, FoundBriefly
<1>7. FreshBriefly' /\ PastRevocation' /\ PastAnswer'
  BY <1>2, <1>t DEF HeldInTime, FreshBriefly, PastRevocation, PastAnswer, Never
<1>8. OldEntries'
  <2> SUFFICES ASSUME revokedAt # Never, time < until PROVE OldEntries'
    BY <1>2 DEF OldEntries, Never
  <2>1. \A q \in Reads : OldEntry(read[q].cached)'
    BY <1>1, <1>2, <1>3, <1>4, <1>t DEF OldEntries, OldEntry
  <2>2. \A q \in Nodes : OldEntry(nodeCache[q])'
    BY <1>2, <1>t DEF OldEntries, OldEntry
  <2>3. \A q \in Reads : read'[q].at = "replied" /\ ~read'[q].value => read'[q].started <= revokedAt
    BY <1>3, <1>4, <1>t DEF OldEntries
  <2> QED BY <1>2, <2>1, <2>2, <2>3 DEF OldEntries
<1>9. RevocationTakesEffect'
  BY <1>2, <1>t DEF RevocationTakesEffect, Never
<1> QED BY <1>5, <1>6, <1>7, <1>8, <1>9 DEF RevocationIInv, HeldInTime

(* Redis evaluates a read: with the revocation there, it answers so.       *)
LEMMA RedisRepliesKeeps ==
  ASSUME RevocationIInv, NEW r \in Reads, RedisReplies(r) PROVE RevocationIInv'
<1>t. HeldInTime /\ OldEntries /\ RevocationTakesEffect /\ RevocationTypeOK
  BY DEF RevocationIInv, HeldInTime
<1>f. /\ CacheTtl \in Nat /\ time \in Nat /\ revokedAt \in Nat
      /\ \A q \in Reads : read[q] \in ReadStates
  BY <1>t, RevocationForm
<1>1. PICK e, b : e = [read[r] EXCEPT !.at = "replied", !.value = InRedis] /\ b = InRedis
  OBVIOUS
<1>2. /\ read' = [read EXCEPT ![r] = e] /\ read[r].at = "sent"
      /\ UNCHANGED <<time, revokedAt, until, nodeCache, revoking, told>>
  BY <1>1, <1>t DEF RedisReplies, RevocationTypeOK
<1>3. /\ e \in ReadStates /\ e.value = b /\ e.started = read[r].started
      /\ e.cached = read[r].cached /\ e.node = read[r].node
  <2>1. InRedis \in BOOLEAN
    BY DEF InRedis
  <2> QED BY <1>1, <1>f, <2>1 DEF ReadStates
<1>4. /\ read' \in [Reads -> ReadStates]
      /\ \A q \in Reads : q # r => read'[q] = read[q]
      /\ read'[r] = e
  BY <1>2, <1>3, <1>t DEF RevocationTypeOK
<1>5. RevocationTypeOK'
  <2>1. \A q \in Reads : read'[q].at # "idle" => read'[q].node \in Nodes
    BY <1>2, <1>3, <1>4, <1>t DEF RevocationTypeOK
  <2> QED BY <1>2, <1>4, <1>t, <2>1 DEF RevocationTypeOK, Never
<1>6. PastReads' /\ FoundBriefly'
  BY <1>2, <1>3, <1>4, <1>t DEF HeldInTime, PastReads, FoundBriefly
<1>7. FreshBriefly' /\ PastRevocation' /\ PastAnswer'
  BY <1>2, <1>t DEF HeldInTime, FreshBriefly, PastRevocation, PastAnswer, Never
<1>8. OldEntries'
  <2> SUFFICES ASSUME revokedAt # Never, time < until PROVE OldEntries'
    BY <1>2 DEF OldEntries, Never
  <2>1. \A q \in Reads : OldEntry(read[q].cached)'
    BY <1>2, <1>3, <1>4, <1>t DEF OldEntries, OldEntry
  <2>2. \A q \in Nodes : OldEntry(nodeCache[q])'
    BY <1>2, <1>t DEF OldEntries, OldEntry
  <2>3. b
    BY <1>1, <1>t DEF HeldInTime, PastRevocation, InRedis
  <2>4. \A q \in Reads : read'[q].at = "replied" /\ ~read'[q].value => read'[q].started <= revokedAt
    BY <1>3, <1>4, <1>t, <2>3 DEF OldEntries
  <2> QED BY <1>2, <2>1, <2>2, <2>4 DEF OldEntries
<1>9. RevocationTakesEffect'
  BY <1>2, <1>t DEF RevocationTakesEffect, Never
<1> QED BY <1>5, <1>6, <1>7, <1>8, <1>9 DEF RevocationIInv, HeldInTime

(* The revocation reaches Redis: all that is held was read before it.      *)
LEMMA RevokeSetKeeps ==
  ASSUME RevocationIInv, NEW n \in Nodes, NEW u \in 0 .. Never, RevokeSet(n, u)
  PROVE  RevocationIInv'
<1>t. HeldInTime /\ RevocationTypeOK
  BY DEF RevocationIInv, HeldInTime
<1>f. /\ CacheTtl \in Nat /\ time \in Nat /\ Never \in Nat /\ MaxNow \in Nat
      /\ Never = MaxNow + 1 /\ time <= MaxNow
      /\ \A q \in Reads : read[q] \in ReadStates
      /\ \A m \in Nodes : nodeCache[m] \in CacheEntries
      /\ told \in RevocationAnswers
  BY <1>t, RevocationForm DEF RevocationTypeOK
<1>1. /\ revokedAt' = time /\ until' = IF u > time THEN u ELSE time + 1
      /\ revoking' = revoking \cup {n}
      /\ UNCHANGED <<time, nodeCache, read, told>>
  BY DEF RevokeSet
<1>2. RevocationTypeOK'
  <2>1. until' \in 0 .. Never /\ revokedAt' < until' /\ revokedAt' \in 0 .. Never
    BY <1>1, <1>f
  <2> QED BY <1>1, <1>t, <2>1 DEF RevocationTypeOK, Never
<1>3. PastReads' /\ FreshBriefly' /\ FoundBriefly' /\ PastRevocation' /\ PastAnswer'
  BY <1>1, <1>t, <1>f DEF HeldInTime, PastReads, FreshBriefly, FoundBriefly, PastRevocation, PastAnswer
<1>4. OldEntries'
  BY <1>1, <1>t DEF OldEntries, OldEntry, HeldInTime, PastReads, FreshBriefly, FoundBriefly
<1>5. RevocationTakesEffect'
  BY <1>1, <1>t, <1>f DEF RevocationTakesEffect, HeldInTime, PastAnswer, RevocationAnswers
<1> QED BY <1>2, <1>3, <1>4, <1>5 DEF RevocationIInv, HeldInTime

(* The revoking node caches it. *)
LEMMA RevokeCachedKeeps ==
  ASSUME RevocationIInv, NEW n \in Nodes, RevokeCached(n) PROVE RevocationIInv'
<1>t. HeldInTime /\ OldEntries /\ RevocationTakesEffect /\ RevocationTypeOK
  BY DEF RevocationIInv, HeldInTime
<1>f. /\ CacheTtl \in Nat /\ time \in Nat
      /\ \A m \in Nodes : nodeCache[m] \in CacheEntries
  BY <1>t, RevocationForm
<1>1. PICK e : e = [known |-> TRUE, revoked |-> TRUE, freshUntil |-> time + CacheTtl]
  OBVIOUS
<1>2. /\ nodeCache' = [nodeCache EXCEPT ![n] = e]
      /\ revoking' = revoking \ {n}
      /\ UNCHANGED <<time, revokedAt, until, read, told>>
  BY <1>1 DEF RevokeCached, RevocationCache
<1>3. e \in CacheEntries /\ e.revoked /\ e.freshUntil = time + CacheTtl
  BY <1>1, <1>f DEF CacheEntries
<1>4. nodeCache' \in [Nodes -> CacheEntries]
      /\ \A m \in Nodes : nodeCache'[m] = nodeCache[m] \/ nodeCache'[m] = e
  BY <1>2, <1>3, <1>t DEF RevocationTypeOK
<1>5. RevocationTypeOK'
  BY <1>2, <1>4, <1>t DEF RevocationTypeOK, Never
<1>6. FreshBriefly'
  BY <1>2, <1>3, <1>4, <1>t, <1>f DEF HeldInTime, FreshBriefly
<1>7. PastReads' /\ FoundBriefly' /\ PastRevocation' /\ PastAnswer'
  BY <1>2, <1>t DEF HeldInTime, PastReads, FoundBriefly, PastRevocation, PastAnswer, Never
<1>8. OldEntries'
  <2> SUFFICES ASSUME revokedAt # Never, time < until PROVE OldEntries'
    BY <1>2 DEF OldEntries, Never
  <2>1. \A m \in Nodes : OldEntry(nodeCache[m])'
    BY <1>2, <1>3, <1>4, <1>t DEF OldEntries, OldEntry
  <2> QED BY <1>2, <1>t, <2>1 DEF OldEntries, OldEntry
<1>9. RevocationTakesEffect'
  BY <1>2, <1>t DEF RevocationTakesEffect, Never
<1> QED BY <1>5, <1>6, <1>7, <1>8, <1>9 DEF RevocationIInv, HeldInTime

(* Time passes. *)
LEMMA LaterKeeps == ASSUME RevocationIInv, Later PROVE RevocationIInv'
<1>t. HeldInTime /\ OldEntries /\ RevocationTakesEffect /\ RevocationTypeOK
  BY DEF RevocationIInv, HeldInTime
<1>f. /\ CacheTtl \in Nat /\ time \in Nat /\ MaxNow \in Nat /\ Never = MaxNow + 1
      /\ revokedAt \in Nat /\ until \in Nat
      /\ \A q \in Reads : read[q] \in ReadStates
      /\ \A m \in Nodes : nodeCache[m] \in CacheEntries
      /\ told \in RevocationAnswers
  BY <1>t, RevocationForm
<1>1. /\ time < MaxNow /\ time' = time + 1
      /\ UNCHANGED <<revokedAt, until, nodeCache, read, revoking, told>>
  BY DEF Later
<1>2. RevocationTypeOK'
  BY <1>1, <1>t, <1>f DEF RevocationTypeOK, Never
<1>3. PastReads' /\ FreshBriefly' /\ FoundBriefly' /\ PastRevocation'
  BY <1>1, <1>t, <1>f
     DEF HeldInTime, PastReads, FreshBriefly, FoundBriefly, PastRevocation, ReadStates, CacheEntries,
         Never
<1>4. PastAnswer'
  BY <1>1, <1>t, <1>f DEF HeldInTime, PastAnswer, RevocationAnswers
<1>5. OldEntries' /\ RevocationTakesEffect'
  <2>1. time' < until => time < until
    BY <1>1, <1>f
  <2> QED BY <1>1, <1>t, <2>1 DEF OldEntries, OldEntry, RevocationTakesEffect, Never
<1> QED BY <1>2, <1>3, <1>4, <1>5 DEF RevocationIInv, HeldInTime

(* Every step of a node, of Redis or of the clock preserves it. *)
LEMMA RevocationNextInv == RevocationIInv /\ [RevocationNext]_revVars => RevocationIInv'
<1> SUFFICES ASSUME RevocationIInv, [RevocationNext]_revVars PROVE RevocationIInv'
  OBVIOUS
<1>1. CASE UNCHANGED revVars
  BY <1>1
     DEF revVars, RevocationIInv, HeldInTime, RevocationTypeOK, PastReads, FreshBriefly, FoundBriefly,
         PastRevocation, PastAnswer, OldEntries, OldEntry, RevocationTakesEffect, Never
<1>2. CASE RevocationNext
  BY <1>2, AskRedisKeeps, RedisRepliesKeeps, ReadDoneKeeps, ReadThrowsKeeps, RevokeSetKeeps,
     AnswerCachedKeeps, RevokeCachedKeeps, LaterKeeps DEF RevocationNext
<1> QED BY <1>1, <1>2

(* revocation.ts:75: for any number of nodes and reads in flight and both  *)
(* policies, after a revocation "not revoked" is answered from an entry    *)
(* that is fresh, to a call begun within one cache lifetime, or when the   *)
(* client throws, from an entry read before the revocation however long    *)
(* ago, or by "allow" without one; never from a later reply of Redis.      *)
THEOREM RevocationEffective == RevocationSpec => []RevocationTakesEffect
<1>1. RevocationInit => RevocationIInv
  BY RevocationInitInv
<1>2. RevocationIInv /\ [RevocationNext]_revVars => RevocationIInv'
  BY RevocationNextInv
<1>3. RevocationIInv => RevocationTakesEffect
  BY DEF RevocationIInv
<1> QED BY <1>1, <1>2, <1>3, PTL DEF RevocationSpec

-----------------------------------------------------------------------------
(* Key distribution                                                        *)

RingKeys == [created : Nat, expires : Nat]
Documents == [known : BOOLEAN, keys : Seq(RingKeys), until : Nat,
              sampled : Nat]
Answers == [known : BOOLEAN, found : BOOLEAN, until : Nat, sampled : Nat]
LookupStates == [at : {"idle", "fetching", "served"}, id : KeySlots, began : Nat,
                 keys : Seq(RingKeys), sampled : Nat]

CachesTyped ==
  /\ keyTime \in 0 .. MaxKeyTime
  /\ ring \in Seq(RingKeys)
  /\ rotating \in [Rotations -> [at : {"idle", "generating"}, began : Nat]]
  /\ docCache \in Documents /\ answerCache \in [KeySlots -> Answers]
  /\ lookup \in [Lookups -> LookupStates]
  /\ withdrawn \in [KeySlots -> 0 .. NoEnd]

(* A lookup in progress began in the past, before its key was withdrawn,   *)
(* and the document it was served was read after it began.                 *)
LookupsInProgress ==
  \A l \in Lookups : lookup[l].at # "idle" =>
    /\ lookup[l].began <= keyTime /\ lookup[l].began <= withdrawn[lookup[l].id]
    /\ lookup[l].at = "served" => lookup[l].began <= lookup[l].sampled

(* A copy of the document is kept for CacheMs from when it was read at     *)
(* most, an answer made from it for TtlMs more, and no answer for longer   *)
(* than TtlMs after its key was withdrawn.                                 *)
DocumentKept == docCache.known => docCache.until <= docCache.sampled + CacheMs

AnswersKept ==
  \A k \in KeySlots : answerCache[k].known =>
    /\ answerCache[k].until <= keyTime + TtlMs
    /\ answerCache[k].until <= answerCache[k].sampled + CacheMs + TtlMs
    /\ answerCache[k].found => answerCache[k].until <= withdrawn[k] + TtlMs

CachesIInv == CachesTyped /\ LookupsInProgress /\ DocumentKept /\ AnswersKept

LEMMA CachesInit == KeysInit => CachesIInv
<1> SUFFICES ASSUME KeysInit PROVE CachesIInv
  OBVIOUS
<1> USE DistributionAssumption
<1>0. /\ NoEnd \in Nat /\ NoEnd = MaxKeyTime + OverlapMs + 1 /\ 1 \in KeySlots
      /\ <<>> \in Seq(RingKeys)
  BY DEF NoEnd, KeySlots
<1>1. ring \in Seq(RingKeys) /\ rotating \in [Rotations -> [at : {"idle", "generating"}, began : Nat]]
  BY <1>0 DEF KeysInit, RingKeys, NotRotating
<1>2. NoDoc \in Documents /\ NoAnswer \in Answers /\ NoLookup \in LookupStates
  BY <1>0 DEF NoDoc, NoAnswer, NoLookup, Documents, Answers, LookupStates
<1>3. CachesTyped
  BY <1>0, <1>1, <1>2 DEF KeysInit, CachesTyped
<1>4. LookupsInProgress /\ DocumentKept /\ AnswersKept
  BY DEF KeysInit, LookupsInProgress, DocumentKept, AnswersKept, NoDoc, NoAnswer, NoLookup
<1> QED BY <1>3, <1>4 DEF CachesIInv

(* What an answer that is kept must satisfy. *)
LEMMA AnswerIsKept ==
  ASSUME CachesIInv, NEW k \in KeySlots, NEW found \in BOOLEAN, NEW sampled \in Nat,
         NEW began \in Nat, KeepAnswer(k, found, sampled, began),
         began <= keyTime, began <= sampled + CacheMs,
         found => began <= withdrawn[k],
         UNCHANGED <<keyTime, withdrawn>>
  PROVE  answerCache' \in [KeySlots -> Answers] /\ AnswersKept'
<1> USE DistributionAssumption
<1> DEFINE a == [known |-> TRUE, found |-> found, until |-> began + TtlMs, sampled |-> sampled]
<1>0. /\ keyTime \in Nat /\ answerCache \in [KeySlots -> Answers]
      /\ withdrawn[k] \in Nat /\ TtlMs \in Nat /\ CacheMs \in Nat
  BY DEF CachesIInv, CachesTyped, NoEnd
<1>1. a \in Answers
  BY DEF Answers
<1>2. /\ a.until <= keyTime + TtlMs /\ a.until <= a.sampled + CacheMs + TtlMs
      /\ a.found => a.until <= withdrawn[k] + TtlMs
  BY <1>0
<1>3. answerCache' = [answerCache EXCEPT ![k] = a]
  BY DEF KeepAnswer
<1> HIDE DEF a
<1> QED BY <1>0, <1>1, <1>2, <1>3 DEF CachesIInv, AnswersKept

LEMMA CachesNext == CachesIInv /\ [KeysNext]_kdVars => CachesIInv'
<1> SUFFICES ASSUME CachesIInv, [KeysNext]_kdVars PROVE CachesIInv'
  OBVIOUS
<1> USE DistributionAssumption
<1>t. CachesTyped /\ LookupsInProgress /\ DocumentKept /\ AnswersKept
  BY DEF CachesIInv
<1>n. /\ NoEnd \in Nat /\ NoEnd = MaxKeyTime + OverlapMs + 1
      /\ keyTime \in Nat /\ keyTime <= MaxKeyTime /\ keyTime < NoEnd
      /\ CacheMs \in Nat /\ TtlMs \in Nat
  BY <1>t DEF NoEnd, CachesTyped
<1>i. NoLookup \in LookupStates /\ NoLookup.at = "idle"
  BY DEF NoLookup, LookupStates, KeySlots
<1>u. UNCHANGED <<keyTime, docCache, answerCache, lookup, withdrawn>>
        => LookupsInProgress' /\ DocumentKept' /\ AnswersKept'
  BY <1>t DEF LookupsInProgress, DocumentKept, AnswersKept
<1>1. ASSUME NEW p \in Rotations, BeginRotation(p) PROVE CachesIInv'
  <2>1. ring' = Ending(keyTime + OverlapMs)
        /\ rotating' = [rotating EXCEPT ![p] = [at |-> "generating", began |-> keyTime]]
        /\ UNCHANGED <<keyTime, docCache, answerCache, lookup, withdrawn>>
    BY <1>1 DEF BeginRotation
  <2>2. ring' \in Seq(RingKeys)
    <3>1. keyTime + OverlapMs \in Nat
      BY <1>n
    <3>2. Len(ring) \in Nat /\ DOMAIN ring = 1 .. Len(ring)
      BY <1>t DEF CachesTyped
    <3>3. ASSUME NEW k \in DOMAIN ring PROVE ring'[k] \in RingKeys
      <4>1. ring[k] \in RingKeys
        BY <1>t DEF CachesTyped
      <4> QED BY <2>1, <3>1, <4>1 DEF Ending, RingKeys
    <3>4. ring' = [k \in 1 .. Len(ring) |-> ring'[k]]
      BY <2>1, <3>2 DEF Ending
    <3> QED BY <3>2, <3>3, <3>4
  <2> QED BY <1>t, <1>n, <1>u, <2>1, <2>2 DEF CachesIInv, CachesTyped
<1>2. ASSUME NEW p \in Rotations, Rotated(p) PROVE CachesIInv'
  <2>1. UNCHANGED <<keyTime, docCache, answerCache, lookup, withdrawn>>
        /\ ring' = Append(ring, [created |-> rotating[p].began, expires |-> NoEnd])
        /\ rotating' = [rotating EXCEPT ![p] = NotRotating]
    BY <1>2 DEF Rotated
  <2>2. [created |-> rotating[p].began, expires |-> NoEnd] \in RingKeys
    BY <1>n, <1>t DEF CachesTyped, RingKeys
  <2>3. ring' \in Seq(RingKeys)
    BY <2>1, <2>2, <1>t DEF CachesTyped
  <2> QED BY <1>t, <1>u, <2>1, <2>3 DEF CachesIInv, CachesTyped, NotRotating
<1>3. ASSUME NEW p \in Rotations, RotationFails(p) PROVE CachesIInv'
  BY <1>t, <1>u, <1>3 DEF RotationFails, CachesIInv, CachesTyped, NotRotating
<1>4. ASSUME NEW k \in KeySlots, Withdraw(k) PROVE CachesIInv'
  <2>1. /\ withdrawn' = [withdrawn EXCEPT ![k] = keyTime]
        /\ UNCHANGED <<keyTime, ring, rotating, docCache, answerCache, lookup>>
    BY <1>4 DEF Withdraw
  <2>2. CachesTyped'
    BY <1>t, <1>n, <2>1 DEF CachesTyped
  <2>3. LookupsInProgress' /\ DocumentKept' /\ AnswersKept'
    BY <1>t, <1>n, <2>1 DEF CachesTyped, LookupsInProgress, DocumentKept, AnswersKept
  <2> QED BY <2>2, <2>3 DEF CachesIInv
<1>5. ASSUME NEW k \in KeySlots, NEW l \in Lookups, BeginLookup(l, k) PROVE CachesIInv'
  <2>0. /\ UNCHANGED <<keyTime, ring, rotating, docCache, withdrawn>>
        /\ docCache \in Documents
    BY <1>5, <1>t DEF BeginLookup, CachesTyped
  <2>1. CASE withdrawn[k] # NoEnd
    <3>1. KeepAnswer(k, FALSE, keyTime, keyTime) /\ UNCHANGED lookup
      BY <1>5, <2>1 DEF BeginLookup
    <3>0. keyTime <= keyTime /\ keyTime <= keyTime + CacheMs /\ FALSE \in BOOLEAN
      BY <1>n
    <3>2. answerCache' \in [KeySlots -> Answers] /\ AnswersKept'
      BY <1>n, <2>0, <3>0, <3>1, AnswerIsKept
    <3> QED BY <1>t, <2>0, <3>1, <3>2
          DEF CachesIInv, CachesTyped, LookupsInProgress, DocumentKept
  <2>2. CASE withdrawn[k] = NoEnd /\ docCache.known /\ docCache.until > keyTime
    <3>1. KeepAnswer(k, Found(docCache.keys, k), docCache.sampled, keyTime) /\ UNCHANGED lookup
      BY <1>5, <2>2 DEF BeginLookup
    <3>2. Found(docCache.keys, k) \in BOOLEAN /\ docCache.sampled \in Nat
      BY <2>0 DEF Found, Documents
    <3>3. keyTime <= docCache.sampled + CacheMs /\ keyTime <= withdrawn[k]
      BY <1>t, <1>n, <2>0, <2>2 DEF DocumentKept, Documents
    <3>4. answerCache' \in [KeySlots -> Answers] /\ AnswersKept'
      BY <1>n, <2>0, <3>1, <3>2, <3>3, AnswerIsKept
    <3> QED BY <1>t, <2>0, <3>1, <3>4
          DEF CachesIInv, CachesTyped, LookupsInProgress, DocumentKept
  <2>3. CASE withdrawn[k] = NoEnd /\ ~(docCache.known /\ docCache.until > keyTime)
    <3> DEFINE q == [NoLookup EXCEPT !.at = "fetching", !.id = k, !.began = keyTime]
    <3>1. lookup' = [lookup EXCEPT ![l] = q] /\ UNCHANGED answerCache
      BY <1>5, <2>3 DEF BeginLookup
    <3>2. q \in LookupStates /\ q.began = keyTime /\ q.id = k /\ q.at = "fetching"
      BY <1>n, <1>i DEF LookupStates
    <3> HIDE DEF q
    <3>3. CachesTyped'
      BY <1>t, <2>0, <3>1, <3>2 DEF CachesTyped
    <3>4. LookupsInProgress'
      BY <1>t, <1>n, <2>0, <2>3, <3>1, <3>2 DEF LookupsInProgress, CachesTyped
    <3> QED BY <1>t, <2>0, <3>1, <3>3, <3>4 DEF CachesIInv, DocumentKept, AnswersKept
  <2> QED BY <2>1, <2>2, <2>3
<1>6. ASSUME NEW l \in Lookups, Served(l) PROVE CachesIInv'
  <2> DEFINE q == [lookup[l] EXCEPT !.at = "served", !.keys = ring, !.sampled = keyTime]
  <2>1. /\ lookup[l].at = "fetching" /\ lookup[l] \in LookupStates
        /\ lookup' = [lookup EXCEPT ![l] = q]
        /\ UNCHANGED <<keyTime, ring, rotating, docCache, answerCache, withdrawn>>
    BY <1>6, <1>t DEF Served, CachesTyped
  <2>2. /\ q \in LookupStates /\ q.at = "served" /\ q.began = lookup[l].began
        /\ q.id = lookup[l].id /\ q.sampled = keyTime
    BY <1>n, <1>t, <2>1 DEF LookupStates, CachesTyped
  <2> HIDE DEF q
  <2>3. CachesTyped'
    BY <1>t, <2>1, <2>2 DEF CachesTyped
  <2>4. LookupsInProgress'
    BY <1>t, <2>1, <2>2 DEF LookupsInProgress, CachesTyped
  <2> QED BY <1>t, <2>1, <2>3, <2>4 DEF CachesIInv, DocumentKept, AnswersKept
<1>e. ASSUME NEW l \in Lookups, lookup' = [lookup EXCEPT ![l] = NoLookup],
             UNCHANGED <<keyTime, withdrawn>>
      PROVE  lookup' \in [Lookups -> LookupStates] /\ LookupsInProgress'
  BY <1>e, <1>i, <1>t DEF LookupsInProgress, CachesTyped
<1>7. ASSUME NEW l \in Lookups, Arrived(l) PROVE CachesIInv'
  <2> DEFINE q == lookup[l]
  <2>1. /\ q.at = "served" /\ q \in LookupStates
        /\ lookup' = [lookup EXCEPT ![l] = NoLookup]
        /\ docCache' = [known |-> TRUE, keys |-> q.keys, until |-> q.began + CacheMs,
                        sampled |-> q.sampled]
        /\ KeepAnswer(q.id, Found(q.keys, q.id), q.sampled, q.began)
        /\ UNCHANGED <<keyTime, ring, rotating, withdrawn>>
    BY <1>7, <1>t DEF Arrived, CachesTyped
  <2>2. q.began <= keyTime /\ q.began <= withdrawn[q.id] /\ q.began <= q.sampled
    BY <1>t, <2>1 DEF LookupsInProgress
  <2> HIDE DEF q
  <2>3. /\ q.id \in KeySlots /\ q.began \in Nat /\ q.sampled \in Nat
        /\ q.keys \in Seq(RingKeys) /\ Found(q.keys, q.id) \in BOOLEAN
    BY <2>1 DEF LookupStates, Found
  <2>4. answerCache' \in [KeySlots -> Answers] /\ AnswersKept'
    BY <1>n, <2>1, <2>2, <2>3, AnswerIsKept
  <2>5. docCache' \in Documents /\ DocumentKept'
    BY <1>n, <2>1, <2>2, <2>3 DEF Documents, DocumentKept
  <2>6. lookup' \in [Lookups -> LookupStates] /\ LookupsInProgress'
    BY <2>1, <1>e
  <2> QED BY <1>t, <2>1, <2>4, <2>5, <2>6 DEF CachesIInv, CachesTyped
<1>8. ASSUME NEW l \in Lookups, FetchFails(l) PROVE CachesIInv'
  <2> DEFINE q == lookup[l]
  <2>1. /\ q.at # "idle" /\ q \in LookupStates
        /\ lookup' = [lookup EXCEPT ![l] = NoLookup]
        /\ KeepAnswer(q.id, FALSE, q.began, q.began)
        /\ UNCHANGED <<keyTime, ring, rotating, docCache, withdrawn>>
    BY <1>8, <1>t DEF FetchFails, CachesTyped
  <2>2. q.began <= keyTime
    BY <1>t, <2>1 DEF LookupsInProgress
  <2> HIDE DEF q
  <2>3. q.id \in KeySlots /\ q.began \in Nat
    BY <2>1 DEF LookupStates
  <2>0. q.began <= q.began + CacheMs /\ FALSE \in BOOLEAN
    BY <2>3, <1>n
  <2>4. answerCache' \in [KeySlots -> Answers] /\ AnswersKept'
    BY <2>0, <2>1, <2>2, <2>3, AnswerIsKept
  <2>6. lookup' \in [Lookups -> LookupStates] /\ LookupsInProgress'
    BY <2>1, <1>e
  <2> QED BY <1>t, <2>1, <2>4, <2>6 DEF CachesIInv, CachesTyped, DocumentKept
<1>9. CASE KeysLater
  <2>1. /\ keyTime' = keyTime + 1 /\ keyTime < MaxKeyTime
        /\ UNCHANGED <<ring, rotating, docCache, answerCache, lookup, withdrawn>>
    BY <1>9 DEF KeysLater
  <2>2. CachesTyped'
    BY <1>t, <1>n, <2>1 DEF CachesTyped
  <2>3. LookupsInProgress' /\ DocumentKept'
    BY <1>t, <1>n, <2>1 DEF CachesTyped, LookupsInProgress, DocumentKept, LookupStates
  <2>4. AnswersKept'
    BY <1>t, <1>n, <2>1 DEF CachesTyped, AnswersKept, Answers
  <2> QED BY <2>2, <2>3, <2>4 DEF CachesIInv
<1>10. CASE UNCHANGED kdVars
  BY <1>t, <1>u, <1>10 DEF kdVars, CachesIInv, CachesTyped
<1> QED
  BY <1>1, <1>2, <1>3, <1>4, <1>5, <1>6, <1>7, <1>8, <1>9, <1>10 DEF KeysNext

(* Whatever is in flight, what a verifier is told from its caches was      *)
(* published less than CacheMs + TtlMs ago, and a withdrawn key is told    *)
(* for less than TtlMs (createCachingKeyRegistry, createHttpKeyRegistry).  *)
THEOREM AnswersStayBounded == KeysSpec => []AnswersBounded
<1>1. KeysInit => CachesIInv
  BY CachesInit
<1>2. CachesIInv /\ [KeysNext]_kdVars => CachesIInv'
  BY CachesNext
<1>3. CachesIInv => AnswersBounded
  <2> SUFFICES ASSUME CachesIInv PROVE AnswersBounded
    OBVIOUS
  <2>1. /\ keyTime \in Nat /\ CacheMs \in Nat /\ TtlMs \in Nat
        /\ docCache.until \in Nat /\ docCache.sampled \in Nat
        /\ \A k \in KeySlots : /\ answerCache[k].until \in Nat
                               /\ answerCache[k].sampled \in Nat
                               /\ withdrawn[k] \in Nat
    BY DistributionAssumption DEF CachesIInv, CachesTyped, Documents, Answers, NoEnd
  <2> QED BY <2>1 DEF CachesIInv, DocumentKept, AnswersKept, AnswersBounded
<1> QED BY <1>1, <1>2, <1>3, PTL DEF KeysSpec

(* Some key has no end, or its successor is being made or could not be,    *)
(* and no step ends a key before its overlap (rotateIfNeeded).             *)
LEMMA RotationStep ==
  ASSUME CachesIInv, SigningKeyContinues, [KeysNext]_kdVars
  PROVE  SigningKeyContinues' /\ (OverlapKept \/ UNCHANGED kdVars)
<1> USE DistributionAssumption
<1>t. CachesTyped /\ keyTime \in Nat /\ OverlapMs \in Nat
  BY DEF CachesIInv, CachesTyped
<1>1. ASSUME NEW p \in Rotations, BeginRotation(p) PROVE SigningKeyContinues' /\ OverlapKept
  <2>1. /\ ring' = Ending(keyTime + OverlapMs)
        /\ rotating' = [rotating EXCEPT ![p] = [at |-> "generating", began |-> keyTime]]
    BY <1>1 DEF BeginRotation
  <2>2. rotating'[p].at = "generating"
    BY <2>1, <1>t DEF CachesTyped
  <2>3. ASSUME NEW k \in DOMAIN ring, ring'[k].expires # ring[k].expires
        PROVE  ring[k].expires = NoEnd /\ ring'[k].expires >= keyTime + OverlapMs
    <3>1. ring[k] \in RingKeys
      BY <1>t DEF CachesTyped
    <3>2. \/ ring'[k] = ring[k]
          \/ ring[k].expires = NoEnd
             /\ ring'[k] = [ring[k] EXCEPT !.expires = keyTime + OverlapMs]
      BY <2>1 DEF Ending
    <3>3. ring[k].expires = NoEnd /\ ring'[k].expires = keyTime + OverlapMs
      BY <2>3, <3>1, <3>2 DEF RingKeys
    <3> QED BY <3>3, <1>t
  <2> QED BY <2>2, <2>3 DEF SigningKeyContinues, OverlapKept
<1>2. ASSUME NEW p \in Rotations, Rotated(p) PROVE SigningKeyContinues' /\ OverlapKept
  <2> DEFINE key == [created |-> rotating[p].began, expires |-> NoEnd]
  <2>1. ring' = Append(ring, key) /\ ring \in Seq(RingKeys)
    BY <1>2, <1>t DEF Rotated, CachesTyped
  <2>2. key.expires = NoEnd /\ key \in RingKeys
    BY <1>t DEF RingKeys, CachesTyped, NoEnd
  <2> HIDE DEF key
  <2>3. /\ Len(ring) + 1 \in DOMAIN ring' /\ ring'[Len(ring) + 1] = key
        /\ \A k \in DOMAIN ring : ring'[k] = ring[k]
    BY <2>1, <2>2
  <2> QED BY <2>2, <2>3 DEF SigningKeyContinues, OverlapKept
<1>3. ASSUME NEW p \in Rotations, RotationFails(p) PROVE SigningKeyContinues' /\ OverlapKept
  BY <1>3 DEF RotationFails, SigningKeyContinues, OverlapKept
<1>4. ASSUME UNCHANGED <<ring, rotating, rotationFailed>>
      PROVE  SigningKeyContinues' /\ OverlapKept
  BY <1>4 DEF SigningKeyContinues, OverlapKept
<1> QED
  BY <1>1, <1>2, <1>3, <1>4
     DEF KeysNext, kdVars, Withdraw, BeginLookup, Served, Arrived, FetchFails, KeysLater

(* However rotations overlap and fail, a signer keeps a key to sign with   *)
(* and no overlap is cut short (KeyRotationManager.rotateIfNeeded).        *)
THEOREM RotationContinues == KeysSpec => RotationHolds
<1>1. KeysInit => CachesIInv /\ SigningKeyContinues
  <2>1. KeysInit => SigningKeyContinues
    BY DEF KeysInit, SigningKeyContinues
  <2> QED BY <2>1, CachesInit
<1>2. CachesIInv /\ SigningKeyContinues /\ [KeysNext]_kdVars
        => CachesIInv' /\ SigningKeyContinues'
  BY CachesNext, RotationStep
<1>3. CachesIInv /\ SigningKeyContinues /\ [KeysNext]_kdVars
        => [SigningKeyContinues' /\ OverlapKept]_kdVars
  BY RotationStep
<1> QED BY <1>1, <1>2, <1>3, PTL DEF KeysSpec, RotationHolds

-----------------------------------------------------------------------------
(* The shared replay stores                                                *)

Pipelines == [pc : {"pipeline"}, host : Hosts, keys : Batches, start : Nat, next : Nat \ {0},
              won : SUBSET Nonces]
Checks == [pc : {"cluster"}, key : Nonces, start : Nat, asked : SUBSET Shards,
           seen : BOOLEAN, failed : BOOLEAN]

(* A call in progress belongs to the store that is used, and began in the  *)
(* past.                                                                   *)
CallsTyped ==
  /\ RedisTypeOK
  /\ req \in [Requests -> {Idle} \cup Pipelines \cup Checks]
  /\ \A r \in Requests : req[r].pc = "pipeline" => mode # "cluster" /\ req[r].start <= now
  /\ \A r \in Requests : req[r].pc = "cluster" => mode = "cluster" /\ req[r].start <= now

(* Node s gave the key k to call r, which has yet to answer. *)
Claims(r, s, k) ==
  \/ req[r].pc = "pipeline" /\ k \in req[r].won
  \/ /\ req[r].pc = "cluster" /\ req[r].key = k /\ s \notin req[r].asked
     /\ ~req[r].seen /\ ~req[r].failed

(* The nodes that remember whatever they were told. *)
Guards == IF mode = "cluster" THEN intact ELSE {Main}

(* A node that has no entry for a key, or one that ends before the         *)
(* envelope, has given the key to nobody; while the envelope is valid it   *)
(* gave the key to one call, which has answered or has yet to.             *)
GivenOnce(s, k) ==
  /\ redis[s][k] < ExpiresAt[k] =>
       fresh[k][Main] = 0 /\ \A r \in Requests : ~Claims(r, s, k)
  /\ now < ExpiresAt[k] =>
       /\ \A r, q \in Requests : Claims(r, s, k) /\ Claims(q, s, k) => r = q
       /\ fresh[k][Main] > 0 => \A r \in Requests : ~Claims(r, s, k)
  /\ fresh[k][Main] <= 1

NodesGiveOnce == \A s \in Guards, k \in Nonces : GivenOnce(s, k)

(* A host's own store, which decides at once. *)
HostsGiveOnce ==
  mode = "fallback" => \A h \in Hosts, k \in Nonces :
    fresh[k][h] <= 1 /\ (local[h][k] < ExpiresAt[k] => fresh[k][h] = 0)

(* Nobody else answers. *)
OthersSilent ==
  \A k \in Nonces, a \in Answerers :
    \/ a = Main \/ fresh[k][a] = 0
    \/ mode = "fallback" /\ a \in Hosts
    \/ mode = "allow"

RedisIInv == CallsTyped /\ NodesGiveOnce /\ HostsGiveOnce /\ OthersSilent

LEMMA RedisInitInv == RedisInit => RedisIInv
<1> SUFFICES ASSUME RedisInit PROVE RedisIInv
  OBVIOUS
<1> USE RedisReplayAssumption
<1>1. CallsTyped
  BY DEF RedisInit, CallsTyped, RedisTypeOK, Idle, NewStore, Absent, Behaviors
<1>2. \A k \in Nonces, a \in Answerers : fresh[k][a] = 0
  BY DEF RedisInit
<1>3. Main \in Answerers /\ Hosts \subseteq Answerers
  BY DEF Answerers
<1>4. \A r \in Requests, s \in Shards, k \in Nonces : ~Claims(r, s, k)
  BY DEF RedisInit, Claims, Idle
<1>5. NodesGiveOnce
  BY <1>2, <1>3, <1>4 DEF RedisInit, NodesGiveOnce, GivenOnce, Guards
<1>6. HostsGiveOnce /\ OthersSilent
  BY <1>2, <1>3 DEF HostsGiveOnce, OthersSilent
<1> QED BY <1>1, <1>5, <1>6 DEF RedisIInv

(* SET NX PX leaves an entry that outlives the envelope, unless there is a *)
(* live one already.                                                       *)
LEMMA SetOutlives ==
  ASSUME now \in Nat, NEW st \in [Nonces -> Nat \cup {Absent}], NEW k \in Nonces,
         NEW start \in Nat, start <= now
  PROVE  /\ SetNX(st, k, start) \in [Nonces -> Nat \cup {Absent}]
         /\ \A j \in Nonces \ {k} : SetNX(st, k, start)[j] = st[j]
         /\ Live(st, k) => SetNX(st, k, start)[k] = st[k]
         /\ ~Live(st, k) => SetNX(st, k, start)[k] >= ExpiresAt[k]
<1> DEFINE e == IF st[k] > now THEN st[k] ELSE now + Longest(1, ExpiresAt[k] - start)
<1>1. ExpiresAt[k] \in Nat
  BY RedisReplayAssumption
<1>2. now + Longest(1, ExpiresAt[k] - start) \in Nat
      /\ now + Longest(1, ExpiresAt[k] - start) >= ExpiresAt[k]
  BY <1>1 DEF Longest
<1>3. SetNX(st, k, start) = [st EXCEPT ![k] = e]
  BY DEF SetNX
<1>4. e \in Nat \cup {Absent} /\ (Live(st, k) => e = st[k]) /\ (~Live(st, k) => e >= ExpiresAt[k])
  BY <1>2 DEF Live
<1> HIDE DEF e
<1> QED BY <1>3, <1>4

(* What an acceptance changes. *)
LEMMA Acceptance ==
  ASSUME RedisTypeOK, NEW K \in SUBSET Nonces, NEW a \in Answerers
  PROVE  /\ Accept(K, a) \in [Nonces -> [Answerers -> Nat]]
         /\ \A k \in Nonces, b \in Answerers \ {a} : Accept(K, a)[k][b] = fresh[k][b]
         /\ \A k \in Nonces : \/ Accept(K, a)[k][a] = fresh[k][a]
                              \/ /\ k \in K /\ now < ExpiresAt[k]
                                 /\ Accept(K, a)[k][a] = fresh[k][a] + 1
<1>1. \A k \in Nonces : fresh[k] \in [Answerers -> Nat]
  BY DEF RedisTypeOK
<1> QED BY <1>1 DEF Accept

(* A step that gives no key away: calls begin, fail or forget, time        *)
(* passes, a node that is lost no longer counts.                           *)
LEMMA NothingGiven ==
  ASSUME RedisIInv, CallsTyped', now' >= now, UNCHANGED <<mode, local, fresh>>,
         Guards' \subseteq Guards, \A s \in Guards' : redis'[s] = redis[s],
         \A r \in Requests, s \in Guards, k \in Nonces : Claims(r, s, k)' => Claims(r, s, k)
  PROVE  RedisIInv'
<1>0. /\ now \in Nat /\ now' \in Nat /\ \A k \in Nonces : ExpiresAt[k] \in Nat
      /\ NodesGiveOnce
  BY RedisReplayAssumption DEF RedisIInv, CallsTyped, RedisTypeOK
<1>1. ASSUME NEW s \in Guards', NEW k \in Nonces PROVE GivenOnce(s, k)'
  <2>1. GivenOnce(s, k) /\ redis'[s][k] = redis[s][k]
    BY <1>0 DEF NodesGiveOnce
  <2>2. now' < ExpiresAt[k] => now < ExpiresAt[k]
    BY <1>0
  <2>3. \A r \in Requests : Claims(r, s, k)' => Claims(r, s, k)
    OBVIOUS
  <2> QED BY <2>1, <2>2, <2>3 DEF GivenOnce
<1> QED BY <1>1 DEF RedisIInv, NodesGiveOnce, HostsGiveOnce, OthersSilent

(* Only node n gives a key away, j to call r, and only when it holds none. *)
GivesTo(r, n, j) ==
  \A q \in Requests, s \in Guards, k \in Nonces :
    Claims(q, s, k)' => Claims(q, s, k) \/ (q = r /\ s = n /\ k = j /\ ~Live(redis[n], j))

(* A node executes SET NX PX for a call, which has the key if there was no *)
(* live entry.                                                             *)
LEMMA KeyGiven ==
  ASSUME RedisIInv, CallsTyped', NEW r \in Requests, NEW n \in Shards, NEW j \in Nonces,
         NEW start \in Nat, start <= now,
         UNCHANGED <<now, mode, local, fresh, intact>>,
         redis' = [redis EXCEPT ![n] = SetNX(redis[n], j, start)],
         GivesTo(r, n, j)
  PROVE  RedisIInv'
<1>0. /\ now \in Nat /\ redis \in [Shards -> [Nonces -> Nat \cup {Absent}]]
      /\ \A k \in Nonces : ExpiresAt[k] \in Nat
      /\ NodesGiveOnce /\ Guards' = Guards /\ Guards \subseteq Shards
  BY RedisReplayAssumption DEF RedisIInv, CallsTyped, RedisTypeOK, Guards
<1>1. ASSUME NEW s \in Guards, NEW k \in Nonces PROVE GivenOnce(s, k)'
  <2>1. GivenOnce(s, k)
    BY <1>0 DEF NodesGiveOnce
  <2>2. CASE s = n /\ k = j
    <3>1. /\ redis'[s][k] = SetNX(redis[n], j, start)[j] /\ redis[s] = redis[n]
          /\ redis[n] \in [Nonces -> Nat \cup {Absent}]
      BY <1>0, <2>2
    <3>2. CASE Live(redis[n], j)
      <4>1. redis'[s][k] = redis[s][k]
        BY <1>0, <2>2, <3>1, <3>2, SetOutlives
      <4>2. \A q \in Requests : Claims(q, s, k)' => Claims(q, s, k)
        BY <2>2, <3>2 DEF GivesTo
      <4> QED BY <2>1, <4>1, <4>2 DEF GivenOnce
    <3>3. CASE ~Live(redis[n], j)
      <4>1. redis'[s][k] >= ExpiresAt[k]
        BY <1>0, <2>2, <3>1, <3>3, SetOutlives
      <4>2. redis'[s][k] \in Nat \cup {Absent} /\ redis[s][k] \in Nat \cup {Absent}
        BY <1>0, <2>2, <3>1, SetOutlives
      <4>3. ~(redis'[s][k] < ExpiresAt[k])
        BY <1>0, <4>1, <4>2 DEF Absent
      <4>4. now < ExpiresAt[k] => redis[s][k] < ExpiresAt[k]
        BY <1>0, <2>2, <3>1, <3>3, <4>2 DEF Live, Absent
      <4>5. \A q \in Requests : Claims(q, s, k)' => Claims(q, s, k) \/ q = r
        BY DEF GivesTo
      <4>6. now < ExpiresAt[k] =>
              /\ fresh[k][Main] = 0
              /\ \A q \in Requests : ~Claims(q, s, k)
        BY <2>1, <4>4 DEF GivenOnce
      <4>7. now < ExpiresAt[k] => \A q \in Requests : Claims(q, s, k)' => q = r
        BY <4>5, <4>6
      <4> QED BY <2>1, <4>3, <4>6, <4>7 DEF GivenOnce
    <3> QED BY <3>2, <3>3
  <2>3. CASE ~(s = n /\ k = j)
    <3>1. redis'[s][k] = redis[s][k]
      BY <1>0, <2>3, SetOutlives
    <3>2. \A q \in Requests : Claims(q, s, k)' => Claims(q, s, k)
      BY <2>3 DEF GivesTo
    <3> QED BY <2>1, <3>1, <3>2 DEF GivenOnce
  <2> QED BY <2>2, <2>3
<1> QED BY <1>0, <1>1 DEF RedisIInv, NodesGiveOnce, HostsGiveOnce, OthersSilent

(* A call answers that the keys it was given are new. *)
LEMMA CallAnswers ==
  ASSUME RedisIInv, NEW r \in Requests, NEW K \in SUBSET Nonces,
         fresh' = Accept(K, Main), req' = [req EXCEPT ![r] = Idle],
         UNCHANGED <<now, mode, redis, local, intact>>,
         \A s \in Guards, k \in K : Claims(r, s, k)
  PROVE  RedisIInv'
<1>0. /\ now \in Nat /\ \A k \in Nonces : ExpiresAt[k] \in Nat
      /\ NodesGiveOnce /\ Guards' = Guards /\ RedisTypeOK /\ Main \in Answerers
      /\ Hosts \subseteq Answerers \ {Main} /\ CallsTyped
  BY RedisReplayAssumption DEF RedisIInv, CallsTyped, RedisTypeOK, Guards, Answerers
<1>1. /\ fresh' \in [Nonces -> [Answerers -> Nat]]
      /\ \A k \in Nonces, b \in Answerers \ {Main} : fresh'[k][b] = fresh[k][b]
      /\ \A k \in Nonces : \/ fresh'[k][Main] = fresh[k][Main]
                           \/ /\ k \in K /\ now < ExpiresAt[k]
                              /\ fresh'[k][Main] = fresh[k][Main] + 1
  <2> DEFINE f == Accept(K, Main)
  <2>1. /\ f \in [Nonces -> [Answerers -> Nat]]
        /\ \A k \in Nonces, b \in Answerers \ {Main} : f[k][b] = fresh[k][b]
        /\ \A k \in Nonces : \/ f[k][Main] = fresh[k][Main]
                             \/ /\ k \in K /\ now < ExpiresAt[k]
                                /\ f[k][Main] = fresh[k][Main] + 1
    <3>1. RedisTypeOK /\ Main \in Answerers
      BY <1>0
    <3> QED BY <3>1, Acceptance
  <2>2. fresh' = f
    OBVIOUS
  <2> HIDE DEF f
  <2> QED BY <2>1, <2>2
<1>2. \A q \in Requests, s \in Guards, k \in Nonces :
        Claims(q, s, k)' => Claims(q, s, k) /\ q # r
  BY <1>0 DEF Claims, CallsTyped, Idle
<1>3. ASSUME NEW s \in Guards, NEW k \in Nonces PROVE GivenOnce(s, k)'
  <2>1. GivenOnce(s, k) /\ redis'[s][k] = redis[s][k] /\ fresh[k][Main] \in Nat
    BY <1>0 DEF NodesGiveOnce, RedisTypeOK
  <2>2. CASE fresh'[k][Main] = fresh[k][Main]
    BY <1>2, <2>1, <2>2 DEF GivenOnce
  <2>3. CASE /\ k \in K /\ now < ExpiresAt[k] /\ fresh'[k][Main] = fresh[k][Main] + 1
    <3>1. Claims(r, s, k)
      BY <2>3
    <3>2. fresh[k][Main] = 0 /\ ~(redis[s][k] < ExpiresAt[k])
      BY <2>1, <2>3, <3>1 DEF GivenOnce
    <3>3. \A q \in Requests : ~Claims(q, s, k)'
      BY <1>2, <2>1, <2>3, <3>1 DEF GivenOnce
    <3>4. fresh'[k][Main] = 1
      BY <2>3, <3>2
    <3> QED BY <2>1, <3>2, <3>3, <3>4 DEF GivenOnce
  <2> QED BY <1>1, <2>2, <2>3
<1>4. CallsTyped'
  BY <1>0, <1>1 DEF CallsTyped, RedisTypeOK, Idle
<1>5. HostsGiveOnce' /\ OthersSilent'
  BY <1>0, <1>1 DEF RedisIInv, HostsGiveOnce, OthersSilent
<1> QED BY <1>0, <1>3, <1>4, <1>5 DEF RedisIInv, NodesGiveOnce

(* A host decides on its own: what it accepts it has not held before, or   *)
(* not while the envelope was valid.                                       *)
LEMMA HostDecides ==
  ASSUME RedisIInv, NEW r \in Requests, PipelineThrows(r)
  PROVE  RedisIInv'
<1> USE RedisReplayAssumption
<1> DEFINE h == req[r].host
           keys == req[r].keys
           start == req[r].start
           all == {keys[i] : i \in DOMAIN keys}
           new == IF mode = "fallback" THEN Unheld(local[h], keys) ELSE {}
<1>0. /\ now \in Nat /\ \A k \in Nonces : ExpiresAt[k] \in Nat
      /\ CallsTyped /\ RedisTypeOK /\ NodesGiveOnce /\ HostsGiveOnce /\ OthersSilent
      /\ Main \in Answerers /\ Hosts \subseteq Answerers /\ Main \notin Hosts
      /\ "open" \in Answerers
  BY DEF RedisIInv, CallsTyped, RedisTypeOK, Answerers
<1>1. req[r] \in Pipelines /\ mode # "cluster" /\ start <= now
  BY <1>0 DEF PipelineThrows, CallsTyped, Idle, Checks
<1>2. h \in Hosts /\ start \in Nat /\ keys \in Seq(Nonces) /\ all \in SUBSET Nonces
  BY <1>1 DEF Pipelines
<1>3. /\ new \in SUBSET Nonces
      /\ \A k \in new : mode = "fallback" /\ ~Live(local[h], k)
  BY <1>2 DEF Unheld
<1>4. /\ fresh' = IF mode = "allow" THEN Accept(all, "open") ELSE Accept(new, h)
      /\ local' = [local EXCEPT ![h] =
           [k \in Nonces |-> IF k \in new THEN SetNX(local[h], k, start)[k] ELSE local[h][k]]]
      /\ req' = [req EXCEPT ![r] = Idle]
      /\ UNCHANGED <<now, mode, redis, intact>>
  BY DEF PipelineThrows, Degrade
<1>5. local \in [Hosts -> [Nonces -> Nat \cup {Absent}]] /\ local[h] \in [Nonces -> Nat \cup {Absent}]
  BY <1>0, <1>2 DEF RedisTypeOK
<1> HIDE DEF h, keys, start, all, new
<1>6. ASSUME NEW k \in Nonces
      PROVE  /\ local'[h][k] \in Nat \cup {Absent}
             /\ k \notin new => local'[h][k] = local[h][k]
             /\ k \in new => local'[h][k] >= ExpiresAt[k]
  <2>1. local'[h][k] = IF k \in new THEN SetNX(local[h], k, start)[k] ELSE local[h][k]
    BY <1>2, <1>4, <1>5
  <2>2. /\ SetNX(local[h], k, start)[k] \in Nat \cup {Absent}
        /\ ~Live(local[h], k) => SetNX(local[h], k, start)[k] >= ExpiresAt[k]
    BY <1>0, <1>1, <1>2, <1>5, SetOutlives
  <2> QED BY <1>3, <1>5, <2>1, <2>2
<1>7. /\ local' \in [Hosts -> [Nonces -> Nat \cup {Absent}]]
      /\ \A g \in Hosts \ {h} : local'[g] = local[g]
  <2>1. local'[h] \in [Nonces -> Nat \cup {Absent}]
    BY <1>2, <1>4, <1>5, <1>6
  <2> QED BY <1>2, <1>4, <1>5, <2>1
<1>8. \A q \in Requests, s \in Guards, k \in Nonces : Claims(q, s, k)' => Claims(q, s, k)
  BY <1>0, <1>4 DEF Claims, CallsTyped, Idle
<1>9. Guards' = Guards
  BY <1>4 DEF Guards
<1>10. CASE mode = "allow"
  <2>1. /\ fresh' \in [Nonces -> [Answerers -> Nat]]
        /\ \A k \in Nonces, b \in Answerers \ {"open"} : fresh'[k][b] = fresh[k][b]
    <3> DEFINE f == Accept(all, "open")
    <3>1. /\ f \in [Nonces -> [Answerers -> Nat]]
          /\ \A k \in Nonces, b \in Answerers \ {"open"} : f[k][b] = fresh[k][b]
      <4>1. RedisTypeOK /\ all \in SUBSET Nonces /\ "open" \in Answerers
        BY <1>0, <1>2
      <4> QED BY <4>1, Acceptance
    <3>2. fresh' = f
      BY <1>4, <1>10
    <3> HIDE DEF f
    <3> QED BY <3>1, <3>2
  <2>2. CallsTyped'
    BY <1>0, <1>4, <1>7, <2>1 DEF CallsTyped, RedisTypeOK, Idle
  <2>3. \A k \in Nonces : fresh'[k][Main] = fresh[k][Main]
    <3>1. Main \in Answerers \ {"open"}
      BY <1>0
    <3> QED BY <2>1, <3>1
  <2>4. NodesGiveOnce'
    BY <1>0, <1>4, <1>8, <1>9, <2>3 DEF NodesGiveOnce, GivenOnce
  <2> QED BY <1>4, <1>10, <2>2, <2>4 DEF RedisIInv, HostsGiveOnce, OthersSilent
<1>11. CASE mode # "allow"
  <2>1. /\ fresh' \in [Nonces -> [Answerers -> Nat]]
        /\ \A k \in Nonces, b \in Answerers \ {h} : fresh'[k][b] = fresh[k][b]
        /\ \A k \in Nonces : \/ fresh'[k][h] = fresh[k][h]
                             \/ /\ k \in new /\ now < ExpiresAt[k]
                                /\ fresh'[k][h] = fresh[k][h] + 1
    <3> DEFINE f == Accept(new, h)
    <3>0. h \in Answerers
      BY <1>0, <1>2
    <3>1. /\ f \in [Nonces -> [Answerers -> Nat]]
          /\ \A k \in Nonces, b \in Answerers \ {h} : f[k][b] = fresh[k][b]
          /\ \A k \in Nonces : \/ f[k][h] = fresh[k][h]
                               \/ /\ k \in new /\ now < ExpiresAt[k]
                                  /\ f[k][h] = fresh[k][h] + 1
      BY <1>0, <1>3, <3>0, Acceptance
    <3>2. fresh' = f
      BY <1>4, <1>11
    <3> HIDE DEF f
    <3> QED BY <3>1, <3>2
  <2>2. CallsTyped'
    BY <1>0, <1>4, <1>7, <2>1 DEF CallsTyped, RedisTypeOK, Idle
  <2>3. \A k \in Nonces : fresh'[k][Main] = fresh[k][Main]
    BY <1>0, <1>2, <2>1
  <2>4. NodesGiveOnce'
    BY <1>0, <1>4, <1>8, <1>9, <2>3 DEF NodesGiveOnce, GivenOnce
  <2>5. ASSUME mode = "fallback", NEW g \in Hosts, NEW k \in Nonces
        PROVE  fresh'[k][g] <= 1 /\ (local'[g][k] < ExpiresAt[k] => fresh'[k][g] = 0)
    <3>0. fresh[k][g] <= 1 /\ (local[g][k] < ExpiresAt[k] => fresh[k][g] = 0)
      BY <1>0, <2>5 DEF HostsGiveOnce
    <3>1. CASE g # h
      <4>1. fresh'[k][g] = fresh[k][g] /\ local'[g] = local[g]
        BY <1>0, <1>7, <2>1, <3>1
      <4> QED BY <3>0, <4>1
    <3>2. CASE g = h /\ k \notin new
      <4>1. fresh'[k][g] = fresh[k][g] /\ local'[g][k] = local[g][k]
        BY <1>6, <2>1, <3>2
      <4> QED BY <3>0, <4>1
    <3>3. CASE g = h /\ k \in new
      <4>1. local'[g][k] \in Nat \cup {Absent} /\ local'[g][k] >= ExpiresAt[k]
        BY <1>6, <3>3
      <4>2. ~(local'[g][k] < ExpiresAt[k])
        BY <1>0, <4>1 DEF Absent
      <4>3. local[g][k] \in Nat \cup {Absent} /\ ~(local[g][k] > now)
        BY <1>3, <1>5, <3>3 DEF Live
      <4>4. now < ExpiresAt[k] => fresh[k][g] = 0
        BY <1>0, <3>0, <4>3 DEF Absent
      <4>5. fresh'[k][g] <= 1
        BY <2>1, <3>0, <3>3, <4>4
      <4> QED BY <4>2, <4>5
    <3> QED BY <3>1, <3>2, <3>3
  <2>6. OthersSilent'
    <3>1. ASSUME NEW k \in Nonces, NEW a \in Answerers
          PROVE  \/ a = Main \/ fresh'[k][a] = 0
                 \/ mode' = "fallback" /\ a \in Hosts
                 \/ mode' = "allow"
      <4>1. CASE a = h /\ mode # "fallback"
        <5>1. new = {}
          BY <4>1 DEF new
        <5>2. fresh'[k][a] = fresh[k][a]
          BY <2>1, <4>1, <5>1
        <5> QED BY <1>0, <1>4, <5>2 DEF OthersSilent
      <4>2. CASE a = h /\ mode = "fallback"
        BY <1>2, <1>4, <4>2
      <4>3. CASE a # h
        <5>1. fresh'[k][a] = fresh[k][a]
          BY <2>1, <4>3
        <5> QED BY <1>0, <1>4, <5>1 DEF OthersSilent
      <4> QED BY <4>1, <4>2, <4>3
    <3> QED BY <3>1 DEF OthersSilent
  <2> QED BY <1>4, <2>2, <2>4, <2>5, <2>6 DEF RedisIInv, HostsGiveOnce
<1> QED BY <1>10, <1>11

LEMMA RedisNextInv == RedisIInv /\ [RedisNext]_redisVars => RedisIInv'
<1> SUFFICES ASSUME RedisIInv, [RedisNext]_redisVars PROVE RedisIInv'
  OBVIOUS
<1> USE RedisReplayAssumption
<1>0. /\ now \in Nat /\ CallsTyped /\ RedisTypeOK /\ Guards \subseteq Shards
      /\ redis \in [Shards -> [Nonces -> Nat \cup {Absent}]]
  BY DEF RedisIInv, CallsTyped, RedisTypeOK, Guards
<1>r. ASSUME NEW r \in Requests, NEW q \in {Idle} \cup Pipelines \cup Checks,
             req' = [req EXCEPT ![r] = q], UNCHANGED <<now, mode, local, fresh, intact>>,
             redis' \in [Shards -> [Nonces -> Nat \cup {Absent}]],
             q.pc = "pipeline" => mode # "cluster" /\ q.start <= now,
             q.pc = "cluster" => mode = "cluster" /\ q.start <= now
      PROVE  CallsTyped' /\ Guards' = Guards
  BY <1>0, <1>r DEF CallsTyped, RedisTypeOK, Guards
<1>1. ASSUME NEW r \in Requests, NEW h \in Hosts, NEW keys \in Batches, Reserve(r, h, keys)
      PROVE  RedisIInv'
  <2> DEFINE q == [pc |-> "pipeline", host |-> h, keys |-> keys, start |-> now, next |-> 1,
                   won |-> {}]
  <2>1. /\ mode # "cluster" /\ req' = [req EXCEPT ![r] = q]
        /\ UNCHANGED <<now, mode, redis, local, fresh, intact>>
    BY <1>1 DEF Reserve
  <2>2. q \in Pipelines /\ q.pc = "pipeline" /\ q.start = now /\ q.won = {}
    BY <1>0 DEF Pipelines
  <2> HIDE DEF q
  <2>r. redis' \in [Shards -> [Nonces -> Nat \cup {Absent}]] /\ now <= now
    BY <1>0, <2>1
  <2>3. CallsTyped' /\ Guards' = Guards
    BY <1>r, <2>1, <2>2, <2>r
  <2>4. \A p \in Requests, s \in Guards, k \in Nonces : Claims(p, s, k)' => Claims(p, s, k)
    BY <1>0, <2>1, <2>2 DEF Claims, CallsTyped
  <2> QED BY <1>0, <2>1, <2>3, <2>4, NothingGiven
<1>2. ASSUME NEW r \in Requests, PipelineSet(r) PROVE RedisIInv'
  <2> DEFINE k == req[r].keys[req[r].next]
             w == IF Live(redis[Main], k) THEN req[r].won ELSE req[r].won \cup {k}
             q == [req[r] EXCEPT !.next = @ + 1, !.won = w]
             start == req[r].start
  <2>0. /\ req[r] \in Pipelines /\ mode # "cluster" /\ req[r].start <= now
        /\ req[r].next <= Len(req[r].keys)
    BY <1>0, <1>2 DEF PipelineSet, CallsTyped, Idle, Checks
  <2>1. req[r].keys \in Seq(Nonces) /\ req[r].next \in Nat \ {0} /\ req[r].start \in Nat
    BY <2>0 DEF Pipelines
  <2>2. k \in Nonces
    BY <2>0, <2>1
  <2>3. /\ redis' = [redis EXCEPT ![Main] = SetNX(redis[Main], k, start)]
        /\ req' = [req EXCEPT ![r] = q]
        /\ UNCHANGED <<now, mode, local, fresh, intact>>
    BY <1>2 DEF PipelineSet
  <2>4. /\ q \in Pipelines /\ q.pc = "pipeline" /\ q.start = req[r].start
        /\ q.won = w
    <3> DEFINE n == req[r].next + 1
    <3>1. n \in Nat \ {0} /\ w \in SUBSET Nonces
      BY <2>0, <2>1, <2>2 DEF Pipelines
    <3>2. q = [req[r] EXCEPT !.next = n, !.won = w]
      OBVIOUS
    <3> HIDE DEF n, w, q
    <3> QED BY <2>0, <3>1, <3>2 DEF Pipelines
  <2>5. \A j \in Nonces : j \in q.won => j \in req[r].won \/ (j = k /\ ~Live(redis[Main], k))
    BY <2>4
  <2>9. start \in Nat /\ start <= now
    BY <2>0, <2>1
  <2>6. redis' \in [Shards -> [Nonces -> Nat \cup {Absent}]]
    BY <1>0, <2>0, <2>1, <2>2, <2>3, SetOutlives
  <2> HIDE DEF k, w, q, start
  <2>7. CallsTyped' /\ Guards' = Guards
    BY <1>0, <1>r, <2>0, <2>3, <2>4, <2>6
  <2>8. GivesTo(r, Main, k)
    <3>1. req[r].pc = "pipeline" /\ Guards = {Main}
      BY <2>0 DEF Pipelines, Guards
    <3> QED BY <1>0, <2>3, <2>4, <2>5, <3>1 DEF GivesTo, Claims, CallsTyped
  <2> QED BY <2>2, <2>3, <2>7, <2>8, <2>9, KeyGiven
<1>3. ASSUME NEW r \in Requests, PipelineReply(r) PROVE RedisIInv'
  <2>1. req[r] \in Pipelines
    BY <1>0, <1>3 DEF PipelineReply, CallsTyped, Idle, Checks
  <2>2. /\ fresh' = Accept(req[r].won, Main) /\ req' = [req EXCEPT ![r] = Idle]
        /\ UNCHANGED <<now, mode, redis, local, intact>>
    BY <1>3 DEF PipelineReply
  <2>3. req[r].won \in SUBSET Nonces /\ req[r].pc = "pipeline"
    BY <2>1 DEF Pipelines
  <2>4. \A s \in Guards, k \in req[r].won : Claims(r, s, k)
    BY <2>3 DEF Claims
  <2> QED BY <2>2, <2>3, <2>4, CallAnswers
<1>4. ASSUME NEW r \in Requests, PipelineThrows(r) PROVE RedisIInv'
  BY <1>4, HostDecides
<1>5. ASSUME NEW r \in Requests, NEW k \in Nonces, ClusterCheck(r, k) PROVE RedisIInv'
  <2> DEFINE q == [pc |-> "cluster", key |-> k, start |-> now, asked |-> Shards,
                   seen |-> FALSE, failed |-> FALSE]
  <2>1. /\ mode = "cluster" /\ req' = [req EXCEPT ![r] = q]
        /\ UNCHANGED <<now, mode, redis, local, fresh, intact>>
    BY <1>5 DEF ClusterCheck
  <2>2. q \in Checks /\ q.pc = "cluster" /\ q.start = now /\ q.asked = Shards
    BY <1>0 DEF Checks
  <2> HIDE DEF q
  <2>r. redis' \in [Shards -> [Nonces -> Nat \cup {Absent}]] /\ now <= now
    BY <1>0, <2>1
  <2>3. CallsTyped' /\ Guards' = Guards
    BY <1>r, <2>1, <2>2, <2>r
  <2>4. \A p \in Requests, s \in Guards, j \in Nonces : Claims(p, s, j)' => Claims(p, s, j)
    BY <1>0, <2>1, <2>2 DEF Claims, CallsTyped
  <2> QED BY <1>0, <2>1, <2>3, <2>4, NothingGiven
<1>6. ASSUME NEW r \in Requests, NEW n \in Shards, NodeChecks(r, n) PROVE RedisIInv'
  <2> DEFINE k == req[r].key
             q == [req[r] EXCEPT !.asked = @ \ {n}, !.seen = @ \/ Live(redis[n], k)]
             start == req[r].start
  <2>0. req[r] \in Checks /\ mode = "cluster" /\ req[r].start <= now
    BY <1>0, <1>6 DEF NodeChecks, CallsTyped, Idle, Pipelines
  <2>1. k \in Nonces /\ req[r].start \in Nat /\ req[r].seen \in BOOLEAN /\ req[r].pc = "cluster"
    BY <2>0 DEF Checks
  <2>3. /\ redis' = [redis EXCEPT ![n] = SetNX(redis[n], k, start)]
        /\ req' = [req EXCEPT ![r] = q]
        /\ UNCHANGED <<now, mode, local, fresh, intact>>
    BY <1>6 DEF NodeChecks
  <2>4. /\ q \in Checks /\ q.pc = "cluster" /\ q.start = req[r].start
        /\ q.key = k /\ q.asked = req[r].asked \ {n} /\ q.failed = req[r].failed
        /\ q.seen = (req[r].seen \/ Live(redis[n], k))
    BY <2>0, <2>1 DEF Checks
  <2>6. redis' \in [Shards -> [Nonces -> Nat \cup {Absent}]]
    BY <1>0, <2>0, <2>1, <2>3, SetOutlives
  <2> HIDE DEF q
  <2>7. CallsTyped' /\ Guards' = Guards
    BY <1>0, <1>r, <2>0, <2>3, <2>4, <2>6
  <2>8. GivesTo(r, n, k)
    BY <1>0, <2>1, <2>3, <2>4 DEF GivesTo, Claims, CallsTyped
  <2>9. start \in Nat /\ start <= now
    BY <2>0, <2>1
  <2> HIDE DEF k, start
  <2> QED BY <2>1, <2>3, <2>7, <2>8, <2>9, KeyGiven
<1>7. ASSUME NEW r \in Requests, NEW n \in Shards, NodeThrows(r, n) PROVE RedisIInv'
  <2> DEFINE q == [req[r] EXCEPT !.asked = @ \ {n}, !.failed = TRUE]
  <2>0. req[r] \in Checks /\ mode = "cluster" /\ req[r].start <= now
    BY <1>0, <1>7 DEF NodeThrows, CallsTyped, Idle, Pipelines
  <2>1. /\ req' = [req EXCEPT ![r] = q] /\ UNCHANGED <<now, mode, redis, local, fresh, intact>>
    BY <1>7 DEF NodeThrows
  <2>2. q \in Checks /\ q.pc = "cluster" /\ q.start = req[r].start /\ q.failed
    BY <2>0 DEF Checks
  <2> HIDE DEF q
  <2>3. CallsTyped' /\ Guards' = Guards
    BY <1>0, <1>r, <2>0, <2>1, <2>2
  <2>4. \A p \in Requests, s \in Guards, j \in Nonces : Claims(p, s, j)' => Claims(p, s, j)
    BY <1>0, <2>1, <2>2 DEF Claims, CallsTyped
  <2> QED BY <1>0, <2>1, <2>3, <2>4, NothingGiven
<1>8. ASSUME NEW r \in Requests, ClusterAnswers(r) PROVE RedisIInv'
  <2>0. /\ req[r] \in Checks /\ req[r].pc = "cluster" /\ req[r].asked = {}
        /\ req' = [req EXCEPT ![r] = Idle]
        /\ UNCHANGED <<now, mode, redis, local, intact>>
    BY <1>0, <1>8 DEF ClusterAnswers, CallsTyped, Idle, Pipelines
  <2>1. CASE req[r].failed \/ req[r].seen
    <3>1. UNCHANGED fresh
      BY <1>8, <2>1 DEF ClusterAnswers
    <3>2. CallsTyped' /\ Guards' = Guards
      BY <1>0, <1>r, <2>0, <3>1 DEF Idle
    <3>3. \A p \in Requests, s \in Guards, j \in Nonces : Claims(p, s, j)' => Claims(p, s, j)
      BY <1>0, <2>0 DEF Claims, CallsTyped, Idle
    <3> QED BY <1>0, <2>0, <3>1, <3>2, <3>3, NothingGiven
  <2>2. CASE ~req[r].failed /\ ~req[r].seen
    <3> DEFINE K == {req[r].key}
    <3>1. fresh' = Accept(K, Main) /\ K \in SUBSET Nonces
      BY <1>8, <2>0, <2>2 DEF ClusterAnswers, Checks
    <3>2. \A s \in Guards, k \in K : Claims(r, s, k)
      BY <2>0, <2>2 DEF Claims
    <3> HIDE DEF K
    <3> QED BY <2>0, <3>1, <3>2, CallAnswers
  <2> QED BY <2>1, <2>2
<1>9. ASSUME NEW n \in Shards, NodeRestarts(n) PROVE RedisIInv'
  <2>1. /\ mode = "cluster" /\ intact' = intact \ {n} /\ redis' = [redis EXCEPT ![n] = NewStore]
        /\ UNCHANGED <<now, mode, local, req, fresh>>
    BY <1>9 DEF NodeRestarts
  <2>2. Guards' \subseteq Guards /\ \A s \in Guards' : redis'[s] = redis[s]
    BY <1>0, <2>1 DEF Guards
  <2>3. CallsTyped'
    BY <1>0, <2>1 DEF CallsTyped, RedisTypeOK, NewStore
  <2>4. \A p \in Requests, s \in Guards, j \in Nonces : Claims(p, s, j)' => Claims(p, s, j)
    BY <2>1 DEF Claims
  <2> QED BY <1>0, <2>1, <2>2, <2>3, <2>4, NothingGiven
<1>10. CASE RedisTick \/ UNCHANGED redisVars
  <2>1. /\ now' \in {now, now + 1} /\ UNCHANGED <<mode, redis, local, req, fresh, intact>>
    BY <1>10 DEF RedisTick, redisVars
  <2>s. /\ \A r \in Requests : req[r].pc = "pipeline" => req[r].start \in Nat
        /\ \A r \in Requests : req[r].pc = "cluster" => req[r].start \in Nat
    BY <1>0 DEF CallsTyped, Idle, Pipelines, Checks
  <2>n. now' \in Nat /\ now' >= now
    BY <1>0, <2>1
  <2>t. \A x \in Nat : x <= now => x <= now'
    BY <1>0, <2>n
  <2>2. CallsTyped' /\ Guards' = Guards /\ now' >= now
    BY <1>0, <2>1, <2>s, <2>n, <2>t DEF CallsTyped, RedisTypeOK, Guards
  <2>3. \A p \in Requests, s \in Guards, j \in Nonces : Claims(p, s, j)' => Claims(p, s, j)
    BY <2>1 DEF Claims
  <2> QED BY <2>1, <2>2, <2>3, NothingGiven
<1> QED
  BY <1>1, <1>2, <1>3, <1>4, <1>5, <1>6, <1>7, <1>8, <1>9, <1>10 DEF RedisNext

(* A valid envelope is new once for whoever answers, whatever was lost on  *)
(* the way: per store in 'fallback', in the fleet in 'reject', and in a    *)
(* cluster while one node remembers (createRedisReplayStore,               *)
(* ClusterRedisReplayStore.check).                                         *)
THEOREM RedisFreshOnce == RedisSpec => []AnsweredFreshOnce
<1>1. RedisInit => RedisIInv
  BY RedisInitInv
<1>2. RedisIInv /\ [RedisNext]_redisVars => RedisIInv'
  BY RedisNextInv
<1>3. RedisIInv => AnsweredFreshOnce
  <2> SUFFICES ASSUME RedisIInv PROVE AnsweredFreshOnce
    OBVIOUS
  <2>0. /\ \A k \in Nonces, a \in Answerers : fresh[k][a] \in Nat
        /\ \A s \in Guards, k \in Nonces : fresh[k][Main] <= 1
        /\ HostsGiveOnce /\ OthersSilent
    BY DEF RedisIInv, CallsTyped, RedisTypeOK, NodesGiveOnce, GivenOnce
  <2>1. OncePerStore
    <3> SUFFICES ASSUME mode = "fallback", NEW k \in Nonces, NEW a \in Answerers
                 PROVE  fresh[k][a] <= 1
      BY DEF OncePerStore
    <3>1. CASE a = Main
      BY <2>0, <3>1 DEF Guards
    <3>2. CASE a \in Hosts
      BY <2>0, <3>2 DEF HostsGiveOnce
    <3>3. CASE a # Main /\ a \notin Hosts
      <4>1. fresh[k][a] = 0
        BY <2>0, <3>3 DEF OthersSilent
      <4> QED BY <4>1
    <3> QED BY <3>1, <3>2, <3>3
  <2>2. RejectFailsClosed
    <3> SUFFICES ASSUME mode = "reject", NEW k \in Nonces
                 PROVE  \A a, b \in Answerers :
                          fresh[k][a] <= 1 /\ (fresh[k][a] > 0 /\ fresh[k][b] > 0 => a = b)
      BY DEF RejectFailsClosed
    <3>1. fresh[k][Main] <= 1
      BY <2>0 DEF Guards
    <3>2. \A a \in Answerers : a = Main \/ fresh[k][a] = 0
      BY <2>0 DEF OthersSilent
    <3> QED BY <3>1, <3>2
  <2>3. ClusterOnce
    BY <2>0 DEF ClusterOnce, Guards
  <2> QED BY <2>1, <2>2, <2>3 DEF AnsweredFreshOnce
<1> QED BY <1>1, <1>2, <1>3, PTL DEF RedisSpec

-----------------------------------------------------------------------------
(* HTTP message signatures                                                 *)

(* A sequence, of whatever it holds. *)
Listed(s) == \E S : s \in Seq(S)

LEMMA EmptyList == Listed(<<>>) /\ DOMAIN <<>> = {}
<1>1. <<>> \in Seq(Nat)
  OBVIOUS
<1>2. DOMAIN <<>> = {}
  OBVIOUS
<1> QED BY <1>1, <1>2 DEF Listed

LEMMA ListGrows ==
  ASSUME NEW s, Listed(s), NEW x
  PROVE  /\ Listed(Append(s, x))
         /\ DOMAIN Append(s, x) = DOMAIN s \cup {Len(s) + 1} /\ Len(s) + 1 \notin DOMAIN s
         /\ Append(s, x)[Len(s) + 1] = x /\ \A i \in DOMAIN s : Append(s, x)[i] = s[i]
<1>1. PICK S : s \in Seq(S)
  BY DEF Listed
<1> DEFINE T == S \cup {x}
<1>2. s \in Seq(T) /\ x \in T
  BY <1>1
<1> HIDE DEF T
<1>3. Append(s, x) \in Seq(T) /\ Len(s) \in Nat /\ DOMAIN s = 1 .. Len(s)
  BY <1>2
<1>4. Listed(Append(s, x))
  BY <1>3 DEF Listed
<1>5. /\ DOMAIN Append(s, x) = DOMAIN s \cup {Len(s) + 1} /\ Len(s) + 1 \notin DOMAIN s
      /\ Append(s, x)[Len(s) + 1] = x /\ \A i \in DOMAIN s : Append(s, x)[i] = s[i]
  BY <1>2, <1>3
<1> QED BY <1>4, <1>5

(* t holds what s holds, and x. *)
Extends(t, s, x) ==
  Listed(t) /\ \A i \in DOMAIN t : t[i] = x \/ \E j \in DOMAIN s : t[i] = s[j]

LEMMA ListJoins ==
  ASSUME NEW s, Listed(s), NEW x
  PROVE  Extends(s \o <<x>>, s, x) /\ Extends(<<x>> \o s, s, x)
<1>1. PICK S : s \in Seq(S)
  BY DEF Listed
<1> DEFINE T == S \cup {x}
<1>2. s \in Seq(T) /\ x \in T /\ <<x>> \in Seq(T)
  BY <1>1
<1> HIDE DEF T
<1>3. /\ s \o <<x>> \in Seq(T) /\ <<x>> \o s \in Seq(T)
      /\ Len(s) \in Nat /\ DOMAIN s = 1 .. Len(s)
  BY <1>2
<1>4. Listed(s \o <<x>>) /\ Listed(<<x>> \o s)
  BY <1>3 DEF Listed
<1>5. \A i \in DOMAIN (s \o <<x>>) : (s \o <<x>>)[i] = x \/ \E j \in DOMAIN s : (s \o <<x>>)[i] = s[j]
  BY <1>2, <1>3
<1>6. \A i \in DOMAIN (<<x>> \o s) : (<<x>> \o s)[i] = x \/ \E j \in DOMAIN s : (<<x>> \o s)[i] = s[j]
  BY <1>2, <1>3
<1> QED BY <1>4, <1>5, <1>6 DEF Extends

(* A signature is over what a client signed, and stays so on its way. *)
SignedAs(s, g) ==
  /\ s.by = g.by /\ s.components = g.components
  /\ s.over = SignatureBase(g.components, g.params, g.message)

SigFields(s) == s = [components |-> s.components, params |-> s.params, by |-> s.by, over |-> s.over]

RequestFields(r) ==
  r = [message |-> r.message, sigs |-> r.sigs, changes |-> r.changes] /\ Listed(r.sigs)

SigsGenuine ==
  \A r \in request : /\ RequestFields(r)
                     /\ \A i \in DOMAIN r.sigs : /\ SigFields(r.sigs[i])
                                                 /\ \E g \in signings : SignedAs(r.sigs[i], g)

(* What a client signs names its agent in a field it covers, or none, and  *)
(* has the digest of its body.                                             *)
NamesAgent(g) ==
  \/ CoveredAgent(g) = {} /\ g.agent = NoBot
  \/ CoveredAgent(g) = {"signature-agent"} /\ g.message.agent = <<Plain(g.agent)>>
  \/ CoveredAgent(g) = {"signature-agent;key"} /\ g.message.agent = <<Labelled(g.agent)>>

SigningsHonest ==
  \A g \in signings :
    /\ NamesAgent(g)
    /\ "content-digest" \in g.components => \A d \in g.message.digest : d.of = g.message.body
    /\ g.params.created \in Int /\ g.params.expires \in Int

(* The nonce of a signature that was accepted is held until it expires,    *)
(* unless it was made to live longer than the maximum age.                 *)
Holds(n, p) == /\ n.key = p.keyid /\ n.nonce = p.nonce
               /\ n.until \in Int /\ n.until >= 2 * p.expires

NoncesHeld ==
  \A i \in DOMAIN verified :
    LET p == verified[i].params IN
    /\ p.created \in Int /\ p.expires \in Int
    /\ p.expires - p.created <= HsMaxAge => \E n \in hsNonces : Holds(n, p)

HsIInv ==
  /\ hsTime \in Nat /\ Listed(verified) /\ SigsGenuine /\ SigningsHonest /\ NoncesHeld
  /\ AcceptedWasSigned /\ SignatureUsedOnce

(* What a signature covers is what its client signed. *)
LEMMA CoveredIsSigned ==
  ASSUME NEW s, NEW g, NEW m, SignedAs(s, g), s.over = SignatureBase(s.components, s.params, m)
  PROVE  /\ s.params = g.params
         /\ \A c \in g.components : ResolveComponent(c, m) = ResolveComponent(c, g.message)
<1> DEFINE f == [c \in g.components |-> ResolveComponent(c, m)]
           h == [c \in g.components |-> ResolveComponent(c, g.message)]
<1>1. [params |-> s.params, lines |-> f] = [params |-> g.params, lines |-> h]
  BY DEF SignedAs, SignatureBase
<1>2. s.params = g.params /\ f = h
  <2> HIDE DEF f, h
  <2> QED BY <1>1
<1>3. \A c \in g.components : f[c] = h[c]
  BY <1>2
<1> QED BY <1>2, <1>3

(* The agent that is read from a field is the one its client named. *)
LEMMA AgentIsNamed ==
  ASSUME NEW s, NEW g, NEW m, s.components = g.components, NamesAgent(g),
         \A c \in g.components : ResolveComponent(c, m) = ResolveComponent(c, g.message),
         \A c \in g.components : ResolveComponent(c, m) # {},
         NEW agent \in AgentFromHeader(s, m)
  PROVE  agent = g.agent
<1>1. CoveredAgent(s) = CoveredAgent(g)
  BY DEF CoveredAgent
<1>2. CASE CoveredAgent(g) = {} /\ g.agent = NoBot
  BY <1>1, <1>2 DEF AgentFromHeader
<1>3. CASE CoveredAgent(g) = {"signature-agent"} /\ g.message.agent = <<Plain(g.agent)>>
  <2>1. "signature-agent" \in g.components
    BY <1>3 DEF CoveredAgent
  <2>2. m.agent = g.message.agent
    <3>1. /\ ResolveComponent("signature-agent", m) = IF m.agent = <<>> THEN {} ELSE {m.agent}
          /\ ResolveComponent("signature-agent", g.message) =
               IF g.message.agent = <<>> THEN {} ELSE {g.message.agent}
      BY DEF ResolveComponent
    <3> QED BY <2>1, <3>1
  <2>3. m.agent # <<>> /\ ToSet(m.agent) = {Plain(g.agent)}
    BY <1>3, <2>2 DEF ToSet
  <2>4. AgentFromHeader(s, m) =
          {a.url : a \in {b \in ToSet(m.agent) : Len(m.agent) = 1 /\ b.label = ""}}
    BY <1>1, <1>3, <2>3 DEF AgentFromHeader
  <2>5. \A b \in ToSet(m.agent) : b = Plain(g.agent)
    BY <2>3
  <2>6. Plain(g.agent).url = g.agent
    BY DEF Plain
  <2>7. \A a \in {b \in ToSet(m.agent) : Len(m.agent) = 1 /\ b.label = ""} : a.url = g.agent
    BY <2>5, <2>6
  <2>8. agent \in {a.url : a \in {b \in ToSet(m.agent) : Len(m.agent) = 1 /\ b.label = ""}}
    BY <2>4
  <2> QED BY <2>7, <2>8
<1>4. CASE CoveredAgent(g) = {"signature-agent;key"} /\ g.message.agent = <<Labelled(g.agent)>>
  <2>1. "signature-agent;key" \in g.components
    BY <1>4 DEF CoveredAgent
  <2>2. /\ ResolveComponent("signature-agent;key", m) = DictionaryMember(m.agent)
        /\ ResolveComponent("signature-agent;key", g.message) = DictionaryMember(g.message.agent)
    BY DEF ResolveComponent
  <2>3. DictionaryMember(g.message.agent) = {g.agent}
    <3> DEFINE field == g.message.agent
    <3>1. DOMAIN field = {1} /\ field[1] = Labelled(g.agent)
      <4>1. field = <<Labelled(g.agent)>>
        BY <1>4
      <4>2. DOMAIN <<Labelled(g.agent)>> = 1 .. 1 /\ 1 .. 1 = {1}
        OBVIOUS
      <4> QED BY <4>1, <4>2
    <3>2. Labelled(g.agent).label = "agent" /\ Labelled(g.agent).url = g.agent
      BY DEF Labelled
    <3>3. DictionaryMember(field) = {field[i].url : i \in {k \in DOMAIN field :
            /\ \A j \in DOMAIN field : field[j].label # ""
            /\ \A j \in DOMAIN field : j > k => field[j].label # field[k].label}}
      BY DEF DictionaryMember
    <3> HIDE DEF field
    <3>4. 1 \in {k \in DOMAIN field :
            /\ \A j \in DOMAIN field : field[j].label # ""
            /\ \A j \in DOMAIN field : j > k => field[j].label # field[k].label}
      <4>1. \A j \in DOMAIN field : j = 1 /\ field[j].label = "agent" /\ "agent" # ""
        BY <3>1, <3>2
      <4>2. \A j \in DOMAIN field : ~(j > 1)
        BY <4>1
      <4> QED BY <3>1, <4>1, <4>2
    <3>5. \A i \in DOMAIN field : field[i].url = g.agent
      BY <3>1, <3>2
    <3>6. DictionaryMember(field) = {g.agent}
      BY <3>1, <3>3, <3>4, <3>5
    <3> QED BY <3>6 DEF field
  <2>4. DictionaryMember(m.agent) = {g.agent}
    BY <2>1, <2>2, <2>3
  <2>5. m.agent # <<>>
    <3>1. DictionaryMember(<<>>) = {}
      <4>1. DOMAIN <<>> = {}
        OBVIOUS
      <4> QED BY <4>1, Zenon DEF DictionaryMember
    <3> QED BY <2>4, <3>1
  <2>6. AgentFromHeader(s, m) = DictionaryMember(m.agent)
    BY <1>1, <1>4, <2>5 DEF AgentFromHeader
  <2> QED BY <2>4, <2>6
<1> QED BY <1>2, <1>3, <1>4 DEF NamesAgent

(* The client that signs adds a genuine signature. *)
LEMMA SignatureAdded ==
  ASSUME HsIInv, NEW bot, NEW agent, NEW m, NEW components, NEW params, NEW sigs, NEW changes,
         SignMessage(bot, agent, m, components, params, sigs, changes),
         Listed(sigs),
         \A i \in DOMAIN sigs : SigFields(sigs[i]) /\ \E g \in signings : SignedAs(sigs[i], g),
         params.created \in Int, params.expires \in Int,
         LET g == [by |-> bot, agent |-> agent, message |-> m, params |-> params,
                   components |-> components]
         IN  /\ NamesAgent(g)
             /\ "content-digest" \in components => \A d \in m.digest : d.of = m.body,
         UNCHANGED <<hsTime, hsNonces, verified>>
  PROVE  HsIInv'
<1> DEFINE g == [by |-> bot, agent |-> agent, message |-> m, params |-> params,
                 components |-> components]
           s == [components |-> components, params |-> params, by |-> bot,
                 over |-> SignatureBase(components, params, m)]
<1>1. signings' = signings \cup {g}
  BY DEF SignMessage
<1>2. PICK joined \in {<<s>> \o sigs, sigs \o <<s>>} :
        request' = {[message |-> m, sigs |-> joined, changes |-> changes]}
  BY DEF SignMessage
<1>3. /\ g.by = bot /\ g.components = components /\ g.message = m /\ g.params = params
      /\ g.agent = agent
      /\ s.by = bot /\ s.components = components
      /\ s.over = SignatureBase(components, params, m)
      /\ SigFields(s)
  BY DEF SigFields
<1>4. SignedAs(s, g) /\ NamesAgent(g)
  BY <1>3 DEF SignedAs
<1> HIDE DEF g, s
<1>5. Listed(joined) /\ \A i \in DOMAIN joined : joined[i] = s \/ \E j \in DOMAIN sigs : joined[i] = sigs[j]
  <2>1. Extends(sigs \o <<s>>, sigs, s) /\ Extends(<<s>> \o sigs, sigs, s)
    BY ListJoins
  <2>2. joined = <<s>> \o sigs \/ joined = sigs \o <<s>>
    BY <1>2
  <2>3. Extends(joined, sigs, s)
    BY <2>1, <2>2
  <2> QED BY <2>3 DEF Extends
<1>6. SigsGenuine'
  <2> DEFINE r == [message |-> m, sigs |-> joined, changes |-> changes]
  <2>1. request' = {r} /\ r.sigs = joined
    BY <1>2
  <2>2. RequestFields(r)
    BY <1>5 DEF RequestFields
  <2>3. ASSUME NEW i \in DOMAIN joined
        PROVE  SigFields(joined[i]) /\ \E h \in signings' : SignedAs(joined[i], h)
    BY <1>1, <1>3, <1>4, <1>5
  <2> HIDE DEF r
  <2> QED BY <2>1, <2>2, <2>3 DEF SigsGenuine
<1>7. SigningsHonest'
  BY <1>1, <1>3, <1>4 DEF HsIInv, SigningsHonest
<1>8. AcceptedWasSigned'
  BY <1>1 DEF HsIInv, AcceptedWasSigned
<1> QED BY <1>6, <1>7, <1>8 DEF HsIInv, NoncesHeld, SignatureUsedOnce

(* The seconds of the clock are within half a second of it. *)
LEMMA ClockSeconds ==
  ASSUME hsTime \in Nat
  PROVE  Seconds \in Nat /\ 2 * Seconds <= hsTime /\ hsTime <= 2 * Seconds + 1
BY DEF Seconds

LEMMA ClientClock ==
  ASSUME hsTime \in Nat, NEW created \in Created, NEW lifetime \in HsLifetimes
  PROVE  created \in Int /\ created + lifetime \in Int
<1>1. Seconds \in Nat /\ HsSkew \in Nat /\ lifetime \in Nat
  BY ClockSeconds, HttpSignaturesAssumption
<1>2. created \in {Seconds - HsSkew, Seconds, Seconds + HsSkew}
  BY DEF Created
<1> QED BY <1>1, <1>2

LEMMA ClientSigns ==
  ASSUME HsIInv, NEW bot \in Bots, NEW query \in {"?", "?x"}, NEW body \in {"", "body"},
         NEW form \in {"string", "dictionary", "none"}, NEW identityOnly \in BOOLEAN,
         NEW created \in Created, NEW lifetime \in HsLifetimes,
         SignWebBotAuthRequest(bot, query, body, form, identityOnly, created, lifetime)
  PROVE  HsIInv'
<1> DEFINE field == CASE form = "string" -> <<Plain(bot)>>
                      [] form = "dictionary" -> <<Labelled(bot)>>
                      [] form = "none" -> <<>>
           digest == IF body = "" THEN {} ELSE {[alg |-> "sha-256", of |-> body]}
           m == [authority |-> "x", method |-> "x", path |-> "x", query |-> query,
                 body |-> body, agent |-> field, digest |-> digest]
           covered == CASE form = "string" -> {"signature-agent"}
                        [] form = "dictionary" -> {"signature-agent;key"}
                        [] form = "none" -> {}
           components == TargetComponents(m, identityOnly) \cup covered
                           \cup (IF body = "" THEN {} ELSE {"content-digest"})
           agent == IF form = "none" THEN NoBot ELSE bot
           params == Params(bot, created, lifetime)
           g == [by |-> bot, agent |-> agent, message |-> m, params |-> params,
                 components |-> components]
<1>1. /\ SignMessage(bot, agent, m, components, params, <<>>, 0)
      /\ UNCHANGED <<hsTime, hsNonces, verified>>
  BY DEF SignWebBotAuthRequest
<1>2. m.agent = field /\ m.digest = digest /\ m.body = body
  OBVIOUS
<1>3. components \cap AgentComponents = covered
  <2>1. TargetComponents(m, identityOnly) \cap AgentComponents = {}
    BY DEF TargetComponents, AgentComponents
  <2>2. covered \subseteq AgentComponents
    BY DEF AgentComponents
  <2>3. {"content-digest"} \cap AgentComponents = {}
    BY DEF AgentComponents
  <2> HIDE DEF covered, m
  <2> QED BY <2>1, <2>2, <2>3
<1>4. params.created \in Int /\ params.expires \in Int
  <2>1. created \in Int /\ created + lifetime \in Int
    BY ClientClock DEF HsIInv
  <2> QED BY <2>1 DEF Params
<1>5. g.components = components /\ g.agent = agent /\ g.message = m
  BY Zenon
<1> HIDE DEF components, m, params
<1>6. NamesAgent(g)
  <2>1. CoveredAgent(g) = covered
    BY <1>3, <1>5 DEF CoveredAgent
  <2>2. g.message.agent = field
    BY <1>2, <1>5
  <2> HIDE DEF g
  <2>3. CASE form = "string"
    BY <1>5, <2>1, <2>2, <2>3 DEF NamesAgent
  <2>4. CASE form = "dictionary"
    BY <1>5, <2>1, <2>2, <2>4 DEF NamesAgent
  <2>5. CASE form = "none"
    BY <1>5, <2>1, <2>5 DEF NamesAgent
  <2> QED BY <2>3, <2>4, <2>5
<1>7. "content-digest" \in components => \A d \in m.digest : d.of = m.body
  <2>1. CASE body = ""
    BY <1>2, <2>1
  <2>2. CASE body # ""
    <3>1. digest = {[alg |-> "sha-256", of |-> body]}
      BY <2>2
    <3>2. [alg |-> "sha-256", of |-> body].of = body
      OBVIOUS
    <3> HIDE DEF digest
    <3> QED BY <1>2, <3>1, <3>2
  <2> QED BY <2>1, <2>2
<1>8. Listed(<<>>) /\ DOMAIN <<>> = {}
  BY EmptyList
<1> HIDE DEF agent
<1> QED BY <1>1, <1>4, <1>6, <1>7, <1>8, SignatureAdded

LEMMA AnotherSigns ==
  ASSUME HsIInv, NEW bot \in Bots, CoSign(bot)
  PROVE  HsIInv'
<1>1. PICK r \in request :
        SignMessage(bot, NoBot, r.message, TargetComponents(r.message, FALSE),
                    Params(bot, Seconds, HsMaxAge), r.sigs, r.changes)
  BY DEF CoSign
<1> DEFINE m == r.message
           components == TargetComponents(m, FALSE)
           params == Params(bot, Seconds, HsMaxAge)
           g == [by |-> bot, agent |-> NoBot, message |-> m, params |-> params,
                 components |-> components]
<1>2. UNCHANGED <<hsTime, hsNonces, verified>>
  BY DEF CoSign
<1>3. components \cap AgentComponents = {} /\ "content-digest" \notin components
  BY DEF TargetComponents, AgentComponents
<1>4. params.created \in Int /\ params.expires \in Int
  <2>1. Seconds \in Int /\ Seconds + HsMaxAge \in Int
    BY ClockSeconds, HttpSignaturesAssumption DEF HsIInv
  <2> QED BY <2>1 DEF Params
<1>5. g.components = components /\ g.agent = NoBot
  BY Zenon
<1> HIDE DEF components, params
<1>6. NamesAgent(g)
  <2> HIDE DEF g
  <2> QED BY <1>3, <1>5 DEF NamesAgent, CoveredAgent
<1>7. /\ Listed(r.sigs)
      /\ \A i \in DOMAIN r.sigs : /\ SigFields(r.sigs[i])
                                  /\ \E h \in signings : SignedAs(r.sigs[i], h)
  BY DEF HsIInv, SigsGenuine, RequestFields
<1> QED BY <1>1, <1>2, <1>3, <1>4, <1>6, <1>7, SignatureAdded DEF components, params

(* On its way a request keeps its signatures, though not what they say of  *)
(* themselves.                                                             *)
Same(s, t) == s.by = t.by /\ s.components = t.components /\ s.over = t.over /\ SigFields(t)

LEMMA ChangeKeepsSignatures ==
  ASSUME NEW r, RequestFields(r), \A i \in DOMAIN r.sigs : SigFields(r.sigs[i]),
         NEW other \in Changed(r)
  PROVE  /\ RequestFields(other) /\ DOMAIN other.sigs = DOMAIN r.sigs
         /\ \A i \in DOMAIN r.sigs : Same(r.sigs[i], other.sigs[i])
<1>1. r = [message |-> r.message, sigs |-> r.sigs, changes |-> r.changes] /\ Listed(r.sigs)
  BY DEF RequestFields
<1>2. \A i \in DOMAIN r.sigs : Same(r.sigs[i], r.sigs[i])
  BY DEF Same
<1>3. ASSUME NEW x, other = [r EXCEPT !.message = x]
      PROVE  RequestFields(other) /\ other.sigs = r.sigs
  <2>1. other = [message |-> x, sigs |-> r.sigs, changes |-> r.changes]
    BY <1>1, <1>3
  <2> QED BY <1>1, <2>1 DEF RequestFields
<1>4. ASSUME NEW i \in DOMAIN r.sigs, NEW x, other = [r EXCEPT !.sigs[i].params = x]
      PROVE  /\ RequestFields(other) /\ DOMAIN other.sigs = DOMAIN r.sigs
             /\ \A j \in DOMAIN r.sigs : Same(r.sigs[j], other.sigs[j])
  <2> DEFINE s == [r.sigs[i] EXCEPT !.params = x]
             S == [r.sigs EXCEPT ![i] = s]
  <2>1. other = [message |-> r.message, sigs |-> S, changes |-> r.changes]
    BY <1>1, <1>4
  <2>2. Same(r.sigs[i], s)
    <3>1. SigFields(r.sigs[i])
      OBVIOUS
    <3>2. s = [components |-> r.sigs[i].components, params |-> x, by |-> r.sigs[i].by,
               over |-> r.sigs[i].over]
      BY <3>1 DEF SigFields
    <3> QED BY <3>2 DEF Same, SigFields
  <2> HIDE DEF s
  <2>3. DOMAIN S = DOMAIN r.sigs /\ S[i] = s /\ \A j \in DOMAIN r.sigs : j # i => S[j] = r.sigs[j]
    OBVIOUS
  <2>4. Listed(S)
    <3>1. PICK T : r.sigs \in Seq(T)
      BY <1>1 DEF Listed
    <3>2. r.sigs \in Seq(T \cup {s})
      BY <3>1
    <3>3. S \in Seq(T \cup {s})
      BY <3>2
    <3> QED BY <3>3 DEF Listed
  <2> HIDE DEF S
  <2>5. other.sigs = S /\ RequestFields(other)
    BY <2>1, <2>4 DEF RequestFields
  <2>6. \A j \in DOMAIN r.sigs : Same(r.sigs[j], S[j])
    BY <1>2, <2>2, <2>3
  <2> QED BY <2>3, <2>5, <2>6
<1>5. \/ \E x : other = [r EXCEPT !.message = x]
      \/ \E i \in DOMAIN r.sigs : \E x : other = [r EXCEPT !.sigs[i].params = x]
  BY DEF Changed
<1> QED BY <1>2, <1>3, <1>4, <1>5

LEMMA RequestChanges ==
  ASSUME HsIInv, ChangeRequest
  PROVE  HsIInv'
<1>1. PICK r \in request : \E other \in Changed(r) : request' = {[other EXCEPT !.changes = @ + 1]}
  BY DEF ChangeRequest
<1>2. PICK other \in Changed(r) : request' = {[other EXCEPT !.changes = @ + 1]}
  BY <1>1
<1>3. UNCHANGED <<hsTime, signings, hsNonces, verified>>
  BY DEF ChangeRequest
<1>4. /\ RequestFields(r)
      /\ \A i \in DOMAIN r.sigs : SigFields(r.sigs[i]) /\ \E g \in signings : SignedAs(r.sigs[i], g)
  BY DEF HsIInv, SigsGenuine
<1>5. /\ RequestFields(other) /\ DOMAIN other.sigs = DOMAIN r.sigs
      /\ \A i \in DOMAIN r.sigs : Same(r.sigs[i], other.sigs[i])
  BY <1>4, ChangeKeepsSignatures
<1> DEFINE q == [other EXCEPT !.changes = @ + 1]
<1>6. RequestFields(q) /\ q.sigs = other.sigs
  <2>1. q = [message |-> other.message, sigs |-> other.sigs, changes |-> other.changes + 1]
    BY <1>5 DEF RequestFields
  <2> QED BY <1>5, <2>1 DEF RequestFields
<1>7. request' = {q}
  BY <1>2
<1> HIDE DEF q
<1>8. SigsGenuine'
  BY <1>3, <1>4, <1>5, <1>6, <1>7 DEF SigsGenuine, Same, SignedAs
<1> QED BY <1>3, <1>8
      DEF HsIInv, SigningsHonest, NoncesHeld, AcceptedWasSigned, SignatureUsedOnce

(* What verifyWebBotAuthRequest() does with the signature it chose. *)
Takes(r, s, agent) ==
  /\ Covers(s, r.message) /\ Timely(s.params)
  /\ Authentic(s, r.message, agent) /\ BodyMatches(s, r.message)
  /\ ~\E n \in hsNonces :
        n.key = s.params.keyid /\ n.nonce = s.params.nonce /\ n.until > hsTime
  /\ hsNonces' = hsNonces \cup {[key |-> s.params.keyid, nonce |-> s.params.nonce,
                                 until |-> HoldUntil]}
  /\ verified' = Append(verified, [message |-> r.message, agent |-> agent,
                                   keyid |-> s.params.keyid, params |-> s.params])

WasSigned(g, v) ==
  /\ g.by = v.keyid /\ g.params = v.params /\ g.agent = v.agent
  /\ v.message.body # "" => v.message.body = g.message.body
  /\ \A c \in g.components : ResolveComponent(c, v.message) = ResolveComponent(c, g.message)

(* A request is accepted: its client signed it, and its nonce is held for  *)
(* as long as the signature could be used again.                           *)
LEMMA RequestAccepted ==
  ASSUME HsIInv, VerifyWebBotAuthRequest
  PROVE  HsIInv'
<1>a. PICK r \in request : \E k \in FirstCandidate(r) :
        \E agent \in AgentFromHeader(r.sigs[k], r.message) : Takes(r, r.sigs[k], agent)
  BY DEF VerifyWebBotAuthRequest, Takes
<1>b. PICK i \in FirstCandidate(r) :
        \E agent \in AgentFromHeader(r.sigs[i], r.message) : Takes(r, r.sigs[i], agent)
  BY <1>a
<1>c. PICK agent \in AgentFromHeader(r.sigs[i], r.message) : Takes(r, r.sigs[i], agent)
  BY <1>b
<1>d. i \in DOMAIN r.sigs
  BY DEF FirstCandidate, Candidates
<1> DEFINE s == r.sigs[i]
           m == r.message
           p == s.params
           v == [message |-> m, agent |-> agent, keyid |-> p.keyid, params |-> p]
           n == [key |-> p.keyid, nonce |-> p.nonce, until |-> HoldUntil]
<1>1. /\ Covers(s, m) /\ Timely(p) /\ Authentic(s, m, agent) /\ BodyMatches(s, m)
      /\ ~\E x \in hsNonces : x.key = p.keyid /\ x.nonce = p.nonce /\ x.until > hsTime
      /\ verified' = Append(verified, v) /\ hsNonces' = hsNonces \cup {n}
  BY <1>c DEF Takes
<1>2. /\ UNCHANGED <<hsTime, request, signings>>
      /\ verified' = Append(verified, v) /\ hsNonces' = hsNonces \cup {n}
  BY <1>1 DEF VerifyWebBotAuthRequest
<1>3. PICK g \in signings : SignedAs(s, g)
  BY <1>d DEF HsIInv, SigsGenuine
<1>4. /\ NamesAgent(g) /\ g.params.created \in Int /\ g.params.expires \in Int
      /\ "content-digest" \in g.components => \A d \in g.message.digest : d.of = g.message.body
  BY DEF HsIInv, SigningsHonest
<1>5. /\ s.by = g.by /\ s.by = p.keyid /\ s.components = g.components
      /\ s.over = SignatureBase(s.components, p, m)
      /\ \A c \in g.components : ResolveComponent(c, m) # {}
  BY <1>1, <1>3 DEF Authentic, ResolveKey, SignedAs
<1>6. p = g.params /\ \A c \in g.components : ResolveComponent(c, m) = ResolveComponent(c, g.message)
  BY <1>3, <1>5, CoveredIsSigned
<1>7. agent = g.agent
  BY <1>4, <1>5, <1>6, AgentIsNamed
<1>8. m.body # "" => m.body = g.message.body
  <2> SUFFICES ASSUME m.body # "" PROVE m.body = g.message.body
    OBVIOUS
  <2>1. "content-digest" \in g.components
    BY <1>1, <1>5 DEF Covers
  <2>2. VerifyContentDigest(m.digest, m.body)
    BY <1>1, <1>5, <2>1 DEF BodyMatches
  <2>3. PICK d \in m.digest : d.of = m.body
    BY <2>2 DEF VerifyContentDigest
  <2>4. /\ ResolveComponent("content-digest", m) = IF m.digest = {} THEN {} ELSE {m.digest}
        /\ ResolveComponent("content-digest", g.message) =
             IF g.message.digest = {} THEN {} ELSE {g.message.digest}
    BY DEF ResolveComponent
  <2>5. m.digest = g.message.digest
    BY <1>6, <2>1, <2>3, <2>4
  <2> QED BY <1>4, <2>1, <2>3, <2>5
<1>v. v.keyid = p.keyid /\ v.params = p /\ v.agent = agent /\ v.message = m
  OBVIOUS
<1>n. n.key = p.keyid /\ n.nonce = p.nonce /\ n.until = HoldUntil
  OBVIOUS
<1>t. Timely(p) /\ ~\E x \in hsNonces : x.key = p.keyid /\ x.nonce = p.nonce /\ x.until > hsTime
  BY <1>1
<1>p. p.created \in Int /\ p.expires \in Int
  BY <1>4, <1>6
<1> HIDE DEF v, n, s, m, p
<1>9. /\ Listed(verified') /\ DOMAIN verified' = DOMAIN verified \cup {Len(verified) + 1}
      /\ Len(verified) + 1 \notin DOMAIN verified
      /\ verified'[Len(verified) + 1] = v /\ \A k \in DOMAIN verified : verified'[k] = verified[k]
  <2>1. Listed(verified)
    BY DEF HsIInv
  <2> QED BY <1>2, <2>1, ListGrows
<1> DEFINE last == Len(verified) + 1
<1> HIDE DEF last
<1>10. AcceptedWasSigned'
  <2>1. ASSUME NEW k \in DOMAIN verified' PROVE \E h \in signings : WasSigned(h, verified'[k])
    <3>1. CASE k \in DOMAIN verified
      <4>1. verified'[k] = verified[k]
        BY <1>9, <3>1
      <4>2. \E h \in signings : WasSigned(h, verified[k])
        BY <3>1 DEF HsIInv, AcceptedWasSigned, WasSigned
      <4> QED BY <4>1, <4>2
    <3>2. CASE k \notin DOMAIN verified
      <4>1. verified'[k] = v
        BY <1>9, <3>2
      <4>2. /\ g.by = v.keyid /\ g.params = v.params /\ g.agent = v.agent
            /\ v.message.body # "" => v.message.body = g.message.body
        BY <1>5, <1>6, <1>7, <1>8, <1>v
      <4>3. \A c \in g.components : ResolveComponent(c, v.message) = ResolveComponent(c, g.message)
        BY <1>6, <1>v
      <4>4. WasSigned(g, v)
        BY <4>2, <4>3 DEF WasSigned
      <4> QED BY <4>1, <4>4
    <3> QED BY <3>1, <3>2
  <2> QED BY <1>2, <2>1 DEF AcceptedWasSigned, WasSigned
<1>11. /\ hsTime \in Nat /\ HsMaxAge \in Nat /\ HsSkew \in Nat
       /\ Seconds \in Nat /\ 2 * Seconds <= hsTime /\ hsTime <= 2 * Seconds + 1
  BY ClockSeconds, HttpSignaturesAssumption DEF HsIInv
<1>12. p.created <= Seconds + HsSkew /\ Seconds < p.expires
  BY <1>t DEF Timely
<1>13. p.expires - p.created <= HsMaxAge => Holds(n, p)
  <2>1. HoldUntil = hsTime + 2 * (HsMaxAge + HsSkew)
    BY DEF HoldUntil
  <2>2. p.expires - p.created <= HsMaxAge => 2 * p.expires <= hsTime + 2 * (HsMaxAge + HsSkew)
    BY <1>11, <1>12, <1>p
  <2>3. HoldUntil \in Int
    BY <1>11, <2>1
  <2> QED BY <1>n, <2>1, <2>2, <2>3 DEF Holds
<1>14. NoncesHeld'
  <2>1. ASSUME NEW k \in DOMAIN verified'
        PROVE  LET o == verified'[k].params IN
               /\ o.created \in Int /\ o.expires \in Int
               /\ o.expires - o.created <= HsMaxAge => \E x \in hsNonces' : Holds(x, o)
    <3>1. CASE k \in DOMAIN verified
      <4>1. verified'[k] = verified[k]
        BY <1>9, <3>1
      <4> QED BY <1>2, <3>1, <4>1 DEF HsIInv, NoncesHeld
    <3>2. CASE k \notin DOMAIN verified
      <4>1. verified'[k] = v
        BY <1>9, <3>2
      <4> QED BY <1>2, <1>p, <1>13, <1>v, <4>1
    <3> QED BY <3>1, <3>2
  <2> QED BY <2>1 DEF NoncesHeld
<1>15. ASSUME NEW k \in DOMAIN verified, verified[k].params = p
       PROVE  p.expires - p.created > HsMaxAge
  <2> SUFFICES ASSUME p.expires - p.created <= HsMaxAge PROVE FALSE
    BY <1>p, <1>11
  <2>1. PICK x \in hsNonces : Holds(x, p)
    BY <1>15 DEF HsIInv, NoncesHeld
  <2>2. x.until > hsTime
    BY <1>p, <1>11, <1>12, <2>1 DEF Holds
  <2> QED BY <1>t, <2>1, <2>2 DEF Holds
<1>16. SignatureUsedOnce'
  <2>1. ASSUME NEW j \in DOMAIN verified', NEW k \in DOMAIN verified', j # k,
               verified'[j].params = verified'[k].params
        PROVE  verified'[j].params.expires - verified'[j].params.created > HsMaxAge
    <3>1. CASE j \in DOMAIN verified /\ k \in DOMAIN verified
      <4>1. verified'[j] = verified[j] /\ verified'[k] = verified[k]
        BY <1>9, <3>1
      <4> QED BY <2>1, <3>1, <4>1 DEF HsIInv, SignatureUsedOnce
    <3>2. CASE j \in DOMAIN verified /\ k \notin DOMAIN verified
      <4>1. verified'[j] = verified[j] /\ verified'[k] = v
        BY <1>9, <3>2
      <4> QED BY <1>15, <1>v, <2>1, <3>2, <4>1
    <3>3. CASE j \notin DOMAIN verified /\ k \in DOMAIN verified
      <4>1. verified'[k] = verified[k] /\ verified'[j] = v
        BY <1>9, <3>3
      <4> QED BY <1>15, <1>v, <2>1, <3>3, <4>1
    <3>4. CASE j \notin DOMAIN verified /\ k \notin DOMAIN verified
      BY <1>9, <2>1, <3>4
    <3> QED BY <3>1, <3>2, <3>3, <3>4
  <2> QED BY <2>1 DEF SignatureUsedOnce
<1>17. hsTime' \in Nat /\ SigsGenuine' /\ SigningsHonest'
  BY <1>2 DEF HsIInv, SigsGenuine, SigningsHonest
<1> QED BY <1>9, <1>10, <1>14, <1>16, <1>17 DEF HsIInv

(* What is accepted as an agent's request is one the agent signed, however *)
(* it was changed or signed again on its way, and a signature of ordinary  *)
(* lifetime is accepted once (verifyWebBotAuthRequest).                    *)
THEOREM RequestsAccepted == HsSpec => []AcceptedRequestsHold
<1>1. HsInit => HsIInv
  <2> SUFFICES ASSUME HsInit PROVE HsIInv
    OBVIOUS
  <2>1. hsTime \in Nat
    BY HttpSignaturesAssumption DEF HsInit
  <2>2. Listed(verified) /\ DOMAIN verified = {}
    BY EmptyList DEF HsInit
  <2> QED BY <2>1, <2>2
        DEF HsInit, HsIInv, SigsGenuine, SigningsHonest, NoncesHeld, AcceptedWasSigned,
            SignatureUsedOnce
<1>2. HsIInv /\ [HsNext]_hsVars => HsIInv'
  <2> SUFFICES ASSUME HsIInv, [HsNext]_hsVars PROVE HsIInv'
    OBVIOUS
  <2>1. CASE HsLater \/ UNCHANGED hsVars
    <3>1. hsTime' \in Nat /\ UNCHANGED <<request, signings, hsNonces, verified>>
      BY <2>1 DEF HsLater, hsVars, HsIInv
    <3> QED BY <3>1
          DEF HsIInv, SigsGenuine, SigningsHonest, NoncesHeld, AcceptedWasSigned,
              SignatureUsedOnce
  <2>3. ASSUME NEW bot \in Bots, CoSign(bot) PROVE HsIInv'
    BY <2>3, AnotherSigns
  <2>4. CASE ChangeRequest
    BY <2>4, RequestChanges
  <2>5. CASE VerifyWebBotAuthRequest
    BY <2>5, RequestAccepted
  <2>6. CASE \E bot \in Bots, query \in {"?", "?x"}, body \in {"", "body"},
                form \in {"string", "dictionary", "none"}, identityOnly \in BOOLEAN,
                created \in Created, lifetime \in HsLifetimes :
               SignWebBotAuthRequest(bot, query, body, form, identityOnly, created, lifetime)
    <3>1. PICK bot \in Bots, query \in {"?", "?x"}, body \in {"", "body"},
               form \in {"string", "dictionary", "none"}, identityOnly \in BOOLEAN,
               created \in Created, lifetime \in HsLifetimes :
               SignWebBotAuthRequest(bot, query, body, form, identityOnly, created, lifetime)
      BY <2>6, Zenon
    <3> QED BY <3>1, ClientSigns
  <2>7. CASE HsNext
    BY <2>1, <2>3, <2>4, <2>5, <2>6, <2>7 DEF HsNext
  <2> QED BY <2>1, <2>7
<1>3. HsIInv => AcceptedRequestsHold
  BY DEF HsIInv, AcceptedRequestsHold
<1> QED BY <1>1, <1>2, <1>3, PTL DEF HsSpec

-----------------------------------------------------------------------------
(* Envelopes between the SDKs                                              *)

Canonical(sdk, e) ==
  CASE sdk = "ts" -> TsCanonical(e)
    [] sdk = "browser" -> BrowserCanonical(e)
    [] sdk = "python" -> PyCanonical(e)
    [] sdk = "rust" -> RustCanonical(e)
    [] sdk = "go" -> GoCanonical(e)

(* What a canonical form c tells of its envelope e, whichever SDK wrote it. *)
TellsOf(c, e) ==
  /\ c.opt = "text" <=> e.opt = "text"
  /\ c.content = "plain" <=> e.content = "plain"
  /\ c.nonce = e.nonce
  /\ Truncated(c.ts) = Truncated(e.ts)
  /\ Truncated(c.ttl) = Truncated(e.ttl)

LEMMA TruncatedTwice ==
  ASSUME NEW n \in Int
  PROVE  /\ Truncated(n) \in Int /\ Truncated(Truncated(n)) = Truncated(n)
         /\ Truncated(n) <= n /\ n <= Truncated(n) + 1
         /\ ~Fraction(n) => Truncated(n) = n
<1>1. n % 2 \in {0, 1} /\ (n - (n % 2)) % 2 = 0
  BY SMT
<1> QED BY <1>1 DEF Truncated, Fraction

LEMMA EnvelopeFields ==
  ASSUME NEW e \in SdkEnvelopes
  PROVE  /\ e.opt \in OptValues /\ e.content \in {"plain", "separator"}
         /\ e.ts \in Int /\ e.ttl \in Int
BY SdkAssumption DEF SdkEnvelopes

LEMMA CanonicalTells ==
  ASSUME NEW sdk \in Sdks, NEW e \in SdkEnvelopes
  PROVE  TellsOf(Canonical(sdk, e), e)
<1>1. /\ e.opt \in OptValues /\ e.content \in {"plain", "separator"}
      /\ e.ts \in Int /\ e.ttl \in Int
  BY EnvelopeFields
<1>2. PICK ts, ttl : /\ ts = Truncated(e.ts) /\ ttl = Truncated(e.ttl)
                     /\ Truncated(ts) = ts /\ Truncated(ttl) = ttl
  BY <1>1, TruncatedTwice
<1>3. CASE sdk \in {"ts", "browser"}
  <2>1. Canonical(sdk, e) = TsCanonical(e)
    BY <1>3 DEF Canonical, BrowserCanonical
  <2> QED BY <1>1, <2>1 DEF TellsOf, TsCanonical, OptValues, Omitted
<1>4. CASE sdk = "rust"
  <2>1. Canonical(sdk, e) = RustCanonical(e)
    BY <1>4 DEF Canonical
  <2> QED BY <1>1, <2>1 DEF TellsOf, RustCanonical, TsCanonical, OptValues, Omitted
<1>5. CASE sdk = "python"
  <2>1. Canonical(sdk, e) = PyCanonical(e)
    BY <1>5 DEF Canonical
  <2>2. PyCanonical(e) = [RustCanonical(e) EXCEPT !.ts = ts, !.ttl = ttl]
    BY <1>2 DEF PyCanonical
  <2> QED BY <1>1, <1>2, <2>1, <2>2 DEF TellsOf, RustCanonical, TsCanonical, OptValues, Omitted
<1>6. CASE sdk = "go"
  <2>1. Canonical(sdk, e) = GoCanonical(e)
    BY <1>6 DEF Canonical
  <2> QED BY <1>1, <2>1 DEF TellsOf, GoCanonical, TsCanonical, OptValues, Omitted, Escaped
<1> QED BY <1>3, <1>4, <1>5, <1>6 DEF Sdks

(* A signature is over the canonical form of its SDK, and so is what a     *)
(* peer verifies.                                                          *)
LEMMA SignedOver ==
  ASSUME NEW sdk \in Sdks, NEW e, NEW alg \in SdkAlgs(sdk)
  PROVE  Sign(sdk, e, alg) = [alg |-> alg, over |-> Canonical(sdk, e)]
BY DEF Sdks, Sign, TsSign, BrowserSign, PySign, RustSign, GoSign, Canonical, SdkAlgs

LEMMA VerifiedOver ==
  ASSUME NEW sdk \in Sdks, NEW m, NEW key
  PROVE  Verify(sdk, m, key) <=>
           /\ m.alg = key /\ m.sig = [alg |-> key, over |-> Canonical(sdk, m.env)]
           /\ sdk = "browser" => key = "ED25519"
BY DEF Sdks, Verify, TsVerify, BrowserVerify, PyVerify, RustVerify, GoVerify, Canonical

LEMMA ValidForAll ==
  ASSUME NEW sdk \in Sdks, NEW e, NEW at
  PROVE  ValidFor(sdk, e, at) <=> TsValid(e, at)
BY DEF Sdks, ValidFor, BrowserValid, PyValid, RustValid, GoValid

(* A decoded text has the text's values.                                   *)
LEMMA DecodedText ==
  ASSUME NEW sdk \in Sdks, NEW t, t.env \in SdkEnvelopes,
         NEW m, m = Decoded(sdk, t)
  PROVE  /\ m.alg = DecodedAlg(t) /\ m.sig = t.sig /\ m.env \in SdkEnvelopes
         /\ m.env.opt = "text" <=> t.env.opt = "text"
         /\ m.env.content = t.env.content /\ m.env.nonce = t.env.nonce
         /\ m.env.ts = t.env.ts /\ m.env.ttl = t.env.ttl
         /\ t.env.opt # "null" => m.env = t.env
<1>1. CASE sdk = "rust"
  <2>1. PICK d : d = [t.env EXCEPT !.opt = IF @ = "null" THEN "absent" ELSE @]
    OBVIOUS
  <2>2. m = [env |-> d, alg |-> DecodedAlg(t), sig |-> t.sig]
    BY <1>1, <2>1 DEF Decoded, RustDecoded
  <2>3. PICK e \in SdkEnvelopes : e = t.env
    OBVIOUS
  <2>4. /\ d \in SdkEnvelopes /\ (d.opt = "text" <=> e.opt = "text") /\ d.content = e.content
        /\ d.nonce = e.nonce /\ d.ts = e.ts /\ d.ttl = e.ttl
        /\ e.opt # "null" => d = e
    BY <2>1, <2>3 DEF SdkEnvelopes, OptValues
  <2> QED BY <2>2, <2>3, <2>4
<1>2. CASE sdk # "rust"
  <2>1. m = [env |-> t.env, alg |-> DecodedAlg(t), sig |-> t.sig]
    BY <1>2 DEF Sdks, Decoded, PyDecoded, TsDecoded
  <2> QED BY <2>1
<1> QED BY <1>1, <1>2

(* On the common domain all SDKs write the same canonical form.            *)
LEMMA CommonCanonical ==
  ASSUME NEW sdk \in Sdks, NEW e \in SdkEnvelopes, Common(e)
  PROVE  Canonical(sdk, e) = TsCanonical(e)
<1>1. /\ e.opt \in {"absent", "text"} /\ e.content = "plain"
      /\ Truncated(e.ts) = e.ts /\ Truncated(e.ttl) = e.ttl
  BY EnvelopeFields, TruncatedTwice DEF Common, Whole
<1>2. PICK o, r : o = (IF e.opt = "absent" THEN Omitted ELSE "text") /\ r = TsCanonical(e)
  OBVIOUS
<1>3. r = [opt |-> o, content |-> "plain", nonce |-> e.nonce, ts |-> e.ts, ttl |-> e.ttl]
  BY <1>1, <1>2 DEF TsCanonical
<1>4. RustCanonical(e) = [r EXCEPT !.opt = o]
  BY <1>1, <1>2 DEF RustCanonical
<1>5. GoCanonical(e) = [r EXCEPT !.opt = o, !.content = "plain"]
  BY <1>1, <1>2, <1>3 DEF GoCanonical, Escaped
<1>6. RustCanonical(e) = r /\ GoCanonical(e) = r
  BY <1>3, <1>4, <1>5
<1>7. PyCanonical(e) = [r EXCEPT !.ts = e.ts, !.ttl = e.ttl]
  BY <1>1, <1>6 DEF PyCanonical
<1>8. PyCanonical(e) = r
  BY <1>3, <1>7
<1> QED BY <1>2, <1>6, <1>8 DEF Sdks, Canonical, BrowserCanonical

(* Peers that can read a text of the common domain agree on it.            *)
LEMMA CommonVerdict ==
  ASSUME NEW sdk \in Sdks, NEW t, t.env \in SdkEnvelopes, Common(t.env), t.shape \in Shapes(sdk),
         NEW key \in SdkAlgs(sdk), NEW at
  PROVE  Accepts(sdk, t, key, at) <=>
           /\ TsValid(t.env, at)
           /\ DecodedAlg(t) = key /\ t.sig = [alg |-> key, over |-> TsCanonical(t.env)]
<1>1. PICK m : m = Decoded(sdk, t)
  OBVIOUS
<1>2. m.alg = DecodedAlg(t) /\ m.sig = t.sig /\ m.env = t.env
  BY <1>1, DecodedText DEF Common
<1>3. Decodes(sdk, t)
  BY DEF Decodes, Represents, Common
<1>4. Canonical(sdk, m.env) = TsCanonical(t.env)
  BY <1>2, CommonCanonical
<1>5. sdk = "browser" => key = "ED25519"
  BY DEF SdkAlgs
<1>6. Verify(sdk, m, key) <=> m.alg = key /\ m.sig = [alg |-> key, over |-> TsCanonical(t.env)]
  BY <1>4, <1>5, VerifiedOver
<1>7. ValidFor(sdk, m.env, at) <=> TsValid(t.env, at)
  BY <1>2, ValidForAll
<1> QED BY <1>1, <1>2, <1>3, <1>6, <1>7 DEF Accepts

(* What is accepted says what was signed.                                  *)
LEMMA AcceptedSays ==
  ASSUME NEW sdk \in Sdks, NEW by \in Sdks, NEW t, t.env \in SdkEnvelopes,
         NEW e \in SdkEnvelopes, NEW key \in SdkAlgs(by), t.sig = Sign(by, e, key),
         NEW at \in Nat, Accepts(sdk, t, key, at)
  PROVE  SameText(t.env, e) /\ 2 * at <= e.ts + e.ttl + 2
<1>1. PICK m : m = Decoded(sdk, t)
  OBVIOUS
<1>2. PICK d, f : d = m.env /\ f = t.env
  OBVIOUS
<1>3. /\ m.sig = t.sig /\ d \in SdkEnvelopes /\ f \in SdkEnvelopes
      /\ (d.opt = "text" <=> f.opt = "text") /\ d.content = f.content /\ d.nonce = f.nonce
      /\ d.ts = f.ts /\ d.ttl = f.ttl
  BY <1>1, <1>2, DecodedText
<1>4. m.sig = [alg |-> key, over |-> Canonical(sdk, d)] /\ TsValid(d, at)
  BY <1>1, <1>2, VerifiedOver, ValidForAll DEF Accepts
<1>5. t.sig = [alg |-> key, over |-> Canonical(by, e)]
  BY SignedOver
<1>6. PICK c : c = Canonical(sdk, d) /\ c = Canonical(by, e)
  <2>1. [alg |-> key, over |-> Canonical(sdk, d)].over = [alg |-> key, over |-> Canonical(by, e)].over
    BY <1>3, <1>4, <1>5
  <2> QED BY <2>1
<1>7. TellsOf(c, d) /\ TellsOf(c, e)
  BY <1>3, <1>6, CanonicalTells
<1>8. /\ e.opt \in OptValues /\ f.opt \in OptValues
      /\ e.content \in {"plain", "separator"} /\ f.content \in {"plain", "separator"}
      /\ e.ts \in Int /\ e.ttl \in Int /\ f.ts \in Int /\ f.ttl \in Int
  BY <1>3, EnvelopeFields
<1>9. /\ f.opt = "text" <=> e.opt = "text"
      /\ f.content = "plain" <=> e.content = "plain"
      /\ f.nonce = e.nonce
      /\ Truncated(f.ts) = Truncated(e.ts) /\ Truncated(f.ttl) = Truncated(e.ttl)
  BY <1>3, <1>7 DEF TellsOf
<1>10. SameText(f, e)
  BY <1>8, <1>9 DEF SameText, OptValues
<1>11. 2 * at <= e.ts + e.ttl + 2
  <2>1. f.ts + f.ttl >= 2 * at
    BY <1>3, <1>4 DEF TsValid
  <2>2. PICK a, b : a = Truncated(e.ts) /\ b = Truncated(e.ttl)
    OBVIOUS
  <2>3. /\ a \in Int /\ b \in Int /\ a <= e.ts /\ b <= e.ttl /\ f.ts <= a + 1 /\ f.ttl <= b + 1
    BY <1>8, <1>9, <2>2, TruncatedTwice
  <2> QED BY <1>8, <2>1, <2>3
<1> QED BY <1>2, <1>10, <1>11

IsText(t) == \E S : t \in [shape : S, env : SdkEnvelopes, alg : S, sig : S]

(* The text carries the signature of the letter, whatever was altered; the *)
(* verdicts are those of the peers that read it.                           *)
SdkIInv ==
  /\ sdkTime \in Nat
  /\ \A l \in letter : /\ l.env \in SdkEnvelopes /\ l.by \in Sdks /\ l.alg \in SdkAlgs(l.by)
                       /\ \A t \in envText : t.sig = Sign(l.by, l.env, l.alg)
  /\ \A t \in envText : IsText(t)
  /\ \A j \in judged : /\ j.at \in Nat /\ letter # {}
                       /\ \A t \in envText, l \in letter :
                            j.by = {s \in Sdks : Accepts(s, t, l.alg, j.at)}
  /\ \A k, l \in letter : k = l
  /\ \A t, u \in envText : t = u

LEMMA SdkInitInv == SdkInit => SdkIInv
BY DEF SdkInit, SdkIInv

(* Altering a field leaves the signature.                                  *)
LEMMA AlteredText ==
  ASSUME NEW t, IsText(t), NEW u \in Alterations(t)
  PROVE  IsText(u) /\ u.sig = t.sig
<1>1. PICK S : t \in [shape : S, env : SdkEnvelopes, alg : S, sig : S]
  BY DEF IsText
<1>2. PICK R : R = S \cup Algs \cup {Omitted}
  OBVIOUS
<1>3. /\ \A v \in OptValues : [t EXCEPT !.env.opt = v] \in [shape : R, env : SdkEnvelopes, alg : R, sig : R]
      /\ \A v \in {"plain", "separator"} :
           [t EXCEPT !.env.content = v] \in [shape : R, env : SdkEnvelopes, alg : R, sig : R]
      /\ \A v \in {"text", "blank"} :
           [t EXCEPT !.env.nonce = v] \in [shape : R, env : SdkEnvelopes, alg : R, sig : R]
  BY <1>1, <1>2 DEF SdkEnvelopes
<1>4. /\ \A v \in SdkTimes : [t EXCEPT !.env.ts = v] \in [shape : R, env : SdkEnvelopes, alg : R, sig : R]
      /\ \A v \in SdkTtls : [t EXCEPT !.env.ttl = v] \in [shape : R, env : SdkEnvelopes, alg : R, sig : R]
      /\ \A v \in Algs \cup {Omitted} :
           [t EXCEPT !.alg = v] \in [shape : R, env : SdkEnvelopes, alg : R, sig : R]
  BY <1>1, <1>2 DEF SdkEnvelopes
<1>5. u \in [shape : R, env : SdkEnvelopes, alg : R, sig : R]
  BY <1>3, <1>4 DEF Alterations
<1>6. u.sig = t.sig
  BY <1>1 DEF Alterations
<1> QED BY <1>5, <1>6 DEF IsText

LEMMA EncodedEnvelope ==
  ASSUME NEW sdk \in Sdks, NEW e \in SdkEnvelopes
  PROVE  Encoded(sdk, e) \in SdkEnvelopes
<1>1. GoEncoded(e) \in SdkEnvelopes
  BY DEF GoEncoded, SdkEnvelopes, OptValues
<1> QED BY <1>1 DEF Sdks, Encoded, PyEncoded, RustEncoded, TsEncoded

LEMMA SdkNextInv == SdkIInv /\ [SdkNext]_sdkVars => SdkIInv'
<1> SUFFICES ASSUME SdkIInv, [SdkNext]_sdkVars PROVE SdkIInv'
  OBVIOUS
<1>1. ASSUME NEW sdk \in Sdks, NEW e \in SdkEnvelopes, NEW alg \in Algs,
             NEW shape \in {"full", "compact"}, SignAndEncode(sdk, e, alg, shape)
      PROVE  SdkIInv'
  <2>1. PICK f, sig : f = Encoded(sdk, e) /\ sig = Sign(sdk, e, alg) /\ f \in SdkEnvelopes
    BY EncodedEnvelope
  <2>2. PICK l, t : /\ l = [env |-> e, alg |-> alg, by |-> sdk]
                    /\ t = [shape |-> shape, env |-> f, alg |-> alg, sig |-> sig]
    OBVIOUS
  <2>3. /\ letter = {} /\ letter' = {l} /\ envText' = {t} /\ alg \in SdkAlgs(sdk)
        /\ UNCHANGED <<sdkTime, judged>>
    BY <1>1, <2>1, <2>2 DEF SignAndEncode
  <2>4. l.env = e /\ l.alg = alg /\ l.by = sdk /\ t.sig = sig
    BY <2>2
  <2>5. IsText(t)
    <3>1. t \in [shape : {shape, alg, sig}, env : SdkEnvelopes, alg : {shape, alg, sig},
                 sig : {shape, alg, sig}]
      BY <2>1, <2>2
    <3> QED BY <3>1 DEF IsText
  <2>6. judged = {}
    BY <2>3 DEF SdkIInv
  <2>7. letter # {} => FALSE
    BY <2>3
  <2> QED BY <2>1, <2>3, <2>4, <2>5, <2>6 DEF SdkIInv
<1>2. CASE AlterField
  <2>1. PICK t \in envText : \E v \in Alterations(t) : envText' = {v}
    BY <1>2 DEF AlterField
  <2>2. PICK u \in Alterations(t) : envText' = {u}
    BY <2>1
  <2>4. IsText(u) /\ u.sig = t.sig
    BY AlteredText DEF SdkIInv
  <2>3. judged = {} /\ UNCHANGED <<sdkTime, letter, judged>>
    BY <1>2 DEF AlterField
  <2> QED BY <2>2, <2>3, <2>4 DEF SdkIInv
<1>3. CASE JudgeText
  <2>1. PICK t \in envText, l \in letter :
          judged' = {[at |-> sdkTime, by |-> {s \in Sdks : Accepts(s, t, l.alg, sdkTime)}]}
    BY <1>3 DEF JudgeText
  <2>2. PICK at, B : at = sdkTime /\ B = {s \in Sdks : Accepts(s, t, l.alg, at)}
    OBVIOUS
  <2>3. PICK j : j = [at |-> at, by |-> B]
    OBVIOUS
  <2>4. judged' = {j} /\ j.at = at /\ j.by = B
    BY <2>1, <2>2, <2>3
  <2>5. /\ UNCHANGED <<sdkTime, letter, envText>> /\ at \in Nat
        /\ \A k \in letter : k = l
        /\ \A u \in envText : u = t
    BY <1>3, <2>1, <2>2 DEF JudgeText, SdkIInv
  <2>6. \A u \in envText, k \in letter : j.by = {s \in Sdks : Accepts(s, u, k.alg, j.at)}
    BY <2>2, <2>4, <2>5
  <2> QED BY <2>1, <2>4, <2>5, <2>6 DEF SdkIInv
<1>4. CASE SdkLater
  BY <1>4 DEF SdkLater, SdkIInv
<1>5. CASE UNCHANGED sdkVars
  BY <1>5 DEF sdkVars, SdkIInv
<1> QED BY <1>1, <1>2, <1>3, <1>4, <1>5 DEF SdkNext

(* Whatever one SDK signed and another peer accepts, the peer reads as it  *)
(* was signed, for any times and lifetimes and any one field altered on    *)
(* the way; and on the common domain all peers that can read a text agree. *)
THEOREM SdksReadAlike == SdkSpec => []SdksAgree
<1>1. SdkInit => SdkIInv
  BY SdkInitInv
<1>2. SdkIInv /\ [SdkNext]_sdkVars => SdkIInv'
  BY SdkNextInv
<1>3. SdkIInv => SdksAgree
  <2> SUFFICES ASSUME SdkIInv PROVE ReadAsSigned /\ PeersAgree
    BY DEF SdksAgree
  <2>1. ASSUME NEW j \in judged, NEW t \in envText, NEW l \in letter
        PROVE  /\ j.by = {s \in Sdks : Accepts(s, t, l.alg, j.at)} /\ j.at \in Nat
               /\ l.env \in SdkEnvelopes /\ l.by \in Sdks /\ l.alg \in SdkAlgs(l.by)
               /\ t.sig = Sign(l.by, l.env, l.alg) /\ t.env \in SdkEnvelopes
    <3>1. t.env \in SdkEnvelopes
      BY DEF SdkIInv, IsText
    <3> QED BY <3>1 DEF SdkIInv
  <2>2. ReadAsSigned
    <3>1. SUFFICES ASSUME NEW j \in judged, NEW t \in envText, NEW l \in letter, j.by # {}
                   PROVE  SameText(t.env, l.env) /\ 2 * j.at <= l.env.ts + l.env.ttl + 2
      BY DEF ReadAsSigned
    <3>2. PICK s \in Sdks : Accepts(s, t, l.alg, j.at)
      BY <2>1, <3>1
    <3>3. PICK at, e, key, by : at = j.at /\ e = l.env /\ key = l.alg /\ by = l.by
      OBVIOUS
    <3>4. /\ by \in Sdks /\ t.env \in SdkEnvelopes /\ e \in SdkEnvelopes /\ key \in SdkAlgs(by)
          /\ t.sig = Sign(by, e, key) /\ at \in Nat /\ Accepts(s, t, key, at)
      BY <2>1, <3>2, <3>3
    <3>5. SameText(t.env, e) /\ 2 * at <= e.ts + e.ttl + 2
      BY <3>4, AcceptedSays
    <3> QED BY <3>3, <3>5
  <2>3. PeersAgree
    <3>1. SUFFICES ASSUME NEW j \in judged, NEW t \in envText, NEW l \in letter, Common(t.env),
                          NEW s \in Sdks, NEW r \in Sdks, t.shape \in Shapes(s) \cap Shapes(r),
                          l.alg \in SdkAlgs(s) \cap SdkAlgs(r)
                   PROVE  s \in j.by <=> r \in j.by
      BY DEF PeersAgree
    <3>2. PICK at, key : at = j.at /\ key = l.alg
      OBVIOUS
    <3>3. t.env \in SdkEnvelopes /\ j.by = {q \in Sdks : Accepts(q, t, key, at)}
      BY <2>1, <3>2
    <3>4. PICK both : both <=> /\ TsValid(t.env, at) /\ DecodedAlg(t) = key
                               /\ t.sig = [alg |-> key, over |-> TsCanonical(t.env)]
      OBVIOUS
    <3>5. ASSUME NEW q \in Sdks, t.shape \in Shapes(q), key \in SdkAlgs(q)
          PROVE  Accepts(q, t, key, at) <=> both
      BY <3>1, <3>3, <3>4, <3>5, CommonVerdict
    <3>6. Accepts(s, t, key, at) <=> Accepts(r, t, key, at)
      BY <3>1, <3>2, <3>5
    <3> QED BY <3>3, <3>6
  <2> QED BY <2>2, <2>3
<1> QED BY <1>1, <1>2, <1>3, PTL DEF SdkSpec

-----------------------------------------------------------------------------
(* The Cloudflare stores                                                   *)

(* The instants after a, up to and including b. *)
Span(a, b) == {n \in Int : a < n /\ n <= b}

(* What was let through since an instant of the last window, counted from  *)
(* f, is no more than the list has from lag before that instant on.        *)
ListCovers(f, lag, p, s) ==
  \A c \in Int :
    c >= f - Window + lag => CountIn(p, After(c)) <= CountIn(s, After(c - lag))

KeepsQuota(length, p) == \A t \in Int : CountIn(p, Span(t - length, t)) <= Limit

(* A request between get and put of KV: a nonce that, for all its          *)
(* datacenter knew, was not taken when it was read, or a window that is    *)
(* still the last one, unless requests raced.                              *)
PuttingNonce(x) ==
  \E k \in EdgeNonces, d \in Datacenters :
    x = [pc |-> "putNonce", key |-> k, at |-> d, late |-> FALSE]
PuttingWindow(x, s) ==
  \E d \in Datacenters, at \in 0 .. wall, l \in Seq(Int) :
    /\ x = [pc |-> "putWindow", at |-> d, stamped |-> at, stamps |-> l]
    /\ ~raced => /\ l = Append(Picked(s, Where(s, After(at - Window))), at)
                   /\ CountIn(s, After(at - Window)) < Limit
                   /\ ListCovers(at, 0, passed, s)
WorkSound ==
  \A w \in Workers : \/ work[w] = Resting
                     \/ store = "kvReplay" /\ PuttingNonce(work[w])
                     \/ store = "kvRate" /\ PuttingWindow(work[w], stamps)
OneAtWork ==
  store = "kvRate" /\ ~raced =>
    \A v, w \in Workers : work[v] # Resting /\ work[w] # Resting => v = w

(* An entry of KV lasts as long as the nonce is taken, and so does a       *)
(* datacenter's copy of it; a Durable Object forgets it only when it is    *)
(* free again.                                                             *)
NoncesKept ==
  /\ store = "kvReplay" =>
       \A k \in EdgeNonces :
         /\ settled[k] = 0 \/ settled[k] <= nonces[k]
         /\ \A d \in Datacenters : known[d][k] = 0 \/ known[d][k] <= copies[d].nonces[k]
  /\ store = "doReplay" =>
       \A k \in EdgeNonces : settled[k] <= wall \/ nonces[k] = settled[k]

StampsCover ==
  /\ store = "kvRate" /\ ~raced => ListCovers(wall, 0, passed, stamps) /\ KeepsQuota(Window, passed)
  /\ store = "doRate" =>
       ListCovers(wall, MaxLag, passed, stamps) /\ KeepsQuota(Window - MaxLag, passed)

Copy == [nonces : [EdgeNonces -> Nat \cup {None}], stamps : Seq(Int)]

EdgeTypes ==
  /\ wall \in Nat
  /\ nonces \in [EdgeNonces -> Nat \cup {None}]
  /\ settled \in [EdgeNonces -> Nat]
  /\ known \in [Datacenters -> [EdgeNonces -> Nat]]
  /\ copies \in [Datacenters -> Copy]
  /\ stamps \in Seq(Int)
  /\ passed \in Seq(Int)
  /\ alarm \in Int
  /\ store \in Stores
  /\ raced \in BOOLEAN
  /\ DOMAIN work = Workers

EdgeIInv == EdgeTypes /\ WorkSound /\ OneAtWork /\ NoncesKept /\ StampsCover

(* KvTtl rounds up. *)
LEMMA KvTtlLonger ==
  ASSUME NEW ttl \in Nat
  PROVE  KvTtl(ttl) \in Nat /\ KvTtl(ttl) >= ttl
<1>1. PICK s, n, q, m : /\ s = Second /\ n = ttl + s - 1 /\ q = n \div s
                        /\ m = q * s
  OBVIOUS
<1>2. s \in Nat /\ s > 0 /\ n \in Nat /\ KvFloor \in Nat
  BY <1>1, CloudflareAssumption
<1>3. q \in Nat /\ n < (q + 1) * s /\ m = q * s
  BY <1>1, <1>2, SMTT(60)
<1>4. m \in Nat /\ (q + 1) * s = m + s
  BY <1>2, <1>3, SMTT(60)
<1>5. m >= ttl
  BY <1>1, <1>2, <1>3, <1>4
<1>6. KvTtl(ttl) = Max({KvFloor, m})
  BY <1>1 DEF KvTtl
<1>7. \E x \in {KvFloor, m} : \A y \in {KvFloor, m} : x >= y
  BY <1>2, <1>4
<1>8. Max({KvFloor, m}) \in {KvFloor, m} /\ \A y \in {KvFloor, m} : Max({KvFloor, m}) >= y
  BY <1>7 DEF Max
<1> QED BY <1>2, <1>4, <1>5, <1>6, <1>8

LEMMA SpanCount ==
  ASSUME NEW p \in Seq(Int), NEW length \in Int, NEW t \in Int
  PROVE  Cardinality({i \in DOMAIN p : t - length < p[i] /\ p[i] <= t})
           = CountIn(p, Span(t - length, t))
<1>1. {i \in DOMAIN p : t - length < p[i] /\ p[i] <= t}
        = {i \in 1 .. Len(p) : p[i] \in Span(t - length, t)}
  BY DEF Span
<1> QED BY <1>1 DEF CountIn

LEMMA IntAppend ==
  ASSUME NEW s \in Seq(Int), NEW e \in Int
  PROVE  /\ Append(s, e) \in Seq(Int)
         /\ \A C : CountIn(Append(s, e), C) = IF e \in C THEN CountIn(s, C) + 1
                                                       ELSE CountIn(s, C)
<1>1. Append(s, e) \in Seq(Int)
  OBVIOUS
<1>2. ASSUME NEW C
      PROVE  CountIn(Append(s, e), C) = IF e \in C THEN CountIn(s, C) + 1 ELSE CountIn(s, C)
  BY CountAppend
<1> QED BY <1>1, <1>2

(* A request stamped at is let through at the instant when, at most lag    *)
(* later: what lies before the window of its stamp leaves the list.        *)
LEMMA LetThrough ==
  ASSUME NEW s \in Seq(Int), NEW p \in Seq(Int), NEW lag \in 0 .. Window, NEW at \in Int,
         NEW when \in Int, at <= when, when <= at + lag,
         ListCovers(when, lag, p, s), KeepsQuota(Window - lag, p),
         CountIn(s, After(at - Window)) < Limit,
         NEW q, q = p \/ q = Append(p, when),
         NEW r, r = Append(Picked(s, Where(s, After(at - Window))), at)
  PROVE  /\ r \in Seq(Int) /\ q \in Seq(Int)
         /\ ListCovers(when, lag, q, r) /\ KeepsQuota(Window - lag, q)
<1>0. Window \in Nat /\ Limit \in Nat /\ lag \in Nat /\ lag <= Window
  BY CloudflareAssumption
<1>1. PICK kept : kept = Picked(s, Where(s, After(at - Window)))
  OBVIOUS
<1>2. /\ kept \in Seq(Int)
      /\ \A c \in Int : c >= at - Window => CountIn(kept, After(c)) = CountIn(s, After(c))
  <2>1. ASSUME NEW c \in Int, c >= at - Window
        PROVE  kept \in Seq(Int) /\ CountIn(kept, After(c)) = CountIn(s, After(c))
    <3>1. \A e \in Int : e \in After(c) => e \in After(at - Window)
      BY <1>0, <2>1 DEF After
    <3> QED BY <1>1, <3>1, CountPicked
  <2>2. at - Window \in Int /\ at - Window >= at - Window
    BY <1>0
  <2> QED BY <2>1, <2>2
<1>3. /\ r \in Seq(Int)
      /\ \A C : CountIn(r, C) = IF at \in C THEN CountIn(kept, C) + 1 ELSE CountIn(kept, C)
  <2>1. r = Append(kept, at)
    BY <1>1
  <2> QED BY ONLY <2>1, <1>2, at \in Int, IntAppend
<1>7. /\ q \in Seq(Int)
      /\ \/ q = p
         \/ \A C : CountIn(q, C) = IF when \in C THEN CountIn(p, C) + 1 ELSE CountIn(p, C)
  <2>1. CASE q = p
    BY <2>1
  <2>2. CASE q = Append(p, when)
    BY ONLY <2>2, p \in Seq(Int), when \in Int, IntAppend
  <2> QED BY <2>1, <2>2
<1>4. \A c \in Int : /\ CountIn(p, After(c)) \in Nat /\ CountIn(s, After(c)) \in Nat
                     /\ CountIn(kept, After(c)) \in Nat
  BY <1>2, CountType
<1>5. ASSUME NEW c \in Int, c >= when - Window + lag
      PROVE  CountIn(q, After(c)) <= CountIn(r, After(c - lag))
  <2>1. PICK d : d = c - lag
    OBVIOUS
  <2>2. d \in Int /\ d >= at - Window /\ (when > c => at > d)
    BY <1>0, <1>5, <2>1
  <2>3. CountIn(p, After(c)) <= CountIn(s, After(d))
    BY <1>5, <2>1 DEF ListCovers
  <2>4. CountIn(kept, After(d)) = CountIn(s, After(d))
    BY <1>2, <2>2
  <2>5. CountIn(r, After(d)) = IF at \in After(d) THEN CountIn(kept, After(d)) + 1
                                                  ELSE CountIn(kept, After(d))
    BY <1>3
  <2>6. q = p \/ CountIn(q, After(c)) = IF when \in After(c) THEN CountIn(p, After(c)) + 1
                                                             ELSE CountIn(p, After(c))
    BY <1>7
  <2>7. when \in After(c) => at \in After(d)
    BY <2>2 DEF After
  <2>8. PICK i, j, k, n, m : /\ i = CountIn(p, After(c)) /\ j = CountIn(s, After(d))
                             /\ k = CountIn(kept, After(d)) /\ n = CountIn(q, After(c))
                             /\ m = CountIn(r, After(d))
    OBVIOUS
  <2>9. i \in Nat /\ k \in Nat /\ i <= j /\ k = j
    BY <1>4, <2>2, <2>3, <2>4, <2>8
  <2>10. m = (IF at \in After(d) THEN k + 1 ELSE k) /\ (n = i \/ n = IF when \in After(c) THEN i + 1 ELSE i)
    BY <2>5, <2>6, <2>8
  <2>11. n <= m
    BY ONLY <2>7, <2>9, <2>10
  <2> QED BY <2>1, <2>8, <2>11
<1>6. ASSUME NEW t \in Int PROVE CountIn(q, Span(t - (Window - lag), t)) <= Limit
  <2>1. PICK a, C : a = t - (Window - lag) /\ C = Span(a, t)
    OBVIOUS
  <2>2. CountIn(p, C) <= Limit /\ CountIn(p, C) \in Nat
    BY <2>1, CountType DEF KeepsQuota
  <2>3. CASE when \notin C \/ q = p
    <3>1. q = p \/ CountIn(q, C) = CountIn(p, C)
      BY <1>7, <2>3
    <3> QED BY <2>1, <2>2, <3>1
  <2>4. CASE when \in C /\ q # p
    <3>1. PICK d : d = a - lag
      OBVIOUS
    <3>2. a \in Int /\ d \in Int /\ when <= t
      BY <1>0, <2>1, <2>4, <3>1 DEF Span
    <3>3. a >= when - Window + lag /\ d >= at - Window
      BY <1>0, <2>1, <3>1, <3>2
    <3>4. CountIn(p, C) <= CountIn(p, After(a))
      <4>1. \A e \in Int : e \in C => e \in After(a)
        BY <2>1 DEF Span, After
      <4> QED BY <4>1, CountWithin
    <3>5. CountIn(p, After(a)) <= CountIn(s, After(d))
      BY <3>1, <3>2, <3>3 DEF ListCovers
    <3>6. CountIn(s, After(d)) <= CountIn(s, After(at - Window))
      <4>1. \A e \in Int : e \in After(d) => e \in After(at - Window)
        BY <1>0, <3>2, <3>3 DEF After
      <4> QED BY <4>1, CountWithin
    <3>7. CountIn(p, C) < Limit
      <4>1. at - Window \in Int
        BY <1>0
      <4>2. PICK i, j, k, l : /\ i = CountIn(p, C) /\ j = CountIn(p, After(a))
                              /\ k = CountIn(s, After(d)) /\ l = CountIn(s, After(at - Window))
        OBVIOUS
      <4>3. i \in Nat /\ j \in Nat /\ k \in Nat /\ l \in Nat
        BY <1>4, <2>2, <3>2, <4>1, <4>2
      <4>4. i <= j /\ j <= k /\ k <= l /\ l < Limit
        BY <3>4, <3>5, <3>6, <4>2
      <4> QED BY <1>0, <4>2, <4>3, <4>4
    <3>8. CountIn(q, C) = CountIn(p, C) + 1
      BY <1>7, <2>4
    <3> QED BY <1>0, <2>1, <2>2, <3>7, <3>8
  <2> QED BY <2>3, <2>4
<1> QED BY <1>3, <1>5, <1>6, <1>7 DEF ListCovers, KeepsQuota

LEMMA EdgeInitInv == EdgeInit => EdgeIInv
<1> SUFFICES ASSUME EdgeInit PROVE EdgeIInv
  OBVIOUS
<1>1. \A C : CountIn(<< >>, C) = 0
  BY CountEmpty
<1>2. \A f, lag : ListCovers(f, lag, << >>, << >>)
  BY <1>1 DEF ListCovers
<1>3. \A length : KeepsQuota(length, << >>)
  BY <1>1, CloudflareAssumption DEF KeepsQuota
<1>4. StampsCover
  BY <1>2, <1>3 DEF EdgeInit, StampsCover
<1>5. EdgeTypes
  <2>1. << >> \in Seq(Int)
    OBVIOUS
  <2>2. nonces \in [EdgeNonces -> Nat \cup {None}] /\ settled \in [EdgeNonces -> Nat]
    BY DEF EdgeInit
  <2>7. copies \in [Datacenters -> Copy] /\ known \in [Datacenters -> [EdgeNonces -> Nat]]
    BY <2>1, <2>2 DEF EdgeInit, Copy
  <2>3. alarm \in Int /\ wall \in Nat
    BY DEF EdgeInit, None
  <2>6. raced \in BOOLEAN /\ store \in Stores
    BY DEF EdgeInit
  <2>4. DOMAIN work = Workers
    BY DEF EdgeInit
  <2>5. stamps \in Seq(Int) /\ passed \in Seq(Int)
    BY <2>1 DEF EdgeInit
  <2> QED BY <2>2, <2>3, <2>4, <2>5, <2>6, <2>7 DEF EdgeTypes
<1> QED BY <1>4, <1>5 DEF EdgeInit, EdgeIInv, WorkSound, OneAtWork, NoncesKept

(* As time goes by, a window that covers goes on doing so.                 *)
LEMMA CoversLater ==
  ASSUME NEW f \in Int, NEW g \in Int, f <= g, NEW lag \in Nat, NEW p, NEW s,
         ListCovers(f, lag, p, s)
  PROVE  ListCovers(g, lag, p, s)
<1>1. Window \in Nat
  BY CloudflareAssumption
<1>2. \A c \in Int : c >= g - Window + lag => c >= f - Window + lag
  BY <1>1
<1> QED BY <1>2 DEF ListCovers

LEMMA ListsKept ==
  ASSUME EdgeIInv, UNCHANGED <<stamps, passed, store, raced>>, wall' \in Nat, wall <= wall'
  PROVE  /\ StampsCover'
         /\ \A x : PuttingWindow(x, stamps) => PuttingWindow(x, stamps)'
<1>1. PICK w, v : w = wall /\ v = wall' /\ w \in Nat /\ v \in Nat /\ w <= v
  BY DEF EdgeIInv, EdgeTypes
<1>2. MaxLag \in Nat
  BY CloudflareAssumption
<1>3. \A lag \in Nat : ListCovers(w, lag, passed, stamps) => ListCovers(v, lag, passed, stamps)
  BY <1>1, CoversLater
<1>4. StampsCover'
  BY <1>1, <1>2, <1>3 DEF EdgeIInv, StampsCover
<1>5. ASSUME NEW x, PuttingWindow(x, stamps) PROVE PuttingWindow(x, stamps)'
  <2>1. \A at \in 0 .. w : at \in 0 .. v
    BY <1>1
  <2> QED BY <1>1, <1>5, <2>1 DEF PuttingWindow
<1> QED BY <1>4, <1>5

(* What a request that is not at work, or at work alone, says of pc.       *)
LEMMA AtWork ==
  ASSUME EdgeIInv, NEW w \in Workers
  PROVE  /\ work[w].pc = "putNonce" => store = "kvReplay" /\ PuttingNonce(work[w])
         /\ work[w].pc = "putWindow" => store = "kvRate" /\ PuttingWindow(work[w], stamps)
         /\ work[w].pc # "rest" => work[w] # Resting
<1>1. Resting.pc = "rest"
  BY DEF Resting
<1>2. \A x : PuttingNonce(x) => x.pc = "putNonce"
  BY DEF PuttingNonce
<1>3. \A x : PuttingWindow(x, stamps) => x.pc = "putWindow"
  BY DEF PuttingWindow
<1> QED BY <1>1, <1>2, <1>3 DEF EdgeIInv, WorkSound

LEMMA EdgeNonceSteps ==
  ASSUME EdgeIInv,
         \/ \E w \in Workers, d \in Datacenters, k \in EdgeNonces : KvGetNonce(w, d, k)
         \/ \E w \in Workers : KvPutNonce(w)
         \/ \E d \in Datacenters, k \in EdgeNonces : KvNonceArrives(d, k)
         \/ (\E k \in EdgeNonces : DoCheck(k)) \/ DoAlarm
  PROVE  EdgeIInv'
<1>1. /\ UNCHANGED <<wall, store, stamps, passed, raced>>
      /\ wall \in Nat /\ Ttl \in [EdgeNonces -> Nat \ {0}]
  BY CloudflareAssumption DEF KvGetNonce, KvPutNonce, KvNonceArrives, DoCheck, DoAlarm,
     EdgeIInv, EdgeTypes
<1>2. StampsCover' /\ \A x : PuttingWindow(x, stamps) => PuttingWindow(x, stamps)'
  BY <1>1, ListsKept
<1>3. ASSUME NEW w \in Workers, NEW d \in Datacenters, NEW k \in EdgeNonces, KvGetNonce(w, d, k)
      PROVE  EdgeIInv'
  <2>1. store = "kvReplay" /\ UNCHANGED <<nonces, settled, copies, known, alarm>>
    BY <1>3 DEF KvGetNonce
  <2>2. EdgeTypes' /\ OneAtWork' /\ NoncesKept'
    BY <1>1, <1>3, <2>1 DEF KvGetNonce, EdgeIInv, EdgeTypes, OneAtWork, NoncesKept
  <2>3. WorkSound'
    <3>1. CASE work' = work
      BY <1>1, <1>2, <3>1 DEF EdgeIInv, WorkSound, PuttingNonce
    <3>2. CASE work' # work
      <4>1. ~(copies[d].nonces[k] > wall)
        BY <1>3, <3>2 DEF KvGetNonce
      <4>2. work' = [work EXCEPT ![w] = [pc |-> "putNonce", key |-> k, at |-> d,
                                          late |-> known[d][k] > wall]]
        BY <1>3, <3>2 DEF KvGetNonce
      <4>7. ~(known[d][k] > wall)
        <5>1. known[d][k] = 0 \/ known[d][k] <= copies[d].nonces[k]
          BY <2>1 DEF EdgeIInv, NoncesKept
        <5>2. known[d][k] \in Nat /\ copies[d].nonces[k] \in Nat \cup {-1}
          BY DEF EdgeIInv, EdgeTypes, Copy, None
        <5> QED BY <1>1, <4>1, <5>1, <5>2
      <4>3. (known[d][k] > wall) = FALSE
        BY <4>7
      <4>4. PICK x : x = [pc |-> "putNonce", key |-> k, at |-> d, late |-> FALSE]
        OBVIOUS
      <4>8. work' = [work EXCEPT ![w] = x]
        BY <4>2, <4>3, <4>4
      <4>5. PuttingNonce(x)
        BY <4>4 DEF PuttingNonce
      <4>6. \A v \in Workers : work'[v] = IF v = w THEN x ELSE work[v]
        BY <4>8 DEF EdgeIInv, EdgeTypes
      <4> QED BY <1>1, <1>2, <2>1, <4>5, <4>6 DEF EdgeIInv, WorkSound, PuttingNonce
    <3> QED BY <3>1, <3>2
  <2> QED BY <1>2, <2>2, <2>3 DEF EdgeIInv
<1>4. ASSUME NEW w \in Workers, KvPutNonce(w) PROVE EdgeIInv'
  <2>1. store = "kvReplay" /\ PuttingNonce(work[w])
    BY <1>4, AtWork DEF KvPutNonce
  <2>2. PICK key \in EdgeNonces, d \in Datacenters : work[w].key = key /\ work[w].at = d
    BY <2>1 DEF PuttingNonce
  <2>3. PICK kvTtl, ttl : kvTtl = KvTtl(ttl) /\ ttl = Ttl[key]
    OBVIOUS
  <2>4. kvTtl \in Nat /\ kvTtl >= ttl /\ ttl \in Nat
    BY <1>1, <2>3, KvTtlLonger
  <2>10. PICK e, u \in Nat : e = wall + kvTtl /\ u = wall + ttl /\ u <= e
    BY <1>1, <2>4
  <2>5. /\ nonces' = [nonces EXCEPT ![key] = e]
        /\ copies' = [copies EXCEPT ![d].nonces[key] = e]
        /\ settled' = [settled EXCEPT ![key] = u]
        /\ known' = [known EXCEPT ![d][key] = u]
        /\ work' = [work EXCEPT ![w] = Resting] /\ alarm' = alarm
    BY <1>4, <2>2, <2>3, <2>10 DEF KvPutNonce
  <2>6. EdgeTypes'
    <3>1. nonces' \in [EdgeNonces -> Nat \cup {None}] /\ settled' \in [EdgeNonces -> Nat]
      BY <2>5 DEF EdgeIInv, EdgeTypes
    <3>2. copies' \in [Datacenters -> Copy]
      BY <2>5 DEF EdgeIInv, EdgeTypes, Copy
    <3>3. known' \in [Datacenters -> [EdgeNonces -> Nat]]
      BY <2>5 DEF EdgeIInv, EdgeTypes
    <3>4. DOMAIN work' = Workers
      BY <2>5 DEF EdgeIInv, EdgeTypes
    <3> QED BY <1>1, <2>5, <3>1, <3>2, <3>3, <3>4 DEF EdgeIInv, EdgeTypes
  <2>7. NoncesKept'
    <3>1. ASSUME NEW j \in EdgeNonces PROVE settled'[j] = 0 \/ settled'[j] <= nonces'[j]
      BY <2>1, <2>5, <2>10 DEF EdgeIInv, EdgeTypes, NoncesKept
    <3>2. ASSUME NEW j \in EdgeNonces, NEW c \in Datacenters
          PROVE  known'[c][j] = 0 \/ known'[c][j] <= copies'[c].nonces[j]
      <4>1. known'[c][j] = IF c = d /\ j = key THEN u ELSE known[c][j]
        BY <2>5 DEF EdgeIInv, EdgeTypes
      <4>2. copies'[c].nonces[j] = IF c = d /\ j = key THEN e ELSE copies[c].nonces[j]
        BY <2>5 DEF EdgeIInv, EdgeTypes, Copy
      <4> QED BY <2>1, <2>10, <4>1, <4>2 DEF EdgeIInv, NoncesKept
    <3> QED BY <1>1, <2>1, <3>1, <3>2 DEF NoncesKept
  <2>8. \A v \in Workers : work'[v] = IF v = w THEN Resting ELSE work[v]
    BY <2>5 DEF EdgeIInv, EdgeTypes
  <2>9. WorkSound' /\ OneAtWork'
    BY <1>1, <1>2, <2>1, <2>8 DEF EdgeIInv, WorkSound, OneAtWork, PuttingNonce
  <2> QED BY <1>2, <2>6, <2>7, <2>9 DEF EdgeIInv
<1>6. ASSUME NEW d \in Datacenters, NEW k \in EdgeNonces, KvNonceArrives(d, k) PROVE EdgeIInv'
  <2>1. /\ store = "kvReplay" /\ UNCHANGED <<nonces, settled, work, alarm>>
        /\ copies' = [copies EXCEPT ![d].nonces[k] = nonces[k]]
        /\ known' = [known EXCEPT ![d][k] = settled[k]]
    BY <1>6 DEF KvNonceArrives
  <2>2. copies' \in [Datacenters -> Copy] /\ known' \in [Datacenters -> [EdgeNonces -> Nat]]
    <3>1. nonces[k] \in Nat \cup {None} /\ settled[k] \in Nat
      BY DEF EdgeIInv, EdgeTypes
    <3>2. copies' \in [Datacenters -> Copy]
      BY <2>1, <3>1 DEF EdgeIInv, EdgeTypes, Copy
    <3>3. known' \in [Datacenters -> [EdgeNonces -> Nat]]
      BY <2>1, <3>1 DEF EdgeIInv, EdgeTypes
    <3> QED BY <3>2, <3>3
  <2>3. EdgeTypes'
    BY <1>1, <2>1, <2>2 DEF EdgeIInv, EdgeTypes
  <2>4. NoncesKept'
    <3>1. ASSUME NEW j \in EdgeNonces, NEW c \in Datacenters
          PROVE  known'[c][j] = 0 \/ known'[c][j] <= copies'[c].nonces[j]
      <4>1. known'[c][j] = IF c = d /\ j = k THEN settled[k] ELSE known[c][j]
        BY <2>1 DEF EdgeIInv, EdgeTypes
      <4>2. copies'[c].nonces[j] = IF c = d /\ j = k THEN nonces[k] ELSE copies[c].nonces[j]
        BY <2>1 DEF EdgeIInv, EdgeTypes, Copy
      <4> QED BY <2>1, <4>1, <4>2 DEF EdgeIInv, NoncesKept
    <3> QED BY <1>1, <2>1, <3>1 DEF EdgeIInv, NoncesKept
  <2>5. WorkSound' /\ OneAtWork'
    BY <1>1, <1>2, <2>1 DEF EdgeIInv, WorkSound, OneAtWork, PuttingNonce
  <2> QED BY <1>2, <2>3, <2>4, <2>5 DEF EdgeIInv
<1>5. CASE (\E k \in EdgeNonces : DoCheck(k)) \/ DoAlarm
  <2>1. store = "doReplay" /\ work' = work /\ UNCHANGED <<copies, known>>
    BY <1>5 DEF DoCheck, DoAlarm
  <2>2. WorkSound' /\ OneAtWork'
    BY <1>1, <1>2, <2>1 DEF EdgeIInv, WorkSound, OneAtWork, PuttingNonce
  <2>3. ASSUME NEW k \in EdgeNonces, DoCheck(k) PROVE EdgeIInv'
    <3>3. PICK e : e = wall + Ttl[k]
      OBVIOUS
    <3>4. e \in Nat
      BY <1>1, <3>3
    <3>5. \/ UNCHANGED <<nonces, alarm, settled>>
          \/ /\ nonces' = [nonces EXCEPT ![k] = e] /\ alarm' = e
             /\ settled' = [settled EXCEPT ![k] = e]
      BY <2>3, <3>3 DEF DoCheck
    <3>1. EdgeTypes'
      <4>1. nonces' \in [EdgeNonces -> Nat \cup {None}] /\ settled' \in [EdgeNonces -> Nat]
        BY <3>4, <3>5 DEF EdgeIInv, EdgeTypes
      <4>2. alarm' \in Int
        BY <3>4, <3>5 DEF EdgeIInv, EdgeTypes
      <4> QED BY <1>1, <2>1, <4>1, <4>2 DEF EdgeIInv, EdgeTypes
    <3>2. NoncesKept'
      BY <1>1, <2>1, <2>3 DEF DoCheck, EdgeIInv, EdgeTypes, NoncesKept
    <3> QED BY <1>2, <2>2, <3>1, <3>2 DEF EdgeIInv
  <2>4. CASE DoAlarm
    <3>1. EdgeTypes'
      BY <1>1, <2>1, <2>4 DEF DoAlarm, EdgeIInv, EdgeTypes, None
    <3>2. NoncesKept'
      BY <1>1, <2>1, <2>4 DEF DoAlarm, EdgeIInv, EdgeTypes, NoncesKept, None
    <3> QED BY <1>2, <2>2, <3>1, <3>2 DEF EdgeIInv
  <2> QED BY <1>5, <2>3, <2>4
<1> QED BY <1>3, <1>4, <1>5, <1>6

(* The model's list of stamps that count is the one LetThrough speaks of.  *)
LEMMA CountedStamps ==
  ASSUME NEW s \in Seq(Int), NEW at \in Int
  PROVE  /\ Counted(s, at) = Picked(s, Where(s, After(at - Window)))
         /\ Counted(s, at) \in Seq(Int)
         /\ Len(Counted(s, at)) = CountIn(s, After(at - Window))
<1>2. {i \in DOMAIN s : s[i] > at - Window} = Where(s, After(at - Window))
  BY DEF Where, After
<1>3. /\ Picked(s, Where(s, After(at - Window))) \in Seq(Int)
      /\ Len(Picked(s, Where(s, After(at - Window)))) = CountIn(s, After(at - Window))
  BY CountPicked
<1> QED BY <1>2, <1>3 DEF Counted

LEMMA EdgeWindowRead ==
  ASSUME EdgeIInv, NEW w \in Workers, NEW d \in Datacenters, KvGetWindow(w, d)
  PROVE  EdgeIInv'
<1>1. /\ UNCHANGED <<wall, store, nonces, stamps, copies, alarm, settled, known, passed>>
      /\ store = "kvRate" /\ work[w] = Resting /\ wall \in Nat
      /\ raced' = (raced \/ copies[d].stamps # stamps \/ \E v \in Workers : work[v] # Resting)
  BY DEF KvGetWindow, EdgeIInv, EdgeTypes
<1>2. ~raced' => /\ ~raced /\ copies[d].stamps = stamps
                 /\ \A v \in Workers : work[v] = Resting
  BY <1>1
<1>3. StampsCover' /\ NoncesKept'
  BY <1>1, <1>2 DEF EdgeIInv, StampsCover, NoncesKept
<1>4. \A x : PuttingWindow(x, stamps) => PuttingWindow(x, stamps)'
  BY <1>1, <1>2 DEF PuttingWindow
<1>5. raced' \in BOOLEAN
  BY <1>1 DEF EdgeIInv, EdgeTypes
<1>6. CASE work' = work
  <2>1. EdgeTypes'
    BY <1>1, <1>5, <1>6 DEF EdgeIInv, EdgeTypes
  <2>2. WorkSound' /\ OneAtWork'
    BY <1>1, <1>2, <1>4, <1>6 DEF EdgeIInv, WorkSound, OneAtWork, PuttingNonce
  <2> QED BY <1>3, <2>1, <2>2 DEF EdgeIInv
<1>7. CASE work' # work
  <2>1. PICK at, s, c, l : /\ at = wall /\ s = copies[d].stamps /\ c = Counted(s, at)
                           /\ l = Append(c, at) /\ at \in Nat
    BY <1>1
  <2>12. s \in Seq(Int) /\ (~raced' => s = stamps)
    BY <1>2, <2>1 DEF EdgeIInv, EdgeTypes, Copy
  <2>2. PICK x : x = [pc |-> "putWindow", at |-> d, stamped |-> at, stamps |-> l]
    OBVIOUS
  <2>3. Len(c) < Limit /\ work' = [work EXCEPT ![w] = x]
    BY <1>7, <2>1, <2>2 DEF KvGetWindow
  <2>4. /\ l = Append(Picked(s, Where(s, After(at - Window))), at)
        /\ l \in Seq(Int) /\ CountIn(s, After(at - Window)) < Limit
    <3>2. /\ c = Picked(s, Where(s, After(at - Window))) /\ c \in Seq(Int)
          /\ Len(c) = CountIn(s, After(at - Window))
      BY <2>1, <2>12, CountedStamps
    <3>3. l = Append(c, at) /\ Len(c) < Limit /\ at \in Int
      BY <2>1, <2>3
    <3>4. l \in Seq(Int)
      BY ONLY <3>2, <3>3, IntAppend
    <3> QED BY <3>2, <3>3, <3>4
  <2>5. ~raced' => ListCovers(at, 0, passed, stamps)
    BY <1>1, <1>2, <2>1 DEF EdgeIInv, StampsCover
  <2>6. at \in 0 .. wall
    BY <2>1
  <2>7. PuttingWindow(x, stamps)'
    <3>1. ~raced' => /\ l = Append(Picked(stamps, Where(stamps, After(at - Window))), at)
                     /\ CountIn(stamps, After(at - Window)) < Limit
      BY <2>4, <2>12
    <3> QED BY <1>1, <2>2, <2>4, <2>5, <2>6, <3>1 DEF PuttingWindow
  <2>8. \A v \in Workers : work'[v] = IF v = w THEN x ELSE work[v]
    BY <2>3 DEF EdgeIInv, EdgeTypes
  <2>9. EdgeTypes'
    BY <1>1, <1>5, <2>3 DEF EdgeIInv, EdgeTypes
  <2>10. WorkSound'
    BY <1>1, <1>4, <2>7, <2>8 DEF EdgeIInv, WorkSound, PuttingNonce
  <2>11. OneAtWork'
    BY <1>2, <2>8 DEF OneAtWork
  <2> QED BY <1>3, <2>9, <2>10, <2>11 DEF EdgeIInv
<1> QED BY <1>6, <1>7

(* What is passed on is recorded, or nothing more is.                      *)
LEMMA EdgeWindowWrite ==
  ASSUME EdgeIInv, NEW w \in Workers, KvPutWindow(w)
  PROVE  EdgeIInv'
<1>1. /\ UNCHANGED <<wall, store, nonces, alarm, settled, known, raced>>
      /\ store = "kvRate" /\ PuttingWindow(work[w], stamps) /\ work[w] # Resting
  BY AtWork DEF KvPutWindow
<1>2. PICK d \in Datacenters, at \in 0 .. wall, l \in Seq(Int) :
        /\ work[w] = [pc |-> "putWindow", at |-> d, stamped |-> at, stamps |-> l]
        /\ ~raced => /\ l = Append(Picked(stamps, Where(stamps, After(at - Window))), at)
                       /\ CountIn(stamps, After(at - Window)) < Limit
                       /\ ListCovers(at, 0, passed, stamps)
  BY <1>1 DEF PuttingWindow
<1>3. work[w].at = d /\ work[w].stamped = at /\ work[w].stamps = l
  BY <1>2
<1>4. /\ stamps' = l /\ (passed' = passed \/ passed' = Append(passed, at))
      /\ work' = [work EXCEPT ![w] = Resting]
      /\ copies' = [copies EXCEPT ![d].stamps = l]
  BY <1>3 DEF KvPutWindow, Allowed
<1>5. at \in Int /\ at <= wall /\ wall \in Nat /\ stamps \in Seq(Int) /\ passed \in Seq(Int)
  BY DEF EdgeIInv, EdgeTypes
<1>6. passed' \in Seq(Int)
  <2>1. passed' = passed \/ passed' = Append(passed, at)
    BY <1>4
  <2>2. PICK p, q : p = passed /\ q = Append(p, at) /\ p \in Seq(Int)
    BY <1>5
  <2>3. q \in Seq(Int)
    BY ONLY <2>2, at \in Int, IntAppend
  <2> QED BY <1>5, <2>1, <2>2, <2>3
<1>7. \A v \in Workers : work'[v] = IF v = w THEN Resting ELSE work[v]
  BY <1>4 DEF EdgeIInv, EdgeTypes
<1>12. copies' \in [Datacenters -> Copy]
  BY <1>4 DEF EdgeIInv, EdgeTypes, Copy
<1>8. EdgeTypes' /\ NoncesKept'
  BY <1>1, <1>2, <1>4, <1>6, <1>12 DEF EdgeIInv, EdgeTypes, NoncesKept
<1>9. OneAtWork'
  BY <1>1, <1>7 DEF EdgeIInv, OneAtWork
<1>10. WorkSound'
  <2>1. ASSUME NEW v \in Workers, v # w, work[v] # Resting PROVE PuttingWindow(work[v], stamps)'
    <3>1. raced
      BY <1>1, <2>1 DEF EdgeIInv, OneAtWork
    <3>2. PuttingWindow(work[v], stamps)
      BY <1>1, <2>1 DEF EdgeIInv, WorkSound
    <3>3. work'[v] = work[v]
      BY <1>7, <2>1
    <3> QED BY <1>1, <3>1, <3>2, <3>3 DEF PuttingWindow
  <2> QED BY <1>1, <1>7, <2>1 DEF WorkSound
<1>11. StampsCover'
  <2>1. ASSUME ~raced PROVE ListCovers(wall, 0, passed', stamps') /\ KeepsQuota(Window, passed')
    <3>1. Window \in Nat /\ 0 \in 0 .. Window /\ Window - 0 = Window /\ at + 0 = at
      BY CloudflareAssumption
    <3>2. KeepsQuota(Window - 0, passed)
      BY <1>1, <2>1, <3>1 DEF EdgeIInv, StampsCover
    <3>3. PICK q, r : q = passed' /\ r = stamps'
      OBVIOUS
    <3>4. /\ q = passed \/ q = Append(passed, at)
          /\ r = Append(Picked(stamps, Where(stamps, After(at - Window))), at)
          /\ ListCovers(at, 0, passed, stamps) /\ CountIn(stamps, After(at - Window)) < Limit
      BY <1>2, <1>4, <2>1, <3>3
    <3>5. ListCovers(at, 0, q, r) /\ KeepsQuota(Window - 0, q)
      <4>1. at <= at /\ at <= at + 0
        BY <1>5
      <4> QED BY ONLY <4>1, <1>5, <3>1, <3>2, <3>4, LetThrough
    <3>6. ListCovers(wall, 0, q, r)
      BY <1>5, <3>5, CoversLater
    <3> QED BY <3>1, <3>3, <3>5, <3>6
  <2> QED BY <1>1, <2>1 DEF StampsCover
<1> QED BY <1>8, <1>9, <1>10, <1>11 DEF EdgeIInv

LEMMA EdgeObjectSteps ==
  ASSUME EdgeIInv, (\E lag \in 0 .. MaxLag : DoConsume(lag)) \/ DoRateAlarm
  PROVE  EdgeIInv'
<1>1. /\ UNCHANGED <<wall, store, nonces, copies, work, settled, known, raced>>
      /\ store = "doRate"
      /\ wall \in Nat /\ stamps \in Seq(Int) /\ passed \in Seq(Int) /\ alarm \in Int
  BY DEF DoConsume, DoRateAlarm, EdgeIInv, EdgeTypes
<1>2. Window \in Nat /\ MaxLag \in 0 .. Window /\ MaxLag \in Nat /\ Limit \in Nat
  BY CloudflareAssumption
<1>3. ListCovers(wall, MaxLag, passed, stamps) /\ KeepsQuota(Window - MaxLag, passed)
  BY <1>1 DEF EdgeIInv, StampsCover
<1>4. WorkSound' /\ OneAtWork' /\ NoncesKept'
  BY <1>1 DEF EdgeIInv, WorkSound, OneAtWork, NoncesKept, PuttingNonce
<1>5. SUFFICES /\ stamps' \in Seq(Int) /\ passed' \in Seq(Int) /\ alarm' \in Int
               /\ ListCovers(wall, MaxLag, passed', stamps') /\ KeepsQuota(Window - MaxLag, passed')
  BY <1>1, <1>4 DEF EdgeIInv, EdgeTypes, StampsCover
<1>6. ASSUME NEW lag \in 0 .. MaxLag, DoConsume(lag), Len(Counted(stamps, wall - lag)) < Limit
      PROVE  /\ stamps' \in Seq(Int) /\ passed' \in Seq(Int) /\ alarm' \in Int
             /\ ListCovers(wall, MaxLag, passed', stamps') /\ KeepsQuota(Window - MaxLag, passed')
  <2>1. PICK at, when : at = wall - lag /\ when = wall
    OBVIOUS
  <2>2. at \in Int /\ when \in Int /\ at <= when /\ when <= at + MaxLag
    BY <1>1, <1>2, <2>1
  <2>3. PICK q, r, c : q = passed' /\ r = stamps' /\ c = Counted(stamps, at)
    OBVIOUS
  <2>9. PICK n : n = Len(Counted(stamps, at)) /\ n \in Nat
    BY <1>1, <2>2, CountedStamps
  <2>10. n < Limit /\ ~(n >= Limit)
    BY <1>2, <1>6, <2>1, <2>9
  <2>4. /\ Len(c) < Limit /\ r = Append(c, at) /\ alarm' = at + Window
        /\ q = passed \/ q = Append(passed, when)
    BY <1>6, <2>1, <2>3, <2>9, <2>10 DEF DoConsume, Allowed
  <2>5. /\ c = Picked(stamps, Where(stamps, After(at - Window)))
        /\ Len(c) = CountIn(stamps, After(at - Window)) /\ Len(c) \in Nat
    <3>1. stamps \in Seq(Int) /\ at \in Int
      BY <1>1, <2>2
    <3>2. /\ Counted(stamps, at) = Picked(stamps, Where(stamps, After(at - Window)))
          /\ Counted(stamps, at) \in Seq(Int)
          /\ Len(Counted(stamps, at)) = CountIn(stamps, After(at - Window))
      BY ONLY <3>1, CountedStamps
    <3>3. Len(c) \in Nat
      BY <2>3, <3>2
    <3> QED BY <2>3, <3>2, <3>3
  <2>6. /\ r = Append(Picked(stamps, Where(stamps, After(at - Window))), at)
        /\ CountIn(stamps, After(at - Window)) < Limit
    BY <1>2, <2>4, <2>5
  <2>7. ListCovers(when, MaxLag, passed, stamps)
    BY <1>3, <2>1
  <2>8. /\ r \in Seq(Int) /\ q \in Seq(Int)
        /\ ListCovers(when, MaxLag, q, r) /\ KeepsQuota(Window - MaxLag, q)
    BY ONLY <1>1, <1>2, <1>3, <2>2, <2>4, <2>6, <2>7, LetThrough
  <2> QED BY <1>2, <2>1, <2>2, <2>3, <2>4, <2>8
<1>7. ASSUME NEW lag \in 0 .. MaxLag, DoConsume(lag), ~(Len(Counted(stamps, wall - lag)) < Limit)
      PROVE  UNCHANGED <<stamps, passed, alarm>>
  <2>4. PICK at : at = wall - lag /\ at \in Int
    BY <1>1, <1>2
  <2>1. PICK n : at = wall - lag /\ n = Len(Counted(stamps, at)) /\ at \in Int
    BY <2>4
  <2>2. n \in Nat
    BY <1>1, <2>1, CountedStamps
  <2>3. n >= Limit
    BY <1>2, <1>7, <2>1, <2>2
  <2> QED BY <1>7, <2>1, <2>3 DEF DoConsume
<1>8. ASSUME DoRateAlarm
      PROVE  /\ stamps' \in Seq(Int) /\ passed' \in Seq(Int) /\ alarm' \in Int
             /\ ListCovers(wall, MaxLag, passed', stamps') /\ KeepsQuota(Window - MaxLag, passed')
  <2>1. passed' = passed /\ alarm' \in Int
    BY <1>8 DEF DoRateAlarm, None
  <2>2. CASE stamps' = stamps
    BY <1>1, <1>3, <2>1, <2>2
  <2>3. CASE stamps' = << >> /\ \A i \in DOMAIN stamps : wall - stamps[i] > Window
    <3>1. \A C : CountIn(<< >>, C) = 0
      BY CountEmpty
    <3>2. ASSUME NEW c \in Int, c >= wall - Window + MaxLag
          PROVE  CountIn(passed, After(c)) <= 0
      <4>1. PICK d, s : d = c - MaxLag /\ s = stamps
        OBVIOUS
      <4>2. \A i \in 1 .. Len(s) : s[i] \notin After(d)
        <5>1. ASSUME NEW i \in 1 .. Len(s) PROVE s[i] \notin After(d)
          <6>1. s[i] \in Int /\ wall - s[i] > Window
            BY <1>1, <2>3, <4>1
          <6> QED BY <1>1, <1>2, <3>2, <4>1, <6>1 DEF After
        <5> QED BY <5>1
      <4>3. {i \in 1 .. Len(s) : s[i] \in After(d)} = {}
        BY <4>2
      <4>4. CountIn(s, After(d)) = 0
        BY <4>3, FS_EmptySet DEF CountIn
      <4>5. CountIn(passed, After(c)) <= CountIn(stamps, After(c - MaxLag))
        BY <1>3, <3>2 DEF ListCovers
      <4> QED BY <4>1, <4>4, <4>5
    <3>3. ListCovers(wall, MaxLag, passed, << >>)
      BY <3>1, <3>2 DEF ListCovers
    <3>4. << >> \in Seq(Int)
      OBVIOUS
    <3> QED BY <1>1, <1>3, <2>1, <2>3, <3>3, <3>4
  <2> QED BY <1>8, <2>2, <2>3 DEF DoRateAlarm
<1> QED BY <1>1, <1>3, <1>6, <1>7, <1>8

LEMMA EdgeWindowArrives ==
  ASSUME EdgeIInv, NEW d \in Datacenters, KvWindowArrives(d)
  PROVE  EdgeIInv'
<1>1. /\ UNCHANGED <<wall, store, nonces, stamps, alarm, work, settled, known, passed, raced>>
      /\ store = "kvRate" /\ wall \in Nat
      /\ copies' = [copies EXCEPT ![d].stamps = stamps]
  BY DEF KvWindowArrives, EdgeIInv, EdgeTypes
<1>2. StampsCover' /\ \A x : PuttingWindow(x, stamps) => PuttingWindow(x, stamps)'
  BY <1>1, ListsKept
<1>3. copies' \in [Datacenters -> Copy]
  BY <1>1 DEF EdgeIInv, EdgeTypes, Copy
<1>4. EdgeTypes'
  BY <1>1, <1>3 DEF EdgeIInv, EdgeTypes
<1>5. WorkSound' /\ OneAtWork' /\ NoncesKept'
  BY <1>1, <1>2 DEF EdgeIInv, WorkSound, OneAtWork, NoncesKept, PuttingNonce
<1> QED BY <1>2, <1>4, <1>5 DEF EdgeIInv

LEMMA EdgeNextInv == EdgeIInv /\ [EdgeNext]_edgeVars => EdgeIInv'
<1> SUFFICES ASSUME EdgeIInv, [EdgeNext]_edgeVars PROVE EdgeIInv'
  OBVIOUS
<1>1. CASE DoAlarm
  BY <1>1, EdgeNonceSteps
<1>2. ASSUME NEW w \in Workers, KvPutNonce(w) PROVE EdgeIInv'
  BY <1>2, EdgeNonceSteps
<1>3. ASSUME NEW w \in Workers, NEW d \in Datacenters, NEW k \in EdgeNonces, KvGetNonce(w, d, k)
      PROVE  EdgeIInv'
  BY <1>3, EdgeNonceSteps
<1>8. ASSUME NEW d \in Datacenters, NEW k \in EdgeNonces, KvNonceArrives(d, k) PROVE EdgeIInv'
  BY <1>8, EdgeNonceSteps
<1>9. ASSUME NEW d \in Datacenters, KvWindowArrives(d) PROVE EdgeIInv'
  BY <1>9, EdgeWindowArrives
<1>4. ASSUME NEW k \in EdgeNonces, DoCheck(k) PROVE EdgeIInv'
  BY <1>4, EdgeNonceSteps
<1>5. ASSUME NEW w \in Workers, KvPutWindow(w) PROVE EdgeIInv'
  BY <1>5, EdgeWindowWrite
<1>10. ASSUME NEW w \in Workers, NEW d \in Datacenters, KvGetWindow(w, d) PROVE EdgeIInv'
  BY <1>10, EdgeWindowRead
<1>6. CASE (\E lag \in 0 .. MaxLag : DoConsume(lag)) \/ DoRateAlarm
  BY <1>6, EdgeObjectSteps
<1>7. CASE EdgeTick \/ UNCHANGED edgeVars
  <2>1. /\ UNCHANGED <<store, nonces, stamps, copies, alarm, work, settled, known, passed, raced>>
        /\ wall \in Nat /\ wall' \in Nat /\ wall <= wall'
    BY <1>7 DEF EdgeTick, edgeVars, EdgeIInv, EdgeTypes
  <2>2. StampsCover' /\ \A x : PuttingWindow(x, stamps) => PuttingWindow(x, stamps)'
    BY <2>1, ListsKept
  <2>3. EdgeTypes' /\ OneAtWork'
    BY <2>1 DEF EdgeIInv, EdgeTypes, OneAtWork
  <2>4. NoncesKept'
    <3>1. \A k \in EdgeNonces : settled[k] \in Nat
      BY DEF EdgeIInv, EdgeTypes
    <3> QED BY <2>1, <3>1 DEF EdgeIInv, NoncesKept
  <2>5. WorkSound'
    BY <2>1, <2>2 DEF EdgeIInv, WorkSound, PuttingNonce
  <2> QED BY <2>2, <2>3, <2>4, <2>5 DEF EdgeIInv
<1> QED BY <1>1, <1>2, <1>3, <1>4, <1>5, <1>6, <1>7, <1>8, <1>9, <1>10 DEF EdgeNext

(* A Durable Object gives a nonce away when it is free only: those whose   *)
(* time is over.                                                           *)
LEMMA FreshWhenFree == EdgeIInv /\ [EdgeNext]_edgeVars => (DurableFreshOnce \/ UNCHANGED edgeVars)
<1> SUFFICES ASSUME EdgeIInv, EdgeNext, store = "doReplay",
                    NEW k \in EdgeNonces, settled'[k] # settled[k]
             PROVE  settled[k] <= wall
  BY DEF DurableFreshOnce
<1>1. ASSUME NEW w \in Workers, KvPutNonce(w) PROVE FALSE
  BY <1>1, AtWork DEF KvPutNonce
<1>2. PICK j \in EdgeNonces : DoCheck(j)
  BY <1>1 DEF EdgeNext, KvGetNonce, KvGetWindow, KvPutWindow, KvNonceArrives, KvWindowArrives, DoAlarm, DoConsume, DoRateAlarm,
     EdgeTick
<1>3. nonces[j] = None /\ j = k
  BY <1>2 DEF DoCheck, EdgeIInv, EdgeTypes
<1>4. settled[k] \in Nat /\ (settled[k] <= wall \/ nonces[k] = settled[k])
  BY DEF EdgeIInv, EdgeTypes, NoncesKept
<1> QED BY <1>3, <1>4 DEF None

LEMMA EdgeIInvHolds ==
  EdgeIInv => KvSequentialReplayRefused /\ KvSequentialQuota /\ DurableQuota
<1> SUFFICES ASSUME EdgeIInv
             PROVE  KvSequentialReplayRefused /\ KvSequentialQuota /\ DurableQuota
  OBVIOUS
<1>1. KvSequentialReplayRefused
  <2>1. ASSUME NEW w \in Workers, work[w].pc = "putNonce" PROVE ~work[w].late
    <3>1. PuttingNonce(work[w])
      BY <2>1, AtWork
    <3> QED BY <3>1 DEF PuttingNonce
  <2> QED BY <2>1 DEF KvSequentialReplayRefused
<1>2. ASSUME NEW length \in Int, KeepsQuota(length, passed), NEW t \in Int
      PROVE  AllowedIn(length, t) <= Limit
  <2>1. passed \in Seq(Int)
    BY DEF EdgeIInv, EdgeTypes
  <2>2. AllowedIn(length, t) = CountIn(passed, Span(t - length, t))
    BY <2>1, SpanCount DEF AllowedIn
  <2> QED BY <1>2, <2>2 DEF KeepsQuota
<1>3. Window \in Int /\ Window - MaxLag \in Int /\ \A t \in 0 .. wall : t \in Int
  BY CloudflareAssumption DEF EdgeIInv, EdgeTypes
<1> QED BY <1>1, <1>2, <1>3 DEF EdgeIInv, StampsCover, KvSequentialQuota, DurableQuota

(* Once KV took a nonce, a check that starts where the put has arrived is  *)
(* refused until the nonce's time is over; a sender none of whose requests *)
(* overlapped another or missed an earlier one's put keeps the quota.      *)
(* Durable Objects do both for all, up to the lag of the workers. For any  *)
(* number of datacenters, workers and nonces and any lifetimes, windows    *)
(* and limits, and whenever puts arrive.                                   *)
THEOREM EdgeStoresKeep == EdgeSpec => EdgeStoresHold
<1>1. EdgeInit => EdgeIInv
  BY EdgeInitInv
<1>2. EdgeIInv /\ [EdgeNext]_edgeVars => EdgeIInv'
  BY EdgeNextInv
<1>3. EdgeIInv /\ EdgeIInv' /\ [EdgeNext]_edgeVars
        => [/\ KvSequentialReplayRefused' /\ KvSequentialQuota'
            /\ DurableQuota' /\ DurableFreshOnce]_edgeVars
  <2>1. EdgeIInv' => KvSequentialReplayRefused' /\ KvSequentialQuota' /\ DurableQuota'
    BY EdgeIInvHolds, PTL
  <2> QED BY <2>1, FreshWhenFree
<1> QED BY <1>1, <1>2, <1>3, PTL DEF EdgeSpec, EdgeStoresHold

-----------------------------------------------------------------------------
(* The key log                                                             *)

(* A list, of whatever.                                                    *)
IsList(s) == \E S : s \in Seq(S)

(* The length of a list.                                                   *)
LEMMA ListFacts ==
  ASSUME NEW s, IsList(s)
  PROVE  Len(s) \in Nat /\ DOMAIN s = 1 .. Len(s) /\ (Len(s) = 0 <=> s = << >>)
BY DEF IsList

(* A list and what is appended to it.                                      *)
LEMMA Appended ==
  ASSUME NEW s, IsList(s), NEW e
  PROVE  \E t : /\ t = Append(s, e) /\ IsList(t) /\ Len(t) = Len(s) + 1
                /\ t[Len(s) + 1] = e /\ \A i \in 1 .. Len(s) : t[i] = s[i]
<1>0. PICK t : t = Append(s, e)
  OBVIOUS
<1>1. PICK S : s \in Seq(S)
  BY DEF IsList
<1>2. PICK T : T = S \cup {e}
  OBVIOUS
<1>3. s \in Seq(T) /\ e \in T
  BY <1>1, <1>2
<1>4. t \in Seq(T) /\ Len(t) = Len(s) + 1
  BY <1>0, <1>3
<1>5. t[Len(s) + 1] = e /\ \A i \in 1 .. Len(s) : t[i] = s[i]
  BY <1>0, <1>3
<1> QED BY <1>0, <1>4, <1>5 DEF IsList

(* A list and what it begins with.                                         *)
LEMMA Begun ==
  ASSUME NEW s, IsList(s), NEW n \in 0 .. Len(s)
  PROVE  \E t : /\ t = SubSeq(s, 1, n) /\ IsList(t) /\ Len(t) = n
                /\ \A i \in 1 .. n : t[i] = s[i]
<1>0. PICK t : t = SubSeq(s, 1, n)
  OBVIOUS
<1>1. PICK S : s \in Seq(S)
  BY DEF IsList
<1>2. t \in Seq(S) /\ Len(t) = n
  BY <1>0, <1>1
<1>3. \A i \in 1 .. n : t[i] = s[i]
  BY <1>0, <1>1
<1> QED BY <1>0, <1>2, <1>3 DEF IsList

(* Two lists of the same elements are the same.                            *)
LEMMA SameList ==
  ASSUME NEW s, IsList(s), NEW t, IsList(t), Len(s) = Len(t),
         \A i \in 1 .. Len(s) : s[i] = t[i]
  PROVE  s = t
<1>1. PICK S : s \in Seq(S)
  BY DEF IsList
<1>2. PICK T : t \in Seq(T)
  BY DEF IsList
<1>3. PICK R : R = S \cup T
  OBVIOUS
<1>4. s \in Seq(R) /\ t \in Seq(R)
  BY <1>1, <1>2, <1>3
<1> QED BY <1>4

-----------------------------------------------------------------------------
(* Verifying a log, entry by entry                                         *)

(* g is what verification knows of es after each of its first k entries.   *)
ReadUpTo(g, es, k) ==
  g = [n \in 0 .. k |-> IF n = 0 THEN NothingVerified ELSE VerifyStep(g[n - 1], es[n])]

(* A log can be read to any entry.                                         *)
LEMMA ReadsExist == ASSUME NEW es, NEW k \in Nat PROVE \E g : ReadUpTo(g, es, k)
<1> DEFINE P == {n \in Nat : \E g : ReadUpTo(g, es, n)}
<1>1. 0 \in P
  <2>1. PICK g : g = [n \in 0 .. 0 |-> NothingVerified]
    OBVIOUS
  <2>2. ReadUpTo(g, es, 0)
    BY <2>1 DEF ReadUpTo
  <2> QED BY <2>2
<1>2. ASSUME NEW n \in P PROVE n + 1 \in P
  <2>1. PICK f : ReadUpTo(f, es, n)
    OBVIOUS
  <2>2. n \in Nat /\ n + 1 \in Nat
    OBVIOUS
  <2>3. PICK v : v = VerifyStep(f[n], es[n + 1])
    OBVIOUS
  <2>4. \A m \in 0 .. n : f[m] = IF m = 0 THEN NothingVerified
                                 ELSE VerifyStep(f[m - 1], es[m])
    BY <2>1 DEF ReadUpTo
  <2>5. PICK g : g = [m \in 0 .. n + 1 |-> IF m = n + 1 THEN v ELSE f[m]]
    OBVIOUS
  <2>6. g[n + 1] = v /\ \A m \in 0 .. n : g[m] = f[m]
    BY <2>2, <2>5
  <2>7. ASSUME NEW m \in 0 .. n + 1
        PROVE  g[m] = IF m = 0 THEN NothingVerified ELSE VerifyStep(g[m - 1], es[m])
    <3>1. CASE m = n + 1
      BY <2>2, <2>3, <2>6, <3>1
    <3>2. CASE m # n + 1 /\ m # 0
      <4>1. m \in 0 .. n /\ m - 1 \in 0 .. n
        BY <2>2, <3>2
      <4> QED BY <2>4, <2>6, <3>2, <4>1
    <3>3. CASE m = 0
      <4>1. m \in 0 .. n
        BY <2>2, <3>3
      <4> QED BY <2>4, <2>6, <3>3, <4>1
    <3> QED BY <3>1, <3>2, <3>3
  <2>8. g = [m \in 0 .. n + 1 |-> g[m]]
    BY <2>5
  <2>9. ReadUpTo(g, es, n + 1)
    BY <2>7, <2>8 DEF ReadUpTo
  <2> QED BY <2>2, <2>9
<1>3. P \subseteq Nat
  OBVIOUS
<1> HIDE DEF P
<1>4. P = Nat
  BY <1>1, <1>2, <1>3, Induction
<1> QED BY <1>4 DEF P

(* Reading it is a step of verification per entry.                         *)
LEMMA ReadsSteps ==
  ASSUME NEW es, NEW k \in Nat, NEW g, ReadUpTo(g, es, k)
  PROVE  g[0] = NothingVerified /\ \A n \in 1 .. k : g[n] = VerifyStep(g[n - 1], es[n])
<1>1. \A n \in 0 .. k : g[n] = IF n = 0 THEN NothingVerified ELSE VerifyStep(g[n - 1], es[n])
  BY DEF ReadUpTo
<1>2. 0 \in 0 .. k
  OBVIOUS
<1>3. \A n \in 1 .. k : n \in 0 .. k /\ n # 0
  OBVIOUS
<1> QED BY <1>1, <1>2, <1>3

(* What is known of a log depends on what was read of it.                  *)
LEMMA ReadsAgree ==
  ASSUME NEW es, NEW fs, NEW k \in Nat, NEW j \in Nat, NEW g, NEW h,
         ReadUpTo(g, es, k), ReadUpTo(h, fs, j), NEW m \in Nat, m <= k, m <= j,
         \A i \in 1 .. m : es[i] = fs[i]
  PROVE  g[m] = h[m]
<1> DEFINE P == {n \in Nat : n <= m => g[n] = h[n]}
<1>1. 0 \in P
  BY ReadsSteps
<1>2. ASSUME NEW n \in P PROVE n + 1 \in P
  <2>1. n \in Nat /\ n + 1 \in Nat /\ (n + 1) - 1 = n
    OBVIOUS
  <2>2. ASSUME n + 1 <= m PROVE g[n + 1] = h[n + 1]
    <3>1. n + 1 \in 1 .. k /\ n + 1 \in 1 .. j /\ n + 1 \in 1 .. m /\ n <= m
      BY <2>1, <2>2
    <3>2. g[n] = h[n] /\ es[n + 1] = fs[n + 1]
      BY <3>1
    <3>3. g[n + 1] = VerifyStep(g[n], es[n + 1])
      BY <2>1, <3>1, ReadsSteps
    <3>4. h[n + 1] = VerifyStep(h[n], fs[n + 1])
      BY <2>1, <3>1, ReadsSteps
    <3> QED BY <3>2, <3>3, <3>4
  <2> QED BY <2>1, <2>2
<1>3. P \subseteq Nat
  OBVIOUS
<1> HIDE DEF P
<1>4. P = Nat
  BY <1>1, <1>2, <1>3, Induction
<1>5. m \in P
  BY <1>4
<1> QED BY <1>5 DEF P

(* verifyKeyLog() ends with what is known after the last entry.            *)
LEMMA VerifyReads ==
  ASSUME NEW es, Len(es) \in Nat
  PROVE  \E g : ReadUpTo(g, es, Len(es)) /\ VerifyKeyLog(es) = g[Len(es)]
<1>1. PICK g : g = CHOOSE h : ReadUpTo(h, es, Len(es))
  OBVIOUS
<1>2. ReadUpTo(g, es, Len(es))
  BY <1>1, ReadsExist
<1>3. VerifyKeyLog(es) = g[Len(es)]
  BY <1>1 DEF VerifyKeyLog, ReadUpTo
<1> QED BY <1>2, <1>3

(* Verifying the beginning of a log is verifying what it begins with.      *)
LEMMA VerifyPrefix ==
  ASSUME NEW es, IsList(es), NEW g, ReadUpTo(g, es, Len(es)), NEW n \in 0 .. Len(es),
         NEW fs, IsList(fs), Len(fs) = n, \A i \in 1 .. n : fs[i] = es[i]
  PROVE  VerifyKeyLog(fs) = g[n]
<1>1. Len(es) \in Nat /\ n \in Nat /\ n <= Len(es)
  BY ListFacts
<1>2. PICK h : ReadUpTo(h, fs, n) /\ VerifyKeyLog(fs) = h[n]
  BY <1>1, VerifyReads
<1>3. g[n] = h[n]
  BY <1>1, <1>2, ReadsAgree
<1> QED BY <1>2, <1>3

(* An empty log verifies.                                                  *)
LEMMA VerifyEmpty == VerifyKeyLog(<< >>) = NothingVerified
<1>1. PICK es : es = << >>
  OBVIOUS
<1>2. Len(es) = 0
  BY <1>1
<1>3. PICK g : ReadUpTo(g, es, 0) /\ VerifyKeyLog(es) = g[0]
  BY <1>2, VerifyReads
<1> QED BY <1>1, <1>3, ReadsSteps

(* Verifying one more entry is one more step of verification.              *)
LEMMA VerifyAppend ==
  ASSUME NEW es, IsList(es), NEW e
  PROVE  VerifyKeyLog(Append(es, e)) = VerifyStep(VerifyKeyLog(es), e)
<1>0. PICK fs : /\ fs = Append(es, e) /\ IsList(fs) /\ Len(fs) = Len(es) + 1
                /\ fs[Len(es) + 1] = e /\ \A i \in 1 .. Len(es) : fs[i] = es[i]
  BY Appended
<1>1. PICK n : n = Len(es)
  OBVIOUS
<1>2. /\ IsList(fs) /\ Len(fs) = n + 1 /\ fs[n + 1] = e /\ n \in Nat
      /\ \A i \in 1 .. n : fs[i] = es[i]
  BY <1>0, <1>1, ListFacts
<1>3. n + 1 \in Nat /\ (n + 1) - 1 = n /\ n + 1 \in 1 .. n + 1 /\ n \in 0 .. n + 1
  BY <1>2
<1>4. PICK g : ReadUpTo(g, fs, n + 1) /\ VerifyKeyLog(fs) = g[n + 1]
  BY <1>2, <1>3, VerifyReads
<1>5. g[n + 1] = VerifyStep(g[n], fs[n + 1])
  BY <1>3, <1>4, ReadsSteps
<1>6. VerifyKeyLog(es) = g[n]
  <2>1. ReadUpTo(g, fs, Len(fs)) /\ n \in 0 .. Len(fs)
    BY <1>2, <1>3, <1>4
  <2>2. Len(es) = n /\ \A i \in 1 .. n : es[i] = fs[i]
    BY <1>1, <1>2
  <2> QED BY <1>2, <2>1, <2>2, VerifyPrefix
<1> QED BY <1>0, <1>2, <1>4, <1>5, <1>6

(* What is true at every entry of a log that verifies.                     *)
LEMMA VerifiedThroughout ==
  ASSUME NEW es, NEW k \in Nat, NEW g, ReadUpTo(g, es, k), g[k].ok
  PROVE  /\ \A n \in 0 .. k : g[n].ok /\ g[n].size = n
         /\ \A n \in 1 .. k : /\ es[n].index = n - 1 /\ es[n].prevHash = g[n - 1].head
                              /\ ~Breaks(g[n - 1].ks, es[n])
                              /\ g[n].head = EntryHash(es[n])
                              /\ g[n].ks = Applied(g[n - 1].ks, es[n])
<1> DEFINE P == {n \in Nat : n <= k => g[k - n].ok}
           Q == {n \in Nat : n <= k => g[n].size = n}
<1>1. /\ g[0] = NothingVerified
      /\ \A n \in 1 .. k : g[n] = VerifyStep(g[n - 1], es[n])
  BY ReadsSteps
<1>2. \A n \in 1 .. k :
        /\ g[n].ok => /\ g[n - 1].ok /\ es[n].index = g[n - 1].size
                      /\ es[n].prevHash = g[n - 1].head /\ ~Breaks(g[n - 1].ks, es[n])
        /\ g[n].size = g[n - 1].size + 1 /\ g[n].head = EntryHash(es[n])
        /\ g[n].ks = Applied(g[n - 1].ks, es[n])
  <2> SUFFICES ASSUME NEW n \in 1 .. k
               PROVE  /\ g[n].ok => /\ g[n - 1].ok /\ es[n].index = g[n - 1].size
                                    /\ es[n].prevHash = g[n - 1].head
                                    /\ ~Breaks(g[n - 1].ks, es[n])
                      /\ g[n].size = g[n - 1].size + 1 /\ g[n].head = EntryHash(es[n])
                      /\ g[n].ks = Applied(g[n - 1].ks, es[n])
    OBVIOUS
  <2>1. PICK v, w, e : v = g[n - 1] /\ w = g[n] /\ e = es[n]
    OBVIOUS
  <2>2. w = VerifyStep(v, e)
    BY <1>1, <2>1
  <2>3. /\ w.ok => v.ok /\ e.index = v.size /\ e.prevHash = v.head /\ ~Breaks(v.ks, e)
        /\ w.size = v.size + 1 /\ w.head = EntryHash(e) /\ w.ks = Applied(v.ks, e)
    BY <2>2 DEF VerifyStep
  <2> QED BY <2>1, <2>3
<1>3. 0 \in P
  OBVIOUS
<1>4. ASSUME NEW n \in P PROVE n + 1 \in P
  <2>1. n \in Nat /\ n + 1 \in Nat
    OBVIOUS
  <2>2. ASSUME n + 1 <= k PROVE g[k - (n + 1)].ok
    <3>1. k - n \in 1 .. k /\ n <= k /\ (k - n) - 1 = k - (n + 1)
      BY <2>1, <2>2
    <3> QED BY <1>2, <3>1
  <2> QED BY <2>1, <2>2
<1>5. 0 \in Q
  BY <1>1 DEF NothingVerified
<1>6. ASSUME NEW n \in Q PROVE n + 1 \in Q
  <2>1. n \in Nat /\ n + 1 \in Nat /\ (n + 1) - 1 = n
    OBVIOUS
  <2>2. ASSUME n + 1 <= k PROVE g[n + 1].size = n + 1
    <3>1. n + 1 \in 1 .. k /\ n <= k
      BY <2>1, <2>2
    <3> QED BY <1>2, <2>1, <3>1
  <2> QED BY <2>1, <2>2
<1>7. P \subseteq Nat /\ Q \subseteq Nat
  OBVIOUS
<1> HIDE DEF P, Q
<1>8. P = Nat
  BY <1>3, <1>4, <1>7, Induction
<1>9. Q = Nat
  BY <1>5, <1>6, <1>7, Induction
<1>10. ASSUME NEW n \in 0 .. k PROVE g[n].ok /\ g[n].size = n
  <2>1. n \in Nat /\ k - n \in Nat /\ k - (k - n) = n /\ n <= k /\ k - n <= k
    OBVIOUS
  <2>2. n \in Q /\ k - n \in P
    BY <1>8, <1>9, <2>1
  <2> QED BY <2>1, <2>2 DEF P, Q
<1>11. \A n \in 1 .. k : n \in 0 .. k /\ n - 1 \in 0 .. k
  OBVIOUS
<1> QED BY <1>2, <1>10, <1>11

(* The head of a log that verifies is the hash of its last entry.          *)
LEMMA VerifiedHead ==
  ASSUME NEW es, IsList(es), VerifyKeyLog(es).ok
  PROVE  /\ Len(es) = 0 => VerifyKeyLog(es).head = GenesisHash
         /\ Len(es) > 0 =>
              /\ VerifyKeyLog(es).head = EntryHash(es[Len(es)])
              /\ es[Len(es)].index = Len(es) - 1
              /\ \E fs : /\ IsList(fs) /\ Len(fs) = Len(es) - 1
                         /\ \A i \in 1 .. Len(es) - 1 : fs[i] = es[i]
                         /\ VerifyKeyLog(fs).ok
                         /\ VerifyKeyLog(fs).head = es[Len(es)].prevHash
<1>1. PICK n : n = Len(es)
  OBVIOUS
<1>2. n \in Nat
  BY <1>1, ListFacts
<1>3. PICK g : ReadUpTo(g, es, n) /\ VerifyKeyLog(es) = g[n]
  BY <1>1, <1>2, VerifyReads
<1>4. CASE n = 0
  <2>1. g[0] = NothingVerified
    BY <1>2, <1>3, ReadsSteps
  <2> QED BY <1>1, <1>3, <1>4, <2>1 DEF NothingVerified
<1>5. CASE n > 0
  <2>1. n \in 1 .. n /\ n \in 0 .. n /\ n - 1 \in 0 .. n
    BY <1>2, <1>5
  <2>2. /\ g[n - 1].ok /\ es[n].index = n - 1 /\ es[n].prevHash = g[n - 1].head
        /\ g[n].head = EntryHash(es[n])
    BY <1>2, <1>3, <2>1, VerifiedThroughout
  <2>4. PICK fs : IsList(fs) /\ Len(fs) = n - 1 /\ \A i \in 1 .. n - 1 : fs[i] = es[i]
    <3>1. n - 1 \in 0 .. Len(es)
      BY <1>1, <2>1
    <3> QED BY <3>1, Begun
  <2>5. VerifyKeyLog(fs) = g[n - 1]
    BY <1>1, <1>3, <2>1, <2>4, VerifyPrefix
  <2> QED BY <1>1, <1>3, <1>5, <2>2, <2>4, <2>5
<1> QED BY <1>2, <1>4, <1>5

-----------------------------------------------------------------------------
(* Hashes and histories                                                    *)

(* A hash tells entries apart, and every entry from no entry.              *)
LEMMA HashTells ==
  \A d, e : EntryHash(d) # GenesisHash /\ (EntryHash(d) = EntryHash(e) => d = e)
<1>1. ASSUME NEW d, NEW e, EntryHash(d) = EntryHash(e) PROVE d = e
  <2>1. <<d>>[1] = <<e>>[1]
    BY <1>1 DEF EntryHash
  <2> QED BY <2>1
<1>2. \A d : Len(EntryHash(d)) = 1 /\ Len(GenesisHash) = 0
  BY DEF EntryHash, GenesisHash
<1> QED BY <1>1, <1>2

(* The head h tells es from every other log of its length that verifies.   *)
Commits(h, es) ==
  \A fs : IsList(fs) /\ Len(fs) = Len(es) /\ VerifyKeyLog(fs).ok /\ VerifyKeyLog(fs).head = h
            => fs = es

(* The first head commits to the empty log.                                *)
LEMMA CommitsNothing == Commits(GenesisHash, << >>)
BY ListFacts DEF Commits

(* The hash of the last entry commits to a log when the entry's prevHash   *)
(* commits to what is before it.                                           *)
LEMMA CommitsGrows ==
  ASSUME NEW es, IsList(es), Len(es) > 0,
         Commits(es[Len(es)].prevHash, SubSeq(es, 1, Len(es) - 1))
  PROVE  Commits(EntryHash(es[Len(es)]), es)
<1>1. PICK n : n = Len(es)
  OBVIOUS
<1>2. n \in Nat /\ n - 1 \in 0 .. n /\ n > 0
  BY <1>1, ListFacts
<1>3. PICK d : /\ d = SubSeq(es, 1, n - 1) /\ IsList(d) /\ Len(d) = n - 1
               /\ \A i \in 1 .. n - 1 : d[i] = es[i]
  BY <1>1, <1>2, Begun
<1>4. Commits(es[n].prevHash, d)
  BY <1>1, <1>3
<1>5. ASSUME NEW fs, IsList(fs), Len(fs) = n, VerifyKeyLog(fs).ok,
             VerifyKeyLog(fs).head = EntryHash(es[n])
      PROVE  fs = es
  <2>1. VerifyKeyLog(fs).head = EntryHash(fs[n])
    BY <1>2, <1>5, VerifiedHead
  <2>2. fs[n] = es[n]
    BY <1>5, <2>1, HashTells
  <2>3. PICK bs : /\ IsList(bs) /\ Len(bs) = n - 1
                  /\ \A i \in 1 .. n - 1 : bs[i] = fs[i]
                  /\ VerifyKeyLog(bs).ok /\ VerifyKeyLog(bs).head = fs[n].prevHash
    BY <1>2, <1>5, VerifiedHead
  <2>4. bs = d
    BY <1>3, <1>4, <2>2, <2>3 DEF Commits
  <2>5. ASSUME NEW i \in 1 .. n PROVE fs[i] = es[i]
    <3>1. i \in 1 .. n - 1 \/ i = n
      BY <1>2
    <3> QED BY <1>3, <2>2, <2>3, <2>4, <3>1
  <2> QED BY <1>1, <1>5, <2>5, SameList
<1> QED BY <1>1, <1>5 DEF Commits

(* A head that is of an earlier entry commits to a log whatever it is.     *)
LEMMA CommitsLate ==
  ASSUME NEW es, IsList(es), Len(es) > 0, NEW h,
         h = GenesisHash \/ \E x : h = EntryHash(x) /\ x.index \in Nat /\ x.index < Len(es) - 1
  PROVE  Commits(h, es)
<1>1. Len(es) \in Nat
  BY ListFacts
<1>2. SUFFICES ASSUME NEW fs, IsList(fs), Len(fs) = Len(es), VerifyKeyLog(fs).ok,
                      VerifyKeyLog(fs).head = h
               PROVE  FALSE
  BY DEF Commits
<1>3. h = EntryHash(fs[Len(es)]) /\ fs[Len(es)].index = Len(es) - 1
  BY <1>2, VerifiedHead
<1> QED BY <1>1, <1>3, HashTells

(* An entry underway, the one append() of a has built.                     *)
Built(a) == append[a].entry[1]

(* Every head and every checkpoint commits to the log it was taken of,     *)
(* whatever runs at once.                                                  *)
Committed ==
  /\ IsList(log) /\ IsList(loading.entries) /\ logTime \in Nat
  /\ \A a \in Appends : append[a] = [at |-> append[a].at, entry |-> append[a].entry]
  /\ append = [a \in Appends |-> append[a]]
  /\ \/ head = GenesisHash
     \/ \E x : head = EntryHash(x) /\ x.index \in Nat /\ x.index < Len(log)
  /\ Commits(head, log)
  /\ IsList(trusted.of) /\ trusted.size = Len(trusted.of)
  /\ Commits(trusted.headHash, trusted.of)

(* The prevHash of an entry that is being signed commits to the log, unless *)
(* another entry has taken its place.                                       *)
SigningCommits(a) ==
  /\ Built(a).index \in Nat /\ Built(a).index <= Len(log)
  /\ Built(a).index = Len(log) => Commits(Built(a).prevHash, log)

(* The prevHash of an entry that is being hashed commits to the log before *)
(* it, unless it was pushed to another place than its index.               *)
HashingCommits(a) ==
  /\ Built(a).index \in Nat /\ Built(a).index < Len(log)
  /\ Built(a).index = Len(log) - 1 =>
       /\ log[Len(log)] = Built(a)
       /\ Commits(Built(a).prevHash, SubSeq(log, 1, Len(log) - 1))

(* So it is with every append().                                           *)
UnderwayCommits ==
  \A a \in Appends : /\ append[a].at = "signing" => SigningCommits(a)
                     /\ append[a].at = "hashing" => HashingCommits(a)

(* While no two calls run at once, the log verifies up to its head.        *)
Serial ==
  ~overlapped =>
    /\ \A a, b \in Appends : append[a].at # "idle" /\ append[b].at # "idle" => a = b
    /\ VerifyKeyLog(log).ok /\ VerifyKeyLog(log).size = Len(log)
    /\ VerifyKeyLog(log).ks = keyRules /\ VerifyKeyLog(log).last = LastTime
    /\ LastTime \in Nat
    /\ (\A a \in Appends : append[a].at # "hashing") => head = VerifyKeyLog(log).head
    /\ \A a \in Appends :
         /\ append[a].at = "signing" =>
              /\ Built(a).index = Len(log) /\ Built(a).prevHash = head
              /\ Built(a).at \in Nat /\ Built(a).at >= LastTime
         /\ append[a].at = "hashing" => VerifyKeyLog(log).head = EntryHash(Built(a))
    /\ VerifyKeyLog(trusted.of).ok /\ VerifyKeyLog(trusted.of).head = trusted.headHash

(* The inductive invariant of the key log.                                 *)
LogIInv == Committed /\ UnderwayCommits /\ Serial

(* The invariant of the key log holds at first.                            *)
LEMMA LogInit == KeyLogInit => LogIInv
<1> SUFFICES ASSUME KeyLogInit PROVE LogIInv
  OBVIOUS
<1>1. /\ log = << >> /\ head = GenesisHash /\ keyRules = NoKeys /\ trusted = NoCheckpoint
      /\ append = [a \in Appends |-> NoAppend] /\ loading = NoLoad /\ logTime = 0
  BY DEF KeyLogInit
<1>2. IsList(<< >>) /\ Len(<< >>) = 0
  <2>1. << >> \in Seq({})
    OBVIOUS
  <2> QED BY <2>1 DEF IsList
<1>3. \A a \in Appends : append[a] = NoAppend
  BY <1>1
<1>4. Committed
  BY <1>1, <1>2, <1>3, CommitsNothing DEF Committed, NoAppend, NoLoad, NoCheckpoint
<1>5. UnderwayCommits
  BY <1>3 DEF UnderwayCommits, NoAppend
<1>6. Serial
  BY <1>1, <1>2, <1>3, VerifyEmpty
     DEF Serial, NoAppend, NoCheckpoint, LastTime, NothingVerified
<1> QED BY <1>4, <1>5, <1>6 DEF LogIInv

(* Where log, head, appends and checkpoint stay, the invariant does.       *)
LEMMA LogStays ==
  ASSUME LogIInv, UNCHANGED <<log, head, keyRules, append, overlapped, trusted>>,
         logTime' \in Nat, IsList(loading'.entries)
  PROVE  LogIInv'
<1>1. Committed'
  BY DEF LogIInv, Committed
<1>2. UnderwayCommits'
  BY DEF LogIInv, UnderwayCommits, SigningCommits, HashingCommits, Built
<1>3. Serial'
  BY DEF LogIInv, Serial, LastTime, Built
<1> QED BY <1>1, <1>2, <1>3 DEF LogIInv

(* The later of two times.                                                 *)
LEMMA LaterTime ==
  ASSUME NEW s \in Nat, NEW t \in Nat
  PROVE  Max({s, t}) \in Nat /\ Max({s, t}) >= s /\ Max({s, t}) >= t
<1>1. \E x \in {s, t} : \A y \in {s, t} : x >= y
  OBVIOUS
<1>2. PICK m : m = Max({s, t})
  OBVIOUS
<1>3. m \in {s, t} /\ \A y \in {s, t} : m >= y
  BY <1>1, <1>2 DEF Max
<1> QED BY <1>2, <1>3

(* An entry takes its index and its prevHash from a log that head commits to. *)
LEMMA LogBegin ==
  ASSUME LogIInv, NEW a \in Appends, NEW k \in Calls, BeginAppend(a, k)
  PROVE  LogIInv'
<1>1. PICK e : e = [index |-> Len(log), type |-> k.type, subject |-> k.subject,
                    keyId |-> k.keyId, publicKey |-> k.publicKey, prevHash |-> head,
                    at |-> Max({logTime, LastTime})]
  OBVIOUS
<1>2. /\ append[a].at = "idle"
      /\ append' = [append EXCEPT ![a] = [at |-> "signing", entry |-> <<e>>]]
      /\ overlapped' = (overlapped \/ Busy)
      /\ UNCHANGED <<logTime, log, head, keyRules, trusted, loading>>
  BY <1>1 DEF BeginAppend
<1>3. /\ append'[a] = [at |-> "signing", entry |-> <<e>>] /\ Built(a)' = e
      /\ \A b \in Appends \ {a} : append'[b] = append[b] /\ Built(b)' = Built(b)
      /\ append' = [b \in Appends |-> append'[b]]
  BY <1>2 DEF LogIInv, Committed, Built
<1>4. e.index = Len(log) /\ e.prevHash = head /\ Len(log) \in Nat
  BY <1>1, ListFacts DEF LogIInv, Committed
<1>5. Committed'
  BY <1>2, <1>3 DEF LogIInv, Committed
<1>6. UnderwayCommits'
  <2> SUFFICES ASSUME NEW b \in Appends
               PROVE  /\ append'[b].at = "signing" => SigningCommits(b)'
                      /\ append'[b].at = "hashing" => HashingCommits(b)'
    BY DEF UnderwayCommits
  <2>1. CASE b = a
    BY <1>2, <1>3, <1>4, <2>1 DEF LogIInv, Committed, SigningCommits
  <2>2. CASE b # a
    BY <1>2, <1>3, <2>2 DEF LogIInv, UnderwayCommits, SigningCommits, HashingCommits
  <2> QED BY <2>1, <2>2
<1>7. ASSUME ~overlapped' PROVE Serial'
  <2>1. ~overlapped /\ \A b \in Appends : append[b].at = "idle"
    BY <1>2, <1>7 DEF Busy
  <2>2. /\ VerifyKeyLog(log).ok /\ VerifyKeyLog(log).size = Len(log)
        /\ VerifyKeyLog(log).ks = keyRules /\ VerifyKeyLog(log).last = LastTime
        /\ LastTime \in Nat /\ head = VerifyKeyLog(log).head
        /\ VerifyKeyLog(trusted.of).ok /\ VerifyKeyLog(trusted.of).head = trusted.headHash
    BY <2>1 DEF LogIInv, Serial
  <2>3. e.at \in Nat /\ e.at >= LastTime
    BY <1>1, <2>2, LaterTime DEF LogIInv, Committed
  <2>4. \A b \in Appends : append'[b].at # "idle" => b = a
    BY <1>3, <2>1
  <2>5. LastTime' = LastTime
    BY <1>2 DEF LastTime
  <2> QED BY <1>2, <1>3, <1>4, <2>2, <2>3, <2>4, <2>5 DEF Serial
<1>8. Serial'
  BY <1>7 DEF Serial
<1> QED BY <1>5, <1>6, <1>8 DEF LogIInv

(* An entry that breaks a rule is dropped; any other is pushed.            *)
LEMMA LogSigned ==
  ASSUME LogIInv, NEW a \in Appends, SignedEntry(a)
  PROVE  LogIInv'
<1>1. PICK e, n : e = Built(a) /\ n = Len(log)
  OBVIOUS
<1>2. /\ append[a].at = "signing" /\ n \in Nat
      /\ UNCHANGED <<logTime, head, overlapped, trusted, loading>>
  BY <1>1, ListFacts DEF SignedEntry, LogIInv, Committed
<1>3. e.index \in Nat /\ e.index <= n /\ (e.index = n => Commits(e.prevHash, log))
  BY <1>1, <1>2 DEF LogIInv, UnderwayCommits, SigningCommits
<1>4. CASE Breaks(keyRules, e)
  <2>1. append' = [append EXCEPT ![a] = NoAppend] /\ UNCHANGED <<log, keyRules>>
    BY <1>1, <1>4 DEF SignedEntry, Built
  <2>2. /\ append'[a] = NoAppend /\ append'[a].at = "idle"
        /\ append' = [b \in Appends |-> append'[b]]
        /\ \A b \in Appends \ {a} : append'[b] = append[b] /\ Built(b)' = Built(b)
    BY <2>1 DEF LogIInv, Committed, Built, NoAppend
  <2>3. Committed'
    BY <1>2, <2>1, <2>2 DEF LogIInv, Committed, NoAppend
  <2>4. UnderwayCommits'
    BY <1>2, <2>1, <2>2 DEF LogIInv, UnderwayCommits, SigningCommits, HashingCommits
  <2>5. LastTime' = LastTime
    BY <2>1 DEF LastTime
  <2>6. ASSUME ~overlapped' PROVE Serial'
    <3>1. \A b \in Appends : append'[b].at = "idle"
      BY <1>2, <2>2, <2>6 DEF LogIInv, Serial
    <3>2. head = VerifyKeyLog(log).head
      BY <1>2, <2>6 DEF LogIInv, Serial
    <3> QED BY <1>2, <2>1, <2>5, <2>6, <3>1, <3>2 DEF LogIInv, Serial
  <2>7. Serial'
    BY <2>6 DEF Serial
  <2> QED BY <2>3, <2>4, <2>7 DEF LogIInv
<1>5. CASE ~Breaks(keyRules, e)
  <2>1. /\ keyRules' = Applied(keyRules, e) /\ log' = Append(log, e)
        /\ append' = [append EXCEPT ![a].at = "hashing"]
    BY <1>1, <1>5 DEF SignedEntry, Built
  <2>2. /\ append'[a].at = "hashing" /\ Built(a)' = e
        /\ append'[a] = [at |-> append'[a].at, entry |-> append'[a].entry]
        /\ append' = [b \in Appends |-> append'[b]]
        /\ \A b \in Appends \ {a} : append'[b] = append[b] /\ Built(b)' = Built(b)
    BY <1>1, <2>1 DEF LogIInv, Committed, Built
  <2>3. PICK es : /\ es = Append(log, e) /\ IsList(es) /\ Len(es) = Len(log) + 1
                  /\ es[Len(log) + 1] = e /\ \A i \in 1 .. Len(log) : es[i] = log[i]
    BY Appended DEF LogIInv, Committed
  <2>4. /\ IsList(es) /\ Len(es) = n + 1 /\ es[n + 1] = e
        /\ \A i \in 1 .. n : es[i] = log[i]
    BY <1>1, <2>3
  <2>5. log' = es /\ IsList(log)
    BY <2>1, <2>3 DEF LogIInv, Committed
  <2>6. SubSeq(es, 1, n) = log
    <3>2. n \in 0 .. Len(es)
      BY <1>2, <2>4
    <3>3. PICK ds : /\ ds = SubSeq(es, 1, n) /\ IsList(ds) /\ Len(ds) = n
                    /\ \A i \in 1 .. n : ds[i] = es[i]
      BY <2>4, <3>2, Begun
    <3>4. ds = log
      BY <1>1, <2>4, <2>5, <3>3, SameList
    <3> QED BY <3>3, <3>4
  <2>7. Committed'
    <3>1. \/ head = GenesisHash
          \/ \E x : head = EntryHash(x) /\ x.index \in Nat /\ x.index < n
      BY <1>1 DEF LogIInv, Committed
    <3>2. n + 1 > 0 /\ (n + 1) - 1 = n
      BY <1>2
    <3>3. Commits(head, es)
      BY <2>4, <3>1, <3>2, CommitsLate
    <3>4. \/ head = GenesisHash
          \/ \E x : head = EntryHash(x) /\ x.index \in Nat /\ x.index < n + 1
      <4>1. \A i \in Nat : i < n => i < n + 1
        BY <1>2
      <4> QED BY <3>1, <4>1
    <3> QED BY <1>2, <2>2, <2>4, <2>5, <3>3, <3>4 DEF LogIInv, Committed
  <2>8. UnderwayCommits'
    <3> SUFFICES ASSUME NEW b \in Appends
                 PROVE  /\ append'[b].at = "signing" => SigningCommits(b)'
                        /\ append'[b].at = "hashing" => HashingCommits(b)'
      BY DEF UnderwayCommits
    <3>1. CASE b = a
      <4>1. e.index < n + 1 /\ (n + 1) - 1 = n
        BY <1>2, <1>3
      <4>2. HashingCommits(a)'
        BY <1>3, <2>2, <2>4, <2>5, <2>6, <4>1 DEF HashingCommits
      <4> QED BY <2>2, <3>1, <4>2
    <3>2. CASE b # a
      <4>1. append'[b] = append[b] /\ Built(b)' = Built(b)
        BY <2>2, <3>2
      <4>2. ASSUME append[b].at = "signing" PROVE SigningCommits(b)'
        <5>1. Built(b).index \in Nat /\ Built(b).index <= n
          BY <1>1, <4>2 DEF LogIInv, UnderwayCommits, SigningCommits
        <5>2. Built(b).index <= n + 1 /\ Built(b).index # n + 1
          BY <1>2, <5>1
        <5> QED BY <2>4, <2>5, <4>1, <5>1, <5>2 DEF SigningCommits
      <4>3. ASSUME append[b].at = "hashing" PROVE HashingCommits(b)'
        <5>1. Built(b).index \in Nat /\ Built(b).index < n
          BY <1>1, <4>3 DEF LogIInv, UnderwayCommits, HashingCommits
        <5>2. Built(b).index < n + 1 /\ Built(b).index # (n + 1) - 1
          BY <1>2, <5>1
        <5> QED BY <2>4, <2>5, <4>1, <5>1, <5>2 DEF HashingCommits
      <4> QED BY <4>1, <4>2, <4>3
    <3> QED BY <3>1, <3>2
  <2>9. ASSUME ~overlapped' PROVE Serial'
    <3>1. PICK v : v = VerifyKeyLog(log)
      OBVIOUS
    <3>2. /\ v.ok /\ v.size = n /\ v.ks = keyRules /\ v.last = LastTime
          /\ e.index = n /\ e.prevHash = head /\ e.at \in Nat /\ e.at >= LastTime
          /\ \A b \in Appends : append[b].at # "idle" => b = a
          /\ VerifyKeyLog(trusted.of).ok /\ VerifyKeyLog(trusted.of).head = trusted.headHash
      BY <1>1, <1>2, <2>9, <3>1 DEF LogIInv, Serial
    <3>3. head = v.head
      BY <1>2, <2>9, <3>1, <3>2 DEF LogIInv, Serial
    <3>4. VerifyKeyLog(es) = VerifyStep(v, e)
      BY <2>3, <2>5, <3>1, VerifyAppend
    <3>5. /\ VerifyKeyLog(es).ok /\ VerifyKeyLog(es).size = n + 1
          /\ VerifyKeyLog(es).ks = Applied(keyRules, e) /\ VerifyKeyLog(es).last = e.at
          /\ VerifyKeyLog(es).head = EntryHash(e)
      BY <1>5, <3>2, <3>3, <3>4 DEF VerifyStep
    <3>6. LastTime' = e.at
      <4>1. es # << >> /\ Last(es) = e
        BY <1>2, <2>4, ListFacts DEF Last
      <4> QED BY <2>5, <4>1 DEF LastTime
    <3>7. \A b \in Appends : append'[b].at # "idle" => b = a
      BY <2>2, <3>2
    <3> QED BY <1>2, <2>1, <2>2, <2>4, <2>5, <3>2, <3>5, <3>6, <3>7 DEF Serial
  <2>10. Serial'
    BY <2>9 DEF Serial
  <2> QED BY <2>7, <2>8, <2>10 DEF LogIInv
<1> QED BY <1>4, <1>5

(* The hash of an entry becomes the head.                                  *)
LEMMA LogHashed ==
  ASSUME LogIInv, NEW a \in Appends, HashedEntry(a)
  PROVE  LogIInv'
<1>1. PICK e, n : e = Built(a) /\ n = Len(log)
  OBVIOUS
<1>2. /\ append[a].at = "hashing" /\ head' = EntryHash(e) /\ n \in Nat
      /\ append' = [append EXCEPT ![a] = NoAppend]
      /\ UNCHANGED <<logTime, log, keyRules, overlapped, trusted, loading>>
  BY <1>1, ListFacts DEF HashedEntry, LogIInv, Committed, Built
<1>3. /\ append'[a] = NoAppend /\ append'[a].at = "idle"
      /\ append' = [b \in Appends |-> append'[b]]
      /\ \A b \in Appends \ {a} : append'[b] = append[b] /\ Built(b)' = Built(b)
  BY <1>2 DEF LogIInv, Committed, Built, NoAppend
<1>4. /\ e.index \in Nat /\ e.index < n
      /\ e.index = n - 1 => log[n] = e /\ Commits(e.prevHash, SubSeq(log, 1, n - 1))
  BY <1>1, <1>2 DEF LogIInv, UnderwayCommits, HashingCommits
<1>5. Commits(EntryHash(e), log)
  <2>1. n > 0 /\ IsList(log)
    BY <1>2, <1>4 DEF LogIInv, Committed
  <2>2. CASE e.index = n - 1
    BY <1>1, <1>4, <2>1, <2>2, CommitsGrows
  <2>3. CASE e.index # n - 1
    <3>1. e.index < n - 1
      BY <1>2, <1>4, <2>3
    <3> QED BY <1>1, <1>4, <2>1, <3>1, CommitsLate
  <2> QED BY <2>2, <2>3
<1>6. Committed'
  BY <1>1, <1>2, <1>3, <1>4, <1>5 DEF LogIInv, Committed, NoAppend
<1>7. UnderwayCommits'
  BY <1>2, <1>3 DEF LogIInv, UnderwayCommits, SigningCommits, HashingCommits
<1>8. ASSUME ~overlapped' PROVE Serial'
  <2>1. \A b \in Appends : append'[b].at = "idle"
    BY <1>2, <1>3, <1>8 DEF LogIInv, Serial
  <2>2. VerifyKeyLog(log).head = EntryHash(e)
    BY <1>1, <1>2, <1>8 DEF LogIInv, Serial
  <2>3. LastTime' = LastTime
    BY <1>2 DEF LastTime
  <2> QED BY <1>2, <1>8, <2>1, <2>2, <2>3 DEF LogIInv, Serial
<1>9. Serial'
  BY <1>8 DEF Serial
<1> QED BY <1>6, <1>7, <1>9 DEF LogIInv

(* A checkpoint takes the head with the log it commits to.                 *)
LEMMA LogCheckpoint ==
  ASSUME LogIInv, TakeCheckpoint
  PROVE  LogIInv'
<1>1. /\ trusted' = [size |-> Len(log), headHash |-> head, of |-> log]
      /\ overlapped' = (overlapped \/ Busy)
      /\ UNCHANGED <<logTime, log, head, keyRules, append, loading>>
  BY DEF TakeCheckpoint
<1>2. trusted'.size = Len(log) /\ trusted'.headHash = head /\ trusted'.of = log
  BY <1>1
<1>3. Committed'
  BY <1>1, <1>2 DEF LogIInv, Committed
<1>4. UnderwayCommits'
  BY <1>1 DEF LogIInv, UnderwayCommits, SigningCommits, HashingCommits, Built
<1>5. LastTime' = LastTime /\ \A a \in Appends : Built(a)' = Built(a)
  BY <1>1 DEF LastTime, Built
<1>6. ASSUME ~overlapped' PROVE Serial'
  <2>1. ~overlapped /\ \A a \in Appends : append[a].at = "idle"
    BY <1>1, <1>6 DEF Busy
  <2>2. head = VerifyKeyLog(log).head
    BY <2>1 DEF LogIInv, Serial
  <2> QED BY <1>1, <1>2, <1>5, <2>1, <2>2 DEF LogIInv, Serial
<1>7. Serial'
  BY <1>6 DEF Serial
<1> QED BY <1>3, <1>4, <1>7 DEF LogIInv

(* A restart leaves nothing underway.                                      *)
LEMMA LogRestart ==
  ASSUME LogIInv, RestartOperator
  PROVE  LogIInv'
<1>1. /\ log' = << >> /\ head' = GenesisHash /\ keyRules' = NoKeys
      /\ append' = [a \in Appends |-> NoAppend]
      /\ UNCHANGED <<logTime, overlapped, trusted, loading>>
  BY DEF RestartOperator
<1>2. IsList(<< >>) /\ Len(<< >>) = 0
  <2>1. << >> \in Seq({})
    OBVIOUS
  <2> QED BY <2>1 DEF IsList
<1>3. \A a \in Appends : append'[a] = NoAppend
  BY <1>1
<1>4. Committed'
  BY <1>1, <1>2, <1>3, CommitsNothing DEF LogIInv, Committed, NoAppend
<1>5. UnderwayCommits'
  BY <1>3 DEF UnderwayCommits, NoAppend
<1>6. ASSUME ~overlapped' PROVE Serial'
  <2>1. VerifyKeyLog(trusted.of).ok /\ VerifyKeyLog(trusted.of).head = trusted.headHash
    BY <1>1, <1>6 DEF LogIInv, Serial
  <2>2. LastTime' = 0
    BY <1>1 DEF LastTime
  <2> QED BY <1>1, <1>2, <1>3, <2>1, <2>2, VerifyEmpty DEF Serial, NoAppend, NothingVerified
<1>7. Serial'
  BY <1>6 DEF Serial
<1> QED BY <1>4, <1>5, <1>7 DEF LogIInv

(* Every step keeps the invariant of the key log.                          *)
LEMMA LogNext == LogIInv /\ [KeyLogNext]_klVars => LogIInv'
<1> SUFFICES ASSUME LogIInv, [KeyLogNext]_klVars PROVE LogIInv'
  OBVIOUS
<1>t. IsList(log) /\ IsList(loading.entries) /\ logTime \in Nat
  BY DEF LogIInv, Committed
<1>e. IsList(<< >>)
  <2>1. << >> \in Seq({})
    OBVIOUS
  <2> QED BY <2>1 DEF IsList
<1>1. CASE UNCHANGED klVars
  BY <1>1, <1>t, LogStays DEF klVars
<1>2. ASSUME NEW a \in Appends, NEW k \in Calls, BeginAppend(a, k) PROVE LogIInv'
  BY <1>2, LogBegin
<1>3. ASSUME NEW a \in Appends, SignedEntry(a) \/ HashedEntry(a) PROVE LogIInv'
  BY <1>3, LogSigned, LogHashed
<1>4. CASE TakeCheckpoint
  BY <1>4, LogCheckpoint
<1>5. CASE BeginLoad
  <2>1. loading'.entries = << >>
    BY <1>5 DEF BeginLoad
  <2> QED BY <1>5, <1>t, <1>e, <2>1, LogStays DEF BeginLoad
<1>6. CASE Fetched
  <2>1. loading'.entries = log \/ loading'.entries = loading.entries \/ TRUE
    OBVIOUS
  <2> QED BY <1>6, <1>t, LogStays DEF Fetched
<1>7. CASE LoadDone \/ LoadFails
  <2>1. loading' = NoLoad /\ UNCHANGED <<log, head, keyRules, append, overlapped, trusted, logTime>>
    BY <1>7 DEF LoadDone, LoadFails, Loaded
  <2>2. loading'.entries = << >>
    BY <2>1 DEF NoLoad
  <2> QED BY <1>t, <1>e, <2>1, <2>2, LogStays
<1>8. CASE RestartOperator
  BY <1>8, LogRestart
<1>9. CASE LogLater
  <2>1. logTime' \in Nat
    BY <1>9, <1>t DEF LogLater
  <2> QED BY <1>9, <1>t, <2>1, LogStays DEF LogLater
<1> QED BY <1>1, <1>2, <1>3, <1>4, <1>5, <1>6, <1>7, <1>8, <1>9 DEF KeyLogNext

(* So it holds of every reachable state.                                   *)
LEMMA LogInvariance == KeyLogSpec => []LogIInv
BY LogInit, LogNext, PTL DEF KeyLogSpec

(* A list up to its length is the list.                                    *)
LEMMA WholeLog ==
  ASSUME NEW es, IsList(es)
  PROVE  SubSeq(es, 1, Len(es)) = es
<1>1. PICK n : n = Len(es)
  OBVIOUS
<1>2. n \in Nat /\ n \in 0 .. Len(es)
  BY <1>1, ListFacts
<1>3. PICK fs : /\ fs = SubSeq(es, 1, n) /\ IsList(fs) /\ Len(fs) = n
                /\ \A i \in 1 .. n : fs[i] = es[i]
  BY <1>2, Begun
<1> QED BY <1>1, <1>3, SameList

(* As long as no two calls of the operator overlap, its log verifies       *)
(* between any two steps of append() too, and a checkpoint commits to the  *)
(* log it was taken of, for any number of entries and restarts.            *)
THEOREM SerialLog == KeyLogSpec => []SerialLogVerifies
<1>1. LogIInv => SerialLogVerifies
  <2> SUFFICES ASSUME LogIInv, ~overlapped
               PROVE  /\ VerifyKeyLog(log).ok
                      /\ ~Busy => VerifyKeyLog(log).head = head
                      /\ ExtendsCheckpoint(trusted, trusted.of)
    BY DEF SerialLogVerifies
  <2>1. VerifyKeyLog(log).ok /\ (~Busy => VerifyKeyLog(log).head = head)
    BY DEF LogIInv, Serial, Busy
  <2>2. IsList(trusted.of) /\ trusted.size = Len(trusted.of) /\ Len(trusted.of) \in Nat
    BY ListFacts DEF LogIInv, Committed
  <2>3. SubSeq(trusted.of, 1, trusted.size) = trusted.of
    BY <2>2, WholeLog
  <2>4. VerifyKeyLog(trusted.of).ok /\ VerifyKeyLog(trusted.of).head = trusted.headHash
    BY DEF LogIInv, Serial
  <2>5. Len(trusted.of) >= trusted.size
    BY <2>2
  <2>6. ExtendsCheckpoint(trusted, trusted.of)
    BY <2>3, <2>4, <2>5 DEF ExtendsCheckpoint
  <2> QED BY <2>1, <2>6
<1> QED BY <1>1, LogInvariance, PTL

-----------------------------------------------------------------------------
(* What a log that verifies says of keys                                   *)

(* ks and active are the rules' state and the keys after n entries.        *)
KeysUpTo(ks, active, es, n) ==
  /\ ks = [keys |-> ks.keys, active |-> ks.active, revokedIds |-> ks.revokedIds]
  /\ active = ks.active /\ ks.active \subseteq ks.keys
  /\ \A x \in ks.revokedIds : \E k \in ks.keys : x = <<k.subject, k.keyId>>
  /\ \A k \in active : <<k.subject, k.keyId>> \notin ks.revokedIds
  /\ \A k, l \in ks.keys : k.publicKey = l.publicKey => k = l
  /\ \A k, l \in active : k.subject = l.subject => k = l
  /\ \A i \in 1 .. n :
       IF es[i].type = "revoke"
       THEN <<es[i].subject, es[i].keyId>> \in ks.revokedIds /\ es[i].publicKey = NoKey
       ELSE \E k \in ks.keys : k.publicKey = es[i].publicKey
  /\ \A i, j \in 1 .. n :
       es[i].publicKey # NoKey /\ es[i].publicKey = es[j].publicKey => i = j

(* One more entry that breaks no rule.                                     *)
LEMMA KeysAfter ==
  ASSUME NEW ks, NEW active, NEW es, NEW n \in Nat, KeysUpTo(ks, active, es, n),
         ~Breaks(ks, es[n + 1])
  PROVE  KeysUpTo(Applied(ks, es[n + 1]), ResolveStep(active, es[n + 1]), es, n + 1)
<1>1. PICK e : e = es[n + 1]
  OBVIOUS
<1>2. PICK K, A, R : K = ks.keys /\ A = ks.active /\ R = ks.revokedIds
  OBVIOUS
<1>3. ks = [keys |-> K, active |-> A, revokedIds |-> R] /\ active = A
  BY <1>2 DEF KeysUpTo
<1>4. /\ A \subseteq K
      /\ \A x \in R : \E k \in K : x = <<k.subject, k.keyId>>
      /\ \A k \in A : <<k.subject, k.keyId>> \notin R
      /\ \A k, l \in K : k.publicKey = l.publicKey => k = l
      /\ \A k, l \in A : k.subject = l.subject => k = l
      /\ \A i \in 1 .. n :
           IF es[i].type = "revoke"
           THEN <<es[i].subject, es[i].keyId>> \in R /\ es[i].publicKey = NoKey
           ELSE \E k \in K : k.publicKey = es[i].publicKey
      /\ \A i, j \in 1 .. n :
           es[i].publicKey # NoKey /\ es[i].publicKey = es[j].publicKey => i = j
  BY <1>2, <1>3 DEF KeysUpTo
<1>5. \A i \in 1 .. n + 1 : i \in 1 .. n \/ i = n + 1
  OBVIOUS
<1>6. CASE e.type = "revoke"
  <2>1. PICK B : B = {k \in A : ~(k.subject = e.subject /\ k.keyId = e.keyId)}
    OBVIOUS
  <2>2. PICK Q : Q = R \cup {<<e.subject, e.keyId>>}
    OBVIOUS
  <2>3. PICK new : new = Applied(ks, e)
    OBVIOUS
  <2>4. new = [keys |-> K, active |-> B, revokedIds |-> Q] /\ ResolveStep(active, e) = B
    BY <1>3, <1>6, <2>1, <2>2, <2>3 DEF Applied, ResolveStep
  <2>5. new.keys = K /\ new.active = B /\ new.revokedIds = Q
    BY <2>4
  <2>6. e.publicKey = NoKey /\ \E k \in K : k.subject = e.subject /\ k.keyId = e.keyId
    BY <1>1, <1>2, <1>6 DEF Breaks, KeysOf
  <2>7. \A x \in Q : \E k \in K : x = <<k.subject, k.keyId>>
    BY <1>4, <2>2, <2>6
  <2>8. \A k \in B : <<k.subject, k.keyId>> \notin Q
    <3>1. \A k : <<k.subject, k.keyId>> = <<e.subject, e.keyId>>
                   => k.subject = e.subject /\ k.keyId = e.keyId
      OBVIOUS
    <3> QED BY <1>4, <2>1, <2>2, <3>1
  <2>9. \A i \in 1 .. n + 1 :
           IF es[i].type = "revoke"
           THEN <<es[i].subject, es[i].keyId>> \in Q /\ es[i].publicKey = NoKey
           ELSE \E k \in K : k.publicKey = es[i].publicKey
    BY <1>1, <1>4, <1>5, <1>6, <2>2, <2>6
  <2>10. \A i, j \in 1 .. n + 1 :
           es[i].publicKey # NoKey /\ es[i].publicKey = es[j].publicKey => i = j
    BY <1>1, <1>4, <1>5, <2>6
  <2>11. B \subseteq A
    BY <2>1
  <2>12. KeysUpTo(new, B, es, n + 1)
    BY ONLY <1>4, <2>4, <2>5, <2>7, <2>8, <2>9, <2>10, <2>11 DEF KeysUpTo
  <2> QED BY <1>1, <2>3, <2>4, <2>12
<1>7. CASE e.type # "revoke"
  <2>1. PICK key : key = [subject |-> e.subject, keyId |-> e.keyId, publicKey |-> e.publicKey]
    OBVIOUS
  <2>2. PICK B : B = {k \in A : k.subject # e.subject} \cup {key}
    OBVIOUS
  <2>3. PICK L : L = K \cup {key}
    OBVIOUS
  <2>4. PICK new : new = Applied(ks, e)
    OBVIOUS
  <2>5. new = [keys |-> L, active |-> B, revokedIds |-> R] /\ ResolveStep(active, e) = B
    BY <1>3, <1>7, <2>1, <2>2, <2>3, <2>4 DEF Applied, ResolveStep
  <2>6. new.keys = L /\ new.active = B /\ new.revokedIds = R
    BY <2>5
  <2>7. /\ e.publicKey # NoKey
        /\ ~\E k \in K : k.subject = e.subject /\ k.keyId = e.keyId
        /\ ~\E k \in K : k.publicKey = e.publicKey
    BY <1>1, <1>2, <1>7 DEF Breaks, KeysOf
  <2>8. key.subject = e.subject /\ key.keyId = e.keyId /\ key.publicKey = e.publicKey
    BY <2>1
  <2>9. \A x \in R : \E k \in L : x = <<k.subject, k.keyId>>
    BY <1>4, <2>3
  <2>10. <<key.subject, key.keyId>> \notin R
    <3>1. ASSUME NEW k \in K, <<key.subject, key.keyId>> = <<k.subject, k.keyId>> PROVE FALSE
      <4>1. k.subject = e.subject /\ k.keyId = e.keyId
        BY <2>8, <3>1
      <4> QED BY <2>7, <4>1
    <3> QED BY <1>4, <3>1
  <2>11. \A k \in B : <<k.subject, k.keyId>> \notin R
    BY <1>4, <2>2, <2>10
  <2>12. \A k, l \in L : k.publicKey = l.publicKey => k = l
    BY <1>4, <2>3, <2>7, <2>8
  <2>13. \A k, l \in B : k.subject = l.subject => k = l
    BY <1>4, <2>2, <2>8
  <2>14. \A i \in 1 .. n + 1 :
           IF es[i].type = "revoke"
           THEN <<es[i].subject, es[i].keyId>> \in R /\ es[i].publicKey = NoKey
           ELSE \E k \in L : k.publicKey = es[i].publicKey
    BY <1>1, <1>4, <1>5, <1>7, <2>3, <2>8
  <2>15. \A i \in 1 .. n : es[i].publicKey # e.publicKey
    BY <1>4, <2>7
  <2>16. \A i, j \in 1 .. n + 1 :
           es[i].publicKey # NoKey /\ es[i].publicKey = es[j].publicKey => i = j
    BY <1>1, <1>4, <1>5, <2>15
  <2>17. B \subseteq L
    BY <1>4, <2>2, <2>3
  <2>18. KeysUpTo(new, B, es, n + 1)
    BY ONLY <2>5, <2>6, <2>9, <2>11, <2>12, <2>13, <2>14, <2>16, <2>17 DEF KeysUpTo
  <2> QED BY <1>1, <2>4, <2>5, <2>18
<1> QED BY <1>6, <1>7

(* r is what is resolved from es after each of its first k entries.        *)
Resolves(r, es, k) ==
  r = [n \in 0 .. k |-> IF n = 0 THEN {} ELSE ResolveStep(r[n - 1], es[n])]

(* A log can be resolved to any entry.                                     *)
LEMMA ResolvesExist == ASSUME NEW es, NEW k \in Nat PROVE \E r : Resolves(r, es, k)
<1> DEFINE P == {n \in Nat : \E r : Resolves(r, es, n)}
<1>1. 0 \in P
  <2>1. PICK r : r = [n \in 0 .. 0 |-> {}]
    OBVIOUS
  <2>2. Resolves(r, es, 0)
    BY <2>1 DEF Resolves
  <2> QED BY <2>2
<1>2. ASSUME NEW n \in P PROVE n + 1 \in P
  <2>1. PICK f : Resolves(f, es, n)
    OBVIOUS
  <2>2. n \in Nat /\ n + 1 \in Nat
    OBVIOUS
  <2>3. PICK v : v = ResolveStep(f[n], es[n + 1])
    OBVIOUS
  <2>4. \A m \in 0 .. n : f[m] = IF m = 0 THEN {} ELSE ResolveStep(f[m - 1], es[m])
    BY <2>1 DEF Resolves
  <2>5. PICK g : g = [m \in 0 .. n + 1 |-> IF m = n + 1 THEN v ELSE f[m]]
    OBVIOUS
  <2>6. g[n + 1] = v /\ \A m \in 0 .. n : g[m] = f[m]
    BY <2>2, <2>5
  <2>7. ASSUME NEW m \in 0 .. n + 1
        PROVE  g[m] = IF m = 0 THEN {} ELSE ResolveStep(g[m - 1], es[m])
    <3>1. CASE m = n + 1
      BY <2>2, <2>3, <2>6, <3>1
    <3>2. CASE m # n + 1 /\ m # 0
      <4>1. m \in 0 .. n /\ m - 1 \in 0 .. n
        BY <2>2, <3>2
      <4> QED BY <2>4, <2>6, <3>2, <4>1
    <3>3. CASE m = 0
      <4>1. m \in 0 .. n
        BY <2>2, <3>3
      <4> QED BY <2>4, <2>6, <3>3, <4>1
    <3> QED BY <3>1, <3>2, <3>3
  <2>8. g = [m \in 0 .. n + 1 |-> g[m]]
    BY <2>5
  <2>9. Resolves(g, es, n + 1)
    BY <2>7, <2>8 DEF Resolves
  <2> QED BY <2>2, <2>9
<1>3. P \subseteq Nat
  OBVIOUS
<1> HIDE DEF P
<1>4. P = Nat
  BY <1>1, <1>2, <1>3, Induction
<1> QED BY <1>4 DEF P

(* What a log that verifies resolves to.                                   *)
LEMMA KeysResolved ==
  ASSUME NEW es, IsList(es), VerifyKeyLog(es).ok
  PROVE  \E ks : KeysUpTo(ks, ResolveKeyLog(es), es, Len(es))
<1>1. PICK k : k = Len(es)
  OBVIOUS
<1>2. k \in Nat
  BY <1>1, ListFacts
<1>3. PICK g : ReadUpTo(g, es, k) /\ VerifyKeyLog(es) = g[k]
  BY <1>1, <1>2, VerifyReads
<1>4. PICK r : r = CHOOSE h : Resolves(h, es, k)
  OBVIOUS
<1>5. Resolves(r, es, k)
  BY <1>2, <1>4, ResolvesExist
<1>6. ResolveKeyLog(es) = r[k]
  BY <1>1, <1>4 DEF ResolveKeyLog, Resolves
<1>7. r[0] = {} /\ \A n \in 1 .. k : r[n] = ResolveStep(r[n - 1], es[n])
  <2>1. \A n \in 0 .. k : r[n] = IF n = 0 THEN {} ELSE ResolveStep(r[n - 1], es[n])
    BY <1>5 DEF Resolves
  <2>2. 0 \in 0 .. k /\ \A n \in 1 .. k : n \in 0 .. k /\ n # 0
    BY <1>2
  <2> QED BY <2>1, <2>2
<1>8. g[0] = NothingVerified
  BY <1>2, <1>3, ReadsSteps
<1>9. \A n \in 1 .. k : ~Breaks(g[n - 1].ks, es[n]) /\ g[n].ks = Applied(g[n - 1].ks, es[n])
  BY <1>2, <1>3, VerifiedThroughout
<1> DEFINE P == {n \in Nat : n <= k => KeysUpTo(g[n].ks, r[n], es, n)}
<1>10. 0 \in P
  <2>1. g[0].ks = NoKeys /\ r[0] = {}
    BY <1>7, <1>8 DEF NothingVerified
  <2>2. KeysUpTo(NoKeys, {}, es, 0)
    BY DEF KeysUpTo, NoKeys
  <2> QED BY <2>1, <2>2
<1>11. ASSUME NEW n \in P PROVE n + 1 \in P
  <2>1. n \in Nat /\ n + 1 \in Nat /\ (n + 1) - 1 = n
    OBVIOUS
  <2>2. ASSUME n + 1 <= k PROVE KeysUpTo(g[n + 1].ks, r[n + 1], es, n + 1)
    <3>1. n + 1 \in 1 .. k /\ n <= k
      BY <1>2, <2>1, <2>2
    <3>2. KeysUpTo(g[n].ks, r[n], es, n)
      BY <3>1
    <3>3. /\ ~Breaks(g[n].ks, es[n + 1]) /\ g[n + 1].ks = Applied(g[n].ks, es[n + 1])
          /\ r[n + 1] = ResolveStep(r[n], es[n + 1])
      BY <1>7, <1>9, <2>1, <3>1
    <3> QED BY <2>1, <3>2, <3>3, KeysAfter
  <2> QED BY <2>1, <2>2
<1>12. P \subseteq Nat
  OBVIOUS
<1> HIDE DEF P
<1>13. P = Nat
  BY <1>10, <1>11, <1>12, Induction
<1>14. k \in P
  BY <1>2, <1>13
<1>15. KeysUpTo(g[k].ks, r[k], es, k)
  BY <1>2, <1>14 DEF P
<1> QED BY <1>1, <1>6, <1>15

(* A log that verifies and extends a checkpoint continues the log it was   *)
(* taken of.                                                               *)
LEMMA CheckpointTells ==
  ASSUME LogIInv, NEW es, IsList(es),
         trusted = NoCheckpoint \/ ExtendsCheckpoint(trusted, es)
  PROVE  IsPrefix(trusted.of, es)
<1>1. PICK d, n : d = trusted.of /\ n = trusted.size
  OBVIOUS
<1>2. /\ IsList(d) /\ n = Len(d) /\ n \in Nat /\ Commits(trusted.headHash, d)
      /\ Len(es) \in Nat
  BY <1>1, ListFacts DEF LogIInv, Committed
<1>4. n <= Len(es)
  BY <1>1, <1>2 DEF NoCheckpoint, ExtendsCheckpoint
<1>3. n \in 0 .. Len(es)
  BY <1>2, <1>4
<1>5. PICK fs : fs = SubSeq(es, 1, n) /\ IsList(fs) /\ Len(fs) = n
  BY <1>3, Begun
<1>6. fs = d
  <2>1. CASE trusted = NoCheckpoint
    <3>1. d = << >> /\ n = 0
      BY <1>1, <2>1 DEF NoCheckpoint
    <3> QED BY <1>5, <3>1, ListFacts
  <2>2. CASE ExtendsCheckpoint(trusted, es)
    <3>1. VerifyKeyLog(fs).ok /\ VerifyKeyLog(fs).head = trusted.headHash
      BY <1>1, <1>5, <2>2 DEF ExtendsCheckpoint
    <3> QED BY <1>2, <1>5, <3>1 DEF Commits
  <2> QED BY <2>1, <2>2
<1>7. SubSeq(d, 1, n) = d
  BY <1>2, WholeLog
<1> QED BY <1>1, <1>2, <1>4, <1>5, <1>6, <1>7 DEF IsPrefix

(* What load() takes over.                                                 *)
LEMMA LoadedKeys ==
  ASSUME LogIInv, LoadDone \/ LoadFails
  PROVE  RevokedStaysRevoked' /\ CheckpointPins
<1>1. CASE resolvedFrom'.ok
  <2>1. PICK es : es = loading.entries
    OBVIOUS
  <2>2. LoadDone
    BY <1>1 DEF LoadDone, LoadFails, Loaded
  <2>3. /\ VerifyKeyLog(es).ok
        /\ trusted = NoCheckpoint \/ ExtendsCheckpoint(trusted, es)
        /\ resolvedFrom'.entries = es /\ resolvedFrom'.keys = ResolveKeyLog(es)
    BY <1>1, <2>1, <2>2 DEF LoadDone, Loaded
  <2>4. IsList(es) /\ DOMAIN es = 1 .. Len(es)
    BY <2>1, ListFacts DEF LogIInv, Committed
  <2>5. PICK ks : KeysUpTo(ks, ResolveKeyLog(es), es, Len(es))
    BY <2>3, <2>4, KeysResolved
  <2>6. PICK active : active = ResolveKeyLog(es)
    OBVIOUS
  <2>7. /\ active \subseteq ks.keys
        /\ \A k \in active : <<k.subject, k.keyId>> \notin ks.revokedIds
        /\ \A k, l \in ks.keys : k.publicKey = l.publicKey => k = l
        /\ \A k, l \in active : k.subject = l.subject => k = l
        /\ \A i \in DOMAIN es : es[i].type = "revoke" =>
             <<es[i].subject, es[i].keyId>> \in ks.revokedIds
        /\ \A i, j \in DOMAIN es :
             es[i].publicKey # NoKey /\ es[i].publicKey = es[j].publicKey => i = j
    BY <2>4, <2>5, <2>6 DEF KeysUpTo
  <2>8. \A k \in active :
          /\ ~\E i \in DOMAIN es : /\ es[i].type = "revoke"
                                  /\ es[i].subject = k.subject /\ es[i].keyId = k.keyId
          /\ \A l \in active : k.subject = l.subject \/ k.publicKey = l.publicKey => k = l
    BY <2>7
  <2>9. RevokedStaysRevoked'
    BY <2>3, <2>6, <2>7, <2>8 DEF RevokedStaysRevoked
  <2>10. IsPrefix(trusted.of, es)
    BY <2>3, <2>4, CheckpointTells
  <2> QED BY <2>3, <2>9, <2>10 DEF CheckpointPins
<1>2. CASE ~resolvedFrom'.ok
  BY <1>2 DEF RevokedStaysRevoked, CheckpointPins
<1> QED BY <1>1, <1>2

(* However appends, checkpoints, restarts and refreshes interleave, and    *)
(* though the log may not verify, createKeyLogRegistry() resolves only     *)
(* unrevoked keys, each registered once, from a log that continues the one *)
(* its trusted checkpoint was taken of, for logs of any length.            *)
THEOREM TrustedKeysResolved == KeyLogSpec => ResolvesTrustedKeys
<1>1. LogIInv /\ [KeyLogNext]_klVars =>
        [resolvedFrom' # resolvedFrom => RevokedStaysRevoked' /\ CheckpointPins]_klVars
  <2> SUFFICES ASSUME LogIInv, KeyLogNext, resolvedFrom' # resolvedFrom
               PROVE  RevokedStaysRevoked' /\ CheckpointPins
    OBVIOUS
  <2>1. LoadDone \/ LoadFails
    BY DEF KeyLogNext, BeginAppend, SignedEntry, HashedEntry, TakeCheckpoint, BeginLoad,
           Fetched, RestartOperator, LogLater
  <2> QED BY <2>1, LoadedKeys
<1> QED BY <1>1, LogInvariance, PTL DEF KeyLogSpec, ResolvesTrustedKeys

-----------------------------------------------------------------------------
(* Threshold signatures                                                    *)

(* The fields of a threshold envelope.                                     *)
EnvelopeShape(e) == e = [message |-> e.message, signerIds |-> e.signerIds, value |-> e.value]

(* The threshold envelope is the one the aggregator combined, or what its  *)
(* text and its names became on the way; its sum is of the first m partial *)
(* signatures, and an accepted one verified as it is.                      *)
SignedIInv ==
  /\ partials \in Seq([signer : Signers, over : Messages])
  /\ \A e \in combined : /\ EnvelopeShape(e)
                         /\ MinSigners <= Len(partials)
                         /\ e.value = SumOf(SubSeq(partials, 1, MinSigners))
  /\ \A e, f \in combined : e = f
  /\ accepted => combined # {} /\ \A e \in combined : Verifies(e)

(* There is no envelope at first.                                          *)
LEMMA SignedInit == ThresholdInit => SignedIInv
BY DEF ThresholdInit, SignedIInv

(* The inductive step, action by action.                                   *)
LEMMA SignedNext == SignedIInv /\ [ThresholdNext]_thresholdVars => SignedIInv'
<1> SUFFICES ASSUME SignedIInv, [ThresholdNext]_thresholdVars PROVE SignedIInv'
  OBVIOUS
<1>1. ASSUME UNCHANGED <<partials, combined, accepted>> PROVE SignedIInv'
  BY <1>1 DEF SignedIInv, Verifies
<1>2. ASSUME NEW s \in Signers, NEW m \in Messages, SignEnvelopeBls(s, m) PROVE SignedIInv'
  <2>1. /\ partials' = Append(partials, [signer |-> s, over |-> m])
        /\ combined = {} /\ combined' = {} /\ accepted' = accepted
    BY <1>2 DEF SignEnvelopeBls
  <2>2. ~accepted
    BY <2>1 DEF SignedIInv
  <2>3. partials' \in Seq([signer : Signers, over : Messages])
    BY <2>1 DEF SignedIInv
  <2> QED BY <2>1, <2>2, <2>3 DEF SignedIInv
<1>3. ASSUME NEW m \in Messages, AggregateSignatures(m) PROVE SignedIInv'
  <2>1. PICK selected : selected = SubSeq(partials, 1, MinSigners)
    OBVIOUS
  <2>2. PICK ids : ids = [i \in DOMAIN selected |-> selected[i].signer]
    OBVIOUS
  <2>3. PICK v : v = SumOf(selected)
    OBVIOUS
  <2>4. PICK e : e = [message |-> m, signerIds |-> ids, value |-> v]
    OBVIOUS
  <2>5. /\ combined' = {e} /\ combined = {} /\ Len(partials) >= MinSigners
        /\ UNCHANGED <<partials, accepted>>
    BY <1>3, <2>1, <2>2, <2>3, <2>4 DEF AggregateSignatures
  <2>6. EnvelopeShape(e) /\ e.value = SumOf(SubSeq(partials, 1, MinSigners))
    BY <2>1, <2>3, <2>4 DEF EnvelopeShape
  <2>7. ~accepted /\ MinSigners <= Len(partials)
    BY <2>5, ThresholdAssumption DEF SignedIInv
  <2> QED BY <2>5, <2>6, <2>7 DEF SignedIInv
<1>4. CASE ChangeEnvelope
  <2>1. PICK e \in combined : \/ \E m \in Messages : combined' = {[e EXCEPT !.message = m]}
                              \/ \E i \in DOMAIN e.signerIds, s \in Signers :
                                   combined' = {[e EXCEPT !.signerIds[i] = s]}
    BY <1>4 DEF ChangeEnvelope
  <2>2. ~accepted /\ UNCHANGED <<partials, accepted>>
    BY <1>4 DEF ChangeEnvelope
  <2>3. EnvelopeShape(e)
    BY DEF SignedIInv
  <2>4. PICK f : combined' = {f} /\ EnvelopeShape(f) /\ f.value = e.value
    <3>1. ASSUME NEW m, combined' = {[e EXCEPT !.message = m]}
          PROVE  \E f : combined' = {f} /\ EnvelopeShape(f) /\ f.value = e.value
      <4>1. PICK f : f = [e EXCEPT !.message = m]
        OBVIOUS
      <4>2. f = [message |-> m, signerIds |-> e.signerIds, value |-> e.value]
        BY <2>3, <4>1 DEF EnvelopeShape
      <4> QED BY <3>1, <4>1, <4>2 DEF EnvelopeShape
    <3>2. ASSUME NEW i, NEW s, combined' = {[e EXCEPT !.signerIds[i] = s]}
          PROVE  \E f : combined' = {f} /\ EnvelopeShape(f) /\ f.value = e.value
      <4>1. PICK f : f = [e EXCEPT !.signerIds[i] = s]
        OBVIOUS
      <4>2. PICK ids : ids = [e.signerIds EXCEPT ![i] = s]
        OBVIOUS
      <4>3. f = [message |-> e.message, signerIds |-> ids, value |-> e.value]
        BY <2>3, <4>1, <4>2 DEF EnvelopeShape
      <4> QED BY <3>2, <4>1, <4>3 DEF EnvelopeShape
    <3> QED BY <2>1, <3>1, <3>2
  <2> QED BY <2>1, <2>2, <2>4 DEF SignedIInv
<1>5. CASE VerifyThresholdEnvelope
  <2>1. PICK e \in combined : Verifies(e)
    BY <1>5 DEF VerifyThresholdEnvelope
  <2>2. \A f \in combined : f = e
    BY DEF SignedIInv
  <2>3. UNCHANGED <<partials, combined>>
    BY <1>5 DEF VerifyThresholdEnvelope
  <2>4. \A f \in combined' : Verifies(f)'
    BY <2>1, <2>2, <2>3 DEF Verifies
  <2> QED BY <2>1, <2>3, <2>4 DEF SignedIInv
<1>6. ASSUME NEW k, NEW m, SplitPrivateKey(k, m) PROVE SignedIInv'
  BY <1>1, <1>6 DEF SplitPrivateKey
<1>7. CASE ReconstructPrivateKey
  BY <1>1, <1>7 DEF ReconstructPrivateKey
<1>8. CASE UNCHANGED thresholdVars
  BY <1>1, <1>8 DEF thresholdVars
<1> QED BY <1>2, <1>3, <1>4, <1>5, <1>6, <1>7, <1>8 DEF ThresholdNext

(* Whoever a threshold envelope that verified names signed that very text, *)
(* whatever was sent twice, combined or changed on its way                 *)
(* (verifyThresholdEnvelope), for any number of signers and texts.         *)
THEOREM SignersNamed == ThresholdSpec => []NamedSignersSigned
<1>1. SignedIInv => NamedSignersSigned
  <2> SUFFICES ASSUME SignedIInv, accepted, NEW e \in combined, NEW i \in DOMAIN e.signerIds
               PROVE  \E j \in DOMAIN partials :
                        partials[j].signer = e.signerIds[i] /\ partials[j].over = e.message
    BY DEF NamedSignersSigned
  <2>1. PICK selected : selected = SubSeq(partials, 1, MinSigners)
    OBVIOUS
  <2>2. PICK named : named = [n \in DOMAIN e.signerIds |-> [signer |-> e.signerIds[n],
                                                           over |-> e.message]]
    OBVIOUS
  <2>3. SumOf(named) = SumOf(selected)
    BY <2>1, <2>2 DEF SignedIInv, Verifies
  <2>4. DOMAIN SumOf(named) = Range(named) /\ DOMAIN SumOf(selected) = Range(selected)
    BY DEF SumOf
  <2>5. named[i] \in Range(selected)
    BY <2>2, <2>3, <2>4 DEF Range
  <2>6. PICK j \in DOMAIN selected : selected[j] = named[i]
    BY <2>5 DEF Range
  <2>7. j \in DOMAIN partials /\ selected[j] = partials[j]
    <3>1. /\ partials \in Seq([signer : Signers, over : Messages])
          /\ MinSigners <= Len(partials) /\ MinSigners \in Nat
      BY ThresholdAssumption DEF SignedIInv
    <3> QED BY <2>1, <2>6, <3>1
  <2> QED BY <2>2, <2>6, <2>7
<1> QED BY <1>1, SignedInit, SignedNext, PTL DEF ThresholdSpec
=============================================================================
