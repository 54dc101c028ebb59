----------------------------- MODULE Revocation -----------------------------
(***************************************************************************)
(* createRedisRevocationStore() on several nodes over one Redis, for one   *)
(* (sender, keyId).  Each node answers isRevoked() from a local cache that *)
(* is fresh for CacheTtl and reads Redis otherwise; reads and revocations  *)
(* wait for Redis, which may throw.                                        *)
(***************************************************************************)
EXTENDS Integers

CONSTANTS Nodes,       \* processes with a store of their own
          Reads,       \* isRevoked() calls in progress at once
          CacheTtl,    \* cacheTtlMs
          OnError,     \* errorBehavior: "reject" or "allow"
          MaxNow       \* bound on the clock

ASSUME RevocationAssumption ==
  /\ CacheTtl \in Nat /\ MaxNow \in Nat
  /\ OnError \in {"reject", "allow"}

VARIABLES time,
          revokedAt,     \* when revoke() reached Redis, Never before
          until,         \* when Redis forgets it: untilMs, or Never
          nodeCache,     \* each node's cache entry
          read,          \* the calls in progress
          revoking,      \* nodes whose revoke() waits for Redis
          told           \* the last answer of isRevoked(), and what it rests on

revVars == <<time, revokedAt, until, nodeCache, read, revoking, told>>

Never == MaxNow + 1
NoCache == [known |-> FALSE, revoked |-> FALSE, freshUntil |-> 0]
NoRead == [at |-> "idle", node |-> "none", started |-> 0, cached |-> NoCache,
           value |-> FALSE]
NothingTold == [from |-> "none", started |-> 0, freshUntil |-> 0, revoked |-> FALSE]

RevocationInit ==
  /\ time = 0 /\ revokedAt = Never /\ until = Never
  /\ nodeCache = [n \in Nodes |-> NoCache]
  /\ read = [r \in Reads |-> NoRead]
  /\ revoking = {} /\ told = NothingTold

RevocationCache(n, isRevoked, freshUntil) ==
  nodeCache' = [nodeCache EXCEPT ![n] =
    [known |-> TRUE, revoked |-> isRevoked, freshUntil |-> freshUntil]]

(* The answer to a call begun at an instant, from an entry fresh until one. *)
Tell(from, started, freshUntil, isRevoked) ==
  told' = [from |-> from, started |-> started, freshUntil |-> freshUntil,
           revoked |-> isRevoked]

InRedis == revokedAt <= time /\ time < until

-----------------------------------------------------------------------------
(* isRevoked() up to the await.  A fresh entry answers at once; otherwise  *)
(* the read is sent.                                                       *)
Fresh(n) == nodeCache[n].known /\ nodeCache[n].freshUntil > time

AnswerCached(n) ==
  /\ Fresh(n)
  /\ Tell("cache", time, nodeCache[n].freshUntil, nodeCache[n].revoked)
  /\ UNCHANGED <<time, revokedAt, until, nodeCache, read, revoking>>

AskRedis(n, r) ==
  /\ read[r] = NoRead
  /\ ~Fresh(n)
  /\ read' = [read EXCEPT ![r] =
       [at |-> "sent", node |-> n, started |-> time, value |-> FALSE,
        cached |-> nodeCache[n]]]
  /\ UNCHANGED <<time, revokedAt, until, nodeCache, revoking, told>>

(* Redis evaluates the GET; the reply is on its way. *)
RedisReplies(r) ==
  /\ read[r].at = "sent"
  /\ read' = [read EXCEPT ![r].at = "replied", ![r].value = InRedis]
  /\ UNCHANGED <<time, revokedAt, until, nodeCache, revoking, told>>

(* Fault: the entry is fresh from the moment the reply arrived. *)
ReadDoneLate(r) ==
  /\ read[r].at = "replied"
  /\ RevocationCache(read[r].node, read[r].value, time + CacheTtl)
  /\ Tell("redis", read[r].started, 0, read[r].value)
  /\ read' = [read EXCEPT ![r] = NoRead]
  /\ UNCHANGED <<time, revokedAt, until, revoking>>

(* The reply is cached for CacheTtl from the start of the call, over       *)
(* whatever the node has cached meanwhile, and returned.                   *)
ReadDone(r) ==
  /\ read[r].at = "replied"
  /\ RevocationCache(read[r].node, read[r].value, read[r].started + CacheTtl)
  /\ Tell("redis", read[r].started, 0, read[r].value)
  /\ read' = [read EXCEPT ![r] = NoRead]
  /\ UNCHANGED <<time, revokedAt, until, revoking>>

(* The client throws: the entry found when the call began is served        *)
(* however old, and without one errorBehavior decides.                     *)
ReadThrows(r) ==
  /\ read[r] # NoRead
  /\ IF read[r].cached.known
     THEN Tell("stale", read[r].started, read[r].cached.freshUntil, read[r].cached.revoked)
     ELSE Tell("policy", read[r].started, 0, OnError = "reject")
  /\ read' = [read EXCEPT ![r] = NoRead]
  /\ UNCHANGED <<time, revokedAt, until, nodeCache, revoking>>

(* Fault: an end in the past is sent to Redis as it is. *)
RevokeSetLapsed(n, u) ==
  /\ revokedAt = Never
  /\ revokedAt' = time /\ until' = u
  /\ revoking' = revoking \cup {n}
  /\ UNCHANGED <<time, nodeCache, read, told>>

(* revoke(): the SET, for good or until an instant, a moment away at       *)
(* least, reaches Redis; then the node's own cache is written.             *)
RevokeSet(n, u) ==
  /\ revokedAt = Never
  /\ revokedAt' = time
  /\ until' = IF u > time THEN u ELSE time + 1
  /\ revoking' = revoking \cup {n}
  /\ UNCHANGED <<time, nodeCache, read, told>>

RevokeCached(n) ==
  /\ n \in revoking
  /\ RevocationCache(n, TRUE, time + CacheTtl)
  /\ revoking' = revoking \ {n}
  /\ UNCHANGED <<time, revokedAt, until, read, told>>

Later ==
  /\ time < MaxNow
  /\ time' = time + 1
  /\ UNCHANGED <<revokedAt, until, nodeCache, read, revoking, told>>

RevocationNext ==
  \/ \E n \in Nodes, r \in Reads : AskRedis(n, r)
  \/ \E r \in Reads : RedisReplies(r) \/ ReadDone(r) \/ ReadThrows(r)
  \/ \E n \in Nodes, u \in 0 .. Never : RevokeSet(n, u)
  \/ \E n \in Nodes : AnswerCached(n) \/ RevokeCached(n)
  \/ Later

RevocationSpec == RevocationInit /\ [][RevocationNext]_revVars

-----------------------------------------------------------------------------
CacheEntries == [known : BOOLEAN, revoked : BOOLEAN, freshUntil : Nat]
ReadStates == [at : {"idle", "sent", "replied"}, node : Nodes \cup {"none"},
               started : Nat, cached : CacheEntries, value : BOOLEAN]
RevocationAnswers ==
  [from : {"none", "cache", "redis", "stale", "policy"}, started : Nat,
   freshUntil : Nat, revoked : BOOLEAN]

RevocationTypeOK ==
  /\ time \in 0 .. MaxNow
  /\ revokedAt \in 0 .. Never /\ until \in 0 .. Never
  /\ revokedAt # Never => revokedAt < until
  /\ nodeCache \in [Nodes -> CacheEntries]
  /\ read \in [Reads -> ReadStates]
  /\ \A r \in Reads : read[r].at # "idle" => read[r].node \in Nodes
  /\ revoking \subseteq Nodes
  /\ told \in RevocationAnswers

(* revocation.ts:75: once a revocation is in Redis, and until Redis        *)
(* forgets it, isRevoked() answers "not revoked" on one of four grounds    *)
(* only: an entry still fresh, to a call begun within CacheTtl of the      *)
(* revocation; a reply of Redis, to a call begun no later than it; after   *)
(* the client threw, an entry whose lifetime ended within CacheTtl of it;  *)
(* or, without an entry, errorBehavior "allow".  The third has no limit in *)
(* time and "reject" does not prevent it, although KEY_REVOCATION.md:53    *)
(* says that an error is taken for a revocation.  Reads may be in flight   *)
(* when the revocation is written and overwrite each other's entries.      *)
RevocationTakesEffect ==
  revokedAt # Never /\ time < until /\ told.from # "none" /\ ~told.revoked =>
    \/ told.from = "cache" /\ told.started < revokedAt + CacheTtl
    \/ told.from = "redis" /\ told.started <= revokedAt
    \/ told.from = "stale" /\ told.freshUntil <= revokedAt + CacheTtl
    \/ told.from = "policy" /\ OnError = "allow"

=============================================================================
