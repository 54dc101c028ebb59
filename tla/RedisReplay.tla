---------------------------- MODULE RedisReplay -----------------------------
(***************************************************************************)
(* The replay stores that several processes share through Redis.           *)
(* createRedisReplayStore() reserves keys with SET NX PX, one by one or in *)
(* a pipeline, and degrades when the client throws;                        *)
(* ClusterRedisReplayStore asks several nodes at once.  A reply may be     *)
(* lost after the command was executed, and a node may come back empty.    *)
(***************************************************************************)
EXTENDS Integers, Sequences

CONSTANTS Requests,        \* concurrent reserve / reserveMany / check calls
          Hosts,           \* processes, each with its own fallback store
          Shards,          \* Redis nodes
          Main,            \* the node reserve() and reserveMany() talk to
          Nonces,          \* replay keys
          ExpiresAt,       \* expiry of the envelope behind each key
          Batches,         \* the key sequences that are reserved together
          MaxTime          \* bound on the clock

ASSUME RedisReplayAssumption ==
  /\ Main \in Shards /\ Hosts \cap Shards = {} /\ "open" \notin Shards
  /\ ExpiresAt \in [Nonces -> Nat]
  /\ Batches \subseteq Seq(Nonces) \ {<<>>}
  /\ MaxTime \in Nat

Behaviors == {"fallback", "reject", "allow"}
Absent == -1
Idle == [pc |-> "idle"]

VARIABLES now,
          mode,       \* errorBehavior, or "cluster" for a ClusterRedisReplayStore
          redis,      \* per node, key -> expiry
          local,      \* per host, the fallback store: key -> expiry
          req,        \* the calls in progress
          fresh,      \* history: acceptances of each live key, by who answered
          intact      \* history: nodes that never came back empty

redisVars == <<now, mode, redis, local, req, fresh, intact>>

Answerers == Hosts \cup Shards \cup {"open"}
NewStore == [k \in Nonces |-> Absent]

RedisInit ==
  /\ now = 0
  /\ mode \in Behaviors \cup {"cluster"}
  /\ redis = [s \in Shards |-> NewStore]
  /\ local = [h \in Hosts |-> NewStore]
  /\ req = [r \in Requests |-> Idle]
  /\ fresh = [k \in Nonces |-> [a \in Answerers |-> 0]]
  /\ intact = Shards

Longest(a, b) == IF a >= b THEN a ELSE b

(* Fault: the shorter of the two lifetimes is taken. *)
SetNXShort(store, k, start) ==
  [store EXCEPT ![k] = IF @ > now THEN @ ELSE now + 1]

(* SET NX PX: the store after the command, for a call that read the clock  *)
(* at start; the node measures the lifetime from its own reading.          *)
SetNX(store, k, start) ==
  [store EXCEPT ![k] = IF @ > now THEN @ ELSE now + Longest(1, ExpiresAt[k] - start)]

Live(store, k) == store[k] > now

(* Acceptances of the keys in K answered by a, while their envelopes live; *)
(* the count stops at Many, the second.                                    *)
Many == 2
Accept(K, a) ==
  [k \in Nonces |->
     IF k \in K /\ now < ExpiresAt[k] /\ fresh[k][a] < Many
     THEN [fresh[k] EXCEPT ![a] = @ + 1] ELSE fresh[k]]

(* The keys among the first n of the batch that SET NX would write: a key  *)
(* that occurs twice is written once.                                      *)
Unheld(store, keys) == {k \in {keys[i] : i \in DOMAIN keys} : ~Live(store, k)}

-----------------------------------------------------------------------------
(* reserve(key) is a batch of one; reserveMany() queues a pipeline. *)
Reserve(r, h, keys) ==
  /\ mode # "cluster"
  /\ req[r] = Idle
  /\ req' = [req EXCEPT ![r] = [pc |-> "pipeline", host |-> h, keys |-> keys,
                                 start |-> now, next |-> 1, won |-> {}]]
  /\ UNCHANGED <<now, mode, redis, local, fresh, intact>>

(* One SET of the pipeline is executed; other clients' commands may come   *)
(* between two of them.                                                    *)
PipelineSet(r) ==
  /\ req[r].pc = "pipeline"
  /\ req[r].next <= Len(req[r].keys)
  /\ LET k == req[r].keys[req[r].next] IN
       /\ redis' = [redis EXCEPT ![Main] = SetNX(@, k, req[r].start)]
       /\ req' = [req EXCEPT ![r].next = @ + 1,
                             ![r].won = IF Live(redis[Main], k) THEN @ ELSE @ \cup {k}]
  /\ UNCHANGED <<now, mode, local, fresh, intact>>

(* The replies arrive: 'OK' is an acceptance. *)
PipelineReply(r) ==
  /\ req[r].pc = "pipeline"
  /\ req[r].next > Len(req[r].keys)
  /\ fresh' = Accept(req[r].won, Main)
  /\ req' = [req EXCEPT ![r] = Idle]
  /\ UNCHANGED <<now, mode, redis, local, intact>>

(* degrade(): 'allow' accepts every key of the batch, 'reject' none, and   *)
(* 'fallback' reserves each in the host's own store.                       *)
Degrade(r) ==
  LET h == req[r].host
      new == IF mode = "fallback" THEN Unheld(local[h], req[r].keys) ELSE {}
  IN
  /\ fresh' = IF mode = "allow"
              THEN Accept({req[r].keys[i] : i \in DOMAIN req[r].keys}, "open")
              ELSE Accept(new, h)
  /\ local' = [local EXCEPT ![h] =
       [k \in Nonces |-> IF k \in new THEN SetNX(@, k, req[r].start)[k] ELSE @[k]]]

(* The client throws, before or after some of the commands were executed,  *)
(* or although all were: the whole batch is decided by degrade().          *)
PipelineThrows(r) ==
  /\ req[r].pc = "pipeline"
  /\ Degrade(r)
  /\ req' = [req EXCEPT ![r] = Idle]
  /\ UNCHANGED <<now, mode, redis, intact>>

-----------------------------------------------------------------------------
(* ClusterRedisReplayStore.check(): one SET NX PX per node, in parallel. *)
ClusterCheck(r, k) ==
  /\ mode = "cluster"
  /\ req[r] = Idle
  /\ req' = [req EXCEPT ![r] = [pc |-> "cluster", key |-> k, start |-> now,
                                 asked |-> Shards, seen |-> FALSE, failed |-> FALSE]]
  /\ UNCHANGED <<now, mode, redis, local, fresh, intact>>

NodeChecks(r, s) ==
  /\ req[r].pc = "cluster"
  /\ s \in req[r].asked
  /\ LET k == req[r].key IN
       /\ redis' = [redis EXCEPT ![s] = SetNX(@, k, req[r].start)]
       /\ req' = [req EXCEPT ![r].asked = @ \ {s},
                             ![r].seen = @ \/ Live(redis[s], k)]
  /\ UNCHANGED <<now, mode, local, fresh, intact>>

(* One node throws: Promise.all rejects, the other commands still run. *)
NodeThrows(r, s) ==
  /\ req[r].pc = "cluster"
  /\ s \in req[r].asked
  /\ req' = [req EXCEPT ![r].asked = @ \ {s}, ![r].failed = TRUE]
  /\ UNCHANGED <<now, mode, redis, local, fresh, intact>>

(* Every node has answered: fresh unless some node had seen the key. *)
ClusterAnswers(r) ==
  /\ req[r].pc = "cluster"
  /\ req[r].asked = {}
  /\ fresh' = IF req[r].failed \/ req[r].seen THEN fresh ELSE Accept({req[r].key}, Main)
  /\ req' = [req EXCEPT ![r] = Idle]
  /\ UNCHANGED <<now, mode, redis, local, intact>>

-----------------------------------------------------------------------------
(* The environment: a node of a cluster comes back without its data. *)
NodeRestarts(s) ==
  /\ mode = "cluster"
  /\ s \in intact
  /\ redis' = [redis EXCEPT ![s] = NewStore]
  /\ intact' = intact \ {s}
  /\ UNCHANGED <<now, mode, local, req, fresh>>

RedisTick ==
  /\ now < MaxTime
  /\ now' = now + 1
  /\ UNCHANGED <<mode, redis, local, req, fresh, intact>>

RedisNext ==
  \/ \E r \in Requests :
       \/ \E h \in Hosts, keys \in Batches : Reserve(r, h, keys)
       \/ PipelineSet(r)
       \/ PipelineReply(r)
       \/ PipelineThrows(r)
       \/ \E k \in Nonces : ClusterCheck(r, k)
       \/ \E s \in Shards : NodeChecks(r, s) \/ NodeThrows(r, s)
       \/ ClusterAnswers(r)
  \/ \E s \in Shards : NodeRestarts(s)
  \/ RedisTick

RedisSpec == RedisInit /\ [][RedisNext]_redisVars

-----------------------------------------------------------------------------
RedisTypeOK ==
  /\ now \in Nat
  /\ mode \in Behaviors \cup {"cluster"}
  /\ redis \in [Shards -> [Nonces -> Nat \cup {Absent}]]
  /\ local \in [Hosts -> [Nonces -> Nat \cup {Absent}]]
  /\ fresh \in [Nonces -> [Answerers -> Nat]]
  /\ intact \subseteq Shards

(* replayStores.ts:189: while an envelope is valid, Redis accepts its key  *)
(* at most once and so does each host's fallback store, whatever was lost  *)
(* on the way and however long the commands were under way.                *)
OncePerStore ==
  mode = "fallback" => \A k \in Nonces, a \in Answerers : fresh[k][a] <= 1

(* replayStores.ts:183: under 'reject' a valid envelope is accepted once   *)
(* in the whole fleet, also when replies are lost and batches fail halfway.*)
RejectFailsClosed ==
  mode = "reject" =>
    \A k \in Nonces, a, b \in Answerers :
      fresh[k][a] <= 1 /\ (fresh[k][a] > 0 /\ fresh[k][b] > 0 => a = b)

(* replayStores.ts:88: as long as one node has kept its data, a key is     *)
(* fresh for one check of the cluster only.                                *)
ClusterOnce ==
  mode = "cluster" /\ intact # {} => \A k \in Nonces : fresh[k][Main] <= 1

(* replayStores.ts:183: a valid envelope is new once for whoever answers:  *)
(* once per store when a host falls back to its memory, once in the fleet  *)
(* when it refuses instead, once in the cluster while one node remembers.  *)
AnsweredFreshOnce == OncePerStore /\ RejectFailsClosed /\ ClusterOnce
=============================================================================
