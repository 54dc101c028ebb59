-------------------------- MODULE CloudflareStores --------------------------
(***************************************************************************)
(* The stores a Cloudflare worker uses: replay keys and rate-limit windows *)
(* in KV and in Durable Objects.  KV is read and written in two steps, and *)
(* each datacenter reads its own copy: what it wrote itself at once, what  *)
(* another wrote at some later time, with no bound on how late             *)
(* (kv-replay-store.ts:6).  A Durable Object runs its handlers one at a    *)
(* time and keeps one alarm.  A behaviour exercises one of the four        *)
(* stores, store.                                                          *)
(***************************************************************************)
EXTENDS Lists, FiniteSetsExt

CONSTANTS Workers,       \* concurrent requests
          Datacenters,   \* where they run, each with its copy of KV
          EdgeNonces,
          Ttl,           \* ttlMs each nonce is checked with
          Second,        \* 1000 ms, in units of the clock
          KvFloor,       \* KV's least expirationTtl, 60 s, in the same units
          Limit, Window, \* the rate-limit policy: requests per windowMs
          MaxLag,        \* longest time from a worker's Date.now() to the object
          MaxWall,       \* bound on the clock
          MaxPassed      \* allowed requests that are recorded

ASSUME CloudflareAssumption ==
  /\ Ttl \in [EdgeNonces -> Nat \ {0}]
  /\ Second \in Nat \ {0} /\ KvFloor \in Nat /\ Limit \in Nat
  /\ Window \in Nat /\ MaxLag \in 0 .. Window /\ MaxWall \in Nat /\ MaxPassed \in Nat

Stores == {"kvReplay", "doReplay", "kvRate", "doRate"}
None == -1

VARIABLES wall,
          store,
          nonces,    \* last KV entry or Durable Object storage: nonce -> expiry
          stamps,    \* the sender's timestamps as last written
          copies,    \* a datacenter's copy of nonces and stamps in KV
          alarm,     \* the Durable Object's only alarm
          work,      \* requests between KV's get and put
          settled,   \* history: until when a nonce that was answered fresh is taken
          known,     \* history: settled, as far as it has reached a datacenter
          passed,    \* history: when requests were allowed, until one raced
          raced      \* history: a rate-limit request overlapped another or read
                     \* a copy that was not up to date

edgeVars ==
  <<wall, store, nonces, stamps, copies, alarm, work, settled, known, passed, raced>>

Resting == [pc |-> "rest"]

EdgeInit ==
  /\ wall = 0
  /\ store \in Stores
  /\ nonces = [k \in EdgeNonces |-> None]
  /\ stamps = <<>>
  /\ copies = [d \in Datacenters |-> [nonces |-> nonces, stamps |-> stamps]]
  /\ alarm = None
  /\ work = [w \in Workers |-> Resting]
  /\ settled = [k \in EdgeNonces |-> 0]
  /\ known = [d \in Datacenters |-> settled]
  /\ passed = <<>>
  /\ raced = FALSE

-----------------------------------------------------------------------------
(* Fault: the seconds are rounded down. *)
KvTtlTruncated(ttl) == Max({KvFloor, (ttl \div Second) * Second})

(* expirationTtl is in whole seconds, rounded up, and not below KV's floor. *)
KvTtl(ttl) == Max({KvFloor, ((ttl + Second - 1) \div Second) * Second})

(* KvReplayStore.check() in datacenter d: a key in its copy is a replay. *)
KvGetNonce(w, d, k) ==
  /\ store = "kvReplay"
  /\ work[w] = Resting
  /\ work' = IF copies[d].nonces[k] > wall THEN work
             ELSE [work EXCEPT ![w] = [pc |-> "putNonce", key |-> k, at |-> d,
                                        late |-> known[d][k] > wall]]
  /\ UNCHANGED <<wall, store, nonces, stamps, copies, alarm, settled, known, passed, raced>>

KvPutNonce(w) ==
  /\ work[w].pc = "putNonce"
  /\ LET k == work[w].key
         d == work[w].at
         expiry == wall + KvTtl(Ttl[k])
     IN /\ nonces' = [nonces EXCEPT ![k] = expiry]
        /\ copies' = [copies EXCEPT ![d].nonces[k] = expiry]
        /\ settled' = [settled EXCEPT ![k] = wall + Ttl[k]]
        /\ known' = [known EXCEPT ![d][k] = wall + Ttl[k]]
  /\ work' = [work EXCEPT ![w] = Resting]
  /\ UNCHANGED <<wall, store, stamps, alarm, passed, raced>>

(* The last entry of a nonce reaches another datacenter. *)
KvNonceArrives(d, k) ==
  /\ store = "kvReplay"
  /\ copies[d].nonces[k] # nonces[k]
  /\ copies' = [copies EXCEPT ![d].nonces[k] = nonces[k]]
  /\ known' = [known EXCEPT ![d][k] = settled[k]]
  /\ UNCHANGED <<wall, store, nonces, stamps, alarm, work, settled, passed, raced>>

(* ReplayDurableObject.fetch(): a stored key is a replay, expired or not;  *)
(* a new one replaces the alarm.                                           *)
DoCheck(k) ==
  /\ store = "doReplay"
  /\ IF nonces[k] # None THEN UNCHANGED <<nonces, alarm, settled>>
     ELSE /\ nonces' = [nonces EXCEPT ![k] = wall + Ttl[k]]
          /\ alarm' = wall + Ttl[k]
          /\ settled' = [settled EXCEPT ![k] = wall + Ttl[k]]
  /\ UNCHANGED <<wall, store, stamps, copies, work, known, passed, raced>>

(* Fault: every key is swept when the alarm rings. *)
DoAlarmSweepsAll ==
  /\ store = "doReplay"
  /\ alarm # None /\ alarm <= wall
  /\ alarm' = None
  /\ nonces' = [k \in EdgeNonces |-> None]
  /\ UNCHANGED <<wall, store, stamps, copies, work, settled, known, passed, raced>>

(* ReplayDurableObject.alarm(): keys go by their own expiry. *)
DoAlarm ==
  /\ store = "doReplay"
  /\ alarm # None /\ alarm <= wall
  /\ alarm' = None
  /\ nonces' = [k \in EdgeNonces |-> IF nonces[k] <= wall THEN None ELSE nonces[k]]
  /\ UNCHANGED <<wall, store, stamps, copies, work, settled, known, passed, raced>>

-----------------------------------------------------------------------------
(* The timestamps of a window that a request stamped t still counts. *)
Counted(window, t) == Picked(window, {i \in DOMAIN window : window[i] > t - Window})

Allowed(t) == IF ~raced /\ Len(passed) < MaxPassed THEN Append(passed, t) ELSE passed

(* KvRateLimitStore.consume() in datacenter d *)
KvGetWindow(w, d) ==
  /\ store = "kvRate"
  /\ work[w] = Resting
  /\ raced' = (raced \/ copies[d].stamps # stamps \/ \E v \in Workers : work[v] # Resting)
  /\ LET kept == Counted(copies[d].stamps, wall) IN
       work' = IF Len(kept) < Limit
               THEN [work EXCEPT ![w] = [pc |-> "putWindow", at |-> d, stamped |-> wall,
                                          stamps |-> Append(kept, wall)]]
               ELSE work
  /\ UNCHANGED <<wall, store, nonces, stamps, copies, alarm, settled, known, passed>>

(* The window is written back whole: what others wrote meanwhile is lost. *)
KvPutWindow(w) ==
  /\ work[w].pc = "putWindow"
  /\ stamps' = work[w].stamps
  /\ copies' = [copies EXCEPT ![work[w].at].stamps = work[w].stamps]
  /\ passed' = Allowed(work[w].stamped)
  /\ work' = [work EXCEPT ![w] = Resting]
  /\ UNCHANGED <<wall, store, nonces, alarm, settled, known, raced>>

(* The last window written reaches another datacenter, over its own. *)
KvWindowArrives(d) ==
  /\ store = "kvRate"
  /\ copies[d].stamps # stamps
  /\ copies' = [copies EXCEPT ![d].stamps = stamps]
  /\ UNCHANGED <<wall, store, nonces, stamps, alarm, work, settled, known, passed, raced>>

(* RateLimitDurableObject.fetch(), for a request that a worker stamped up  *)
(* to MaxLag before it reaches the object.                                 *)
DoConsume(lag) ==
  /\ store = "doRate"
  /\ LET at == wall - lag IN
       IF Len(Counted(stamps, at)) >= Limit THEN UNCHANGED <<stamps, alarm, passed>>
       ELSE /\ stamps' = Append(Counted(stamps, at), at)
            /\ alarm' = at + Window
            /\ passed' = Allowed(wall)
  /\ UNCHANGED <<wall, store, nonces, copies, work, settled, known, raced>>

(* RateLimitDurableObject.alarm() *)
DoRateAlarm ==
  /\ store = "doRate"
  /\ alarm # None /\ alarm <= wall
  /\ alarm' = None
  /\ stamps' = IF \A i \in DOMAIN stamps : wall - stamps[i] > Window THEN <<>> ELSE stamps
  /\ UNCHANGED <<wall, store, nonces, copies, work, settled, known, passed, raced>>

EdgeTick ==
  /\ wall < MaxWall
  /\ wall' = wall + 1
  /\ UNCHANGED <<store, nonces, stamps, copies, alarm, work, settled, known, passed, raced>>

EdgeNext ==
  \/ \E w \in Workers :
       \/ \E d \in Datacenters : (\E k \in EdgeNonces : KvGetNonce(w, d, k)) \/ KvGetWindow(w, d)
       \/ KvPutNonce(w)
       \/ KvPutWindow(w)
  \/ \E d \in Datacenters : (\E k \in EdgeNonces : KvNonceArrives(d, k)) \/ KvWindowArrives(d)
  \/ \E k \in EdgeNonces : DoCheck(k)
  \/ DoAlarm
  \/ \E lag \in 0 .. MaxLag : DoConsume(lag)
  \/ DoRateAlarm
  \/ EdgeTick

EdgeSpec == EdgeInit /\ [][EdgeNext]_edgeVars

-----------------------------------------------------------------------------
EdgeTypeOK ==
  /\ wall \in Nat
  /\ store \in Stores
  /\ nonces \in [EdgeNonces -> Nat \cup {None}]
  /\ stamps \in Seq(Int)
  /\ DOMAIN copies = Datacenters
  /\ alarm \in Int
  /\ settled \in [EdgeNonces -> Nat]
  /\ known \in [Datacenters -> [EdgeNonces -> Nat]]
  /\ raced \in BOOLEAN

(* kv-replay-store.ts:26: once a check was answered "fresh", a check that  *)
(* starts in the same datacenter, or in one that its put has reached, is a *)
(* replay for the nonce's whole lifetime.  Two checks may both be fresh    *)
(* when they overlap, or when the second starts where the first one's put  *)
(* has not arrived, however long ago it was made.                          *)
KvSequentialReplayRefused ==
  \A w \in Workers : work[w].pc = "putNonce" => ~work[w].late

(* durable-replay.ts:48: the Durable Object answers "fresh" once in a      *)
(* nonce's lifetime, whichever of the checks set the alarm that sweeps.    *)
DurableFreshOnce ==
  store = "doReplay" =>
    \A k \in EdgeNonces : settled'[k] # settled[k] => settled[k] <= wall

(* Requests allowed in the length units up to and including instant t. *)
AllowedIn(length, t) ==
  Cardinality({i \in DOMAIN passed : t - length < passed[i] /\ passed[i] <= t})

(* durable-rate-limit.ts:39: requests are stamped by the workers, so they  *)
(* reach the object out of order; the quota still holds over every window  *)
(* shortened by the longest lag, and no alarm resets it.                   *)
DurableQuota ==
  store = "doRate" => \A t \in 0 .. wall : AllowedIn(Window - MaxLag, t) <= Limit

(* kv-rate-limit-store.ts:28: KV enforces the quota on a sender none of    *)
(* whose requests overlapped another or was counted in a datacenter that   *)
(* an earlier one had not reached.  Of other senders it says nothing: a    *)
(* window that arrives or is written back replaces what others counted.    *)
KvSequentialQuota ==
  store = "kvRate" /\ ~raced => \A t \in 0 .. wall : AllowedIn(Window, t) <= Limit

(* What the four stores keep: KV a nonce and a quota for checks that       *)
(* follow one another and see one another's puts (kv-replay-store.ts:26),  *)
(* Durable Objects both for all, up to the lag of the workers' clocks      *)
(* (durable-replay.ts:48).                                                 *)
EdgeStoresHold ==
  [][/\ KvSequentialReplayRefused' /\ KvSequentialQuota'
     /\ DurableQuota' /\ DurableFreshOnce]_edgeVars
=============================================================================
