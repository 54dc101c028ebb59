------------------------- MODULE MemoryReplayStore --------------------------
(***************************************************************************)
(* MemoryReplayStore.check(key, ttlMs): the store that gateways, approvals *)
(* and webhooks share.  Unlike InMemoryReplayCache it reads the clock      *)
(* itself, holds a key for ttlMs from that reading, and never evicts a     *)
(* live key: a store full of live keys refuses every new one.              *)
(***************************************************************************)
EXTENDS ReplayWindow

(* The keys are swept only when the store is at its limit. *)
Swept(h, now) ==
  IF Cardinality(Held(h)) >= MaxEntries THEN Prune(h, now) ELSE h

Seen(h, k, now) == h[k] > now

Full(h, now) == Cardinality(Held(Swept(h, now))) >= MaxEntries

(* check() returns true *)
Refuses(h, k, now) == Seen(h, k, now) \/ Full(h, now)

(* The store check() leaves *)
Checked(h, k, ttl, now) ==
  IF Seen(h, k, now) THEN h
  ELSE IF Full(h, now) THEN Swept(h, now)
  ELSE [Swept(h, now) EXCEPT ![k] = now + ttl]
=============================================================================
