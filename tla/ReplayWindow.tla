---------------------------- MODULE ReplayWindow ----------------------------
(***************************************************************************)
(* What a replay cache remembers, and what one consume() does to it.  The  *)
(* state is a function from replay keys (sender, messageId, nonce) to the  *)
(* instant until which the key is held, NoEntry when it is not held.       *)
(* These are the operators of InMemoryReplayCache without its heap; module *)
(* InMemoryReplayCache shows that the heap implements them.                *)
(***************************************************************************)
EXTENDS Integers, FiniteSets

CONSTANTS Keys,        \* replay keys: the values of makeKey()
          MaxEntries   \* capacity of the cache

ASSUME MaxEntriesAssumption == MaxEntries \in Nat \ {0}

NoEntry == -1

(* The states of the cache. *)
Windows == [Keys -> Nat \cup {NoEntry}]

Empty == [k \in Keys |-> NoEntry]

Held(h) == {k \in Keys : h[k] # NoEntry}

(* prune(nowMs): every key whose expiry is not later than nowMs is dropped. *)
Prune(h, now) == [k \in Keys |-> IF h[k] <= now THEN NoEntry ELSE h[k]]

(* consume() refuses a key that is still held after the prune. *)
Replayed(h, k, now) == Prune(h, now)[k] # NoEntry

(* evictOne(): the keys it may drop, the ones that expire first. *)
Earliest(h) == {k \in Held(h) : \A j \in Held(h) : h[k] <= h[j]}

(* The windows left by making room for one more key. *)
MakeRoom(h) ==
  IF Cardinality(Held(h)) >= MaxEntries
  THEN {[h EXCEPT ![v] = NoEntry] : v \in Earliest(h)}
  ELSE {h}

(* Fault: the key is recorded with the time of the call. *)
ConsumedUntilNow(h, k, expiresAt, now) ==
  {[r EXCEPT ![k] = now] : r \in MakeRoom(Prune(h, now))}

(* The windows a successful consume() of key k may leave. *)
Consumed(h, k, expiresAt, now) ==
  {[r EXCEPT ![k] = expiresAt] : r \in MakeRoom(Prune(h, now))}
=============================================================================
