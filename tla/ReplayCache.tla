---------------------------- MODULE ReplayCache -----------------------------
(***************************************************************************)
(* The abstract specification of a ReplayCache: what the ReplayCache       *)
(* interface promises its callers.  A caller presents a key, the expiry of *)
(* its envelope and its own idea of the time; the cache answers whether    *)
(* the key is new.                                                         *)
(***************************************************************************)
EXTENDS ReplayWindow

CONSTANTS Expiries,   \* the expiries callers present
          Instants    \* the values of nowMs callers present

VARIABLES held,       \* key -> expiry
          reply       \* the last answer given

Answer(k, a) == [key |-> k, answer |-> a]

Init == held = Empty /\ reply = Answer(NoEntry, "none")

(* A key still held is refused; the prune that came first stays. *)
Refuse(k, now) ==
  /\ reply' = Answer(k, "replay")
  /\ Replayed(held, k, now)
  /\ held' = Prune(held, now)

(* A new key is recorded; when the cache is full the key nearest to its    *)
(* expiry makes room.                                                      *)
Reserve(k, expiresAt, now) ==
  /\ reply' = Answer(k, "ok")
  /\ ~Replayed(held, k, now)
  /\ held' \in Consumed(held, k, expiresAt, now)

(* An envelope without a finite expiry cannot be tracked: refused, and     *)
(* reported as a replay when its key is held.                              *)
RefuseNonFinite(k, now) ==
  /\ reply' = Answer(k, "untrackable")
  /\ ~Replayed(held, k, now)
  /\ held' = Prune(held, now)

PruneOnly(now) == UNCHANGED reply /\ held' = Prune(held, now)

Next ==
  \E now \in Instants :
    \/ PruneOnly(now)
    \/ \E k \in Keys : Refuse(k, now) \/ RefuseNonFinite(k, now)
    \/ \E k \in Keys, x \in Expiries : Reserve(k, x, now)

Spec == Init /\ [][Next]_<<held, reply>>
=============================================================================
