---------------------------- MODULE MCTransport -----------------------------
(* Small instances of Transport: time in units of the shortest ttl.        *)
EXTENDS Transport, TLC

CONSTANTS s1, s2, m1, m2, k1, k2, k3

Envelope(k, s, m, ts, ttl) ==
  [key |-> k, slot |-> s, signedWith |-> m, wellFormed |-> TRUE,
   timestampMs |-> ts, ttlMs |-> ttl]

Malformed(e) == [e EXCEPT !.wellFormed = FALSE]

(* Three senders' messages of different lifetimes, one of them post-dated, *)
(* a copy of the first with a forged signature, and one of the second with *)
(* a broken header.                                                        *)
MCEnvelopes ==
  {Envelope(k1, s1, m1, 0, 2),
   Envelope(k2, s1, m1, 1, 2),
   Envelope(k3, s1, m1, 2, 1),
   Envelope(k1, s1, Forged, 0, 2),
   Malformed(Envelope(k2, s1, m1, 1, 2))}

CallSymmetry == Permutations(Calls)

(* Messages of two senders, one of them post-dated, under keys that may be *)
(* revoked and restored; an unsigned one, and one with too long a ttl.     *)
MCKeyEnvelopes ==
  {Envelope(k1, s1, m1, 0, 2),
   Envelope(k1, s2, m1, 1, 2),
   Envelope(k1, s2, NoSignature, 1, 2),
   Envelope(k1, s1, m1, 1, 3)}

(* Two messages, for the runs that need few. *)
MCTwoEnvelopes ==
  {Envelope(k1, s1, m1, 0, 2),
   Envelope(k2, s1, m1, 2, 2)}
=============================================================================
