----------------------------- MODULE RateLimiter ----------------------------
(***************************************************************************)
(* SlidingWindowRateLimiter: for each sender the instants of the requests  *)
(* it was allowed, in a Map of bounded size whose insertion order is the   *)
(* order of last use.  The window a request is judged by is the one of the *)
(* route it is for; the instants are kept per sender, for all routes.      *)
(***************************************************************************)
EXTENDS Lists

CONSTANTS Senders,      \* keys of the Map: verified senders
          Policies,     \* the rate limits of the routes
          maxKeys,      \* bound on the tracked senders
          MaxClock      \* bound on the clock

ASSUME RateLimiterAssumption ==
  /\ Policies \subseteq [requests : Nat, windowMs : Nat]
  /\ maxKeys \in Nat \ {0}
  /\ MaxClock \in Nat

VARIABLES clock,
          windows,      \* sender -> instants of its allowed requests
          order,        \* the senders in the Map, least recently used first
          (* history, read by the properties only *)
          admitted      \* sender -> its allowed requests, with their policy,
                        \* since its window was last dropped
limiterVars == <<clock, windows, order, admitted>>

-----------------------------------------------------------------------------
(* timestamps.filter(t => t > cutoff) *)
Live(w, policy, now) == Picked(w, {i \in DOMAIN w : w[i] > now - policy.windowMs})

(* Fault: one request too many. *)
AllowedOneMore(w, policy, now) == Len(Live(w, policy, now)) <= policy.requests

Allowed(w, policy, now) == Len(Live(w, policy, now)) < policy.requests

(* The window consume() stores *)
WindowAfter(w, policy, now) ==
  IF Allowed(w, policy, now) THEN Append(Live(w, policy, now), now)
  ELSE Live(w, policy, now)

Without(o, S) == Picked(o, {i \in DOMAIN o : o[i] \notin S})

Touched(o, k) == Append(Without(o, {k}), k)

(* One eviction loop: from the least recently used on, senders of S are    *)
(* dropped while the Map is over its bound.                                *)
Evict(o, S) ==
  LET candidates == {i \in DOMAIN o : o[i] \in S}
      victims == {i \in candidates : Rank(candidates, i) <= Len(o) - maxKeys}
  IN  Picked(o, DOMAIN o \ victims)

(* A window none of whose instants the policy counts *)
Expired(w, policy, now) == w = << >> \/ w[Len(w)] <= now - policy.windowMs

(* Fault: plain least-recently-used eviction. *)
ShrunkLru(o, w, k, policy, now) == Evict(o, Senders)

(* The senders left after consume() for k stored the windows w: expired    *)
(* ones go first, then those below their quota, then any.                  *)
Shrunk(o, w, k, policy, now) ==
  LET o1 == Evict(o, {j \in Senders \ {k} : Expired(w[j], policy, now)})
      o2 == Evict(o1, {j \in Senders \ {k} : Len(w[j]) < policy.requests})
  IN  Evict(o2, Senders)

Tracked(o) == {o[i] : i \in 1 .. Len(o)}

-----------------------------------------------------------------------------
LimiterInit ==
  /\ clock = 0
  /\ windows = [k \in Senders |-> << >>]
  /\ order = << >>
  /\ admitted = [k \in Senders |-> << >>]

(* consume(key, policy); history forgets a sender with its window *)
Consume(k, policy) ==
  LET w == [windows EXCEPT ![k] = WindowAfter(@, policy, clock)]
      o == IF w[k] = << >> THEN Without(order, {k})
           ELSE Shrunk(Touched(order, k), w, k, policy, clock)
      seen == IF Allowed(windows[k], policy, clock)
              THEN [admitted EXCEPT ![k] = Append(@, [at |-> clock, by |-> policy])]
              ELSE admitted
  IN  /\ order' = o
      /\ windows' = [j \in Senders |-> IF j \in Tracked(o) THEN w[j] ELSE << >>]
      /\ admitted' = [j \in Senders |-> IF j \in Tracked(o) THEN seen[j] ELSE << >>]
      /\ UNCHANGED clock

(* reset(key) *)
Reset(k) ==
  /\ order' = Without(order, {k})
  /\ windows' = [windows EXCEPT ![k] = << >>]
  /\ admitted' = [admitted EXCEPT ![k] = << >>]
  /\ UNCHANGED clock

(* clear() *)
Clear ==
  /\ order' = << >>
  /\ windows' = [k \in Senders |-> << >>]
  /\ admitted' = [k \in Senders |-> << >>]
  /\ UNCHANGED clock

LimiterTick ==
  /\ clock < MaxClock
  /\ clock' = clock + 1
  /\ UNCHANGED <<windows, order, admitted>>

LimiterNext ==
  \/ \E k \in Senders, policy \in Policies : Consume(k, policy)
  \/ \E k \in Senders : Reset(k)
  \/ Clear
  \/ LimiterTick

LimiterSpec == LimiterInit /\ [][LimiterNext]_limiterVars

-----------------------------------------------------------------------------
LimiterTypeOK ==
  /\ clock \in Nat
  /\ windows \in [Senders -> Seq(Nat)]
  /\ order \in Seq(Senders)
  /\ admitted \in [Senders -> Seq([at : Nat, by : Policies])]

(* The Map's bound: the tracked senders, once each, are the ones with a    *)
(* window, and there are never more than maxKeys.                          *)
BoundedTracking ==
  /\ Len(order) <= maxKeys
  /\ Cardinality(Tracked(order)) = Len(order)
  /\ Tracked(order) = {k \in Senders : windows[k] # << >>}

(* The requests of sender k that policy p admitted within p's window       *)
(* ending at instant t                                                     *)
AdmittedWithin(k, p, t) ==
  {i \in 1 .. Len(admitted[k]) :
     /\ admitted[k][i].by = p
     /\ admitted[k][i].at > t - p.windowMs
     /\ admitted[k][i].at <= t}

(* A route admits at most its quota of a sender's requests in any window   *)
(* of its length, wherever the window starts (not only in aligned ones),   *)
(* as long as the sender's instants are not dropped.  It takes routes that *)
(* agree on windowMs: one with a shorter window erases instants the others *)
(* still count, because a sender has a single list.                        *)
WithinQuota ==
  \A k \in Senders, p \in Policies, t \in 0 .. clock :
    Cardinality(AdmittedWithin(k, p, t)) <= p.requests

AtQuota(k, p) == Len(Live(windows[k], p, clock)) >= p.requests

(* Consume(j, p) drops the window of a sender k that is at its quota, and  *)
(* leaves sender i                                                         *)
DropsAtQuota(k, j, i, p) ==
  /\ k # j /\ k \notin Tracked(order') /\ i \in Tracked(order') \ {j}
  /\ AtQuota(k, p)
  /\ Consume(j, p)

(* A sender at its quota keeps its window when another sender's request    *)
(* overflows the Map, unless every sender left has a full window with a    *)
(* live instant: a flood of one-off senders does not reset a quota.        *)
QuotaSurvivesFlood ==
  [][\A j, k, i \in Senders, p \in Policies :
       DropsAtQuota(k, j, i, p) =>
         Len(windows[i]) >= p.requests /\ ~Expired(windows[i], p, clock)]_limiterVars
=============================================================================
