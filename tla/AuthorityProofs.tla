-------------------------- MODULE AuthorityProofs ---------------------------
(***************************************************************************)
(* What a message or an approval may do, and what reaches its receiver:    *)
(* an approval is used once, for every set of grants and presentations,    *)
(* every capacity of the store, and every delay up to the clock skew; a    *)
(* transport binding hands a message over as it was signed, and once while *)
(* its replay cache holds the key, for every binding, set of messages,     *)
(* number of concurrent calls and capacity of the cache; a reader of       *)
(* signed server-sent events returns a prefix of one stream and finishes   *)
(* only at its end; a guarded MCP client shows and calls only tools found  *)
(* to be as pinned; an audit chain that verifies is a beginning of what    *)
(* was logged; a signed stream that verifies is one its signer finished,   *)
(* whole and in order, and what one write after another makes does verify. *)
(***************************************************************************)
EXTENDS Approval, Bindings, SignedSse, ToolPinning, AuditLog, SignedStream,
        ListProofs, TLAPS

(* What one check() does to each key of the store. *)
LEMMA CheckedType ==
  ASSUME NEW h \in Windows, NEW k \in Keys, NEW ttl \in Nat, NEW t \in Nat,
         NEW r, r = Checked(h, k, ttl, t)
  PROVE  /\ r \in Windows
         /\ \A j \in Keys : \/ r[j] = h[j]
                            \/ r[j] = NoEntry /\ h[j] <= t
                            \/ j = k /\ ~Refuses(h, k, t)
         /\ ~Refuses(h, k, t) => r[k] = t + ttl
<1>1. /\ Swept(h, t) \in Windows
      /\ \A j \in Keys : Swept(h, t)[j] = h[j] \/ (Swept(h, t)[j] = NoEntry /\ h[j] <= t)
  BY DEF Swept, Prune, Windows, NoEntry
<1>2. CASE Seen(h, k, t)
  BY <1>2 DEF Checked, Refuses
<1>3. CASE ~Seen(h, k, t) /\ Full(h, t)
  BY <1>1, <1>3 DEF Checked, Refuses
<1>4. CASE ~Seen(h, k, t) /\ ~Full(h, t)
  <2>1. r = [Swept(h, t) EXCEPT ![k] = t + ttl]
    BY <1>4 DEF Checked
  <2> QED BY <1>1, <1>4, <2>1 DEF Refuses, Windows
<1> QED BY <1>2, <1>3, <1>4

LEMMA InitInv == Init => IInv
BY ApprovalAssumption DEF Init, IInv, TypeOK, RecentStart, UsedRemembered, BurnedOnlyByUse,
   Empty, Windows, NoEntry, PCs, Waiting

(* The call of p ends or moves on without touching the store. *)
LEMMA CallOnly ==
  ASSUME IInv, NEW p \in Presentations,
         NEW to \in {"verify", "denied"}, Goto(p, "lookup", to) \/ Goto(p, "verify", "denied"),
         UNCHANGED <<clock, store, grant, now, used>>
  PROVE  IInv'
BY DEF IInv, TypeOK, RecentStart, UsedRemembered, BurnedOnlyByUse, Waiting, Goto, PCs

(* The inductive step needs no bound on the delay; SingleUse does. *)
LEMMA NextInv == IInv /\ [Next]_vars => IInv'
<1> SUFFICES ASSUME IInv, [Next]_vars PROVE IInv'
  OBVIOUS
<1> USE ApprovalAssumption
<1>t. TypeOK /\ RecentStart /\ UsedRemembered /\ BurnedOnlyByUse
  BY DEF IInv
<1>g. \A g \in Grants : /\ g.id \in Keys /\ g.issuedAt \in Nat /\ g.expiresAt \in Nat
                        /\ g.expiresAt + Skew \in Nat
  OBVIOUS
<1>1. ASSUME NEW p \in Presentations, NEW g \in Grants, NEW a \in Actions, Present(p, g, a)
      PROVE  IInv'
  <2>1. /\ pc' = [pc EXCEPT ![p] = IF Admissible(g, a, clock) THEN "lookup" ELSE "denied"]
        /\ grant' = [grant EXCEPT ![p] = g] /\ now' = [now EXCEPT ![p] = clock]
        /\ UNCHANGED <<clock, store, used>>
    BY <1>1 DEF Present, Goto
  <2>2. TypeOK'
    BY <2>1, <1>t DEF TypeOK, PCs
  <2>3. RecentStart'
    BY <2>1, <1>t, <1>g DEF TypeOK, RecentStart, Waiting, Admissible
  <2> QED BY <2>1, <2>2, <2>3, <1>t DEF IInv, UsedRemembered, BurnedOnlyByUse
<1>2. ASSUME NEW p \in Presentations, KeyFound(p) \/ KeyMissing(p) \/ RejectSignature(p)
      PROVE  IInv'
  BY <1>2, CallOnly DEF KeyFound, KeyMissing, RejectSignature
<1>3. ASSUME NEW p \in Presentations, RejectUsed(p) \/ Consume(p) PROVE IInv'
  <2> DEFINE g == grant[p]
             k == grant[p].id
             ttl == HoldFor(p)
  <2>1. /\ pc[p] = "verify"
        /\ \E to \in {"denied", "granted"} : pc' = [pc EXCEPT ![p] = to]
        /\ store' = Checked(store, k, ttl, clock)
        /\ UNCHANGED <<clock, grant, now>>
        /\ grant[p].genuine
        /\ \/ Refuses(store, k, clock) /\ used' = used
           \/ ~Refuses(store, k, clock) /\ used' = used \cup {k}
    BY <1>3 DEF RejectUsed, Consume, Goto
  <2>2. /\ g \in Grants /\ k \in Keys /\ g.expiresAt \in Nat /\ clock \in Nat
        /\ now[p] \in Nat /\ now[p] <= clock /\ now[p] < g.expiresAt /\ store \in Windows
    BY <2>1, <1>t, <1>g DEF TypeOK, RecentStart, Waiting
  <2>3. ttl \in Nat /\ clock + ttl >= g.expiresAt + Skew
    BY <2>2 DEF HoldFor
  <2>k. k = grant[p].id
    OBVIOUS
  <2> HIDE DEF ttl, k
  <2>c. store' = Checked(store, k, ttl, clock)
    BY <2>1
  <2>4. /\ store' \in Windows
        /\ \A j \in Keys : \/ store'[j] = store[j]
                           \/ store'[j] = NoEntry /\ store[j] <= clock
                           \/ j = k /\ ~Refuses(store, k, clock)
        /\ ~Refuses(store, k, clock) => store'[k] = clock + ttl
    <3> HIDE ApprovalAssumption
    <3>1. store \in Windows /\ k \in Keys /\ ttl \in Nat /\ clock \in Nat
      BY <2>2, <2>3
    <3> QED BY <3>1, <2>c, CheckedType
  <2>5. \/ Refuses(store, k, clock)
        \/ store'[k] = clock + ttl
    BY <2>4
  <2>6. TypeOK' /\ RecentStart'
    <3>1. used' \subseteq Keys
      BY <2>1, <2>2, <1>t DEF TypeOK
    <3> QED BY <2>1, <2>4, <3>1, <1>t DEF TypeOK, RecentStart, Waiting, PCs
  <2>7. BurnedOnlyByUse'
    BY <2>1, <2>4, <1>t DEF BurnedOnlyByUse
  <2>8. ASSUME NEW h \in Grants, h.genuine, h.id \in used'
        PROVE  store'[h.id] >= h.expiresAt + Skew \/ clock >= h.expiresAt + Skew
    <3>1. CASE h.id = k /\ ~Refuses(store, k, clock)
      <4>1. h = g
        BY <2>1, <2>2, <2>k, <2>8, <3>1
      <4> QED BY <4>1, <2>3, <2>5, <3>1
    <3>2. CASE ~(h.id = k /\ ~Refuses(store, k, clock))
      <4>1. h.id \in used
        BY <2>1, <2>8, <3>2
      <4>2. store[h.id] >= h.expiresAt + Skew \/ clock >= h.expiresAt + Skew
        BY <2>8, <4>1, <1>t DEF UsedRemembered
      <4>3. \/ store'[h.id] = store[h.id]
            \/ store'[h.id] = NoEntry /\ store[h.id] <= clock
        BY <2>4, <3>2, <1>g
      <4>4. store[h.id] \in Int
        BY <2>2, <1>g DEF Windows, NoEntry
      <4> QED BY <4>2, <4>3, <4>4, <2>2, <1>g
    <3> QED BY <3>1, <3>2
  <2>9. UsedRemembered'
    BY <2>1, <2>8 DEF UsedRemembered
  <2> QED BY <2>6, <2>7, <2>9 DEF IInv
<1>4. ASSUME NEW p \in Presentations, Finish(p) PROVE IInv'
  BY <1>4, <1>t DEF Finish, IInv, TypeOK, RecentStart, UsedRemembered, BurnedOnlyByUse,
     Waiting, PCs
<1>5. CASE Tick
  <2>1. clock' = clock + 1 /\ UNCHANGED <<store, pc, grant, now, used>>
        /\ \A p \in Presentations : Waiting(p) => clock < now[p] + MaxDelay
    BY <1>5 DEF Tick, callVars
  <2>2. RecentStart'
    BY <2>1, <1>t DEF RecentStart, Waiting, TypeOK
  <2>3. UsedRemembered'
    BY <2>1, <1>t, <1>g DEF UsedRemembered, TypeOK
  <2> QED BY <2>1, <2>2, <2>3, <1>t DEF IInv, TypeOK, BurnedOnlyByUse
<1>6. CASE UNCHANGED vars
  BY <1>6, <1>t DEF IInv, TypeOK, RecentStart, UsedRemembered, BurnedOnlyByUse, Waiting,
     vars, callVars
<1> QED BY <1>1, <1>2, <1>3, <1>4, <1>5, <1>6 DEF Next

(* The inductive invariant holds of every reachable state. *)
THEOREM Invariance == Spec => []IInv
<1>1. Init => IInv
  BY InitInv
<1>2. IInv /\ [Next]_vars => IInv'
  BY NextInv
<1> QED BY <1>1, <1>2, PTL DEF Spec

(* Every field of the store and of the presentations keeps its type. *)
THEOREM TypeCorrect == Spec => []TypeOK
<1>1. IInv => TypeOK
  BY DEF IInv
<1> QED BY <1>1, Invariance, PTL

(* The store keeps a used grant for as long as any clock within the skew   *)
(* may still accept it.                                                    *)
THEOREM UseIsRemembered == Spec => []UsedRemembered
<1>1. IInv => UsedRemembered
  BY DEF IInv
<1> QED BY <1>1, Invariance, PTL

(* A presentation that fails, or a forged grant, never burns the id. *)
THEOREM FailureDoesNotConsume == Spec => []BurnedOnlyByUse
<1>1. IInv => BurnedOnlyByUse
  BY DEF IInv
<1> QED BY <1>1, Invariance, PTL

(* When no call takes longer than the clock skew from reading the time to  *)
(* consuming the grant, a grant authorises once, for ever.                 *)
THEOREM GrantUsedOnce ==
  ASSUME MaxDelay <= Skew
  PROVE  Spec => SingleUse
<1>1. ASSUME IInv, [Next]_vars, NEW p \in Presentations,
             pc[p] = "verify", pc'[p] = "granted"
      PROVE  grant[p].id \notin used
  <2>1. Consume(p)
    <3>0. pc \in [Presentations -> PCs]
      BY <1>1 DEF IInv, TypeOK
    <3>1. ASSUME NEW q \in Presentations,
                 NEW to \in {"lookup", "verify", "denied", "idle"}, pc' = [pc EXCEPT ![q] = to]
          PROVE  FALSE
      BY <1>1, <3>0, <3>1
    <3>2. ~Tick /\ ~UNCHANGED vars
      BY <1>1 DEF Tick, vars, callVars
    <3>3. PICK q \in Presentations : Consume(q)
      BY <1>1, <3>1, <3>2 DEF Next, Present, KeyFound, KeyMissing, RejectSignature,
         RejectUsed, Finish, Goto
    <3>4. q = p
      BY <1>1, <3>0, <3>3 DEF Consume, Goto
    <3> QED BY <3>3, <3>4
  <2>2. /\ grant[p] \in Grants /\ grant[p].genuine /\ ~Seen(store, grant[p].id, clock)
    BY <1>1, <2>1 DEF Consume, Refuses, IInv, TypeOK
  <2>3. /\ grant[p].id \in Keys /\ grant[p].expiresAt \in Nat
        /\ now[p] \in Nat /\ clock \in Nat /\ store[grant[p].id] \in Int
    BY <1>1, <2>2, ApprovalAssumption DEF IInv, TypeOK, Windows, NoEntry
  <2>4. clock <= now[p] + MaxDelay /\ now[p] < grant[p].expiresAt
    BY <1>1 DEF IInv, RecentStart, Waiting
  <2> QED
    BY <1>1, <2>2, <2>3, <2>4, ApprovalAssumption DEF IInv, UsedRemembered, Seen
<1>2. IInv /\ [Next]_vars =>
        [\A p \in Presentations :
           pc[p] = "verify" /\ pc'[p] = "granted" => grant[p].id \notin used]_vars
  BY <1>1
<1> QED BY <1>2, Invariance, PTL DEF Spec, SingleUse

-----------------------------------------------------------------------------
(* The transport bindings                                                  *)

Changes == {"nothing", "signed", "beside"}

CallRecords ==
  [step : Nat \ {0}, key : Keys, altered : Changes, started : Nat, read : Nat,
   until : Nat, call : Nat]

HandOvers ==
  [call : Nat, key : Keys, altered : Changes, started : Nat, until : Nat, at : Nat]

BindTypes ==
  /\ binding \in Pipelines
  /\ bindTime \in Nat /\ starts \in Nat
  /\ memory \in Windows
  /\ slot \in [Slots -> {NoCall} \cup CallRecords]
  /\ accepted \subseteq HandOvers

(* A call in progress is at one of the checks, and its instants are past;  *)
(* what the checks behind it asked for holds.                              *)
Running(c) ==
  /\ c.step <= Len(binding)
  /\ c.started <= c.read /\ c.read <= bindTime
  /\ c.altered = "beside" => binding \notin Enclosed
  /\ \A j \in 1 .. Len(binding) : j < c.step =>
       /\ binding[j] = "signature" => c.altered # "signed"
       /\ binding[j] = "payload" => c.altered # "beside"
       /\ binding[j] \in {"validate", "expired", "age"} => Expiry(c.key) >= c.started

(* It has passed the replay check. *)
Claiming(c) == \E j \in 1 .. Len(binding) : j < c.step /\ binding[j] \in ReplayChecks

(* The key of what passed the replay check is held until then, unless the  *)
(* cache gave it up or that time is over.                                  *)
Kept(x) == x.key \in dropped \/ memory[x.key] >= x.until \/ bindTime >= x.until

Calling(s) == slot[s] # NoCall
Holder(s) == slot[s] # NoCall /\ Claiming(slot[s])

ClaimsKept ==
  /\ Cached => \A a \in accepted : Kept(a)
  /\ \A s \in Slots : Holder(s) => Kept(slot[s])

(* Of two that passed it with one key, one did when the other's hold was   *)
(* over, whether they were handed over or have yet to be.                  *)
OneAtATime ==
  /\ Cached => \A a, b \in accepted :
       a.key = b.key /\ a # b /\ a.key \notin dropped => b.at >= a.until \/ a.at >= b.until
  /\ Cached => \A a \in accepted, s \in Slots :
       Holder(s) /\ a.key = slot[s].key /\ a.key \notin dropped =>
         bindTime >= a.until \/ a.at >= slot[s].until
  /\ \A s, t \in Slots :
       s # t /\ Holder(s) /\ Holder(t) /\ slot[s].key = slot[t].key /\ slot[s].key \notin dropped =>
         bindTime >= slot[s].until \/ bindTime >= slot[t].until

BindIInv ==
  /\ BindTypes
  /\ \A s \in Slots : Calling(s) => Running(slot[s])
  /\ ClaimsKept /\ OneAtATime
  /\ AcceptedAsSigned

(* Every pipeline has a signature and a time check, and one replay check   *)
(* at most.                                                                *)
LEMMA PipelineFacts ==
  ASSUME NEW b \in Pipelines
  PROVE  /\ Len(b) \in Nat \ {0} /\ DOMAIN b = 1 .. Len(b)
         /\ \A i, j \in 1 .. Len(b) : b[i] \in ReplayChecks /\ b[j] \in ReplayChecks => i = j
         /\ \E j \in 1 .. Len(b) : b[j] = "signature"
         /\ \E j \in 1 .. Len(b) : b[j] \in {"validate", "expired", "age"}
         /\ \A j \in 1 .. Len(b) :
              b[j] \in {"validate", "expired", "age", "signature", "payload", "now"} \cup ReplayChecks
<1> DEFINE Good(p) ==
      /\ Len(p) \in Nat \ {0} /\ DOMAIN p = 1 .. Len(p)
      /\ \A i, j \in 1 .. Len(p) : p[i] \in ReplayChecks /\ p[j] \in ReplayChecks => i = j
      /\ \E j \in 1 .. Len(p) : p[j] = "signature"
      /\ \E j \in 1 .. Len(p) : p[j] \in {"validate", "expired", "age"}
      /\ \A j \in 1 .. Len(p) :
           p[j] \in {"validate", "expired", "age", "signature", "payload", "now"} \cup ReplayChecks
<1>1. Good(WsPipeline)
  BY DEF WsPipeline, ReplayChecks
<1>2. Good(QueuePipeline)
  BY DEF QueuePipeline, ReplayChecks
<1>3. Good(WebhookPipeline)
  BY DEF WebhookPipeline, ReplayChecks
<1>4. Good(GrpcPipeline) /\ Good(HttpPipeline)
  BY DEF GrpcPipeline, HttpPipeline, ReplayChecks
<1>5. Good(ResponsePipeline)
  BY DEF ResponsePipeline, ReplayChecks
<1>6. Good(PyQueuePipeline)
  BY DEF PyQueuePipeline, ReplayChecks
<1>7. Good(PyWebhookPipeline) /\ Good(PyHttpPipeline)
  BY DEF PyWebhookPipeline, PyHttpPipeline, ReplayChecks
<1>8. Good(GoWebhookPipeline) /\ Good(GoHttpPipeline)
  BY DEF GoWebhookPipeline, GoHttpPipeline, ReplayChecks
<1>9. Good(RustQueuePipeline)
  BY DEF RustQueuePipeline, ReplayChecks
<1>10. Good(RustWebhookPipeline) /\ Good(RustHttpPipeline)
  BY DEF RustWebhookPipeline, RustHttpPipeline, ReplayChecks
<1> HIDE DEF Good
<1>11. Good(b)
  BY <1>1, <1>2, <1>3, <1>4, <1>5, <1>6, <1>7, <1>8, <1>9, <1>10 DEF Pipelines
<1> QED BY <1>11 DEF Good

(* The messages, and what a pipeline holds a key for. *)
LEMMA MessageTimes ==
  ASSUME NEW k \in Keys
  PROVE  Stamp[k] \in Nat /\ Lifetime[k] \in Nat /\ Expiry(k) \in Nat
BY BindingsAssumption DEF Expiry

(* What prune does to each key. *)
LEMMA PrunedKeys ==
  ASSUME NEW h \in Windows, NEW t \in Nat
  PROVE  /\ Prune(h, t) \in Windows
         /\ \A k \in Keys : /\ h[k] > t => Prune(h, t)[k] = h[k]
                            /\ h[k] <= t => Prune(h, t)[k] = NoEntry
BY DEF Windows, Prune, NoEntry

LEMMA BindInit == BindingsInit => BindIInv
<1> SUFFICES ASSUME BindingsInit PROVE BindIInv
  OBVIOUS
<1>1. BindTypes
  BY DEF BindingsInit, BindTypes, Empty, Windows, NoEntry
<1>2. \A s \in Slots : slot[s] = NoCall
  BY DEF BindingsInit
<1> QED
  BY <1>1, <1>2 DEF BindingsInit, BindIInv, ClaimsKept, OneAtATime, AcceptedAsSigned,
     Holder, Calling

(* Where a call in progress stands: at a check of its pipeline, which it   *)
(* makes at an instant between its start and now.                          *)
LEMMA CallFacts ==
  ASSUME BindIInv, NEW s \in Slots, slot[s] # NoCall
  PROVE  /\ slot[s] \in CallRecords /\ Running(slot[s])
         /\ slot[s].step \in 1 .. Len(binding)
         /\ At(slot[s]) \in Nat /\ slot[s].started <= At(slot[s]) /\ At(slot[s]) <= bindTime
<1>1. slot[s] \in CallRecords /\ Running(slot[s])
  BY DEF BindIInv, BindTypes, Calling
<1>2. Len(binding) \in Nat /\ bindTime \in Nat
  BY PipelineFacts DEF BindIInv, BindTypes
<1>3. slot[s].step \in Nat \ {0} /\ slot[s].started \in Nat /\ slot[s].read \in Nat
  BY <1>1 DEF CallRecords
<1>4. slot[s].step <= Len(binding) /\ slot[s].started <= slot[s].read /\ slot[s].read <= bindTime
  BY <1>1 DEF Running
<1> QED BY <1>1, <1>2, <1>3, <1>4 DEF At

(* What one check does to the cache: a key stays as it was, unless its     *)
(* hold is over or the cache gave it up; who passes the replay check found *)
(* no hold, and has one now.                                               *)
LEMMA CacheStep ==
  ASSUME BindIInv, NEW s \in Slots, Check(s), NEW c, c = slot[s],
         NEW check, check = binding[c.step]
  PROVE  /\ memory' \in Windows /\ dropped \subseteq dropped'
         /\ \A j \in Keys : memory'[j] = memory[j] \/ memory[j] <= bindTime \/ j \in dropped'
         /\ Passes(c, check) /\ check \in ReplayChecks =>
              /\ memory[c.key] <= bindTime /\ memory'[c.key] = HeldUntil(c, check)
              /\ HeldUntil(c, check) \in Nat
<1>1. slot[s] # NoCall
  BY DEF Check
<1>2. /\ c \in CallRecords /\ c.step \in 1 .. Len(binding)
      /\ At(c) \in Nat /\ At(c) <= bindTime
  BY <1>1, CallFacts
<1>3. PICK z : z = At(c)
  OBVIOUS
<1>4. /\ z \in Nat /\ z <= bindTime /\ bindTime \in Nat /\ c.key \in Keys
      /\ memory \in Windows
  BY <1>2, <1>3 DEF BindIInv, BindTypes, CallRecords
<1>5. PICK p : p = Prune(memory, z)
  OBVIOUS
<1>6. /\ p \in Windows
      /\ \A k \in Keys : /\ memory[k] > z => p[k] = memory[k]
                         /\ memory[k] <= z => p[k] = NoEntry
  BY <1>4, <1>5, PrunedKeys
<1>7. dropped' = dropped \cup (Held(p) \ Held(memory'))
  BY <1>3, <1>5 DEF Check
<1>8. PICK h : h = HeldUntil(c, check)
  OBVIOUS
<1>9. h \in Nat /\ Expiry(c.key) \in Nat
  BY <1>8, <1>4, MessageTimes DEF HeldUntil
<1>10. check \in {"validate", "expired", "age", "signature", "payload", "now"} \cup ReplayChecks
  BY <1>2, PipelineFacts DEF BindIInv, BindTypes
<1>11. CASE Passes(c, check) /\ check \in ReplayChecks
  <2>1. Remember(c, check)
    BY <1>11 DEF Check
  <2>2. memory[c.key] <= z
    <3>1. ~Replayed(memory, c.key, z)
      BY <1>11, <1>3 DEF Passes, ReplayChecks
    <3> QED BY <3>1, <1>4, <1>5, <1>6 DEF Replayed, NoEntry, Windows
  <2>3. \E r : /\ r = p \/ (\E v : r = [p EXCEPT ![v] = NoEntry])
               /\ memory' = [r EXCEPT ![c.key] = h]
    <3>1. CASE check \in {"consume", "nonce"}
      <4>1. memory' \in Consumed(memory, c.key, h, z)
        <5>1. check # "reserve" /\ check \in ReplayChecks
          BY <3>1 DEF ReplayChecks
        <5>2. memory' \in Consumed(memory, c.key, HeldUntil(c, check), At(c))
          BY <3>1, <5>1, <2>1 DEF Remember
        <5> QED BY <5>2, <1>3, <1>8
      <4> QED BY <4>1, <1>5 DEF Consumed, MakeRoom
    <3>2. CASE check = "reserve"
      <4>1. Reserve(c, z)
        <5>1. check \notin {"consume", "nonce"} /\ check \in ReplayChecks
          BY <3>2 DEF ReplayChecks
        <5>2. Reserve(c, At(c))
          BY <3>2, <5>1, <2>1 DEF Remember
        <5> QED BY <5>2, <1>3
      <4>2. h = Expiry(c.key)
        BY <3>2, <1>8 DEF HeldUntil
      <4> QED BY <4>1, <4>2, <1>5 DEF Reserve
    <3> QED BY <3>1, <3>2, <1>11 DEF ReplayChecks
  <2>4. /\ memory' \in Windows /\ memory'[c.key] = h
        /\ \A j \in Keys : j # c.key => memory'[j] = NoEntry \/ memory'[j] = memory[j]
    <3>1. PICK r : /\ r = p \/ (\E v : r = [p EXCEPT ![v] = NoEntry])
                   /\ memory' = [r EXCEPT ![c.key] = h]
      BY <2>3
    <3>2. p \in Windows /\ \A j \in Keys : p[j] = NoEntry \/ p[j] = memory[j]
      BY <1>4, <1>6 DEF Windows, NoEntry
    <3>3. r \in Windows /\ \A j \in Keys : r[j] = NoEntry \/ r[j] = p[j]
      BY <3>1, <3>2 DEF Windows, NoEntry
    <3> QED BY <3>1, <3>2, <3>3, <1>4, <1>9 DEF Windows
  <2>5. ASSUME NEW j \in Keys
        PROVE  memory'[j] = memory[j] \/ memory[j] <= bindTime \/ j \in dropped'
    <3>1. CASE memory[j] <= z
      BY <3>1, <1>4 DEF Windows, NoEntry
    <3>2. CASE ~(memory[j] <= z) /\ memory'[j] # memory[j]
      <4>1. j # c.key /\ memory'[j] = NoEntry
        BY <3>2, <2>2, <2>4
      <4>2. p[j] # NoEntry
        BY <3>2, <1>4, <1>6 DEF Windows, NoEntry
      <4> QED BY <4>1, <4>2, <1>7 DEF Held
    <3> QED BY <3>1, <3>2
  <2>6. memory[c.key] <= bindTime
    BY <2>2, <1>4 DEF Windows, NoEntry
  <2> QED BY <2>4, <2>5, <2>6, <1>7, <1>8, <1>9
<1>12. CASE ~(Passes(c, check) /\ check \in ReplayChecks)
  <2>1. memory' = memory \/ memory' = p
    <3>1. CASE ~Passes(c, check)
      BY <3>1, <1>3, <1>5 DEF Check
    <3>2. CASE Passes(c, check)
      <4>1. Remember(c, check) /\ check \notin ReplayChecks
        BY <3>2, <1>12 DEF Check
      <4> QED BY <4>1 DEF Remember, ReplayChecks
    <3> QED BY <3>1, <3>2
  <2> QED BY <2>1, <1>4, <1>6, <1>7, <1>12 DEF Windows, NoEntry
<1> QED BY <1>11, <1>12

(* What travels beside an envelope is compared with it, or not read. *)
LEMMA BesideRead ==
  ASSUME NEW b \in Pipelines, b \notin Enclosed, ~\E j \in 1 .. Len(b) : b[j] = "payload"
  PROVE  b \in Unread
<1>1. b # QueuePipeline
  BY DEF QueuePipeline
<1>2. b # ResponsePipeline
  BY DEF ResponsePipeline
<1>3. b # PyQueuePipeline
  BY DEF PyQueuePipeline
<1>4. b # RustQueuePipeline
  BY DEF RustQueuePipeline
<1> QED BY <1>1, <1>2, <1>3, <1>4 DEF Pipelines, Enclosed, Unread

(* The call behind a check it passed. *)
NextCall(c, check) ==
  [c EXCEPT !.step = @ + 1,
            !.read = IF check = "now" THEN bindTime ELSE @,
            !.until = IF check \in ReplayChecks THEN HeldUntil(c, check) ELSE @]

(* What a call carries on once it has passed one more check: what that     *)
(* check asked for holds, and if it was the replay check, the holds before *)
(* it are over and its own has begun.                                      *)
LEMMA PassedCall ==
  ASSUME BindIInv, NEW s \in Slots, Check(s), NEW c, c = slot[s],
         NEW check, check = binding[c.step],
         Passes(c, check), NEW n,
         n = NextCall(c, check)
  PROVE  /\ n \in CallRecords /\ n.step = c.step + 1 /\ n.key = c.key
         /\ n.started <= n.read /\ n.read <= bindTime /\ n.altered = c.altered
         /\ \A j \in 1 .. Len(binding) : j < n.step =>
              /\ binding[j] = "signature" => n.altered # "signed"
              /\ binding[j] = "payload" => n.altered # "beside"
              /\ binding[j] \in {"validate", "expired", "age"} => Expiry(n.key) >= n.started
         /\ Claiming(n) =>
              /\ n.key \in dropped' \/ memory'[n.key] >= n.until \/ bindTime >= n.until
              /\ Cached => \A a \in accepted :
                   a.key = n.key /\ a.key \notin dropped' => bindTime >= a.until \/ a.at >= n.until
              /\ \A t \in Slots :
                   t # s /\ Holder(t) /\ slot[t].key = n.key /\ n.key \notin dropped' =>
                     bindTime >= slot[t].until \/ bindTime >= n.until
<1>1. slot[s] # NoCall
  BY DEF Check
<1>2. /\ c \in CallRecords /\ Running(c) /\ c.step \in 1 .. Len(binding)
      /\ At(c) \in Nat /\ c.started <= At(c) /\ At(c) <= bindTime
  BY <1>1, CallFacts
<1>3. /\ binding \in Pipelines /\ bindTime \in Nat /\ memory \in Windows
      /\ slot \in [Slots -> {NoCall} \cup CallRecords] /\ accepted \subseteq HandOvers
  BY DEF BindIInv, BindTypes
<1>4. /\ memory' \in Windows /\ dropped \subseteq dropped'
      /\ \A j \in Keys : memory'[j] = memory[j] \/ memory[j] <= bindTime \/ j \in dropped'
      /\ check \in ReplayChecks =>
           /\ memory[c.key] <= bindTime /\ memory'[c.key] = HeldUntil(c, check)
           /\ HeldUntil(c, check) \in Nat
  BY CacheStep
<1>5. PICK h : h = HeldUntil(c, check)
  OBVIOUS
<1>6. /\ n \in CallRecords /\ n.step = c.step + 1 /\ n.key = c.key /\ n.altered = c.altered
      /\ n.started = c.started /\ n.read = (IF check = "now" THEN bindTime ELSE c.read)
      /\ n.until = (IF check \in ReplayChecks THEN h ELSE c.until)
      /\ c.key \in Keys /\ n.until \in Nat
  <2>1. PICK z, d, u : /\ z = bindTime /\ d = c.step + 1
                       /\ u = (IF check \in ReplayChecks THEN h ELSE c.until)
    OBVIOUS
  <2>2. PICK w : w = (IF check = "now" THEN z ELSE c.read)
    OBVIOUS
  <2>3. n = [c EXCEPT !.step = d, !.read = w, !.until = u]
    BY <2>1, <2>2, <1>5 DEF NextCall
  <2>4. d \in Nat \ {0} /\ w \in Nat /\ u \in Nat
    BY <2>1, <2>2, <1>2, <1>3, <1>4, <1>5 DEF CallRecords
  <2>5. /\ n \in CallRecords /\ n.step = d /\ n.key = c.key /\ n.altered = c.altered
        /\ n.started = c.started /\ n.read = w /\ n.until = u
    BY <2>3, <2>4, <1>2 DEF CallRecords
  <2> QED BY <2>1, <2>2, <2>4, <2>5, <1>2 DEF CallRecords
<1>7. n.started <= n.read /\ n.read <= bindTime /\ n.altered = c.altered
  BY <1>2, <1>3, <1>6 DEF Running, CallRecords
<1>8. Len(binding) \in Nat
  BY <1>3, PipelineFacts
<1>9. /\ check = "signature" => c.altered # "signed"
      /\ check = "payload" => c.altered # "beside"
      /\ check \in {"validate", "expired", "age"} => Expiry(c.key) >= At(c)
  <2>1. CASE check = "signature"
    BY <2>1 DEF Passes, ReplayChecks
  <2>2. CASE check = "payload"
    BY <2>2 DEF Passes, ReplayChecks
  <2>3. CASE check = "validate"
    BY <2>3 DEF Passes, ReplayChecks, InWindow
  <2>4. CASE check \in {"expired", "age"}
    BY <2>4 DEF Passes, ReplayChecks, Unexpired
  <2> QED BY <2>1, <2>2, <2>3, <2>4
<1>10. Expiry(c.key) \in Nat /\ c.started \in Nat
  BY <1>2, <1>6, MessageTimes DEF CallRecords
<1>11. ASSUME NEW j \in 1 .. Len(binding), j < n.step
       PROVE  /\ binding[j] = "signature" => n.altered # "signed"
              /\ binding[j] = "payload" => n.altered # "beside"
              /\ binding[j] \in {"validate", "expired", "age"} => Expiry(n.key) >= n.started
  <2>1. j < c.step \/ j = c.step
    BY <1>2, <1>6, <1>8, <1>11
  <2>2. CASE j < c.step
    BY <2>2, <1>2, <1>6 DEF Running
  <2>3. CASE j = c.step
    BY <2>3, <1>2, <1>6, <1>9, <1>10
  <2> QED BY <2>1, <2>2, <2>3
<1>12. Claiming(n) => Claiming(c) \/ check \in ReplayChecks
  BY <1>2, <1>6, <1>8 DEF Claiming
<1>13. /\ \A a \in accepted : a.key \in Keys /\ a.until \in Nat /\ a.at \in Nat
       /\ \A t \in Slots : Holder(t) => slot[t].key \in Keys /\ slot[t].until \in Nat
  BY <1>3 DEF HandOvers, CallRecords, Holder
<1>14. CASE check \in ReplayChecks
  <2>1. n.until = h /\ memory'[n.key] = h /\ memory[n.key] <= bindTime
    BY <1>14, <1>4, <1>5, <1>6
  <2>2. memory'[n.key] >= n.until
    BY <2>1, <1>6
  <2>3. ASSUME NEW x, Kept(x), x.key = n.key, x.key \notin dropped', x.until \in Nat
        PROVE  bindTime >= x.until
    <3>1. memory[n.key] >= x.until \/ bindTime >= x.until
      BY <2>3, <1>4 DEF Kept
    <3> QED BY <3>1, <2>1, <2>3, <1>3, <1>6 DEF Windows, NoEntry
  <2>4. ASSUME Cached, NEW a \in accepted, a.key = n.key, a.key \notin dropped'
        PROVE  bindTime >= a.until
    BY <2>3, <2>4, <1>13 DEF BindIInv, ClaimsKept
  <2>5. ASSUME NEW t \in Slots, Holder(t), slot[t].key = n.key, n.key \notin dropped'
        PROVE  bindTime >= slot[t].until
    BY <2>3, <2>5, <1>13 DEF BindIInv, ClaimsKept
  <2> QED BY <2>2, <2>4, <2>5, <1>6, <1>7, <1>11
<1>15. CASE check \notin ReplayChecks /\ Claiming(c)
  <2>1. n.until = c.until /\ Holder(s)
    BY <1>15, <1>1, <1>6 DEF Holder
  <2>2. Kept(c)
    BY <2>1 DEF BindIInv, ClaimsKept
  <2>3. n.key \in dropped' \/ memory'[n.key] >= n.until \/ bindTime >= n.until
    BY <2>1, <2>2, <1>3, <1>4, <1>6 DEF Kept, Windows, NoEntry
  <2>4. ASSUME Cached, NEW a \in accepted, a.key = n.key, a.key \notin dropped'
        PROVE  bindTime >= a.until \/ a.at >= n.until
    <3>1. a.key \notin dropped /\ a.key = slot[s].key
      BY <2>4, <1>4, <1>6
    <3> QED BY <3>1, <2>1, <2>4 DEF BindIInv, OneAtATime
  <2>5. ASSUME NEW t \in Slots, t # s, Holder(t), slot[t].key = n.key, n.key \notin dropped'
        PROVE  bindTime >= slot[t].until \/ bindTime >= n.until
    <3>1. slot[t].key \notin dropped /\ slot[t].key = slot[s].key
      BY <2>5, <1>4, <1>6
    <3> QED BY <3>1, <2>1, <2>5 DEF BindIInv, OneAtATime
  <2> QED BY <2>3, <2>4, <2>5, <1>6, <1>7, <1>11
<1>16. CASE ~Claiming(n)
  BY <1>16, <1>6, <1>7, <1>11
<1> QED BY <1>12, <1>14, <1>15, <1>16

LEMMA BindCheck ==
  ASSUME BindIInv, NEW s \in Slots, Check(s)
  PROVE  BindIInv'
<1>1. slot[s] # NoCall /\ binding' = binding /\ bindTime' = bindTime /\ starts' = starts
  BY DEF Check
<1>2. PICK c : c = slot[s]
  OBVIOUS
<1>3. PICK check : check = binding[c.step]
  OBVIOUS
<1>4. PICK n : n = NextCall(c, check)
  OBVIOUS
<1>5. /\ binding \in Pipelines /\ bindTime \in Nat /\ starts \in Nat /\ memory \in Windows
      /\ slot \in [Slots -> {NoCall} \cup CallRecords] /\ accepted \subseteq HandOvers
  BY DEF BindIInv, BindTypes
<1>6. /\ c \in CallRecords /\ Running(c) /\ c.step \in 1 .. Len(binding)
  BY <1>1, <1>2, CallFacts
<1>7. /\ memory' \in Windows /\ dropped \subseteq dropped'
      /\ \A j \in Keys : memory'[j] = memory[j] \/ memory[j] <= bindTime \/ j \in dropped'
  BY <1>2, <1>3, CacheStep
<1>8. \A t \in Slots : t # s => slot'[t] = slot[t]
  BY <1>5 DEF Check
<1>9. PICK r : r = [call |-> n.call, key |-> n.key, altered |-> n.altered, started |-> n.started,
                    until |-> n.until, at |-> bindTime]
  OBVIOUS
<1>10. /\ \A t \in Slots : slot'[t] # NoCall =>
            \/ slot'[t] = slot[t] /\ t # s
            \/ t = s /\ slot'[t] = n /\ Passes(c, check) /\ c.step # Len(binding)
       /\ slot' \in [Slots -> {NoCall} \cup CallRecords]
       /\ \/ accepted' = accepted
          \/ /\ accepted' = accepted \cup {r} /\ Passes(c, check) /\ c.step = Len(binding)
             /\ slot'[s] = NoCall
  <2>1. CASE ~Passes(c, check)
    BY <2>1, <1>2, <1>3, <1>5, <1>8 DEF Check
  <2>2. CASE Passes(c, check) /\ c.step # Len(binding)
    <3>1. slot' = [slot EXCEPT ![s] = n]
      BY <2>2, <1>2, <1>3, <1>4 DEF Check, NextCall
    <3>3. accepted' = accepted
      BY <2>2, <1>2, <1>3 DEF Check
    <3>2. n \in CallRecords
      BY <2>2, <1>2, <1>3, <1>4, PassedCall
    <3> QED BY <3>1, <3>2, <3>3, <2>2, <1>5, <1>8
  <2>3. CASE Passes(c, check) /\ c.step = Len(binding)
    <3>1. slot' = [slot EXCEPT ![s] = NoCall] /\ accepted' = accepted \cup {r}
      BY <2>3, <1>2, <1>3, <1>4, <1>9 DEF Check, NextCall
    <3> QED BY <3>1, <2>3, <1>5, <1>8
  <2> QED BY <2>1, <2>2, <2>3
<1>11. Passes(c, check) =>
         /\ n \in CallRecords /\ n.step = c.step + 1 /\ n.key = c.key
         /\ n.started <= n.read /\ n.read <= bindTime /\ n.altered = c.altered
         /\ \A j \in 1 .. Len(binding) : j < n.step =>
              /\ binding[j] = "signature" => n.altered # "signed"
              /\ binding[j] = "payload" => n.altered # "beside"
              /\ binding[j] \in {"validate", "expired", "age"} => Expiry(n.key) >= n.started
         /\ Claiming(n) =>
              /\ n.key \in dropped' \/ memory'[n.key] >= n.until \/ bindTime >= n.until
              /\ Cached => \A a \in accepted :
                   a.key = n.key /\ a.key \notin dropped' => bindTime >= a.until \/ a.at >= n.until
              /\ \A t \in Slots :
                   t # s /\ Holder(t) /\ slot[t].key = n.key /\ n.key \notin dropped' =>
                     bindTime >= slot[t].until \/ bindTime >= n.until
  BY <1>2, <1>3, <1>4, PassedCall
<1>12. /\ Len(binding) \in Nat \ {0} /\ DOMAIN binding = 1 .. Len(binding)
       /\ \E j \in 1 .. Len(binding) : binding[j] = "signature"
       /\ \E j \in 1 .. Len(binding) : binding[j] \in {"validate", "expired", "age"}
  BY <1>5, PipelineFacts
<1>13. n \in CallRecords =>
         /\ r \in HandOvers /\ r.key = n.key /\ r.until = n.until /\ r.at = bindTime
         /\ r.altered = n.altered /\ r.started = n.started
  <2>1. PICK z : z = bindTime
    OBVIOUS
  <2>2. /\ r.key = n.key /\ r.until = n.until /\ r.at = bindTime
        /\ r.altered = n.altered /\ r.started = n.started
    BY <1>9
  <2>3. SUFFICES ASSUME n \in CallRecords PROVE r \in HandOvers
    BY <2>2
  <2>4. /\ n.call \in Nat /\ n.key \in Keys /\ n.altered \in Changes /\ n.started \in Nat
        /\ n.until \in Nat /\ z \in Nat
    BY <2>1, <2>3, <1>5 DEF CallRecords
  <2> QED BY <2>1, <2>4, <1>9 DEF HandOvers
<1>14. ASSUME c.step = Len(binding), Passes(c, check)
       PROVE  Cached => Claiming(n)
  BY <1>14, <1>11, <1>12 DEF Cached, Claiming
<1>15. BindTypes'
  BY <1>1, <1>5, <1>7, <1>10, <1>11, <1>13 DEF BindTypes
<1>16. Cached <=> Cached'
  BY <1>1 DEF Cached
<1>17. ASSUME NEW t \in Slots, slot'[t] # NoCall
       PROVE  Running(slot[t])'
  <2>1. CASE slot'[t] = slot[t]
    <3>1. Running(slot[t])
      BY <2>1, <1>17 DEF BindIInv, Calling
    <3> QED BY <3>1, <2>1, <1>1, <1>16 DEF Running, Expiry
  <2>2. CASE slot'[t] = n /\ Passes(c, check) /\ c.step # Len(binding)
    <3>1. n.step <= Len(binding)
      BY <2>2, <1>6, <1>11, <1>12
    <3>2. n.altered = "beside" => binding \notin Enclosed
      BY <2>2, <1>6, <1>11 DEF Running
    <3> QED BY <3>1, <3>2, <2>2, <1>1, <1>11, <1>16 DEF Running, Expiry
  <2> QED BY <2>1, <2>2, <1>17, <1>10
(* A hold kept before the check is kept after it. *)
<1>18. ASSUME NEW x, Kept(x), x.key \in Keys, x.until \in Nat
       PROVE  x.key \in dropped' \/ memory'[x.key] >= x.until \/ bindTime' >= x.until
  BY <1>18, <1>1, <1>5, <1>7 DEF Kept, Windows, NoEntry
<1>19. ASSUME NEW t \in Slots, Holder(t)'
       PROVE  \/ t # s /\ slot'[t] = slot[t] /\ Holder(t)
              \/ t = s /\ slot'[t] = n /\ Passes(c, check) /\ c.step # Len(binding) /\ Claiming(n)
  BY <1>1, <1>10, <1>19 DEF Holder, Claiming
<1>20. \A t \in Slots : Holder(t) => slot[t].key \in Keys /\ slot[t].until \in Nat
  BY <1>5 DEF CallRecords, Holder
<1>21. \A a \in accepted : a.key \in Keys /\ a.until \in Nat /\ a.at \in Nat
  BY <1>5 DEF HandOvers
<1>22. ClaimsKept'
  <2>1. ASSUME Cached', NEW a \in accepted'
        PROVE  a.key \in dropped' \/ memory'[a.key] >= a.until \/ bindTime' >= a.until
    <3>1. CASE a \in accepted
      BY <3>1, <2>1, <1>16, <1>18, <1>21 DEF BindIInv, ClaimsKept
    <3>2. CASE a = r /\ Passes(c, check) /\ c.step = Len(binding)
      <4>1. n.key \in dropped' \/ memory'[n.key] >= n.until \/ bindTime >= n.until
        BY <3>2, <2>1, <1>11, <1>14, <1>16
      <4> QED BY <4>1, <3>2, <1>1, <1>11, <1>13
    <3> QED BY <2>1, <3>1, <3>2, <1>10
  <2>2. ASSUME NEW t \in Slots, Holder(t)'
        PROVE  slot'[t].key \in dropped' \/ memory'[slot'[t].key] >= slot'[t].until
                 \/ bindTime' >= slot'[t].until
    <3>1. CASE slot'[t] = slot[t] /\ Holder(t)
      <4>1. Kept(slot[t])
        BY <3>1 DEF BindIInv, ClaimsKept
      <4> QED BY <4>1, <3>1, <1>18, <1>20
    <3>2. CASE slot'[t] = n /\ Passes(c, check) /\ Claiming(n)
      BY <3>2, <1>1, <1>11
    <3> QED BY <2>2, <3>1, <3>2, <1>19
  <2> QED BY <2>1, <2>2 DEF ClaimsKept, Kept
<1>23. OneAtATime'
  <2>1. ASSUME Cached', NEW a \in accepted', NEW b \in accepted', a.key = b.key, a # b,
               a.key \notin dropped'
        PROVE  b.at >= a.until \/ a.at >= b.until
    <3>1. CASE a \in accepted /\ b \in accepted
      BY <3>1, <2>1, <1>7, <1>16 DEF BindIInv, OneAtATime
    <3>2. CASE accepted' = accepted \cup {r} /\ Passes(c, check) /\ c.step = Len(binding)
               /\ ~(a \in accepted /\ b \in accepted)
      <4>1. \A e \in accepted : e.key = n.key /\ e.key \notin dropped' =>
              bindTime >= e.until \/ e.at >= n.until
        BY <3>2, <2>1, <1>11, <1>14, <1>16
      <4>2. r.key = n.key /\ r.until = n.until /\ r.at = bindTime
        BY <3>2, <1>11, <1>13
      <4>3. (a = r /\ b \in accepted) \/ (b = r /\ a \in accepted)
        BY <3>2, <2>1
      <4>4. CASE a = r /\ b \in accepted
        BY <4>1, <4>2, <4>4, <2>1
      <4>5. CASE b = r /\ a \in accepted
        BY <4>1, <4>2, <4>5, <2>1
      <4> QED BY <4>3, <4>4, <4>5
    <3> QED BY <3>1, <3>2, <2>1, <1>10
  <2>2. ASSUME Cached', NEW a \in accepted', NEW t \in Slots, Holder(t)', a.key = slot'[t].key,
               a.key \notin dropped'
        PROVE  bindTime' >= a.until \/ a.at >= slot'[t].until
    <3>1. CASE a \in accepted /\ slot'[t] = slot[t] /\ Holder(t)
      BY <3>1, <2>2, <1>1, <1>7, <1>16 DEF BindIInv, OneAtATime
    <3>2. CASE a \in accepted /\ slot'[t] = n /\ Passes(c, check) /\ Claiming(n)
      BY <3>2, <2>2, <1>1, <1>11, <1>16
    <3>3. CASE a = r /\ Passes(c, check) /\ c.step = Len(binding) /\ t # s
               /\ slot'[t] = slot[t] /\ Holder(t)
      <4>1. Claiming(n)
        BY <3>3, <2>2, <1>14, <1>16
      <4>2. r.key = n.key /\ r.until = n.until /\ r.at = bindTime
        BY <3>3, <1>11, <1>13
      <4>3. bindTime >= slot[t].until \/ bindTime >= n.until
        BY <4>1, <4>2, <3>3, <2>2, <1>11
      <4> QED BY <4>2, <4>3, <3>3, <1>1
    <3> QED BY <3>1, <3>2, <3>3, <2>2, <1>10, <1>19
  <2>3. ASSUME NEW t \in Slots, NEW u \in Slots, t # u, Holder(t)', Holder(u)',
               slot'[t].key = slot'[u].key, slot'[t].key \notin dropped'
        PROVE  bindTime' >= slot'[t].until \/ bindTime' >= slot'[u].until
    <3>1. CASE slot'[t] = slot[t] /\ Holder(t) /\ slot'[u] = slot[u] /\ Holder(u)
      BY <3>1, <2>3, <1>1, <1>7 DEF BindIInv, OneAtATime
    <3>2. CASE t = s
      <4>1. slot'[t] = n /\ Passes(c, check) /\ Claiming(n) /\ slot'[u] = slot[u] /\ Holder(u)
        BY <3>2, <2>3, <1>19
      <4> QED BY <4>1, <3>2, <2>3, <1>1, <1>11
    <3>3. CASE u = s
      <4>1. slot'[u] = n /\ Passes(c, check) /\ Claiming(n) /\ slot'[t] = slot[t] /\ Holder(t)
        BY <3>3, <2>3, <1>19
      <4> QED BY <4>1, <3>3, <2>3, <1>1, <1>11
    <3> QED BY <3>1, <3>2, <3>3, <2>3, <1>19
  <2> QED BY <2>1, <2>2, <2>3 DEF OneAtATime
<1>24. AcceptedAsSigned'
  <2>1. ASSUME Passes(c, check), c.step = Len(binding)
        PROVE  /\ r.altered # "signed" /\ (r.altered = "beside" => binding \in Unread)
               /\ Expiry(r.key) >= r.started
    <3>1. /\ \A j \in 1 .. Len(binding) :
               /\ binding[j] = "signature" => n.altered # "signed"
               /\ binding[j] = "payload" => n.altered # "beside"
               /\ binding[j] \in {"validate", "expired", "age"} => Expiry(n.key) >= n.started
      BY <2>1, <1>11, <1>12
    <3>2. n.altered # "signed"
      BY <3>1, <1>12
    <3>3. ASSUME n.altered = "beside" PROVE binding \in Unread
      <4>1. binding \notin Enclosed
        BY <3>3, <2>1, <1>6, <1>11 DEF Running
      <4>2. ~\E j \in 1 .. Len(binding) : binding[j] = "payload"
        BY <3>1, <3>3
      <4> QED BY <4>1, <4>2, <1>5, BesideRead
    <3> QED BY <3>1, <3>2, <3>3, <2>1, <1>11, <1>12, <1>13
  <2> QED BY <2>1, <1>1, <1>10 DEF BindIInv, AcceptedAsSigned, Expiry
<1> QED BY <1>15, <1>17, <1>22, <1>23, <1>24 DEF BindIInv, Calling

LEMMA BindNext == BindIInv /\ [BindingsNext]_bindVars => BindIInv'
<1> SUFFICES ASSUME BindIInv, [BindingsNext]_bindVars PROVE BindIInv'
  OBVIOUS
<1>t. /\ binding \in Pipelines /\ bindTime \in Nat /\ starts \in Nat /\ memory \in Windows
      /\ slot \in [Slots -> {NoCall} \cup CallRecords] /\ accepted \subseteq HandOvers
  BY DEF BindIInv, BindTypes
<1>1. ASSUME NEW s \in Slots, NEW k \in Keys, NEW altered \in Alterations, Arrive(s, k, altered)
      PROVE  BindIInv'
  <2>1. PICK n : n = [step |-> 1, key |-> k, altered |-> altered, started |-> bindTime,
                      read |-> bindTime, until |-> 0, call |-> starts]
    OBVIOUS
  <2>2. /\ slot' = [slot EXCEPT ![s] = n] /\ slot[s] = NoCall /\ starts' = starts + 1
        /\ UNCHANGED <<binding, bindTime, memory, accepted, dropped>>
    BY <1>1, <2>1 DEF Arrive
  <2>3. n.step = 1 /\ n.started = bindTime /\ n.read = bindTime
    BY <2>1
  <2>4. n \in CallRecords
    <3>1. PICK z, w : z = bindTime /\ w = starts
      OBVIOUS
    <3>2. altered \in Changes
      BY DEF Alterations, Changes
    <3> QED BY <3>1, <3>2, <2>1, <1>t DEF CallRecords
  <2>5. BindTypes'
    BY <2>2, <2>4, <1>t DEF BindTypes
  <2>6. Len(binding) \in Nat \ {0}
    BY <1>t, PipelineFacts
  <2>7. ASSUME NEW t \in Slots, slot'[t] # NoCall
        PROVE  Running(slot[t])'
    <3>1. CASE t = s
      <4>1. n.altered = "beside" => binding \notin Enclosed
        BY <2>1 DEF Alterations
      <4> QED BY <4>1, <3>1, <2>2, <2>3, <2>6, <1>t DEF Running
    <3>2. CASE t # s
      <4>1. slot'[t] = slot[t]
        BY <3>2, <2>2, <1>t
      <4>2. Running(slot[t])
        BY <4>1, <2>7 DEF BindIInv, Calling
      <4> QED BY <4>1, <4>2, <2>2 DEF Running, Expiry
    <3> QED BY <3>1, <3>2
  <2>8. \A t \in Slots : Holder(t)' => Holder(t) /\ slot'[t] = slot[t]
    <3>1. ASSUME NEW t \in Slots, Holder(t)' PROVE Holder(t) /\ slot'[t] = slot[t]
      <4>1. CASE t = s
        BY <4>1, <3>1, <2>2, <2>3, <2>6, <1>t DEF Holder, Claiming
      <4>2. CASE t # s
        BY <4>2, <3>1, <2>2, <1>t DEF Holder, Claiming
      <4> QED BY <4>1, <4>2
    <3> QED BY <3>1
  <2>9. Cached' <=> Cached
    BY <2>2 DEF Cached
  <2>10. ClaimsKept'
    <3>1. \A t \in Slots : Holder(t)' => Kept(slot[t])'
      BY <2>2, <2>8 DEF BindIInv, ClaimsKept, Kept
    <3> QED BY <3>1, <2>2, <2>9 DEF BindIInv, ClaimsKept, Kept
  <2>11. OneAtATime'
    BY <2>2, <2>8, <2>9 DEF BindIInv, OneAtATime
  <2>12. AcceptedAsSigned'
    BY <2>2 DEF BindIInv, AcceptedAsSigned, Expiry
  <2> QED BY <2>5, <2>7, <2>10, <2>11, <2>12 DEF BindIInv, Calling
<1>2. ASSUME NEW s \in Slots, Check(s) PROVE BindIInv'
  BY <1>2, BindCheck
<1>3. ASSUME BindLater \/ UNCHANGED bindVars PROVE BindIInv'
  <2>1. /\ bindTime' \in Nat /\ bindTime' >= bindTime
        /\ UNCHANGED <<binding, memory, slot, accepted, dropped, starts>>
    BY <1>3, <1>t DEF BindLater, bindVars
  <2>2. BindTypes'
    BY <2>1, <1>t DEF BindTypes
  <2>3. ASSUME NEW t \in Slots, slot'[t] # NoCall PROVE Running(slot[t])'
    <3>1. Running(slot[t]) /\ slot[t] \in CallRecords
      BY <2>1, <2>3, <1>t DEF BindIInv, Calling
    <3> QED BY <3>1, <2>1, <1>t DEF Running, Expiry, CallRecords
  <2>4. \A t \in Slots : Holder(t)' <=> Holder(t)
    BY <2>1 DEF Holder, Claiming
  <2>5. Cached' <=> Cached
    BY <2>1 DEF Cached
  <2>6. /\ \A t \in Slots : Holder(t) => slot[t].until \in Nat
        /\ \A a \in accepted : a.until \in Nat
    BY <1>t DEF CallRecords, HandOvers, Holder
  <2>7. ASSUME NEW u \in Nat, bindTime >= u PROVE bindTime' >= u
    BY <2>1, <2>7, <1>t
  <2>8. ClaimsKept'
    <3>1. \A t \in Slots : Holder(t)' => Kept(slot[t])'
      BY <2>1, <2>4, <2>6, <2>7 DEF BindIInv, ClaimsKept, Kept
    <3>2. Cached' => \A a \in accepted' : Kept(a)'
      BY <2>1, <2>5, <2>6, <2>7 DEF BindIInv, ClaimsKept, Kept
    <3> QED BY <3>1, <3>2 DEF ClaimsKept, Kept
  <2>9. OneAtATime'
    BY <2>1, <2>4, <2>5, <2>6, <2>7 DEF BindIInv, OneAtATime
  <2>10. AcceptedAsSigned'
    BY <2>1 DEF BindIInv, AcceptedAsSigned, Expiry
  <2> QED BY <2>2, <2>3, <2>8, <2>9, <2>10 DEF BindIInv, Calling
<1> QED BY <1>1, <1>2, <1>3 DEF BindingsNext

(* queueBinding.ts:101: in every binding, whatever the order of its checks *)
(* and of concurrent calls, what is signed is handed over as it was and    *)
(* once while its key is held, and what travels beside it as it was, in    *)
(* every binding but gRPC and the HTTP header.                             *)
THEOREM HandedOver == BindingsSpec => []HandedOverOnce
<1>1. BindIInv => HandedOverOnce
  BY DEF BindIInv, HandedOverOnce, OncePerHold, OneAtATime
<1> QED BY <1>1, BindInit, BindNext, PTL DEF BindingsSpec

(***************************************************************************)
(* Signed server-sent events                                               *)
(***************************************************************************)

Genuine == SseEvents(Stream) \cup SseEvents(Other)

SseTypes ==
  /\ sent \in Nat
  /\ signing \subseteq SseEvents(Stream) /\ events \subseteq SseEvents(Stream)
  /\ expected \in Nat
  /\ stream \in {Stream, Other, Anything}
  /\ ended \in BOOLEAN /\ failed \in BOOLEAN
  /\ delivered \in Seq(Genuine)

(* An event is verified only by a reader that has neither failed nor       *)
(* ended, and one that verifies was signed for one of the streams.         *)
FedWhileOpen ==
  feed # NoEvent =>
    /\ ~ended /\ ~failed
    /\ feed = Forged \/ feed \in events \cup OtherEvents

(* What an open reader expects is the number after those it has returned;  *)
(* after the first message the stream is fixed.                            *)
ExpectsNext ==
  /\ ~ended /\ ~failed => expected = Len(delivered)
  /\ \A j \in 1 .. Len(delivered) : /\ delivered[j].seq = j - 1
                                    /\ delivered[j].stream = stream

SseIInv == SseTypes /\ FedWhileOpen /\ ExpectsNext /\ FinishedIsWhole

-----------------------------------------------------------------------------
(* A new writer and a new reader satisfy the invariant. *)
LEMMA SseInitInv == SseInit => SseIInv
<1> SUFFICES ASSUME SseInit PROVE SseIInv
  OBVIOUS
<1>1. delivered = <<>> /\ delivered \in Seq(Genuine) /\ Len(delivered) = 0
  BY DEF SseInit
<1>2. SseTypes
  BY <1>1, SseAssumption DEF SseInit, SseTypes
<1>3. FedWhileOpen /\ FinishedIsWhole
  BY DEF SseInit, FedWhileOpen, FinishedIsWhole
<1>4. ExpectsNext
  BY <1>1 DEF SseInit, ExpectsNext
<1> QED BY <1>2, <1>3, <1>4 DEF SseIInv

(* Every step of the writer, the path and the reader preserves it. *)
LEMMA SseNextInv == SseIInv /\ [SseNext]_sseVars => SseIInv'
<1> SUFFICES ASSUME SseIInv, [SseNext]_sseVars PROVE SseIInv'
  OBVIOUS
<1>t. /\ SseTypes /\ FedWhileOpen /\ ExpectsNext /\ FinishedIsWhole
      /\ Anything \notin {Stream, Other} /\ OtherEvents \subseteq SseEvents(Other)
      /\ Expect \in {Stream, Other, Anything}
  BY SseAssumption DEF SseIInv
<1>1. ASSUME NEW kind \in {"message", "end"}, Write(kind) PROVE SseIInv'
  <2>1. Event(Stream, sent, kind, sent) \in SseEvents(Stream)
    BY <1>1, <1>t DEF Event, SseEvents, SseTypes
  <2>2. SseTypes'
    BY <1>1, <1>t, <2>1 DEF Write, readerVars, SseTypes
  <2>3. FedWhileOpen' /\ ExpectsNext' /\ FinishedIsWhole'
    BY <1>1, <1>t DEF Write, readerVars, FedWhileOpen, ExpectsNext, FinishedIsWhole
  <2> QED BY <2>2, <2>3 DEF SseIInv
<1>2. ASSUME NEW e \in signing, SignatureReady(e) PROVE SseIInv'
  <2>1. SseTypes'
    BY <1>2, <1>t DEF SignatureReady, readerVars, SseTypes
  <2>2. FedWhileOpen'
    BY <1>2, <1>t DEF SignatureReady, readerVars, FedWhileOpen
  <2>3. ExpectsNext' /\ FinishedIsWhole'
    BY <1>2, <1>t DEF SignatureReady, readerVars, ExpectsNext, FinishedIsWhole
  <2> QED BY <2>1, <2>2, <2>3 DEF SseIInv
<1>3. ASSUME NEW e \in Arrivals, Feed(e) PROVE SseIInv'
  <2>0. /\ UNCHANGED <<sent, signing, closed, events, expected, stream, ended, seen, delivered>>
        /\ ~failed /\ feed = NoEvent
        /\ failed' \in BOOLEAN /\ (ended => failed')
        /\ feed' = IF failed' THEN feed ELSE e
    BY <1>3, <1>t DEF Feed, writerVars, SseTypes
  <2>1. SseTypes'
    BY <2>0, <1>t DEF SseTypes
  <2>2. FedWhileOpen'
    BY <2>0, <1>3, <1>t DEF FedWhileOpen, Arrivals, SseTypes
  <2>3. ExpectsNext' /\ FinishedIsWhole'
    BY <2>0, <1>t DEF ExpectsNext, FinishedIsWhole
  <2> QED BY <2>1, <2>2, <2>3 DEF SseIInv
<1>4. CASE AcceptEvent
  <2>0. /\ feed # NoEvent /\ Fits(feed) /\ ~ended /\ ~failed /\ expected = Len(delivered)
        /\ UNCHANGED <<sent, signing, closed, events, failed, count>>
        /\ stream' = feed.stream /\ expected' = feed.seq + 1 /\ feed' = NoEvent
        /\ ended' = (feed.kind = "end")
        /\ delivered' = IF feed.kind = "end" THEN delivered ELSE Append(delivered, feed)
    BY <1>4, <1>t DEF AcceptEvent, writerVars, FedWhileOpen, ExpectsNext
  <2>1. feed \in events \cup OtherEvents
    BY <2>0, <1>t DEF FedWhileOpen, Fits, Verifies, Forged
  <2>2. /\ feed \in Genuine /\ feed.seq \in Nat /\ feed.seq = Len(delivered)
        /\ feed.stream \in {Stream, Other}
    <3>1. feed \in SseEvents(Stream) \cup SseEvents(Other)
      BY <2>1, <1>t DEF SseTypes
    <3>2. feed.seq \in Nat /\ feed.stream \in {Stream, Other}
      BY <3>1 DEF SseEvents
    <3> QED BY <3>1, <3>2, <2>0 DEF Genuine, Fits
  <2>3. delivered' \in Seq(Genuine) /\ delivered \in Seq(Genuine)
    BY <2>0, <2>2, <1>t DEF SseTypes
  <2>4. SseTypes'
    BY <2>0, <2>2, <2>3, <1>t DEF SseTypes
  <2>5. FedWhileOpen'
    BY <2>0 DEF FedWhileOpen
  <2>6. \A j \in 1 .. Len(delivered) : /\ delivered[j].seq = j - 1
                                       /\ delivered[j].stream = feed.stream
    <3>1. SUFFICES ASSUME NEW j \in 1 .. Len(delivered)
                   PROVE  delivered[j].seq = j - 1 /\ delivered[j].stream = feed.stream
      OBVIOUS
    <3>2. delivered[j].seq = j - 1 /\ delivered[j].stream = stream
      BY <1>t DEF ExpectsNext
    <3>3. delivered[j] \in Genuine
      BY <2>3
    <3>4. stream \in {Stream, Other}
      BY <3>2, <3>3 DEF Genuine, SseEvents
    <3>5. stream = feed.stream
      BY <3>4, <2>0, <1>t DEF Fits
    <3> QED BY <3>2, <3>5
  <2>7. ExpectsNext' /\ FinishedIsWhole'
    <3>1. CASE feed.kind = "end"
      <4>1. delivered' = delivered /\ ended'
        BY <2>0, <3>1
      <4>2. ExpectsNext'
        BY <4>1, <2>0, <2>6 DEF ExpectsNext
      <4>3. FinishedIsWhole'
        BY <4>1, <3>1, <2>0, <2>1, <2>2 DEF FinishedIsWhole
      <4> QED BY <4>2, <4>3
    <3>2. CASE feed.kind # "end"
      <4>1. delivered' = Append(delivered, feed) /\ ~ended'
        BY <2>0, <3>2
      <4>2. /\ Len(delivered') = Len(delivered) + 1 /\ Len(delivered) \in Nat
            /\ \A j \in 1 .. Len(delivered') :
                 delivered'[j] = IF j <= Len(delivered) THEN delivered[j] ELSE feed
        BY <4>1, <2>2, <2>3
      <4>3. expected' = Len(delivered')
        BY <4>2, <2>0, <2>2
      <4>4. \A j \in 1 .. Len(delivered') : /\ delivered'[j].seq = j - 1
                                            /\ delivered'[j].stream = stream'
        BY <4>2, <2>6, <2>0, <2>2
      <4> QED BY <4>1, <4>3, <4>4 DEF ExpectsNext, FinishedIsWhole
    <3> QED BY <3>1, <3>2
  <2> QED BY <2>4, <2>5, <2>7 DEF SseIInv
<1>5. CASE RefuseEvent
  <2>0. /\ feed # NoEvent /\ ~ended /\ failed' /\ ~ended' /\ feed' = NoEvent
        /\ failed' = TRUE /\ expected = Len(delivered)
        /\ UNCHANGED <<sent, signing, events, ended, delivered>>
        /\ stream' = IF Verifies(feed) /\ stream = Anything THEN feed.stream ELSE stream
        /\ expected' \in {expected, expected + 1}
    BY <1>5, <1>t DEF RefuseEvent, writerVars, FedWhileOpen, ExpectsNext
  <2>1. Verifies(feed) => feed.stream \in {Stream, Other}
    <3>1. Verifies(feed) => feed \in SseEvents(Stream) \cup SseEvents(Other)
      BY <2>0, <1>t DEF FedWhileOpen, Verifies, Forged, SseTypes
    <3> QED BY <3>1 DEF SseEvents
  <2>2. SseTypes'
    BY <2>0, <2>1, <1>t DEF SseTypes
  <2>3. ASSUME NEW j \in 1 .. Len(delivered) PROVE delivered[j].stream = stream'
    <3>1. delivered[j].stream = stream
      BY <1>t DEF ExpectsNext
    <3>2. delivered[j] \in Genuine
      BY <1>t DEF SseTypes
    <3>3. stream # Anything
      BY <3>1, <3>2, <1>t DEF Genuine, SseEvents
    <3> QED BY <3>1, <3>3, <2>0
  <2>4. ExpectsNext'
    BY <2>0, <2>3, <1>t DEF ExpectsNext
  <2>5. FedWhileOpen' /\ FinishedIsWhole'
    BY <2>0 DEF FedWhileOpen, FinishedIsWhole
  <2> QED BY <2>2, <2>4, <2>5 DEF SseIInv
<1>6. CASE Reopen
  <2>0. delivered' = <<>> /\ delivered' \in Seq(Genuine) /\ Len(delivered') = 0
    BY <1>6 DEF Reopen
  <2>1. SseTypes'
    BY <2>0, <1>6, <1>t DEF Reopen, writerVars, SseTypes
  <2>2. FedWhileOpen' /\ FinishedIsWhole'
    BY <1>6 DEF Reopen, FedWhileOpen, FinishedIsWhole
  <2>3. ExpectsNext'
    BY <2>0, <1>6 DEF Reopen, ExpectsNext
  <2> QED BY <2>1, <2>2, <2>3 DEF SseIInv
<1>7. CASE UNCHANGED sseVars
  BY <1>7, <1>t DEF sseVars, SseIInv, SseTypes, FedWhileOpen, ExpectsNext, FinishedIsWhole
<1> QED BY <1>1, <1>2, <1>3, <1>4, <1>5, <1>6, <1>7 DEF SseNext

(* The inductive invariant holds of every reachable state. *)
THEOREM SseInvariance == SseSpec => []SseIInv
<1>1. SseInit => SseIInv
  BY SseInitInv
<1>2. SseIInv /\ [SseNext]_sseVars => SseIInv'
  BY SseNextInv
<1> QED BY <1>1, <1>2, PTL DEF SseSpec

(* The messages a reader returns are the first ones of one stream, each    *)
(* once and in order.                                                      *)
THEOREM ReturnsAPrefix == SseSpec => []DeliversAPrefix
<1>1. SseIInv => DeliversAPrefix
  <2> SUFFICES ASSUME SseIInv PROVE DeliversAPrefix
    OBVIOUS
  <2>1. delivered \in Seq(Genuine) /\ DOMAIN delivered = 1 .. Len(delivered)
    BY DEF SseIInv, SseTypes
  <2>2. \A j \in DOMAIN delivered : 1 \in DOMAIN delivered
    BY <2>1
  <2> QED BY <2>1, <2>2 DEF SseIInv, ExpectsNext, DeliversAPrefix
<1> QED BY <1>1, SseInvariance, PTL

(* A stream that finishes was received up to an end that the writer of     *)
(* that stream signed, with every message numbered before it returned.     *)
THEOREM FinishesOnlyAtTheEnd == SseSpec => []FinishedIsWhole
<1>1. SseIInv => FinishedIsWhole
  BY DEF SseIInv
<1> QED BY <1>1, SseInvariance, PTL

(* A reader returns a beginning of one stream, in order, and finishes only *)
(* when it has returned the whole.                                         *)
THEOREM Delivered == SseSpec => []SseDelivers
BY ReturnsAPrefix, FinishesOnlyAtTheEnd, PTL DEF SseDelivers

-----------------------------------------------------------------------------
(* Tool pinning *)

Verdict == [ok : BOOLEAN, recorded : Nat]

(* A request in progress keeps the fields it was made with; a page that    *)
(* was listed lists names.                                                 *)
RequestForm(q) ==
  /\ q = [at |-> q.at, sweep |-> q.sweep, name |-> q.name, begun |-> q.begun,
          page |-> q.page, listed |-> q.listed, fresh |-> q.fresh]
  /\ q.sweep \in BOOLEAN /\ q.begun \in Nat /\ q.begun <= pinTime
  /\ q.fresh \in [Names -> Verdict]
  /\ q.at = "inspecting" => DOMAIN q.listed \subseteq Names

PinTypes ==
  /\ pinTime \in Nat /\ verifiedAt \in Int
  /\ pins \in [Names -> ToolTexts \cup {Absent}]
  /\ verified \in [Names -> Verdict]
  /\ request = [r \in Requests |-> request[r]]
  /\ \A r \in Requests : RequestForm(request[r])

(* No verdict is older than the last sweep, and none is of the future. *)
VerdictTimes ==
  /\ verifiedAt <= pinTime
  /\ \A n \in Names : /\ verifiedAt <= verified[n].recorded
                      /\ verified[n].recorded <= pinTime

(* Good or bad, the verdict a call is decided on is a recent one. *)
Recent(q, n) ==
  q.at = "deciding" /\ q.name = {n} =>
    verified[n].recorded >= q.begun \/ q.begun - verified[n].recorded < MaxAge

DecidedOnRecent == \A r \in Requests, n \in Names : Recent(request[r], n)

(* The pins are those approved for this server, where there are any, and   *)
(* what was handed to the model is still pinned.                           *)
PinsApproved ==
  \A n \in Names : Approved[Server][n] # Absent => pins[n] = Approved[Server][n]

ExposedPinned ==
  \A x \in exposed : x[1] \in Names /\ x[2] \in ToolTexts /\ pins[x[1]] = x[2]

PinIInv == PinTypes /\ VerdictTimes /\ DecidedOnRecent /\ PinsApproved /\ ExposedPinned

(* NoRequest is a request in form, and not one about to be decided. *)
LEMMA NoRequestForm ==
  ASSUME pinTime \in Nat
  PROVE  /\ RequestForm(NoRequest) /\ NoRequest.at = "idle"
         /\ NoVerdicts \in [Names -> Verdict]
<1>1. NoVerdicts \in [Names -> Verdict]
  BY DEF NoVerdicts, NoVerdict, Verdict
<1> HIDE DEF NoVerdicts
<1> QED BY <1>1 DEF NoRequest, RequestForm

(* A new guard, whose pins come from a verified document. *)
LEMMA PinInitInv == PinInit => PinIInv
<1> SUFFICES ASSUME PinInit PROVE PinIInv
  OBVIOUS
<1>1. pins = Approved[Server]
  <2>1. PICK doc \in PinDocuments : VerifyToolPins(doc) /\ pins = doc.set.pins
    BY DEF PinInit
  <2>2. PICK s \in Servers, t \in Servers, u \in Servers :
          doc = [set |-> [server |-> t, pins |-> Approved[u]],
                 signature |-> SignToolPins(PinTools(s)).signature]
    BY DEF PinDocuments
  <2>3. /\ doc.set.server = t /\ doc.set.pins = Approved[u]
        /\ doc.signature = <<s, Approved[s]>>
    BY <2>2 DEF SignToolPins, PinTools, CanonicalPins
  <2>4. <<s, Approved[s]>> = <<t, Approved[u]>> /\ t = Server
    BY <2>1, <2>3 DEF VerifyToolPins, CanonicalPins
  <2> QED BY <2>1, <2>3, <2>4
<1>2. pins \in [Names -> ToolTexts \cup {Absent}]
  BY <1>1, PinningAssumption
<1>3. pinTime \in Nat
  BY DEF PinInit
<1>4. PinTypes
  BY <1>2, <1>3, NoRequestForm, PinningAssumption DEF PinInit, PinTypes, NeverSwept
<1>5. VerdictTimes
  BY PinningAssumption DEF PinInit, VerdictTimes, NoVerdicts, NoVerdict, NeverSwept
<1>6. DecidedOnRecent
  BY <1>3, NoRequestForm DEF PinInit, DecidedOnRecent, Recent
<1>7. PinsApproved /\ ExposedPinned
  BY <1>1 DEF PinInit, PinsApproved, ExposedPinned
<1> QED BY <1>4, <1>5, <1>6, <1>7 DEF PinIInv

(* What inspecting a page does to the pins: one that is set stays. *)
LEMMA PinsKept ==
  ASSUME PinTypes, NEW listed
  PROVE  /\ PinsAfter(listed) \in [Names -> ToolTexts \cup {Absent}]
         /\ \A n \in Names : pins[n] # Absent => PinsAfter(listed)[n] = pins[n]
         /\ \A n \in Names : n \in DOMAIN listed /\ Allowed(listed[n], pins[n]) =>
              listed[n] \in ToolTexts /\ PinsAfter(listed)[n] = listed[n]
  BY DEF PinTypes, PinsAfter, Allowed

(* What inspecting a page does to the verdicts: those of the tools listed  *)
(* are new, the others stay.                                               *)
LEMMA VerdictsMerged ==
  ASSUME PinTypes, NEW m \in [Names -> Verdict], NEW q, q.sweep \in BOOLEAN
  PROVE  /\ Merge(m, Verdicts(q)) \in [Names -> Verdict]
         /\ \A n \in Names :
              \/ Merge(m, Verdicts(q))[n] = m[n]
              \/ Merge(m, Verdicts(q))[n].recorded = IF q.sweep THEN 0 ELSE pinTime
<1> DEFINE D == {d \in DOMAIN q.listed : q.listed[d] # Absent}
           V == Verdicts(q)
<1>1. DOMAIN V = D
  BY DEF Verdicts
<1>2. ASSUME NEW n \in D
      PROVE  V[n] \in Verdict /\ V[n].recorded = IF q.sweep THEN 0 ELSE pinTime
  <2>1. V[n] = [ok |-> Allowed(q.listed[n], pins[n]),
                recorded |-> IF q.sweep THEN 0 ELSE pinTime]
    BY DEF Verdicts
  <2>2. Allowed(q.listed[n], pins[n]) \in BOOLEAN
    BY DEF Allowed
  <2>3. (IF q.sweep THEN 0 ELSE pinTime) \in Nat
    BY DEF PinTypes
  <2> HIDE DEF V
  <2> QED BY <2>1, <2>2, <2>3 DEF Verdict
<1> HIDE DEF V, D
<1>3. ASSUME NEW n \in Names
      PROVE  /\ Merge(m, V)[n] \in Verdict
             /\ \/ Merge(m, V)[n] = m[n]
                \/ Merge(m, V)[n].recorded = IF q.sweep THEN 0 ELSE pinTime
  BY <1>1, <1>2 DEF Merge
<1>4. Merge(m, V) = [n \in Names |-> Merge(m, V)[n]]
  BY DEF Merge
<1>5. Merge(m, V) \in [Names -> Verdict]
  BY <1>3, <1>4
<1> QED BY <1>3, <1>5 DEF V

(* A step that changes one request alone. *)
LEMMA OneRequestChanges ==
  ASSUME PinIInv, NEW r \in Requests, NEW q,
         request' = [request EXCEPT ![r] = q],
         UNCHANGED <<pinTime, pins, verified, verifiedAt, exposed>>,
         RequestForm(q), \A n \in Names : Recent(q, n)
  PROVE  PinIInv'
<1>1. /\ request' = [s \in Requests |-> request'[s]]
      /\ \A s \in Requests : request'[s] = IF s = r THEN q ELSE request[s]
  BY DEF PinIInv, PinTypes
<1>2. \A s \in Requests : RequestForm(request'[s]) /\ \A n \in Names : Recent(request'[s], n)
  BY <1>1 DEF PinIInv, PinTypes, DecidedOnRecent
<1>3. \A s \in Requests : RequestForm(request[s])' /\ \A n \in Names : Recent(request[s], n)'
  BY <1>2 DEF RequestForm, Recent
<1>4. PinTypes' /\ DecidedOnRecent'
  BY <1>1, <1>3 DEF PinIInv, PinTypes, DecidedOnRecent
<1>5. VerdictTimes' /\ PinsApproved' /\ ExposedPinned'
  BY DEF PinIInv, VerdictTimes, PinsApproved, ExposedPinned
<1> QED BY <1>4, <1>5 DEF PinIInv

(* The page of a tools/list is inspected. *)
LEMMA ListInspectedInv ==
  ASSUME PinIInv, NEW r \in Requests, ListInspected(r)
  PROVE  PinIInv'
<1> DEFINE q == request[r]
           shown == {<<n, q.listed[n]>> :
                       n \in {m \in DOMAIN q.listed : Allowed(q.listed[m], pins[m])}}
<1>1. /\ q.at = "inspecting" /\ q.sweep = FALSE /\ DOMAIN q.listed \subseteq Names
      /\ PinTypes /\ RequestForm(q)
  BY DEF ListInspected, PinIInv, PinTypes, RequestForm
<1>2. /\ pins' = PinsAfter(q.listed)
      /\ verified' = Merge(verified, Verdicts(q))
      /\ exposed' = exposed \cup shown
      /\ request' = [request EXCEPT ![r] = NoRequest]
      /\ pinTime' = pinTime /\ verifiedAt' = verifiedAt
  BY DEF ListInspected
<1>3. /\ verified' \in [Names -> Verdict]
      /\ \A n \in Names : verified'[n] = verified[n] \/ verified'[n].recorded = pinTime
  <2>1. PinTypes /\ verified \in [Names -> Verdict] /\ q.sweep = FALSE /\ q.sweep \in BOOLEAN
    BY <1>1 DEF PinTypes
  <2> HIDE DEF q
  <2>2. /\ Merge(verified, Verdicts(q)) \in [Names -> Verdict]
        /\ \A n \in Names :
             \/ Merge(verified, Verdicts(q))[n] = verified[n]
             \/ Merge(verified, Verdicts(q))[n].recorded = IF q.sweep THEN 0 ELSE pinTime
    BY <2>1, VerdictsMerged
  <2> QED BY <2>1, <2>2, <1>2
<1>4. /\ pins' \in [Names -> ToolTexts \cup {Absent}]
      /\ \A n \in Names : pins[n] # Absent => pins'[n] = pins[n]
      /\ \A n \in Names : n \in DOMAIN q.listed /\ Allowed(q.listed[n], pins[n]) =>
           q.listed[n] \in ToolTexts /\ pins'[n] = q.listed[n]
  BY <1>1, <1>2, PinsKept
<1>5. \A x \in shown : x[1] \in Names /\ x[2] \in ToolTexts /\ pins'[x[1]] = x[2]
  BY <1>1, <1>4
<1>6. ExposedPinned'
  BY <1>2, <1>4, <1>5, PinningAssumption DEF PinIInv, ExposedPinned
<1>7. PinsApproved'
  BY <1>4, PinningAssumption DEF PinIInv, PinsApproved
<1>8. /\ request' = [s \in Requests |-> request'[s]]
      /\ \A s \in Requests : request'[s] = IF s = r THEN NoRequest ELSE request[s]
  BY <1>2 DEF PinIInv, PinTypes
<1> HIDE DEF q, shown
<1>9. VerdictTimes'
  BY <1>1, <1>2, <1>3 DEF PinIInv, PinTypes, VerdictTimes, Verdict
<1>10. \A s \in Requests : RequestForm(request[s])'
  BY <1>1, <1>2, <1>8, NoRequestForm DEF PinTypes, RequestForm
<1>11. ASSUME NEW s \in Requests, NEW n \in Names PROVE Recent(request[s], n)'
  <2>1. CASE s = r
    BY <2>1, <1>1, <1>8, NoRequestForm DEF PinTypes, Recent
  <2>2. CASE s # r
    <3>1. request'[s] = request[s] /\ RequestForm(request[s]) /\ Recent(request[s], n)
      BY <2>2, <1>1, <1>8 DEF PinTypes, PinIInv, DecidedOnRecent
    <3>2. CASE verified'[n] = verified[n]
      BY <3>1, <3>2 DEF Recent
    <3>3. CASE verified'[n].recorded = pinTime
      BY <3>1, <3>3 DEF Recent, RequestForm
    <3> QED BY <3>2, <3>3, <1>3
  <2> QED BY <2>1, <2>2
<1>12. PinTypes' /\ DecidedOnRecent'
  BY <1>1, <1>2, <1>3, <1>4, <1>8, <1>10, <1>11 DEF PinTypes, DecidedOnRecent
<1> QED BY <1>6, <1>7, <1>9, <1>12 DEF PinIInv

(* A page of a sweep is inspected: the last one stamps every verdict. *)
LEMMA SweepInspectedInv ==
  ASSUME PinIInv, NEW r \in Requests, SweepInspected(r)
  PROVE  PinIInv'
<1> DEFINE q == request[r]
           fresh == Merge(q.fresh, Verdicts(q))
           next == request'[r]
<1>1. q.sweep \in BOOLEAN /\ q.fresh \in [Names -> Verdict] /\ PinTypes /\ RequestForm(q)
  BY DEF PinIInv, PinTypes, RequestForm
<1>2. /\ pins' = PinsAfter(q.listed)
      /\ exposed' = exposed /\ pinTime' = pinTime
  BY DEF SweepInspected
<1>3. fresh \in [Names -> Verdict]
  BY <1>1, VerdictsMerged
<1>4. /\ pins' \in [Names -> ToolTexts \cup {Absent}]
      /\ \A n \in Names : pins[n] # Absent => pins'[n] = pins[n]
  BY <1>1, <1>2, PinsKept
<1>5. ExposedPinned' /\ PinsApproved'
  BY <1>2, <1>4, PinningAssumption DEF PinIInv, ExposedPinned, PinsApproved
<1>6. /\ request' = [s \in Requests |-> request'[s]]
      /\ \A s \in Requests \ {r} : request'[s] = request[s]
  BY DEF PinIInv, PinTypes, SweepInspected
<1>7. CASE q.page = Pages
  <2>1. /\ verified' = [n \in Names |-> [fresh[n] EXCEPT !.recorded = pinTime]]
        /\ verifiedAt' = pinTime
        /\ request' = [request EXCEPT ![r].at = "deciding", ![r].listed = <<>>,
                                        ![r].fresh = NoVerdicts]
    BY <1>7 DEF SweepInspected
  <2> HIDE DEF fresh
  <2>2. /\ verified' \in [Names -> Verdict]
        /\ \A n \in Names : verified'[n].recorded = pinTime
    BY <2>1, <1>1, <1>3 DEF Verdict, PinTypes
  <2>3. next = [at |-> "deciding", sweep |-> q.sweep, name |-> q.name, begun |-> q.begun,
                page |-> q.page, listed |-> <<>>, fresh |-> NoVerdicts]
    BY <2>1, <1>1 DEF PinTypes, RequestForm
  <2> HIDE DEF next, q
  <2>4. RequestForm(next)
    BY <2>3, <1>1, NoRequestForm DEF RequestForm, PinTypes
  <2>5. VerdictTimes'
    BY <2>1, <2>2, <1>1, <1>2 DEF VerdictTimes, PinTypes
  <2>6. \A s \in Requests : RequestForm(request'[s])
    BY <2>4, <1>1, <1>6 DEF PinTypes, next
  <2>7. \A s \in Requests : RequestForm(request[s])'
    BY <2>6, <1>2 DEF RequestForm
  <2>8. \A s \in Requests, n \in Names : Recent(request[s], n)'
    BY <2>6, <2>2 DEF RequestForm, Recent
  <2>9. PinTypes' /\ DecidedOnRecent'
    BY <2>1, <2>2, <2>7, <2>8, <1>1, <1>2, <1>4, <1>6 DEF PinTypes, DecidedOnRecent
  <2> QED BY <1>5, <2>5, <2>9 DEF PinIInv
<1>8. CASE q.page # Pages
  <2>1. /\ verified' = verified /\ verifiedAt' = verifiedAt
        /\ request' = [request EXCEPT ![r].at = "listing", ![r].page = @ + 1,
                                        ![r].listed = <<>>, ![r].fresh = fresh]
    BY <1>8 DEF SweepInspected
  <2> HIDE DEF fresh
  <2>2. next = [at |-> "listing", sweep |-> q.sweep, name |-> q.name, begun |-> q.begun,
                page |-> q.page + 1, listed |-> <<>>, fresh |-> fresh]
    BY <2>1, <1>1 DEF PinTypes, RequestForm
  <2> HIDE DEF next, q
  <2>3. RequestForm(next) /\ next.at = "listing"
    BY <2>2, <1>1, <1>3 DEF RequestForm
  <2>4. VerdictTimes'
    BY <2>1, <1>2 DEF PinIInv, VerdictTimes
  <2>5. \A s \in Requests : RequestForm(request'[s])
    BY <2>3, <1>1, <1>6 DEF PinTypes, next
  <2>6. \A s \in Requests : RequestForm(request[s])'
    BY <2>5, <1>2 DEF RequestForm
  <2>7. \A s \in Requests, n \in Names : Recent(request'[s], n)
    BY <2>3, <1>6 DEF Recent, next, PinIInv, DecidedOnRecent
  <2>8. \A s \in Requests, n \in Names : Recent(request[s], n)'
    BY <2>7, <2>1 DEF Recent
  <2>9. PinTypes' /\ DecidedOnRecent'
    BY <2>1, <2>6, <2>8, <1>1, <1>2, <1>4, <1>6 DEF PinTypes, DecidedOnRecent
  <2> QED BY <1>5, <2>4, <2>9 DEF PinIInv
<1> QED BY <1>7, <1>8

(* Every step of the server, the clock and the requests preserves it. *)
LEMMA PinNextInv == PinIInv /\ [PinNext]_pinVars => PinIInv'
<1> SUFFICES ASSUME PinIInv, [PinNext]_pinVars PROVE PinIInv'
  OBVIOUS
<1>t. /\ PinTypes /\ VerdictTimes /\ DecidedOnRecent /\ PinsApproved /\ ExposedPinned
      /\ pinTime \in Nat /\ NeverSwept \in Int /\ NeverSwept < 0
  BY PinningAssumption DEF PinIInv, PinTypes, NeverSwept
<1>i. RequestForm(NoRequest) /\ \A n \in Names : Recent(NoRequest, n)
  BY <1>t, NoRequestForm DEF Recent
<1>1. ASSUME NEW n \in Names, NEW t, ServerChanges(n, t) PROVE PinIInv'
  BY <1>1, <1>t DEF ServerChanges, PinIInv, PinTypes, RequestForm, VerdictTimes,
     DecidedOnRecent, Recent, PinsApproved, ExposedPinned
<1>2. CASE Invalidate
  <2>1. VerdictTimes'
    BY <1>2, <1>t DEF Invalidate, VerdictTimes, PinTypes, Verdict
  <2>2. PinTypes' /\ DecidedOnRecent' /\ PinsApproved' /\ ExposedPinned'
    BY <1>2, <1>t DEF Invalidate, PinTypes, RequestForm, DecidedOnRecent, Recent,
       PinsApproved, ExposedPinned
  <2> QED BY <2>1, <2>2 DEF PinIInv
<1>3. CASE PinLater
  <2>1. VerdictTimes'
    BY <1>3, <1>t DEF PinLater, VerdictTimes, PinTypes, Verdict
  <2>2. \A r \in Requests : RequestForm(request[r])'
    BY <1>3, <1>t DEF PinLater, PinTypes, RequestForm
  <2>3. PinTypes' /\ DecidedOnRecent' /\ PinsApproved' /\ ExposedPinned'
    BY <1>3, <1>t, <2>2 DEF PinLater, PinTypes, DecidedOnRecent, Recent,
       PinsApproved, ExposedPinned
  <2> QED BY <2>1, <2>3 DEF PinIInv
<1>4. ASSUME NEW r \in Requests, NEW p \in 1 .. Pages, BeginList(r, p) PROVE PinIInv'
  <2>q. PICK q : q = [NoRequest EXCEPT !.at = "listing", !.page = p]
    OBVIOUS
  <2>f. q = [at |-> "listing", sweep |-> FALSE, name |-> {}, begun |-> 0, page |-> p,
             listed |-> <<>>, fresh |-> NoVerdicts]
    BY <2>q DEF NoRequest
  <2>1. RequestForm(q) /\ q.at = "listing"
    <3> HIDE DEF NoVerdicts
    <3> QED BY <2>f, <1>t, NoRequestForm DEF RequestForm
  <2>2. \A n \in Names : Recent(q, n)
    BY <2>1 DEF Recent
  <2>3. /\ request' = [request EXCEPT ![r] = q]
        /\ UNCHANGED <<pinTime, pins, verified, verifiedAt, exposed>>
    BY <1>4, <2>q DEF BeginList
  <2> QED BY <2>1, <2>2, <2>3, OneRequestChanges
<1>5. ASSUME NEW r \in Requests, NEW n \in Names, BeginCall(r, n) PROVE PinIInv'
  <2>d. PICK due : due = (pinTime - verifiedAt >= MaxAge)
    OBVIOUS
  <2>b. due \in BOOLEAN
    BY <2>d
  <2>a. PICK step : step = IF due THEN "listing" ELSE "deciding"
    OBVIOUS
  <2>q. PICK q : q = [NoRequest EXCEPT !.name = {n}, !.begun = pinTime, !.at = step,
                        !.sweep = due]
    OBVIOUS
  <2>1. /\ request' = [request EXCEPT ![r] = q]
        /\ UNCHANGED <<pinTime, pins, verified, verifiedAt, exposed>>
    BY <1>5, <2>q, <2>a, <2>d, Zenon DEF BeginCall
  <2>f. q = [at |-> step, sweep |-> due, name |-> {n}, begun |-> pinTime, page |-> 1,
             listed |-> <<>>, fresh |-> NoVerdicts]
    BY <2>q DEF NoRequest
  <2>2. /\ RequestForm(q) /\ q.name = {n} /\ q.begun = pinTime
        /\ q.at = "deciding" => ~due
    BY <2>f, <2>a, <2>b, <1>t, NoRequestForm DEF RequestForm
  <2>3. \A m \in Names : Recent(q, m)
    <3> SUFFICES ASSUME NEW m \in Names, q.at = "deciding", q.name = {m}
                 PROVE  q.begun - verified[m].recorded < MaxAge
      BY DEF Recent
    <3>1. m = n /\ ~(pinTime - verifiedAt >= MaxAge) /\ q.begun = pinTime
      BY <2>2, <2>d
    <3>2. verifiedAt \in Int /\ MaxAge \in Nat /\ verified[m].recorded \in Nat
      BY <1>t, PinningAssumption DEF PinTypes, Verdict
    <3> QED BY <3>1, <3>2, <1>t DEF VerdictTimes
  <2> QED BY <2>1, <2>2, <2>3, OneRequestChanges
<1>6. ASSUME NEW r \in Requests, PageArrives(r) PROVE PinIInv'
  <2> DEFINE L == [n \in {m \in Names : Page[m] = request[r].page} |-> served[n]]
  <2>q. PICK q : q = [request[r] EXCEPT !.at = "inspecting", !.listed = L]
    OBVIOUS
  <2>1. DOMAIN L \subseteq Names
    OBVIOUS
  <2>2. /\ request' = [request EXCEPT ![r] = q]
        /\ UNCHANGED <<pinTime, pins, verified, verifiedAt, exposed>>
    BY <1>6, <1>t, <2>q DEF PageArrives, PinTypes
  <2> HIDE DEF L
  <2>r. RequestForm(request[r])
    BY <1>t DEF PinTypes
  <2>f. q = [at |-> "inspecting", sweep |-> request[r].sweep, name |-> request[r].name,
             begun |-> request[r].begun, page |-> request[r].page, listed |-> L,
             fresh |-> request[r].fresh]
    BY <2>q, <2>r DEF RequestForm
  <2>3. RequestForm(q) /\ q.at = "inspecting"
    BY <2>f, <2>r, <2>1 DEF RequestForm
  <2>4. \A n \in Names : Recent(q, n)
    BY <2>3 DEF Recent
  <2> QED BY <2>2, <2>3, <2>4, OneRequestChanges
<1>7. ASSUME NEW r \in Requests, ListFails(r) \/ DecideCall(r) PROVE PinIInv'
  <2>1. /\ request' = [request EXCEPT ![r] = NoRequest]
        /\ UNCHANGED <<pinTime, pins, verified, verifiedAt, exposed>>
    BY <1>7 DEF ListFails, DecideCall
  <2> QED BY <2>1, <1>i, OneRequestChanges
<1>8. CASE UNCHANGED pinVars
  BY <1>8, <1>t DEF pinVars, PinIInv, PinTypes, RequestForm, VerdictTimes,
     DecidedOnRecent, Recent, PinsApproved, ExposedPinned
<1> QED BY <1>1, <1>2, <1>3, <1>4, <1>5, <1>6, <1>7, <1>8, SweepInspectedInv,
           ListInspectedInv DEF PinNext

(* mcpToolPinning.ts:368: for any tools, pages, requests in progress and   *)
(* changes of the server, a guarded client shows tools only as they are    *)
(* pinned and forwards calls only on a recent verdict.                     *)
THEOREM PinnedTools == PinSpec => []PinnedToolsOnly
<1>1. PinIInv => PinnedToolsOnly
  <2> SUFFICES ASSUME PinIInv PROVE PinnedToolsOnly
    OBVIOUS
  <2>1. ForwardedOnRecentVerdict
    BY DEF PinIInv, DecidedOnRecent, Recent, ForwardedOnRecentVerdict, Forwards
  <2>2. ExposedIsPinned
    <3> SUFFICES ASSUME NEW x \in exposed
                 PROVE  pins[x[1]] = x[2] /\ Approved[Server][x[1]] \in {x[2], Absent}
      BY DEF ExposedIsPinned
    <3> QED BY DEF PinIInv, PinsApproved, ExposedPinned
  <2> QED BY <2>1, <2>2 DEF PinnedToolsOnly
<1>2. PinInit => PinIInv
  BY PinInitInv
<1>3. PinIInv /\ [PinNext]_pinVars => PinIInv'
  BY PinNextInv
<1> QED BY <1>1, <1>2, <1>3, PTL DEF PinSpec

-----------------------------------------------------------------------------
(* The audit log *)

(* A chain: each entry names the one before it, and no entry occurs twice. *)
Linked(s) ==
  \A i \in 1 .. Len(s) :
    s[i].prevHash = IF i = 1 THEN AuditGenesis ELSE AuditEntryHash(s[i - 1])

NoRepeat(s) == \A i, j \in 1 .. Len(s) : s[i] = s[j] => i = j

LastHash(s) == IF Len(s) = 0 THEN AuditGenesis ELSE AuditEntryHash(s[Len(s)])

(* The first entries of s are the entries of p. *)
Begins(p, s) == Len(p) <= Len(s) /\ \A i \in 1 .. Len(p) : p[i] = s[i]

DrawnFrom(copy, s) == \A i \in 1 .. Len(copy) : \E k \in 1 .. Len(s) : copy[i] = s[k]

(* A hash is of one entry, and no entry hashes to what a chain starts from.*)
LEMMA HashOfOne ==
  /\ \A e, f : AuditEntryHash(e) = AuditEntryHash(f) => e = f
  /\ \A e : AuditEntryHash(e) # AuditGenesis
<1>1. ASSUME NEW e, NEW f, AuditEntryHash(e) = AuditEntryHash(f) PROVE e = f
  <2>1. <<e>> = <<f>>
    BY <1>1 DEF AuditEntryHash
  <2> QED BY <2>1
<1>2. ASSUME NEW e PROVE AuditEntryHash(e) # AuditGenesis
  BY DEF AuditEntryHash, AuditGenesis
<1> QED BY <1>1, <1>2

(* Whatever is made of the entries of a chain, it verifies only as a       *)
(* beginning of that chain: otherwise its first entry out of place would   *)
(* have a predecessor that is in place.                                    *)
LEMMA OnlyBeginningsVerify ==
  ASSUME NEW S, NEW s \in Seq(S), NEW copy \in Seq(S),
         Linked(s), NoRepeat(s), DrawnFrom(copy, s), Linked(copy)
  PROVE  Begins(copy, s)
<1> DEFINE InPlace(i) == i <= Len(s) /\ copy[i] = s[i]
           Out == {i \in 1 .. Len(copy) : ~InPlace(i)}
<1>n. Len(copy) \in Nat /\ Len(s) \in Nat
  OBVIOUS
<1>1. Out = {}
  <2> SUFFICES ASSUME Out # {} PROVE FALSE
    OBVIOUS
  <2>1. PICK i \in Out : \A j \in Out : i <= j
    <3>1. Out \in SUBSET Nat
      BY <1>n
    <3> HIDE DEF Out
    <3> QED BY <3>1, LeastNatural
  <2>2. PICK k \in 1 .. Len(s) : copy[i] = s[k]
    BY DEF DrawnFrom
  <2>3. /\ i \in 1 .. Len(copy) /\ k \in Nat /\ i \in Nat
        /\ copy[i].prevHash = IF i = 1 THEN AuditGenesis ELSE AuditEntryHash(copy[i - 1])
        /\ s[k].prevHash = IF k = 1 THEN AuditGenesis ELSE AuditEntryHash(s[k - 1])
    BY <1>n DEF Linked
  <2>4. CASE i = 1
    <3>1. k = 1
      BY <2>2, <2>3, <2>4, HashOfOne
    <3> QED BY <3>1, <2>2, <2>4
  <2>5. CASE i # 1
    <3>1. i - 1 \in 1 .. Len(copy) /\ InPlace(i - 1)
      BY <1>n, <2>1, <2>3, <2>5
    <3>2. k # 1 /\ copy[i - 1] = s[k - 1]
      BY <2>2, <2>3, <2>5, HashOfOne
    <3>3. i - 1 \in 1 .. Len(s) /\ k - 1 \in 1 .. Len(s) /\ s[i - 1] = s[k - 1]
      BY <3>1, <3>2, <2>2, <2>3, <1>n
    <3>4. i - 1 = k - 1
      BY <3>3 DEF NoRepeat
    <3> QED BY <3>4, <2>2, <2>3, <1>n
  <2> QED BY <2>4, <2>5
<1>2. \A i \in 1 .. Len(copy) : InPlace(i)
  BY <1>1
<1>3. Len(copy) <= Len(s)
  <2>1. CASE Len(copy) = 0
    BY <2>1, <1>n
  <2>2. CASE Len(copy) # 0
    BY <2>2, <1>2, <1>n
  <2> QED BY <2>1, <2>2
<1> QED BY <1>2, <1>3 DEF Begins

(* An entry that takes the last hash continues the chain. *)
LEMMA ChainGrows ==
  ASSUME NEW S, NEW s \in Seq(S), NEW e, Linked(s), NoRepeat(s), e.prevHash = LastHash(s),
         NEW t, t = Append(s, e)
  PROVE  Len(t) = Len(s) + 1 /\ t[Len(t)] = e /\ Linked(t) /\ NoRepeat(t)
<1>n. Len(s) \in Nat /\ s \in Seq(S \cup {e})
  OBVIOUS
<1>1. /\ t \in Seq(S \cup {e}) /\ Len(t) = Len(s) + 1 /\ t[Len(t)] = e
      /\ \A i \in 1 .. Len(s) : t[i] = s[i]
  BY <1>n
<1>2. Linked(t)
  <2> SUFFICES ASSUME NEW i \in 1 .. Len(t)
               PROVE  t[i].prevHash = IF i = 1 THEN AuditGenesis ELSE AuditEntryHash(t[i - 1])
    BY DEF Linked
  <2>1. CASE i = Len(t)
    BY <2>1, <1>1, <1>n DEF LastHash
  <2>2. CASE i # Len(t)
    <3>1. i \in 1 .. Len(s) /\ t[i] = s[i] /\ (i # 1 => t[i - 1] = s[i - 1])
      BY <2>2, <1>1, <1>n
    <3> QED BY <3>1 DEF Linked
  <2> QED BY <2>1, <2>2
<1>3. \A i \in 1 .. Len(s) : s[i] # e
  <2> SUFFICES ASSUME NEW i \in 1 .. Len(s), s[i] = e PROVE FALSE
    OBVIOUS
  <2>1. Len(s) # 0 /\ e.prevHash = AuditEntryHash(s[Len(s)])
    BY <1>n DEF LastHash
  <2>2. s[i].prevHash = IF i = 1 THEN AuditGenesis ELSE AuditEntryHash(s[i - 1])
    BY DEF Linked
  <2>3. i # 1 /\ s[i - 1] = s[Len(s)]
    BY <2>1, <2>2, HashOfOne
  <2>4. i - 1 \in 1 .. Len(s) /\ Len(s) \in 1 .. Len(s)
    BY <2>1, <2>3, <1>n
  <2>5. i - 1 = Len(s)
    BY <2>3, <2>4 DEF NoRepeat
  <2> QED BY <2>5, <1>n
<1>4. NoRepeat(t)
  <2> SUFFICES ASSUME NEW i \in 1 .. Len(t), NEW j \in 1 .. Len(t), t[i] = t[j] PROVE i = j
    BY DEF NoRepeat
  <2>1. /\ i # Len(t) => i \in 1 .. Len(s) /\ t[i] = s[i]
        /\ j # Len(t) => j \in 1 .. Len(s) /\ t[j] = s[j]
    BY <1>1, <1>n
  <2> QED BY <2>1, <1>1, <1>3 DEF NoRepeat
<1> QED BY <1>1, <1>2, <1>4

(* The entries kept are the last of those logged. *)
LastOf(a, s) ==
  /\ Len(a) = IF Len(s) <= MaxAuditEntries THEN Len(s) ELSE MaxAuditEntries
  /\ \A i \in 1 .. Len(a) : a[i] = s[Len(s) - Len(a) + i]

KeptAreLast == LastOf(auditEntries, everLogged)

LoggingForm(g) ==
  /\ g = [at |-> g.at, entry |-> g.entry]
  /\ g.at \in {"idle", "signing", "hashing"}

AuditTypes ==
  /\ \E S : auditEntries \in Seq(S) /\ everLogged \in Seq(S)
  /\ logging = [l \in Loggers |-> logging[l]]
  /\ \A l \in Loggers : LoggingForm(logging[l])
  /\ crossed \in BOOLEAN
  /\ audited = [copy |-> audited.copy, ok |-> audited.ok]

(* While no two calls have crossed there is one at most; the tip is the    *)
(* hash of the last entry but for the moment it takes to compute it.       *)
SerialCalls ==
  /\ \A l, m \in Loggers : logging[l].at # "idle" /\ logging[m].at # "idle" => l = m
  /\ (\A l \in Loggers : logging[l].at # "hashing") => tip = LastHash(everLogged)
  /\ \A l \in Loggers :
       /\ logging[l].at = "signing" => logging[l].entry[1].prevHash = tip
       /\ logging[l].at = "hashing" => AuditEntryHash(logging[l].entry[1]) = LastHash(everLogged)

CopyBegins(copy) == (\E S : copy \in Seq(S)) /\ Begins(copy, everLogged)

SerialChain ==
  ~crossed => /\ SerialCalls
              /\ Linked(everLogged) /\ NoRepeat(everLogged)
              /\ audited.ok => CopyBegins(audited.copy)

AuditIInv == AuditTypes /\ KeptAreLast /\ SerialChain

LEMMA AuditInitInv == AuditInit => AuditIInv
<1> SUFFICES ASSUME AuditInit PROVE AuditIInv
  OBVIOUS
<1>1. /\ auditEntries = <<>> /\ everLogged = <<>> /\ audited = [copy |-> <<>>, ok |-> TRUE]
      /\ tip = AuditGenesis /\ crossed = FALSE
      /\ logging = [l \in Loggers |-> NoLogging]
  BY DEF AuditInit
<1>2. <<>> \in Seq({}) /\ Len(<<>>) = 0
  OBVIOUS
<1>3. \E S : <<>> \in Seq(S)
  BY <1>2
<1>4. AuditTypes
  <2>1. \E S : auditEntries \in Seq(S) /\ everLogged \in Seq(S)
    BY <1>1, <1>2
  <2>2. /\ logging = [l \in Loggers |-> logging[l]]
        /\ \A l \in Loggers : LoggingForm(logging[l])
    BY <1>1 DEF NoLogging, LoggingForm
  <2> QED BY <2>1, <2>2, <1>1 DEF AuditTypes
<1>5. KeptAreLast
  BY <1>1, <1>2, AuditAssumption DEF KeptAreLast, LastOf
<1>6. SerialCalls
  BY <1>1, <1>2 DEF SerialCalls, NoLogging, LastHash
<1>7. Linked(everLogged) /\ NoRepeat(everLogged) /\ CopyBegins(audited.copy)
  BY <1>1, <1>2, <1>3 DEF Linked, NoRepeat, CopyBegins, Begins
<1> QED BY <1>4, <1>5, <1>6, <1>7 DEF AuditIInv, SerialChain

(* Two sequences joined. *)
LEMMA Concatenated ==
  ASSUME NEW S, NEW p \in Seq(S), NEW q \in Seq(S)
  PROVE  /\ p \o q \in Seq(S) /\ Len(p \o q) = Len(p) + Len(q)
         /\ Len(p) \in Nat /\ Len(q) \in Nat
         /\ \A j \in 1 .. Len(p) : (p \o q)[j] = p[j]
         /\ \A j \in 1 .. Len(q) : (p \o q)[Len(p) + j] = q[j]
  OBVIOUS

(* Every copy is a sequence of entries that were logged. *)
LEMMA CopiesDrawn ==
  ASSUME AuditTypes, KeptAreLast, NEW copy \in Copies,
         NEW S, auditEntries \in Seq(S), everLogged \in Seq(S)
  PROVE  copy \in Seq(S) /\ DrawnFrom(copy, everLogged)
<1> DEFINE a == auditEntries
           s == everLogged
<1>n. Len(a) \in Nat /\ Len(s) \in Nat /\ Len(a) <= Len(s) /\ DOMAIN a = 1 .. Len(a)
  BY AuditAssumption DEF KeptAreLast, LastOf
<1>1. \A i \in 1 .. Len(a) : \E k \in 1 .. Len(s) : a[i] = s[k]
  <2> SUFFICES ASSUME NEW i \in 1 .. Len(a) PROVE \E k \in 1 .. Len(s) : a[i] = s[k]
    OBVIOUS
  <2>1. Len(s) - Len(a) + i \in 1 .. Len(s)
    BY <1>n
  <2> QED BY <2>1 DEF KeptAreLast, LastOf
<1>2. /\ copy \in Seq(S)
      /\ \A j \in 1 .. Len(copy) : \E i \in 1 .. Len(a) : copy[j] = a[i]
  <2>1. CASE copy = a
    BY <2>1
  <2>2. ASSUME NEW i \in DOMAIN a, copy = RemoveAt(a, i)
        PROVE  /\ copy \in Seq(S)
               /\ \A j \in 1 .. Len(copy) : \E m \in 1 .. Len(a) : copy[j] = a[m]
    <3> DEFINE p == SubSeq(a, 1, i - 1)
               q == SubSeq(a, i + 1, Len(a))
    <3>1. /\ p \in Seq(S) /\ Len(p) = i - 1
          /\ \A j \in 1 .. Len(p) : p[j] = a[j]
      BY <1>n
    <3>2. /\ q \in Seq(S) /\ Len(q) = Len(a) - i
          /\ \A j \in 1 .. Len(q) : q[j] = a[i + j]
      BY <1>n
    <3>3. copy = p \o q
      BY <2>2 DEF RemoveAt
    <3> HIDE DEF p, q
    <3>4. /\ copy \in Seq(S) /\ Len(copy) = Len(p) + Len(q)
          /\ Len(p) \in Nat /\ Len(q) \in Nat
          /\ \A j \in 1 .. Len(p) : copy[j] = p[j]
          /\ \A j \in 1 .. Len(q) : copy[Len(p) + j] = q[j]
      <4>1. p \in Seq(S) /\ q \in Seq(S)
        BY <3>1, <3>2
      <4> QED BY <4>1, <3>3, Concatenated
    <3>5. ASSUME NEW j \in 1 .. Len(copy) PROVE \E m \in 1 .. Len(a) : copy[j] = a[m]
      <4>1. CASE j <= Len(p)
        <5>1. j \in 1 .. Len(p) /\ j \in 1 .. Len(a)
          BY <4>1, <3>1, <3>4, <1>n
        <5> QED BY <5>1, <3>1, <3>4
      <4>2. CASE j > Len(p)
        <5>1. PICK h \in 1 .. Len(q) : j = Len(p) + h
          <6>1. j - Len(p) \in 1 .. Len(q) /\ j = Len(p) + (j - Len(p))
            BY <4>2, <3>4
          <6> QED BY <6>1
        <5>2. i + h \in 1 .. Len(a)
          BY <3>2, <1>n
        <5> QED BY <5>1, <5>2, <3>2, <3>4
      <4> QED BY <4>1, <4>2, <3>4
    <3> QED BY <3>4, <3>5
  <2>3. ASSUME NEW i \in DOMAIN a, NEW j \in DOMAIN a,
               copy = [a EXCEPT ![i] = a[j], ![j] = a[i]]
        PROVE  /\ copy \in Seq(S)
               /\ \A m \in 1 .. Len(copy) : \E h \in 1 .. Len(a) : copy[m] = a[h]
    <3>1. a \in [1 .. Len(a) -> S] /\ i \in 1 .. Len(a) /\ j \in 1 .. Len(a)
      BY <1>n
    <3>2. /\ copy \in [1 .. Len(a) -> S]
          /\ \A m \in 1 .. Len(a) : copy[m] \in {a[m], a[i], a[j]}
      BY <2>3, <3>1
    <3>3. copy \in Seq(S) /\ Len(copy) = Len(a)
      BY <3>2, <1>n
    <3> QED BY <3>1, <3>2, <3>3
  <2> QED BY <2>1, <2>2, <2>3 DEF Copies
<1> QED BY <1>1, <1>2 DEF DrawnFrom

(* A beginning of the log stays one when the log grows. *)
LEMMA BeginsStays ==
  ASSUME NEW S, NEW s \in Seq(S), NEW e, NEW copy, Begins(copy, s),
         \E T : copy \in Seq(T)
  PROVE  Begins(copy, Append(s, e))
<1>1. Len(copy) \in Nat /\ Len(s) \in Nat /\ s \in Seq(S \cup {e})
  OBVIOUS
<1>2. /\ Len(Append(s, e)) = Len(s) + 1
      /\ \A i \in 1 .. Len(s) : Append(s, e)[i] = s[i]
  BY <1>1
<1>3. \A i \in 1 .. Len(copy) : i \in 1 .. Len(s)
  BY <1>1 DEF Begins
<1> QED BY <1>1, <1>2, <1>3 DEF Begins

(* An entry is pushed: the oldest makes room at the limit. *)
LEMMA PushKeepsLast ==
  ASSUME NEW S, NEW a \in Seq(S), NEW s \in Seq(S), LastOf(a, s), NEW e,
         NEW b, b = IF Len(a) >= MaxAuditEntries THEN Append(Tail(a), e) ELSE Append(a, e)
  PROVE  /\ b \in Seq(S \cup {e}) /\ Append(s, e) \in Seq(S \cup {e})
         /\ LastOf(b, Append(s, e))
<1> DEFINE n == Len(s)
           m == Len(a)
<1>t. PICK t : t = Append(s, e)
  OBVIOUS
<1>1. /\ n \in Nat /\ m \in Nat /\ MaxAuditEntries \in Nat \ {0} /\ m <= n
      /\ m = IF n <= MaxAuditEntries THEN n ELSE MaxAuditEntries
      /\ s \in Seq(S \cup {e}) /\ a \in Seq(S \cup {e})
  BY AuditAssumption DEF LastOf
<1>2. t \in Seq(S \cup {e}) /\ Len(t) = n + 1 /\ t[n + 1] = e /\ \A i \in 1 .. n : t[i] = s[i]
  BY <1>1, <1>t
<1>3. \A i \in 1 .. m : a[i] = s[n - m + i]
  BY DEF LastOf
<1>4. CASE m >= MaxAuditEntries
  <2>0. Len(a) > 0 /\ a # <<>> /\ a \in Seq(S \cup {e})
    BY <1>1, <1>4
  <2>1. PICK u : u = Tail(a)
    OBVIOUS
  <2>2. /\ u \in Seq(S \cup {e}) /\ Len(u) = m - 1
        /\ \A i \in 1 .. m - 1 : u[i] = a[i + 1]
    BY <2>0, <2>1, <1>1
  <2>3. b = Append(u, e)
    BY <2>1, <1>4
  <2>4. /\ b \in Seq(S \cup {e}) /\ Len(b) = m /\ b[m] = e
        /\ \A i \in 1 .. m - 1 : b[i] = a[i + 1]
    BY <2>2, <2>3, <1>1
  <2>5. ASSUME NEW i \in 1 .. m PROVE b[i] = t[n + 1 - m + i]
    <3>1. CASE i = m
      BY <3>1, <2>4, <1>2, <1>1
    <3>2. CASE i # m
      <4>1. /\ i \in 1 .. m - 1 /\ i + 1 \in 1 .. m /\ n - m + (i + 1) \in 1 .. n
            /\ n + 1 - m + i = n - m + (i + 1)
        BY <3>2, <1>1
      <4> QED BY <4>1, <2>4, <1>2, <1>3
    <3> QED BY <3>1, <3>2
  <2>6. m = IF n + 1 <= MaxAuditEntries THEN n + 1 ELSE MaxAuditEntries
    BY <1>1, <1>4
  <2> HIDE DEF n, m
  <2>7. LastOf(b, t)
    <3>1. Len(b) = IF Len(t) <= MaxAuditEntries THEN Len(t) ELSE MaxAuditEntries
      BY <2>4, <2>6, <1>2
    <3>2. \A i \in 1 .. Len(b) : b[i] = t[Len(t) - Len(b) + i]
      <4>1. m \in Nat /\ n \in Nat /\ Len(b) = m /\ Len(t) = n + 1
        BY <1>1, <1>2, <2>4
      <4>2. \A i \in 1 .. m : b[i] = t[n + 1 - m + i]
        BY <2>5
      <4> QED BY ONLY <4>1, <4>2
    <3> QED BY <3>1, <3>2 DEF LastOf
  <2> QED BY <2>4, <2>7, <1>2, <1>t
<1>5. CASE ~(m >= MaxAuditEntries)
  <2>1. b = Append(a, e) /\ m = n /\ n + 1 <= MaxAuditEntries
    BY <1>1, <1>5
  <2>2. /\ b \in Seq(S \cup {e}) /\ Len(b) = n + 1 /\ b[n + 1] = e
        /\ \A i \in 1 .. n : b[i] = a[i]
    BY <2>1, <1>1
  <2>3. ASSUME NEW i \in 1 .. n + 1 PROVE b[i] = t[n + 1 - (n + 1) + i]
    <3>1. /\ i = n + 1 \/ (i \in 1 .. n /\ n - m + i = i)
          /\ n + 1 - (n + 1) + i = i
      BY <1>1, <2>1
    <3> QED BY <3>1, <2>1, <2>2, <1>2, <1>3
  <2> HIDE DEF n, m
  <2>5. LastOf(b, t)
    <3>1. Len(b) = IF Len(t) <= MaxAuditEntries THEN Len(t) ELSE MaxAuditEntries
      BY <2>1, <2>2, <1>2
    <3>2. \A i \in 1 .. Len(b) : b[i] = t[Len(t) - Len(b) + i]
      <4>1. n \in Nat /\ Len(b) = n + 1 /\ Len(t) = n + 1
        BY <1>1, <1>2, <2>2
      <4>2. \A i \in 1 .. n + 1 : b[i] = t[n + 1 - (n + 1) + i]
        BY <2>3
      <4> QED BY ONLY <4>1, <4>2
    <3> QED BY <3>1, <3>2 DEF LastOf
  <2> QED BY <2>2, <2>5, <1>2, <1>t
<1> QED BY <1>4, <1>5

LEMMA AuditNextInv == AuditIInv /\ [AuditNext]_auditVars => AuditIInv'
<1> SUFFICES ASSUME AuditIInv, [AuditNext]_auditVars PROVE AuditIInv'
  OBVIOUS
<1>t. AuditTypes /\ KeptAreLast /\ SerialChain
  BY DEF AuditIInv
<1>s. PICK S : auditEntries \in Seq(S) /\ everLogged \in Seq(S)
  BY <1>t DEF AuditTypes
<1>1. ASSUME NEW l \in Loggers, NEW v \in AuditEvents, BeginLog(l, v) PROVE AuditIInv'
  <2>q. PICK g : g = [at |-> "signing", entry |-> <<[event |-> v, prevHash |-> tip]>>]
    OBVIOUS
  <2>g. /\ LoggingForm(g) /\ g.at = "signing" /\ g.entry[1].prevHash = tip
    BY <2>q DEF LoggingForm
  <2>1. /\ logging' = [logging EXCEPT ![l] = g]
        /\ crossed' = (crossed \/ \E m \in Loggers : logging[m].at # "idle")
        /\ UNCHANGED <<auditEntries, tip, everLogged, audited>>
    BY <1>1, <2>q DEF BeginLog
  <2>2. /\ logging' = [m \in Loggers |-> logging'[m]]
        /\ \A m \in Loggers : logging'[m] = IF m = l THEN g ELSE logging[m]
    BY <2>1, <1>t DEF AuditTypes
  <2>3. AuditTypes'
    BY <1>t, <2>1, <2>2, <2>g DEF AuditTypes, LoggingForm
  <2>4. KeptAreLast'
    BY <1>t, <2>1 DEF KeptAreLast, LastOf
  <2>5. SerialChain'
    <3> SUFFICES ASSUME ~crossed'
                 PROVE  (/\ SerialCalls
                         /\ Linked(everLogged) /\ NoRepeat(everLogged)
                         /\ audited.ok => CopyBegins(audited.copy))'
      BY DEF SerialChain
    <3>1. ~crossed /\ \A m \in Loggers : logging[m].at = "idle"
      BY <2>1
    <3>2. tip = LastHash(everLogged)
      BY <3>1, <1>t DEF SerialChain, SerialCalls
    <3>3. SerialCalls'
      BY <3>1, <3>2, <2>1, <2>2, <2>g DEF SerialCalls, LastHash
    <3>4. (/\ Linked(everLogged) /\ NoRepeat(everLogged)
           /\ audited.ok => CopyBegins(audited.copy))'
      BY <3>1, <1>t, <2>1 DEF SerialChain, Linked, NoRepeat, CopyBegins, Begins
    <3> QED BY <3>3, <3>4
  <2> QED BY <2>3, <2>4, <2>5 DEF AuditIInv
<1>2. ASSUME NEW l \in Loggers, SignedLog(l) PROVE AuditIInv'
  <2>e. PICK e : e = logging[l].entry[1]
    OBVIOUS
  <2>1. /\ logging[l].at = "signing"
        /\ everLogged' = Append(everLogged, e)
        /\ auditEntries' = IF Len(auditEntries) >= MaxAuditEntries
                           THEN Append(Tail(auditEntries), e)
                           ELSE Append(auditEntries, e)
        /\ logging' = [logging EXCEPT ![l].at = "hashing"]
        /\ UNCHANGED <<tip, crossed, audited>>
    BY <1>2, <2>e DEF SignedLog
  <2>2. /\ auditEntries' \in Seq(S \cup {e}) /\ everLogged' \in Seq(S \cup {e})
        /\ KeptAreLast'
    <3>1. PICK a : a = auditEntries
      OBVIOUS
    <3>2. PICK s : s = everLogged
      OBVIOUS
    <3>3. PICK b : b = auditEntries' /\ b = IF Len(a) >= MaxAuditEntries
                                           THEN Append(Tail(a), e) ELSE Append(a, e)
      BY <3>1, <2>1
    <3>4. a \in Seq(S) /\ s \in Seq(S) /\ LastOf(a, s)
      BY <3>1, <3>2, <1>s, <1>t DEF KeptAreLast
    <3>5. /\ b \in Seq(S \cup {e}) /\ Append(s, e) \in Seq(S \cup {e})
          /\ LastOf(b, Append(s, e))
      BY <3>3, <3>4, PushKeepsLast
    <3>6. LastOf(auditEntries', everLogged')
      BY <3>2, <3>3, <3>5, <2>1
    <3> QED BY <3>2, <3>3, <3>5, <3>6, <2>1 DEF KeptAreLast, LastOf
  <2>3. /\ logging' = [m \in Loggers |-> logging'[m]]
        /\ \A m \in Loggers \ {l} : logging'[m] = logging[m]
        /\ logging'[l] = [at |-> "hashing", entry |-> logging[l].entry]
    <3>1. logging[l] = [at |-> logging[l].at, entry |-> logging[l].entry]
      BY <1>t DEF AuditTypes, LoggingForm
    <3>2. PICK g : g = [logging[l] EXCEPT !.at = "hashing"]
      OBVIOUS
    <3>3. g = [at |-> "hashing", entry |-> logging[l].entry]
      BY <3>1, <3>2
    <3>4. logging' = [logging EXCEPT ![l] = g]
      BY <3>2, <2>1, <1>t DEF AuditTypes
    <3> QED BY <3>3, <3>4, <1>t DEF AuditTypes
  <2>4. LoggingForm(logging'[l]) /\ logging'[l].at = "hashing" /\ logging'[l].entry[1] = e
    BY <2>3, <2>e DEF LoggingForm
  <2>5. AuditTypes'
    <3>1. \A m \in Loggers : LoggingForm(logging[m])'
      BY <2>3, <2>4, <1>t DEF AuditTypes, LoggingForm
    <3>2. (\E T : auditEntries \in Seq(T) /\ everLogged \in Seq(T))'
      BY <2>2
    <3> QED BY <3>1, <3>2, <2>1, <2>3, <1>t DEF AuditTypes
  <2>6. SerialChain'
    <3> SUFFICES ASSUME ~crossed
                 PROVE  (/\ SerialCalls
                         /\ Linked(everLogged) /\ NoRepeat(everLogged)
                         /\ audited.ok => CopyBegins(audited.copy))'
      BY <2>1 DEF SerialChain
    <3>1. /\ SerialCalls /\ Linked(everLogged) /\ NoRepeat(everLogged)
          /\ audited.ok => CopyBegins(audited.copy)
      BY <1>t DEF SerialChain
    <3>2. \A m \in Loggers \ {l} : logging[m].at = "idle"
      BY <3>1, <2>1 DEF SerialCalls
    <3>3. tip = LastHash(everLogged) /\ e.prevHash = tip
      <4>1. \A m \in Loggers : logging[m].at # "hashing"
        BY <3>2, <2>1
      <4> QED BY <4>1, <3>1, <2>1, <2>e DEF SerialCalls
    <3>4. /\ Len(everLogged') = Len(everLogged) + 1 /\ everLogged'[Len(everLogged')] = e
          /\ Linked(everLogged') /\ NoRepeat(everLogged')
      <4>1. everLogged \in Seq(S) /\ e.prevHash = LastHash(everLogged)
        BY <3>3, <1>s
      <4>2. PICK t : t = everLogged' /\ t = Append(everLogged, e)
        BY <2>1
      <4>3. Len(t) = Len(everLogged) + 1 /\ t[Len(t)] = e /\ Linked(t) /\ NoRepeat(t)
        <5>1. PICK s \in Seq(S) : s = everLogged
          BY <4>1
        <5>2. Linked(s)
          BY <5>1, <3>1
        <5>3. NoRepeat(s)
          BY <5>1, <3>1
        <5>5. e.prevHash = LastHash(s)
          BY <5>1, <4>1
        <5>6. t = Append(s, e)
          BY <5>1, <4>2
        <5>4. Len(t) = Len(s) + 1 /\ t[Len(t)] = e /\ Linked(t) /\ NoRepeat(t)
          BY ONLY <5>2, <5>3, <5>5, <5>6, ChainGrows
        <5> QED BY <5>1, <5>4
      <4> QED BY <4>2, <4>3
    <3>5. Len(everLogged) \in Nat
      BY <1>s
    <3>6. LastHash(everLogged') = AuditEntryHash(e)
      BY <3>4, <3>5 DEF LastHash
    <3>7. SerialCalls'
      <4>1. \A m \in Loggers \ {l} : logging'[m].at = "idle"
        BY <3>2, <2>3
      <4>2. LastHash(everLogged)' = AuditEntryHash(e)
        BY <3>6 DEF LastHash
      <4> QED BY <4>1, <4>2, <2>4 DEF SerialCalls
    <3>8. audited.ok => CopyBegins(audited.copy)'
      <4> SUFFICES ASSUME audited.ok PROVE CopyBegins(audited.copy)'
        OBVIOUS
      <4>1. (\E T : audited.copy \in Seq(T)) /\ Begins(audited.copy, everLogged)
        BY <3>1 DEF CopyBegins
      <4>2. Begins(audited.copy, everLogged')
        BY <4>1, <1>s, <2>1, BeginsStays
      <4> QED BY <4>1, <4>2, <2>1 DEF CopyBegins, Begins
    <3>9. (Linked(everLogged) /\ NoRepeat(everLogged))'
      BY <3>4 DEF Linked, NoRepeat
    <3> QED BY <3>7, <3>8, <3>9, <2>1
  <2> QED BY <2>2, <2>5, <2>6 DEF AuditIInv
<1>3. ASSUME NEW l \in Loggers, HashedLog(l) PROVE AuditIInv'
  <2>1. /\ logging[l].at = "hashing"
        /\ tip' = AuditEntryHash(logging[l].entry[1])
        /\ logging' = [logging EXCEPT ![l] = NoLogging]
        /\ UNCHANGED <<auditEntries, everLogged, crossed, audited>>
    BY <1>3 DEF HashedLog
  <2>2. /\ logging' = [m \in Loggers |-> logging'[m]]
        /\ \A m \in Loggers : logging'[m] = IF m = l THEN NoLogging ELSE logging[m]
    BY <2>1, <1>t DEF AuditTypes
  <2>3. NoLogging.at = "idle" /\ LoggingForm(NoLogging)
    BY DEF NoLogging, LoggingForm
  <2>4. AuditTypes' /\ KeptAreLast'
    BY <2>1, <2>2, <2>3, <1>t DEF AuditTypes, LoggingForm, KeptAreLast
  <2>5. SerialChain'
    <3> SUFFICES ASSUME ~crossed
                 PROVE  (/\ SerialCalls
                         /\ Linked(everLogged) /\ NoRepeat(everLogged)
                         /\ audited.ok => CopyBegins(audited.copy))'
      BY <2>1 DEF SerialChain
    <3>1. /\ SerialCalls /\ Linked(everLogged) /\ NoRepeat(everLogged)
          /\ audited.ok => CopyBegins(audited.copy)
      BY <1>t DEF SerialChain
    <3>2. /\ tip' = LastHash(everLogged)
          /\ \A m \in Loggers : logging'[m].at = "idle"
      BY <3>1, <2>1, <2>2, <2>3 DEF SerialCalls
    <3>3. SerialCalls'
      BY <3>2, <2>1 DEF SerialCalls, LastHash
    <3> QED BY <3>1, <3>3, <2>1 DEF Linked, NoRepeat, CopyBegins, Begins
  <2> QED BY <2>4, <2>5 DEF AuditIInv
<1>4. ASSUME NEW copy \in Copies, Audit(copy) PROVE AuditIInv'
  <2>1. /\ audited' = [copy |-> copy, ok |-> VerifyAuditChain(copy)]
        /\ UNCHANGED <<auditEntries, tip, logging, everLogged, crossed>>
    BY <1>4 DEF Audit
  <2>2. copy \in Seq(S) /\ DrawnFrom(copy, everLogged)
    BY <1>s, <1>t, CopiesDrawn
  <2>3. AuditTypes' /\ KeptAreLast'
    BY <2>1, <1>t DEF AuditTypes, LoggingForm, KeptAreLast
  <2>4. ASSUME ~crossed, VerifyAuditChain(copy) PROVE CopyBegins(copy)
    <3>1. Linked(everLogged) /\ NoRepeat(everLogged)
      BY <2>4, <1>t DEF SerialChain
    <3>2. Linked(copy)
      BY <2>4, <2>2 DEF VerifyAuditChain, Linked
    <3> QED BY <3>1, <3>2, <2>2, <1>s, OnlyBeginningsVerify DEF CopyBegins
  <2>5. (audited.ok = VerifyAuditChain(copy))' /\ (audited.copy = copy)'
    BY <2>1
  <2>6. SerialChain'
    BY <2>1, <2>4, <1>t DEF SerialChain, SerialCalls, LastHash, Linked, NoRepeat, CopyBegins,
       Begins
  <2> QED BY <2>3, <2>6 DEF AuditIInv
<1>5. CASE UNCHANGED auditVars
  BY <1>5, <1>t DEF auditVars, AuditIInv, AuditTypes, LoggingForm, KeptAreLast, LastOf, SerialChain,
     SerialCalls, LastHash, Linked, NoRepeat, CopyBegins, Begins
<1> QED BY <1>1, <1>2, <1>3, <1>4, <1>5 DEF AuditNext

(* auditLog.ts:187: for any number of loggers, events and entries kept,    *)
(* the chain of calls that did not cross verifies until its first entry is *)
(* dropped, and a copy that verifies is a beginning of what was logged.    *)
THEOREM AuditChain == AuditSpec => []AuditChainHolds
<1>1. AuditIInv => AuditChainHolds
  <2> SUFFICES ASSUME AuditIInv, ~crossed
               PROVE  /\ VerifyAuditChain(everLogged)
                      /\ Len(everLogged) > MaxAuditEntries => ~VerifyAuditChain(auditEntries)
                      /\ audited.ok => IsPrefix(audited.copy, everLogged)
    BY DEF AuditChainHolds, SerialAuditVerifies, TamperEvident
  <2>1. PICK S : auditEntries \in Seq(S) /\ everLogged \in Seq(S)
    BY DEF AuditIInv, AuditTypes
  <2>2. Linked(everLogged) /\ (audited.ok => CopyBegins(audited.copy))
    BY DEF AuditIInv, SerialChain
  <2>3. VerifyAuditChain(everLogged)
    BY <2>1, <2>2 DEF VerifyAuditChain, Linked
  <2>4. ASSUME Len(everLogged) > MaxAuditEntries PROVE ~VerifyAuditChain(auditEntries)
    <3> DEFINE k == Len(everLogged) - MaxAuditEntries + 1
    <3>0. /\ MaxAuditEntries \in Nat \ {0} /\ Len(everLogged) \in Nat
          /\ LastOf(auditEntries, everLogged)
          /\ DOMAIN auditEntries = 1 .. Len(auditEntries)
      BY <2>1, AuditAssumption DEF AuditIInv, KeptAreLast
    <3>1. /\ MaxAuditEntries \in Nat \ {0} /\ Len(everLogged) \in Nat
          /\ Len(auditEntries) = MaxAuditEntries /\ 1 \in DOMAIN auditEntries
          /\ k \in 1 .. Len(everLogged) /\ k # 1
          /\ auditEntries[1] = everLogged[k]
      <4>1. Len(auditEntries) = MaxAuditEntries /\ 1 \in 1 .. Len(auditEntries)
        BY <3>0, <2>4 DEF LastOf
      <4>2. auditEntries[1] = everLogged[Len(everLogged) - Len(auditEntries) + 1]
        BY <3>0, <4>1 DEF LastOf
      <4> QED BY <3>0, <4>1, <4>2, <2>4
    <3>2. everLogged[k].prevHash = AuditEntryHash(everLogged[k - 1])
      BY <3>1, <2>2 DEF Linked
    <3> HIDE DEF k
    <3> QED BY <3>1, <3>2, HashOfOne DEF VerifyAuditChain
  <2>5. ASSUME audited.ok PROVE IsPrefix(audited.copy, everLogged)
    <3>1. PICK T : audited.copy \in Seq(T)
      BY <2>2, <2>5 DEF CopyBegins
    <3>2. PICK c \in Seq(T) : c = audited.copy
      BY <3>1
    <3>3. Len(c) <= Len(everLogged) /\ \A i \in 1 .. Len(c) : c[i] = everLogged[i]
      BY <2>2, <2>5, <3>2 DEF CopyBegins, Begins
    <3>4. Len(c) \in Nat /\ Len(everLogged) \in Nat
      BY <2>1
    <3>5. /\ SubSeq(c, 1, Len(c)) = [i \in 1 .. Len(c) |-> c[i]]
          /\ SubSeq(everLogged, 1, Len(c)) = [i \in 1 .. Len(c) |-> everLogged[i]]
      BY <3>3, <3>4, <2>1
    <3>6. SubSeq(c, 1, Len(c)) = SubSeq(everLogged, 1, Len(c))
      BY <3>3, <3>5
    <3> QED BY <3>2, <3>3, <3>6 DEF IsPrefix
  <2> QED BY <2>3, <2>4, <2>5
<1>2. AuditInit => AuditIInv
  BY AuditInitInv
<1>3. AuditIInv /\ [AuditNext]_auditVars => AuditIInv'
  BY AuditNextInv
<1> QED BY <1>1, <1>2, <1>3, PTL DEF AuditSpec

-----------------------------------------------------------------------------
(* Signed streams *)

(* The symbols of a message, and the frames. *)
Symbols == Int
ChunkFrames == [i : Nat, d : Texts, f : {FALSE}]
FinalFrames == [i : Nat, f : {TRUE}, sig : Seq(Symbols)]

(* f[n] is the message of the first n chunks of a.                         *)
Builds(f, a) ==
  /\ f \in [0 .. Len(a) -> Seq(Symbols)]
  /\ f[0] = << >>
  /\ \A n \in 1 .. Len(a) : f[n] = Joined(f[n - 1], n, Part(a[n]))

(* u is s and then t. *)
IsJoined(u, s, t) ==
  /\ Len(u) = Len(s) + Len(t)
  /\ \A j \in 1 .. Len(s) : u[j] = s[j]
  /\ \A j \in 1 .. Len(t) : u[Len(s) + j] = t[j]

(* The elements of two sequences joined. *)
LEMMA Joining ==
  ASSUME NEW S, NEW s \in Seq(S), NEW t \in Seq(S)
  PROVE  s \o t \in Seq(S) /\ IsJoined(s \o t, s, t)
<1>0. PICK u, n, m : u = s \o t /\ n = Len(s) /\ m = Len(t)
  OBVIOUS
<1>1. u \in Seq(S) /\ n \in Nat /\ m \in Nat /\ Len(u) = n + m
  BY <1>0
<1>2. \A j \in 1 .. n : u[j] = s[j]
  BY <1>0
<1>3. ASSUME NEW j \in 1 .. m PROVE u[n + j] = t[j]
  <2>1. n + j \in 1 .. Len(s) + Len(t) /\ n + j > Len(s) /\ (n + j) - Len(s) = j
    BY <1>0, <1>1
  <2> QED BY <1>0, <2>1
<1>4. IsJoined(u, s, t)
  BY <1>0, <1>1, <1>2, <1>3 DEF IsJoined
<1> QED BY <1>0, <1>1, <1>4

(* A text without a line break. *)
OneLine(p) == p \in Seq(Symbols) /\ Len(p) > 0 /\ \A j \in 1 .. Len(p) : p[j] # LineBreak

(* What buildContentMessage() writes of a chunk: its index, a colon and    *)
(* its text.                                                               *)
LEMMA PartSays ==
  ASSUME NEW c \in ChunkFrames
  PROVE  /\ Part(c) \in Seq(Symbols)
         /\ Len(Part(c)) = Len(c.d) + 2 /\ Part(c)[1] = c.i /\ Part(c)[2] = Colon
         /\ \A j \in 1 .. Len(c.d) : Part(c)[j + 2] = c.d[j]
<1>1. PICK i, d, p : i = c.i /\ d = c.d /\ p = Part(c)
  OBVIOUS
<1>2. i \in Nat /\ d \in Seq(Symbols)
  BY <1>1, StreamAssumption DEF ChunkFrames, Symbols
<1>3. PICK h : h = <<i, Colon>>
  OBVIOUS
<1>4. h \in Seq(Symbols) /\ Len(h) = 2 /\ h[1] = i /\ h[2] = Colon
  BY <1>2, <1>3 DEF Symbols, Colon
<1>5. p = h \o d
  BY <1>1, <1>3 DEF Part
<1>6. PICK n, m : n = Len(h) /\ m = Len(d)
  OBVIOUS
<1>7. /\ p \in Seq(Symbols) /\ m \in Nat /\ Len(p) = n + m
      /\ \A j \in 1 .. n : p[j] = h[j]
      /\ \A j \in 1 .. m : p[n + j] = d[j]
  <2>1. p \in Seq(Symbols) /\ IsJoined(p, h, d)
    BY <1>2, <1>4, <1>5, Joining
  <2> QED BY <1>2, <1>6, <2>1 DEF IsJoined
<1>8. Len(p) = Len(d) + 2 /\ p[1] = i /\ p[2] = Colon /\ \A j \in 1 .. Len(d) : p[j + 2] = d[j]
  BY <1>4, <1>6, <1>7
<1> QED BY <1>1, <1>7, <1>8

(* It is one line of text when the chunk's text is. *)
LEMMA PartIsLine ==
  ASSUME NEW c \in ChunkFrames, LineBreak \notin ToSet(c.d)
  PROVE  OneLine(Part(c))
<1>1. PICK i, d, p : i = c.i /\ d = c.d /\ p = Part(c)
  OBVIOUS
<1>2. /\ p \in Seq(Symbols) /\ Len(p) = Len(d) + 2 /\ p[1] = i /\ p[2] = Colon
      /\ \A j \in 1 .. Len(d) : p[j + 2] = d[j]
  BY <1>1, PartSays
<1>3. i \in Nat /\ d \in Seq(Int) /\ Len(d) \in Nat
  BY <1>1, StreamAssumption DEF ChunkFrames
<1>4. \A k \in 1 .. Len(d) : d[k] # LineBreak
  BY <1>1, <1>3 DEF ToSet
<1>5. i # LineBreak /\ Colon # LineBreak
  BY <1>3 DEF LineBreak, Colon
<1>6. ASSUME NEW j \in 1 .. Len(p) PROVE p[j] # LineBreak
  <2>1. CASE j \in {1, 2}
    BY <1>2, <1>5, <2>1
  <2>2. CASE j > 2
    <3>1. PICK k : k = j - 2
      OBVIOUS
    <3>2. k \in 1 .. Len(d) /\ j = k + 2
      BY <1>2, <1>3, <2>2, <3>1
    <3> QED BY <1>2, <1>4, <3>2
  <2> QED BY <1>2, <1>3, <2>1, <2>2
<1>7. Len(p) > 0
  BY <1>2, <1>3
<1> QED BY <1>1, <1>2, <1>6, <1>7 DEF OneLine

(* A chunk is what its part of the message says.                           *)
LEMMA PartOnce ==
  ASSUME NEW c \in ChunkFrames, NEW e \in ChunkFrames, Part(c) = Part(e)
  PROVE  c = e
<1>1. PICK p : p = Part(c)
  OBVIOUS
<1>2. /\ Len(p) = Len(c.d) + 2 /\ p[1] = c.i /\ \A j \in 1 .. Len(c.d) : p[j + 2] = c.d[j]
      /\ Len(p) = Len(e.d) + 2 /\ p[1] = e.i /\ \A j \in 1 .. Len(e.d) : p[j + 2] = e.d[j]
  BY <1>1, PartSays
<1>3. c.d \in Seq(Int) /\ e.d \in Seq(Int)
  BY StreamAssumption DEF ChunkFrames
<1>4. Len(c.d) = Len(e.d)
  BY <1>2, <1>3
<1>5. c.d = e.d
  <2>1. PICK s, t : s = c.d /\ t = e.d
    OBVIOUS
  <2>2. s \in Seq(Int) /\ t \in Seq(Int) /\ Len(s) = Len(t)
    BY <1>3, <1>4, <2>1
  <2>3. \A j \in 1 .. Len(s) : s[j] = t[j]
    BY <1>2, <2>1, <2>2
  <2>4. s = t
    BY ONLY <2>2, <2>3
  <2> QED BY <2>1, <2>4
<1>6. /\ c = [i |-> c.i, d |-> c.d, f |-> FALSE]
      /\ e = [i |-> e.i, d |-> e.d, f |-> FALSE]
  BY DEF ChunkFrames
<1> QED BY <1>2, <1>5, <1>6

(* One more line of a text. *)
AddLine(x, p) == Append(x, LineBreak) \o p

(* s is x and then the line p. *)
EndsIn(s, x, p) ==
  /\ Len(s) = Len(x) + 1 + Len(p)
  /\ s[Len(x) + 1] = LineBreak
  /\ \A j \in 1 .. Len(x) : s[j] = x[j]
  /\ \A j \in 1 .. Len(p) : s[Len(x) + 1 + j] = p[j]

(* So a text ends in the line that was added to it. *)
LEMMA LastLine ==
  ASSUME NEW x \in Seq(Symbols), NEW p, OneLine(p),
         NEW s, s = Append(x, LineBreak) \o p
  PROVE  s \in Seq(Symbols) /\ EndsIn(s, x, p)
<1>1. PICK y, n, m : y = Append(x, LineBreak) /\ s = y \o p /\ n = Len(x) /\ m = Len(p)
  OBVIOUS
<1>2. /\ y \in Seq(Symbols) /\ Len(y) = n + 1 /\ n \in Nat /\ y[n + 1] = LineBreak
      /\ \A j \in 1 .. n : y[j] = x[j]
  BY <1>1 DEF Symbols, LineBreak
<1>3. p \in Seq(Symbols) /\ m \in Nat /\ m = Len(p)
  BY <1>1 DEF OneLine
<1>4. PICK k : k = n + 1
  OBVIOUS
<1>5. /\ s \in Seq(Symbols) /\ Len(s) = k + m
      /\ \A j \in 1 .. k : s[j] = y[j]
      /\ \A j \in 1 .. m : s[k + j] = p[j]
  BY <1>1, <1>2, <1>3, <1>4, Joining DEF IsJoined
<1>6. s[k] = LineBreak /\ \A j \in 1 .. n : s[j] = x[j]
  <2>1. k \in 1 .. k /\ \A j \in 1 .. n : j \in 1 .. k
    BY <1>2, <1>4
  <2>2. s[k] = y[k] /\ y[k] = LineBreak
    BY <1>2, <1>4, <1>5, <2>1
  <2>3. \A j \in 1 .. n : s[j] = y[j]
    BY <1>5, <2>1
  <2> QED BY <1>2, <2>2, <2>3
<1> QED BY <1>1, <1>4, <1>5, <1>6 DEF EndsIn

(* A text ends in its last line in one way: of two ways, the line break    *)
(* that comes later in one would stand within the last line of the other.  *)
LEMMA LinesOnce ==
  ASSUME NEW x \in Seq(Symbols), NEW y \in Seq(Symbols), NEW p, OneLine(p), NEW q, OneLine(q),
         AddLine(x, p) = AddLine(y, q)
  PROVE  x = y /\ p = q
<1>1. PICK s : s = Append(x, LineBreak) \o p
  OBVIOUS
<1>e. EndsIn(s, x, p) /\ EndsIn(s, y, q)
  <2>1. s = Append(y, LineBreak) \o q
    BY <1>1 DEF AddLine
  <2> QED BY <1>1, <2>1, LastLine
<1>2. /\ Len(s) = Len(x) + 1 + Len(p) /\ s[Len(x) + 1] = LineBreak
      /\ \A j \in 1 .. Len(x) : s[j] = x[j]
      /\ \A j \in 1 .. Len(p) : s[Len(x) + 1 + j] = p[j]
  BY <1>e DEF EndsIn
<1>3. /\ Len(s) = Len(y) + 1 + Len(q) /\ s[Len(y) + 1] = LineBreak
      /\ \A j \in 1 .. Len(y) : s[j] = y[j]
      /\ \A j \in 1 .. Len(q) : s[Len(y) + 1 + j] = q[j]
  BY <1>e DEF EndsIn
<1>4. /\ Len(x) \in Nat /\ Len(y) \in Nat /\ Len(p) \in Nat /\ Len(q) \in Nat
      /\ p \in Seq(Symbols) /\ q \in Seq(Symbols)
      /\ \A j \in 1 .. Len(p) : p[j] # LineBreak
      /\ \A j \in 1 .. Len(q) : q[j] # LineBreak
  BY DEF OneLine
<1>5. ~(Len(x) < Len(y))
  <2>1. SUFFICES ASSUME Len(x) < Len(y) PROVE FALSE
    OBVIOUS
  <2>2. PICK j : j = Len(y) - Len(x)
    OBVIOUS
  <2>3. j \in 1 .. Len(p) /\ Len(x) + 1 + j = Len(y) + 1
    BY <1>2, <1>3, <1>4, <2>1, <2>2
  <2>4. s[Len(x) + 1 + j] = LineBreak
    BY <1>3, <2>3
  <2> QED BY <1>2, <1>4, <2>3, <2>4
<1>6. ~(Len(y) < Len(x))
  <2>1. SUFFICES ASSUME Len(y) < Len(x) PROVE FALSE
    OBVIOUS
  <2>2. PICK j : j = Len(x) - Len(y)
    OBVIOUS
  <2>3. j \in 1 .. Len(q) /\ Len(y) + 1 + j = Len(x) + 1
    BY <1>2, <1>3, <1>4, <2>1, <2>2
  <2>4. s[Len(y) + 1 + j] = LineBreak
    BY <1>2, <2>3
  <2> QED BY <1>3, <1>4, <2>3, <2>4
<1>7. Len(x) = Len(y) /\ Len(p) = Len(q)
  BY <1>2, <1>3, <1>4, <1>5, <1>6
<1>8. x = y
  BY <1>2, <1>3, <1>7
<1>9. \A j \in 1 .. Len(p) : p[j] = q[j]
  BY <1>2, <1>3, <1>7
<1>10. p = q
  BY <1>4, <1>7, <1>9
<1> QED BY <1>8, <1>10

(* A text of several lines is no line. *)
LEMMA LineAlone ==
  ASSUME NEW x \in Seq(Symbols), NEW p, OneLine(p), NEW q, OneLine(q)
  PROVE  AddLine(x, p) # q
<1>1. PICK s, n : s = Append(x, LineBreak) \o p /\ n = Len(x) + 1
  OBVIOUS
<1>2. s[n] = LineBreak /\ n \in 1 .. Len(s)
  <2>1. Len(s) = Len(x) + 1 + Len(p) /\ s[Len(x) + 1] = LineBreak
    BY <1>1, LastLine DEF EndsIn
  <2>2. Len(x) \in Nat /\ Len(p) \in Nat
    BY DEF OneLine
  <2> QED BY <1>1, <2>1, <2>2
<1> QED BY <1>1, <1>2 DEF OneLine, AddLine

(* The message of a list is built chunk by chunk.                          *)
LEMMA MessageBuilt ==
  ASSUME NEW a \in Seq(ChunkFrames)
  PROVE  \E f : Builds(f, a) /\ Message(a) = f[Len(a)]
<1> DEFINE Rec(g) == g = [n \in 0 .. Len(a) |->
                            IF n = 0 THEN << >> ELSE Joined(g[n - 1], n, Part(a[n]))]
           P == {k \in Nat : \E f \in [0 .. k -> Seq(Symbols)] :
                   /\ f[0] = << >>
                   /\ \A n \in 1 .. k : n <= Len(a) => f[n] = Joined(f[n - 1], n, Part(a[n]))}
<1>0. Len(a) \in Nat /\ << >> \in Seq(Symbols)
  OBVIOUS
<1>1. 0 \in P
  <2>1. PICK f : f = [n \in 0 .. 0 |-> << >>]
    OBVIOUS
  <2>2. f \in [0 .. 0 -> Seq(Symbols)] /\ f[0] = << >>
    BY <1>0, <2>1
  <2> QED BY <2>2
<1>2. ASSUME NEW k \in P PROVE k + 1 \in P
  <2>1. PICK f \in [0 .. k -> Seq(Symbols)] :
          /\ f[0] = << >>
          /\ \A n \in 1 .. k : n <= Len(a) => f[n] = Joined(f[n - 1], n, Part(a[n]))
    OBVIOUS
  <2>2. k \in Nat
    OBVIOUS
  <2>3. PICK s : s = IF k + 1 <= Len(a) THEN Joined(f[k], k + 1, Part(a[k + 1])) ELSE << >>
    OBVIOUS
  <2>4. s \in Seq(Symbols)
    <3>1. ASSUME k + 1 <= Len(a) PROVE Joined(f[k], k + 1, Part(a[k + 1])) \in Seq(Symbols)
      <4>1. PICK p, x : p = Part(a[k + 1]) /\ x = f[k]
        OBVIOUS
      <4>2. p \in Seq(Symbols) /\ x \in Seq(Symbols)
        <5>1. k + 1 \in 1 .. Len(a) /\ k \in 0 .. k
          BY <1>0, <2>2, <3>1
        <5>2. a[k + 1] \in ChunkFrames
          BY <5>1
        <5> QED BY <2>1, <4>1, <5>1, <5>2, PartSays
      <4>3. Append(x, LineBreak) \in Seq(Symbols)
        BY <4>2 DEF Symbols, LineBreak
      <4>4. PICK y \in Seq(Symbols) : y = IF k + 1 = 1 THEN << >> ELSE Append(x, LineBreak)
        BY <1>0, <4>3
      <4>5. y \o p \in Seq(Symbols)
        BY <4>2, Joining
      <4> QED BY <4>1, <4>4, <4>5 DEF Joined
    <3> QED BY <1>0, <2>3, <3>1
  <2>5. PICK g : g = [n \in 0 .. k + 1 |-> IF n = k + 1 THEN s ELSE f[n]]
    OBVIOUS
  <2>6. g \in [0 .. k + 1 -> Seq(Symbols)] /\ g[0] = << >> /\ g[k + 1] = s
    BY <2>1, <2>2, <2>4, <2>5
  <2>7. \A n \in 0 .. k : g[n] = f[n]
    BY <2>2, <2>5
  <2>8. ASSUME NEW n \in 1 .. k + 1, n <= Len(a)
        PROVE  g[n] = Joined(g[n - 1], n, Part(a[n]))
    <3>1. CASE n = k + 1
      BY <2>2, <2>3, <2>6, <2>7, <2>8, <3>1
    <3>2. CASE n # k + 1
      <4>1. n \in 1 .. k /\ n - 1 \in 0 .. k /\ n \in 0 .. k
        BY <2>2, <3>2
      <4> QED BY <2>1, <2>7, <2>8, <4>1
    <3> QED BY <3>1, <3>2
  <2>9. k + 1 \in Nat
    BY <2>2
  <2> QED BY <2>6, <2>8, <2>9
<1>3. Len(a) \in P
  <2>1. P \subseteq Nat
    OBVIOUS
  <2> HIDE DEF P
  <2>2. P = Nat
    BY <1>1, <1>2, <2>1, Induction
  <2> QED BY <1>0, <2>2
<1>4. PICK f \in [0 .. Len(a) -> Seq(Symbols)] :
        /\ f[0] = << >>
        /\ \A n \in 1 .. Len(a) : n <= Len(a) => f[n] = Joined(f[n - 1], n, Part(a[n]))
  BY <1>3
<1>5. Rec(f)
  <2>1. \A n \in 0 .. Len(a) :
          f[n] = IF n = 0 THEN << >> ELSE Joined(f[n - 1], n, Part(a[n]))
    BY <1>0, <1>4
  <2> QED BY <1>4, <2>1
<1>6. PICK g : g = CHOOSE h : Rec(h)
  OBVIOUS
<1>7. Rec(g)
  BY <1>5, <1>6
<1>8. Message(a) = g[Len(a)]
  BY <1>6 DEF Message
<1>9. g = f
  <2>1. \A n \in 0 .. Len(a) : g[n] = IF n = 0 THEN << >> ELSE Joined(g[n - 1], n, Part(a[n]))
    BY <1>7
  <2> DEFINE Q == {n \in Nat : n <= Len(a) => g[n] = f[n]}
  <2>2. 0 \in Q
    BY <1>0, <1>4, <2>1
  <2>3. ASSUME NEW n \in Q PROVE n + 1 \in Q
    <3>1. n \in Nat /\ n + 1 \in Nat /\ (n + 1) - 1 = n /\ n + 1 # 0
      OBVIOUS
    <3>2. ASSUME n + 1 <= Len(a) PROVE g[n + 1] = f[n + 1]
      <4>1. g[n] = f[n] /\ n + 1 \in 0 .. Len(a) /\ n + 1 \in 1 .. Len(a)
        BY <1>0, <3>1, <3>2
      <4>2. g[n + 1] = Joined(g[n], n + 1, Part(a[n + 1]))
        BY <2>1, <3>1, <4>1
      <4>3. f[n + 1] = Joined(f[n], n + 1, Part(a[n + 1]))
        BY <1>4, <3>1, <3>2, <4>1
      <4> QED BY <4>1, <4>2, <4>3
    <3> QED BY <3>1, <3>2
  <2>4. Q \subseteq Nat
    OBVIOUS
  <2>5. Q = Nat
    <3> HIDE DEF Q
    <3> QED BY <2>2, <2>3, <2>4, Induction
  <2>6. \A n \in 0 .. Len(a) : g[n] = f[n]
    BY <1>0, <2>5
  <2> QED BY <1>4, <1>7, <2>6
<1>10. Builds(f, a)
  BY <1>0, <1>4 DEF Builds
<1> QED BY <1>8, <1>9, <1>10

(* Lists with one message are one list when no text has a line break.      *)
LEMMA SameMessage ==
  ASSUME NEW a \in Seq(ChunkFrames), NEW b \in Seq(ChunkFrames), Message(a) = Message(b),
         Unbroken(a), Unbroken(b)
  PROVE  a = b
<1>1. PICK f : Builds(f, a) /\ Message(a) = f[Len(a)]
  BY MessageBuilt
<1>2. PICK g : Builds(g, b) /\ Message(b) = g[Len(b)]
  BY MessageBuilt
<1>3. Len(a) \in Nat /\ Len(b) \in Nat
  OBVIOUS
<1>4. /\ f[0] = << >> /\ \A n \in 0 .. Len(a) : f[n] \in Seq(Symbols)
      /\ \A n \in 1 .. Len(a) : f[n] = Joined(f[n - 1], n, Part(a[n]))
  BY <1>1 DEF Builds
<1>5. /\ g[0] = << >> /\ \A n \in 0 .. Len(b) : g[n] \in Seq(Symbols)
      /\ \A n \in 1 .. Len(b) : g[n] = Joined(g[n - 1], n, Part(b[n]))
  BY <1>2 DEF Builds
<1>6. /\ \A n \in 1 .. Len(a) : a[n] \in ChunkFrames /\ OneLine(Part(a[n]))
      /\ \A n \in 1 .. Len(b) : b[n] \in ChunkFrames /\ OneLine(Part(b[n]))
  <2>1. ASSUME NEW t \in Seq(ChunkFrames), Unbroken(t), NEW n \in 1 .. Len(t)
        PROVE  t[n] \in ChunkFrames /\ OneLine(Part(t[n]))
    <3>1. t[n] \in ChunkFrames /\ t[n] \in ToSet(t)
      BY DEF ToSet
    <3>2. LineBreak \notin ToSet(t[n].d)
      BY <2>1, <3>1 DEF Unbroken
    <3> QED BY <3>1, <3>2, PartIsLine
  <2> QED BY <2>1
<1>7. \A x, p : OneLine(p) => Joined(x, 1, p) = p
  <2>1. ASSUME NEW x, NEW p, OneLine(p) PROVE Joined(x, 1, p) = p
    <3>1. p \in Seq(Symbols)
      BY <2>1 DEF OneLine
    <3>2. << >> \o p = p
      BY <3>1
    <3> QED BY <3>2 DEF Joined
  <2> QED BY <2>1
<1>8. \A n \in Nat : \A x, p : n # 1 => Joined(x, n, p) = AddLine(x, p)
  BY DEF Joined, AddLine
<1>9. \A x \in Seq(Symbols), n \in Nat : \A p : OneLine(p) => Joined(x, n, p) # << >>
  <2>1. ASSUME NEW x \in Seq(Symbols), NEW n \in Nat, NEW p, OneLine(p)
        PROVE  Joined(x, n, p) # << >>
    <3>1. PICK s : s = Joined(x, n, p)
      OBVIOUS
    <3>2. CASE n = 1
      BY <1>7, <2>1, <3>1, <3>2 DEF OneLine
    <3>3. CASE n # 1
      <4>1. EndsIn(s, x, p)
        BY <1>8, <2>1, <3>1, <3>3, LastLine DEF AddLine
      <4>2. Len(s) > 0
        BY <2>1, <4>1 DEF EndsIn, OneLine
      <4> QED BY <3>1, <4>2
    <3> QED BY <3>2, <3>3
  <2> QED BY <2>1
<1> DEFINE Same(n, m) == n = m /\ \A j \in 1 .. n : a[j] = b[j]
           P == {n \in Nat : n <= Len(a) => \A m \in 0 .. Len(b) : f[n] = g[m] => Same(n, m)}
<1>10. 0 \in P
  <2>1. ASSUME NEW m \in 0 .. Len(b), f[0] = g[m] PROVE m = 0
    <3>1. SUFFICES ASSUME m # 0 PROVE FALSE
      OBVIOUS
    <3>2. m \in 1 .. Len(b) /\ m - 1 \in 0 .. Len(b) /\ m \in Nat
      BY <1>3, <3>1
    <3>3. g[m] = Joined(g[m - 1], m, Part(b[m])) /\ g[m - 1] \in Seq(Symbols)
      BY <1>5, <3>2
    <3> QED BY <1>4, <1>6, <1>9, <2>1, <3>2, <3>3
  <2> QED BY <2>1
<1>11. ASSUME NEW n \in P PROVE n + 1 \in P
  <2>1. n \in Nat /\ n + 1 \in Nat /\ (n + 1) - 1 = n
    OBVIOUS
  <2>2. ASSUME n + 1 <= Len(a), NEW m \in 0 .. Len(b), f[n + 1] = g[m] PROVE Same(n + 1, m)
    <3>1. n + 1 \in 1 .. Len(a) /\ n \in 0 .. Len(a) /\ n <= Len(a)
      BY <1>3, <2>1, <2>2
    <3>2. PICK x, p : x = f[n] /\ p = Part(a[n + 1])
      OBVIOUS
    <3>0. PICK k \in Nat : k = n + 1
      BY <2>1
    <3>3. g[m] = Joined(x, k, p) /\ OneLine(p) /\ x \in Seq(Symbols)
      <4>1. f[k] = Joined(x, k, p)
        BY <1>4, <2>1, <3>0, <3>1, <3>2
      <4> QED BY <1>4, <1>6, <2>1, <2>2, <3>0, <3>1, <3>2, <4>1
    <3>4. m # 0
      BY <1>5, <1>9, <3>3
    <3>5. m \in 1 .. Len(b) /\ m - 1 \in 0 .. Len(b) /\ m \in Nat
      BY <1>3, <3>4
    <3>6. PICK y, q : y = g[m - 1] /\ q = Part(b[m])
      OBVIOUS
    <3>7. g[m] = Joined(y, m, q) /\ OneLine(q) /\ y \in Seq(Symbols)
      BY <1>5, <1>6, <3>5, <3>6
    <3>e. /\ Joined(x, k, p) = IF k = 1 THEN p ELSE AddLine(x, p)
          /\ Joined(y, m, q) = IF m = 1 THEN q ELSE AddLine(y, q)
      <4>1. ASSUME NEW z, NEW r, OneLine(r), NEW i \in Nat
            PROVE  Joined(z, i, r) = IF i = 1 THEN r ELSE AddLine(z, r)
        <5>1. CASE i = 1
          BY <1>7, <4>1, <5>1
        <5>2. CASE i # 1
          BY <1>8, <4>1, <5>2
        <5> QED BY <5>1, <5>2
      <4> QED BY <3>3, <3>5, <3>7, <4>1
    <3>8. p = q /\ n + 1 = m /\ \A j \in 1 .. n : a[j] = b[j]
      <4>1. CASE k = 1 /\ m = 1
        <5>1. p = q
          BY <3>3, <3>7, <3>e, <4>1
        <5>2. n = 0
          BY <2>1, <3>0, <4>1
        <5> QED BY <3>0, <4>1, <5>1, <5>2
      <4>2. CASE k = 1 /\ m # 1
        <5>1. p = AddLine(y, q)
          BY <3>3, <3>7, <3>e, <4>2
        <5> QED BY <3>3, <3>5, <3>7, <5>1, LineAlone
      <4>3. CASE k # 1 /\ m = 1
        <5>1. q = AddLine(x, p)
          BY <3>3, <3>7, <3>e, <4>3
        <5> QED BY <3>3, <3>5, <3>7, <5>1, LineAlone
      <4>4. CASE k # 1 /\ m # 1
        <5>1. AddLine(x, p) = AddLine(y, q)
          BY <3>3, <3>7, <3>e, <4>4
        <5>2. x = y /\ p = q
          BY <3>3, <3>5, <3>7, <5>1, LinesOnce
        <5>3. Same(n, m - 1)
          BY <3>1, <3>2, <3>5, <3>6, <5>2
        <5> QED BY <2>1, <3>5, <5>2, <5>3
      <4> QED BY <3>0, <4>1, <4>2, <4>3, <4>4
    <3>9. a[n + 1] = b[n + 1]
      BY <1>6, <3>1, <3>2, <3>5, <3>6, <3>8, PartOnce
    <3>10. \A j \in 1 .. n + 1 : j = n + 1 \/ j \in 1 .. n
      BY <2>1
    <3> QED BY <3>8, <3>9, <3>10
  <2> QED BY <2>1, <2>2
<1>12. Len(a) \in P
  <2>1. P \subseteq Nat
    OBVIOUS
  <2> HIDE DEF P
  <2>2. P = Nat
    BY <1>10, <1>11, <2>1, Induction
  <2> QED BY <1>3, <2>2
<1>13. Same(Len(a), Len(b))
  <2>1. Len(b) \in 0 .. Len(b) /\ Len(a) <= Len(a)
    BY <1>3
  <2> QED BY <1>1, <1>2, <1>12, <2>1
<1> QED BY <1>13

(* What a writer sends. *)
AllFrames == ChunkFrames \cup FinalFrames

(* The writer's and the reader's records: each recorded index was given    *)
(* out, and the reader holds the chunks 0, 1, 2, ...                       *)
StreamTypes ==
  /\ written \in Seq(Texts) /\ inFlight \subseteq 0 .. Len(written) - 1
  /\ accum \in Seq(Nat) /\ \A j \in 1 .. Len(accum) : accum[j] < Len(written)
  /\ sealed \in -1 .. Len(accum)
  /\ wire \in Seq(AllFrames) /\ fed \in Seq(AllFrames \cup OtherStream)
  /\ got \in Seq(ChunkFrames) /\ \A j \in 1 .. Len(got) : got[j].i = j - 1
  /\ verdict \in {"reading", "ok", "failed", "closed"} /\ alone \in BOOLEAN

(* A final frame on the wire signs what was sealed. *)
FinalsSign ==
  \A j \in 1 .. Len(wire) :
    wire[j].f => sealed # Unsealed /\ wire[j].sig = Message(Signed(sealed))

(* A verdict of ok is on what was sealed, or on another stream. *)
Accepted ==
  verdict = "ok" =>
    \/ sealed # Unsealed /\ Message(got) = Message(Signed(sealed))
    \/ Message(got) \in OthersContent

(* What the reader was fed, and the frame it refused. *)
Refused(c) ==
  /\ ~c.f => ~(Len(got) < MaxChunks /\ c.i = Len(got))
  /\ c.f => c.sig # Message(got)

(* A reader is fed what it takes, until a frame that it refuses. *)
FedIsGot ==
  /\ verdict = "reading" => fed = got
  /\ verdict = "failed" =>
       /\ Len(fed) = Len(got) + 1 /\ \A j \in 1 .. Len(got) : fed[j] = got[j]
       /\ Refused(fed[Len(got) + 1])

(* A writer whose calls do not overlap sends its chunks as it wrote them,  *)
(* and then one final frame.                                               *)
OneByOne ==
  /\ \A j \in 1 .. Len(accum) : accum[j] = j - 1
  /\ Len(written) <= Len(accum) + 1
  /\ inFlight = {i \in {Len(accum)} : Len(accum) < Len(written)}
  /\ sealed # Unsealed => sealed = Len(accum) /\ Len(written) = Len(accum)

(* The wire holds what is recorded, and then at most the final frame. *)
SentAsWritten ==
  /\ Len(wire) \in {Len(accum), Len(accum) + 1}
  /\ \A j \in 1 .. Len(accum) : wire[j] = Chunk(j - 1, written[j])
  /\ Len(wire) > Len(accum) => sealed # Unsealed /\ wire[Len(accum) + 1].f

(* The invariant of signed streams. *)
StreamIInv ==
  /\ StreamTypes
  /\ FinalsSign
  /\ Accepted
  /\ FedIsGot
  /\ alone => OneByOne /\ SentAsWritten

(* The elements of a sequence that one was appended to. *)
LEMMA FrameAppend ==
  ASSUME NEW S, NEW s \in Seq(S), NEW e \in S
  PROVE  /\ Append(s, e) \in Seq(S) /\ Len(Append(s, e)) = Len(s) + 1
         /\ \A j \in 1 .. Len(s) : Append(s, e)[j] = s[j]
         /\ Append(s, e)[Len(s) + 1] = e
  OBVIOUS

(* The message of a list of chunks is a text. *)
LEMMA MessageType ==
  ASSUME NEW a \in Seq(ChunkFrames) PROVE Message(a) \in Seq(Symbols)
<1>1. PICK f : Builds(f, a) /\ Message(a) = f[Len(a)]
  BY MessageBuilt
<1>2. Len(a) \in 0 .. Len(a)
  OBVIOUS
<1> QED BY <1>1, <1>2 DEF Builds

(* What finalize() signs: the chunks recorded, each as it was written. *)
LEMMA SignedType ==
  ASSUME StreamTypes, NEW n \in 0 .. Len(accum)
  PROVE  /\ Signed(n) \in Seq(ChunkFrames) /\ Len(Signed(n)) = n
         /\ \A j \in 1 .. n : Signed(n)[j] = Chunk(accum[j], written[accum[j] + 1])
<1>1. n \in Nat /\ 1 .. n \subseteq 1 .. Len(accum)
  BY DEF StreamTypes
<1>2. ASSUME NEW j \in 1 .. n PROVE Chunk(accum[j], written[accum[j] + 1]) \in ChunkFrames
  <2>1. accum[j] \in Nat /\ accum[j] < Len(written)
    BY <1>1 DEF StreamTypes
  <2>2. PICK d : d = written[accum[j] + 1]
    OBVIOUS
  <2>3. d \in Texts
    BY <2>1, <2>2 DEF StreamTypes
  <2> QED BY <2>1, <2>2, <2>3 DEF Chunk, ChunkFrames
<1>3. Signed(n) = [j \in 1 .. n |-> Chunk(accum[j], written[accum[j] + 1])]
  BY DEF Signed
<1> QED BY <1>1, <1>2, <1>3

(* What was sealed stays what it was as writes go on.                      *)
LEMMA SealedStays ==
  ASSUME StreamTypes, NEW n \in 0 .. Len(accum),
         \A j \in 1 .. Len(accum) : accum'[j] = accum[j],
         \A j \in 1 .. Len(written) : written'[j] = written[j]
  PROVE  Signed(n)' = Signed(n)
<1>1. ASSUME NEW j \in 1 .. n
      PROVE  Chunk(accum'[j], written'[accum'[j] + 1]) = Chunk(accum[j], written[accum[j] + 1])
  <2>1. j \in 1 .. Len(accum) /\ accum'[j] = accum[j]
    BY DEF StreamTypes
  <2>2. accum[j] \in Nat /\ accum[j] < Len(written) /\ Len(written) \in Nat
    BY <2>1 DEF StreamTypes
  <2>3. accum[j] + 1 \in 1 .. Len(written)
    BY <2>2
  <2> QED BY <2>1, <2>3
<1> QED BY <1>1 DEF Signed

(* With nothing in flight, all that was written is recorded.               *)
LEMMA AllRecorded ==
  ASSUME StreamTypes, OneByOne, inFlight = {} PROVE Len(written) = Len(accum)
<1>1. PICK k : k = Len(accum)
  OBVIOUS
<1>2. k \in Nat /\ Len(written) \in Nat
  BY <1>1 DEF StreamTypes
<1>3. ~(k < Len(written))
  BY <1>1 DEF OneByOne
<1>4. CASE k > 0
  <2>1. k \in 1 .. Len(accum)
    BY <1>1, <1>2, <1>4
  <2>2. accum[k] = k - 1 /\ accum[k] < Len(written)
    BY <2>1 DEF OneByOne, StreamTypes
  <2> QED BY <1>1, <1>2, <1>3, <2>2
<1> QED BY <1>1, <1>2, <1>3, <1>4

(* So does its message. *)
LEMMA SaidAlike ==
  ASSUME Signed(sealed)' = Signed(sealed), got' = got
  PROVE  /\ Message(Signed(sealed))' = Message(Signed(sealed))
         /\ Message(got)' = Message(got)
  BY DEF Message

(* The invariant holds at first. *)
LEMMA StreamInitHolds == StreamInit => StreamIInv
<1> SUFFICES ASSUME StreamInit PROVE StreamIInv
  OBVIOUS
<1>1. StreamTypes
  BY StreamAssumption DEF StreamInit, StreamTypes, Unsealed
<1>2. FinalsSign /\ Accepted /\ FedIsGot
  BY DEF StreamInit, FinalsSign, Accepted, FedIsGot
<1>3. OneByOne /\ SentAsWritten
  BY DEF StreamInit, OneByOne, SentAsWritten, Unsealed
<1> QED BY <1>1, <1>2, <1>3 DEF StreamIInv

(* writeChunk() takes an index. *)
LEMMA WriteChunkKeeps ==
  ASSUME StreamIInv, NEW d \in Texts, WriteChunk(d) PROVE StreamIInv'
<1>1. /\ StreamTypes /\ FinalsSign /\ Accepted /\ FedIsGot
      /\ alone => OneByOne /\ SentAsWritten
  BY DEF StreamIInv
<1>2. PICK n : n = Len(written)
  OBVIOUS
<1>3. /\ n \in Nat /\ written' \in Seq(Texts) /\ Len(written') = n + 1
      /\ \A j \in 1 .. n : written'[j] = written[j]
      /\ inFlight' = inFlight \cup {n}
      /\ alone' = (alone /\ inFlight = {} /\ sealed = Unsealed)
      /\ UNCHANGED <<accum, sealed, wire, fed, got, verdict>>
  BY <1>1, <1>2, FrameAppend DEF WriteChunk, StreamTypes
<1>4. StreamTypes'
  <2>1. alone' \in BOOLEAN
    BY <1>3
  <2>2. inFlight' \subseteq 0 .. Len(written') - 1
    <3>1. ASSUME NEW k \in inFlight' PROVE k \in 0 .. (n + 1) - 1
      <4>1. CASE k = n
        BY <1>3, <4>1
      <4>2. CASE k \in inFlight
        BY <1>1, <1>2, <1>3, <4>2 DEF StreamTypes
      <4> QED BY <1>3, <3>1, <4>1, <4>2
    <3> QED BY <1>3, <3>1
  <2>3. \A j \in 1 .. Len(accum) : accum[j] < Len(written')
    BY <1>1, <1>2, <1>3 DEF StreamTypes
  <2> QED BY <1>1, <1>3, <2>1, <2>2, <2>3 DEF StreamTypes
<1>5. \A m \in 0 .. Len(accum) : Signed(m)' = Signed(m)
  BY <1>1, <1>2, <1>3, SealedStays
<1>6. sealed # Unsealed => Signed(sealed)' = Signed(sealed)
  <2>1. PICK m : m = sealed
    OBVIOUS
  <2>2. sealed # Unsealed => m \in 0 .. Len(accum)
    BY <1>1, <2>1 DEF StreamTypes, Unsealed
  <2>3. sealed' = m
    BY <1>3, <2>1
  <2>4. Signed(sealed)' = Signed(m)'
    BY <2>3 DEF Signed
  <2> QED BY <1>5, <2>1, <2>2, <2>4
<1>7. FinalsSign' /\ Accepted'
  BY <1>1, <1>3, <1>6, SaidAlike DEF FinalsSign, Accepted
<1>8. FedIsGot'
  BY <1>1, <1>3 DEF FedIsGot, Refused
<1>9. alone' => OneByOne' /\ SentAsWritten'
  <2> SUFFICES ASSUME alone' PROVE OneByOne' /\ SentAsWritten'
    OBVIOUS
  <2>1. alone /\ inFlight = {} /\ sealed = Unsealed
    BY <1>3
  <2>2. Len(written) = Len(accum)
    BY <1>1, <2>1, AllRecorded
  <2>3. OneByOne'
    BY <1>1, <1>2, <1>3, <2>1, <2>2 DEF OneByOne
  <2>4. SentAsWritten'
    BY <1>1, <1>2, <1>3, <2>1, <2>2 DEF SentAsWritten
  <2> QED BY <2>3, <2>4
<1> QED BY <1>4, <1>7, <1>8, <1>9 DEF StreamIInv

(* A chunk is recorded and sent. *)
LEMMA ChunkReadyKeeps ==
  ASSUME StreamIInv, NEW i \in inFlight, ChunkReady(i) PROVE StreamIInv'
<1>1. /\ StreamTypes /\ FinalsSign /\ Accepted /\ FedIsGot
      /\ alone => OneByOne /\ SentAsWritten
  BY DEF StreamIInv
<1>2. PICK n, w, c : n = Len(accum) /\ w = Len(wire) /\ c = Chunk(i, written[i + 1])
  OBVIOUS
<1>3. i \in Nat /\ i < Len(written) /\ c \in AllFrames /\ ~c.f
  <2>1. i \in Nat /\ i < Len(written) /\ written[i + 1] \in Texts
    BY <1>1 DEF StreamTypes
  <2>2. PICK d : d = written[i + 1]
    OBVIOUS
  <2> QED BY <1>2, <2>1, <2>2 DEF Chunk, ChunkFrames, AllFrames
<1>4. /\ accum \in Seq(Nat) /\ wire \in Seq(AllFrames)
      /\ accum' = Append(accum, i) /\ wire' = Append(wire, c)
      /\ inFlight' = inFlight \ {i}
      /\ UNCHANGED <<written, sealed, fed, got, verdict, alone>>
  BY <1>1, <1>2 DEF ChunkReady, StreamTypes
<1>5. /\ accum' \in Seq(Nat) /\ Len(accum') = n + 1 /\ accum'[n + 1] = i /\ n \in Nat
      /\ \A j \in 1 .. n : accum'[j] = accum[j]
  BY <1>2, <1>3, <1>4, FrameAppend
<1>6. /\ wire' \in Seq(AllFrames) /\ Len(wire') = w + 1 /\ wire'[w + 1] = c /\ w \in Nat
      /\ \A j \in 1 .. w : wire'[j] = wire[j]
  BY ONLY <1>2, <1>3, <1>4, FrameAppend
<1>7. StreamTypes'
  <2>1. \A j \in 1 .. n + 1 : j \in 1 .. n \/ j = n + 1
    BY <1>5
  <2>2. (\A j \in 1 .. Len(accum) : accum[j] < Len(written))'
    BY <1>1, <1>2, <1>3, <1>4, <1>5, <2>1 DEF StreamTypes
  <2>3. sealed' \in -1 .. Len(accum')
    BY <1>1, <1>2, <1>4, <1>5 DEF StreamTypes
  <2>4. inFlight' \subseteq 0 .. Len(written') - 1
    BY <1>1, <1>4 DEF StreamTypes
  <2> QED BY <1>1, <1>4, <1>5, <1>6, <2>2, <2>3, <2>4 DEF StreamTypes
<1>8. sealed # Unsealed => Signed(sealed)' = Signed(sealed)
  <2>1. PICK m : m = sealed
    OBVIOUS
  <2>2. sealed # Unsealed => m \in 0 .. Len(accum)
    BY <1>1, <2>1 DEF StreamTypes, Unsealed
  <2>3. sealed' = m
    BY <1>4, <2>1
  <2>4. Signed(sealed)' = Signed(m)'
    BY <2>3 DEF Signed
  <2>5. \A j \in 1 .. Len(written) : written'[j] = written[j]
    BY <1>4
  <2> QED BY <1>1, <1>2, <1>5, <2>1, <2>2, <2>4, <2>5, SealedStays
<1>9. FinalsSign' /\ Accepted'
  <2>1. \A j \in 1 .. w + 1 : j \in 1 .. w \/ j = w + 1
    BY <1>6
  <2>2. FinalsSign'
    BY <1>1, <1>2, <1>3, <1>4, <1>6, <1>8, <2>1, SaidAlike DEF FinalsSign
  <2> QED BY <1>1, <1>4, <1>8, <2>2, SaidAlike DEF Accepted
<1>10. FedIsGot'
  BY <1>1, <1>4 DEF FedIsGot, Refused
<1>11. alone' => OneByOne' /\ SentAsWritten'
  <2> SUFFICES ASSUME alone' PROVE OneByOne' /\ SentAsWritten'
    OBVIOUS
  <2>1. OneByOne /\ SentAsWritten
    BY <1>1, <1>4
  <2>2. i = n /\ Len(written) = n + 1 /\ sealed = Unsealed
    BY <1>1, <1>2, <1>3, <1>5, <2>1 DEF OneByOne, StreamTypes
  <2>3. w = n
    BY <1>2, <1>5, <1>6, <2>1, <2>2 DEF SentAsWritten
  <2>4. \A j \in 1 .. n + 1 : j \in 1 .. n \/ j = n + 1
    BY <1>5
  <2>5. OneByOne'
    <3>1. inFlight' = {}
      BY <1>2, <1>4, <2>1, <2>2 DEF OneByOne
    <3> QED BY <1>2, <1>4, <1>5, <2>1, <2>2, <2>4, <3>1 DEF OneByOne
  <2>6. c = Chunk((n + 1) - 1, written[n + 1])
    BY <1>2, <1>5, <2>2
  <2>7. SentAsWritten'
    BY <1>2, <1>4, <1>5, <1>6, <2>1, <2>2, <2>3, <2>4, <2>6 DEF SentAsWritten
  <2> QED BY <2>5, <2>7
<1> QED BY <1>7, <1>9, <1>10, <1>11 DEF StreamIInv

(* A step of the reader leaves the writer and the wire alone.              *)
LEMMA ReaderApart ==
  ASSUME FinalsSign, alone => OneByOne /\ SentAsWritten,
         UNCHANGED <<written, inFlight, accum, sealed, wire, alone>>,
         StreamTypes', Accepted', FedIsGot'
  PROVE  StreamIInv'
<1>1. Signed(sealed)' = Signed(sealed)
  BY DEF Signed
<1>2. Message(Signed(sealed))' = Message(Signed(sealed))
  BY <1>1 DEF Message
<1>3. FinalsSign'
  BY <1>2 DEF FinalsSign
<1>4. alone' => OneByOne' /\ SentAsWritten'
  BY DEF OneByOne, SentAsWritten
<1> QED BY <1>3, <1>4 DEF StreamIInv

(* finalize() seals what is recorded. *)
LEMMA FinalizeKeeps == ASSUME StreamIInv, Finalize PROVE StreamIInv'
<1>1. /\ StreamTypes /\ FinalsSign /\ Accepted /\ FedIsGot
      /\ alone => OneByOne /\ SentAsWritten
  BY DEF StreamIInv
<1>2. /\ sealed = Unsealed /\ sealed' = Len(accum) /\ alone' = (alone /\ inFlight = {})
      /\ UNCHANGED <<written, inFlight, accum, wire, fed, got, verdict>>
  BY DEF Finalize
<1>3. StreamTypes'
  <2>1. alone' \in BOOLEAN
    BY <1>2
  <2>2. sealed' \in -1 .. Len(accum')
    BY <1>1, <1>2 DEF StreamTypes
  <2> QED BY <1>1, <1>2, <2>1, <2>2 DEF StreamTypes
<1>4. FinalsSign' /\ Accepted' /\ FedIsGot'
  <2>1. Message(got)' = Message(got)
    BY <1>2 DEF Message
  <2> QED BY <1>1, <1>2, <2>1 DEF FinalsSign, Accepted, FedIsGot, Refused
<1>5. alone' => OneByOne' /\ SentAsWritten'
  <2> SUFFICES ASSUME alone' PROVE OneByOne' /\ SentAsWritten'
    OBVIOUS
  <2>1. alone /\ inFlight = {}
    BY <1>2
  <2>2. Len(written) = Len(accum)
    BY <1>1, <2>1, AllRecorded
  <2>3. sealed' # Unsealed
    BY <1>1, <1>2 DEF StreamTypes, Unsealed
  <2> QED BY <1>1, <1>2, <2>1, <2>2, <2>3 DEF OneByOne, SentAsWritten
<1> QED BY <1>3, <1>4, <1>5 DEF StreamIInv

(* The final frame is sent. *)
LEMMA SendFinalKeeps == ASSUME StreamIInv, SendFinal PROVE StreamIInv'
<1>1. /\ StreamTypes /\ FinalsSign /\ Accepted /\ FedIsGot
      /\ alone => OneByOne /\ SentAsWritten
  BY DEF StreamIInv
<1>2. PICK n, w, c : n = Len(accum) /\ w = Len(wire)
                     /\ c = Final(Len(written), Message(Signed(sealed)))
  OBVIOUS
<1>3. /\ sealed # Unsealed /\ wire' = Append(wire, c)
      /\ \A j \in 1 .. w : ~wire[j].f
      /\ UNCHANGED <<written, inFlight, accum, sealed, fed, got, verdict, alone>>
  <2>1. wire' = Append(wire, c) /\ ~ \E j \in DOMAIN wire : wire[j].f
    BY <1>2 DEF SendFinal
  <2>2. DOMAIN wire = 1 .. w
    BY <1>1, <1>2 DEF StreamTypes
  <2> QED BY <2>1, <2>2 DEF SendFinal
<1>4. c \in AllFrames /\ c.f /\ c.sig = Message(Signed(sealed))
  <2>1. PICK m : m = sealed
    OBVIOUS
  <2>2. m \in 0 .. Len(accum)
    BY <1>1, <1>3, <2>1 DEF StreamTypes, Unsealed
  <2>3. Message(Signed(m)) \in Seq(Symbols)
    BY <1>1, <2>2, SignedType, MessageType
  <2>4. PICK g, k : g = Message(Signed(m)) /\ k = Len(written)
    OBVIOUS
  <2>5. k \in Nat
    BY <1>1, <2>4 DEF StreamTypes
  <2> QED BY <1>2, <2>1, <2>3, <2>4, <2>5 DEF Final, FinalFrames, AllFrames
<1>5. /\ wire' \in Seq(AllFrames) /\ Len(wire') = w + 1 /\ wire'[w + 1] = c /\ w \in Nat
      /\ \A j \in 1 .. w : wire'[j] = wire[j]
  <2>1. wire \in Seq(AllFrames) /\ wire' = Append(wire, c)
    BY <1>1, <1>3 DEF StreamTypes
  <2> QED BY ONLY <1>2, <1>4, <2>1, FrameAppend
<1>6. StreamTypes'
  BY <1>1, <1>3, <1>5 DEF StreamTypes
<1>7. Signed(sealed)' = Signed(sealed)
  BY <1>3 DEF Signed
<1>8. FinalsSign'
  <2>1. \A j \in 1 .. w + 1 : j \in 1 .. w \/ j = w + 1
    BY <1>5
  <2>2. (sealed # Unsealed)' /\ Message(Signed(sealed))' = Message(Signed(sealed))
    BY <1>3, <1>7 DEF Message, Unsealed
  <2> QED BY <1>2, <1>3, <1>4, <1>5, <2>1, <2>2 DEF FinalsSign
<1>9. Accepted' /\ FedIsGot'
  BY <1>1, <1>3, <1>7, SaidAlike DEF Accepted, FedIsGot, Refused
<1>10. alone' => OneByOne' /\ SentAsWritten'
  <2> SUFFICES ASSUME alone' PROVE OneByOne' /\ SentAsWritten'
    OBVIOUS
  <2>1. OneByOne /\ SentAsWritten
    BY <1>1, <1>3
  <2>2. w = n
    <3>1. n \in Nat
      BY <1>1, <1>2 DEF StreamTypes
    <3>2. w # n + 1
      BY <1>2, <1>3, <1>5, <2>1, <3>1 DEF SentAsWritten
    <3> QED BY <1>2, <2>1, <3>2 DEF SentAsWritten
  <2>3. OneByOne'
    BY <1>3, <2>1 DEF OneByOne
  <2>4. SentAsWritten'
    BY <1>2, <1>3, <1>4, <1>5, <2>1, <2>2 DEF SentAsWritten
  <2> QED BY <2>3, <2>4
<1> QED BY <1>6, <1>8, <1>9, <1>10 DEF StreamIInv

(* What the path may deliver. *)
LEMMA FrameTypes ==
  ASSUME StreamTypes, NEW c \in Frames
  PROVE  /\ c \in AllFrames \cup OtherStream
         /\ ~c.f => c \in ChunkFrames
<1>1. CASE c \in OtherStream
  BY <1>1, StreamAssumption DEF ChunkFrames
<1>2. CASE c \in ToSet(wire)
  <2>1. c \in AllFrames
    BY <1>2 DEF StreamTypes, ToSet
  <2> QED BY <2>1 DEF AllFrames, FinalFrames
<1> QED BY <1>1, <1>2 DEF Frames

(* The reader takes a chunk or refuses it. *)
LEMMA ReceiveChunkKeeps ==
  ASSUME StreamIInv, NEW c \in Frames, ReceiveChunk(c) PROVE StreamIInv'
<1>1. /\ StreamTypes /\ FinalsSign /\ Accepted /\ FedIsGot
      /\ alone => OneByOne /\ SentAsWritten
  BY DEF StreamIInv
<1>2. /\ verdict = "reading" /\ ~c.f /\ fed = got /\ fed' = Append(fed, c)
      /\ IF Len(got) < MaxChunks /\ c.i = Len(got)
         THEN got' = Append(got, c) /\ verdict' = verdict
         ELSE got' = got /\ verdict' = "failed"
      /\ UNCHANGED <<written, inFlight, accum, sealed, wire, alone>>
  BY <1>1 DEF ReceiveChunk, FedIsGot
<1>3. c \in ChunkFrames /\ c \in AllFrames \cup OtherStream
  BY <1>1, <1>2, FrameTypes
<1>4. PICK n : n = Len(got)
  OBVIOUS
<1>5. /\ got \in Seq(ChunkFrames) /\ n \in Nat
      /\ fed \in Seq(AllFrames \cup OtherStream)
  BY <1>1, <1>4 DEF StreamTypes
<1>6. /\ fed' \in Seq(AllFrames \cup OtherStream) /\ Len(fed') = n + 1 /\ fed'[n + 1] = c
      /\ \A j \in 1 .. n : fed'[j] = got[j]
  BY ONLY <1>2, <1>3, <1>4, <1>5, FrameAppend
<1>7. CASE Len(got) < MaxChunks /\ c.i = Len(got)
  <2>1. got' = Append(got, c) /\ verdict' = "reading" /\ fed' = got'
    BY <1>2, <1>7
  <2>2. /\ got' \in Seq(ChunkFrames) /\ Len(got') = n + 1 /\ got'[n + 1] = c
        /\ \A j \in 1 .. n : got'[j] = got[j]
    BY ONLY <1>3, <1>4, <1>5, <2>1, FrameAppend
  <2>3. ASSUME NEW j \in 1 .. n + 1 PROVE got'[j].i = j - 1
    <3>1. CASE j = n + 1
      BY <1>4, <1>5, <1>7, <2>2, <3>1
    <3>2. CASE j \in 1 .. n
      BY <1>1, <1>4, <2>2, <3>2 DEF StreamTypes
    <3> QED BY <1>5, <3>1, <3>2
  <2>4. StreamTypes'
    BY <1>1, <1>2, <1>6, <2>1, <2>2, <2>3 DEF StreamTypes
  <2>5. Accepted' /\ FedIsGot'
    BY <2>1 DEF Accepted, FedIsGot
  <2> QED BY <1>1, <1>2, <2>4, <2>5, ReaderApart
<1>8. CASE ~(Len(got) < MaxChunks /\ c.i = Len(got))
  <2>1. got' = got /\ verdict' = "failed"
    BY <1>2, <1>8
  <2>2. StreamTypes'
    BY <1>1, <1>2, <1>6, <2>1 DEF StreamTypes
  <2>3. Refused(c)'
    BY <1>2, <1>8, <2>1 DEF Refused
  <2>4. Accepted' /\ FedIsGot'
    BY <1>4, <1>6, <2>1, <2>3 DEF Accepted, FedIsGot, Refused
  <2> QED BY <1>1, <1>2, <2>2, <2>4, ReaderApart
<1> QED BY <1>7, <1>8

(* The reader compares the final frame's message with that of what it has: *)
(* when the frame is this writer's, it is the message of what was sealed.  *)
LEMMA FinishStreamKeeps ==
  ASSUME StreamIInv, NEW c \in Frames, FinishStream(c) PROVE StreamIInv'
<1>1. /\ StreamTypes /\ FinalsSign /\ Accepted /\ FedIsGot
      /\ alone => OneByOne /\ SentAsWritten
  BY DEF StreamIInv
<1>2. /\ verdict = "reading" /\ c.f /\ fed = got /\ fed' = Append(fed, c)
      /\ verdict' = IF c.sig = Message(got) THEN "ok" ELSE "failed"
      /\ UNCHANGED <<written, inFlight, accum, sealed, wire, got, alone>>
  BY <1>1 DEF FinishStream, FedIsGot
<1>3. c \in AllFrames \cup OtherStream
  BY <1>1, FrameTypes
<1>4. PICK n : n = Len(got)
  OBVIOUS
<1>5. /\ got \in Seq(ChunkFrames) /\ n \in Nat
      /\ fed \in Seq(AllFrames \cup OtherStream)
  BY <1>1, <1>4 DEF StreamTypes
<1>6. /\ fed' \in Seq(AllFrames \cup OtherStream) /\ Len(fed') = n + 1 /\ fed'[n + 1] = c
      /\ \A j \in 1 .. n : fed'[j] = got[j]
  BY ONLY <1>2, <1>3, <1>4, <1>5, FrameAppend
<1>7. StreamTypes'
  BY <1>1, <1>2, <1>6 DEF StreamTypes
<1>8. CASE c.sig = Message(got)
  <2>1. verdict' = "ok" /\ UNCHANGED <<got, sealed, accum, written>>
    BY <1>2, <1>8
  <2>2. CASE c \in OtherStream
    <3>1. c.sig \in OthersContent
      BY <1>2, <2>2 DEF OthersContent
    <3>2. Accepted'
      BY <1>8, <2>1, <3>1 DEF Accepted
    <3>3. FedIsGot'
      BY <2>1 DEF FedIsGot
    <3> QED BY <1>1, <1>2, <1>7, <3>2, <3>3, ReaderApart
  <2>3. CASE c \in ToSet(wire)
    <3>1. sealed # Unsealed /\ c.sig = Message(Signed(sealed))
      <4>1. PICK j \in DOMAIN wire : c = wire[j]
        BY <2>3 DEF ToSet
      <4>2. j \in 1 .. Len(wire)
        BY <1>1, <4>1 DEF StreamTypes
      <4> QED BY <1>1, <1>2, <4>1, <4>2 DEF FinalsSign
    <3>2. Signed(sealed)' = Signed(sealed)
      BY <2>1 DEF Signed
    <3>3. Message(got)' = Message(Signed(sealed))' /\ (sealed # Unsealed)'
      BY <1>8, <2>1, <3>1, <3>2, SaidAlike DEF Unsealed
    <3>4. Accepted'
      BY <3>3 DEF Accepted
    <3>5. FedIsGot'
      BY <2>1 DEF FedIsGot
    <3> QED BY <1>1, <1>2, <1>7, <3>4, <3>5, ReaderApart
  <2> QED BY <2>2, <2>3 DEF Frames
<1>9. CASE c.sig # Message(got)
  <2>1. verdict' = "failed" /\ got' = got
    BY <1>2, <1>9
  <2>2. Accepted' /\ FedIsGot'
    BY <1>2, <1>4, <1>6, <1>9, <2>1 DEF Accepted, FedIsGot, Refused
  <2> QED BY <1>1, <1>2, <1>7, <2>2, ReaderApart
<1> QED BY <1>8, <1>9

(* The connection closes, or a new reader starts. *)
LEMMA OtherReaderStepsKeep ==
  ASSUME StreamIInv, ReaderClosed \/ NewReader PROVE StreamIInv'
<1>1. /\ StreamTypes /\ FinalsSign /\ Accepted /\ FedIsGot
      /\ alone => OneByOne /\ SentAsWritten
  BY DEF StreamIInv
<1>2. UNCHANGED <<written, inFlight, accum, sealed, wire, alone>>
  BY DEF ReaderClosed, NewReader
<1>3. StreamTypes'
  <2>1. \/ fed' = fed /\ got' = got /\ verdict' = "closed"
        \/ fed' = << >> /\ got' = << >> /\ verdict' = "reading"
    BY DEF ReaderClosed, NewReader
  <2>2. /\ fed' \in Seq(AllFrames \cup OtherStream) /\ got' \in Seq(ChunkFrames)
        /\ \A j \in 1 .. Len(got') : got'[j].i = j - 1
        /\ verdict' \in {"reading", "ok", "failed", "closed"}
    <3>1. << >> \in Seq(ChunkFrames) /\ << >> \in Seq(AllFrames \cup OtherStream)
      OBVIOUS
    <3>2. CASE fed' = fed /\ got' = got /\ verdict' = "closed"
      BY <1>1, <3>2 DEF StreamTypes
    <3>3. CASE fed' = << >> /\ got' = << >> /\ verdict' = "reading"
      <4>1. \A j \in 1 .. Len(got') : got'[j].i = j - 1
        BY <3>3
      <4> QED BY <3>1, <3>3, <4>1
    <3> QED BY <2>1, <3>2, <3>3
  <2> QED BY <1>1, <1>2, <2>2 DEF StreamTypes
<1>4. Accepted' /\ FedIsGot'
  BY DEF Accepted, FedIsGot, ReaderClosed, NewReader
<1> QED BY <1>1, <1>2, <1>3, <1>4, ReaderApart

(* Every step of the writer and the reader preserves it. *)
LEMMA StreamStepKeeps == StreamIInv /\ [StreamNext]_streamVars => StreamIInv'
<1> SUFFICES ASSUME StreamIInv, [StreamNext]_streamVars PROVE StreamIInv'
  OBVIOUS
<1>1. ASSUME NEW d \in Texts, WriteChunk(d) PROVE StreamIInv'
  BY <1>1, WriteChunkKeeps
<1>2. ASSUME NEW i \in inFlight, ChunkReady(i) PROVE StreamIInv'
  BY <1>2, ChunkReadyKeeps
<1>3. ASSUME NEW c \in Frames, ReceiveChunk(c) PROVE StreamIInv'
  BY <1>3, ReceiveChunkKeeps
<1>4. ASSUME NEW c \in Frames, FinishStream(c) PROVE StreamIInv'
  BY <1>4, FinishStreamKeeps
<1>5. CASE UNCHANGED streamVars
  <2>1. /\ StreamTypes /\ FinalsSign /\ Accepted /\ FedIsGot
        /\ alone => OneByOne /\ SentAsWritten
    BY DEF StreamIInv
  <2>2. UNCHANGED <<written, inFlight, accum, sealed, wire, fed, got, verdict, alone>>
    BY <1>5 DEF streamVars
  <2>3. StreamTypes'
    BY <2>1, <2>2 DEF StreamTypes
  <2>4. Signed(sealed)' = Signed(sealed)
    BY <2>2 DEF Signed
  <2>5. Accepted' /\ FedIsGot'
    BY <2>1, <2>2, <2>4, SaidAlike DEF Accepted, FedIsGot, Refused
  <2> QED BY <2>1, <2>2, <2>3, <2>5, ReaderApart
<1> QED BY <1>1, <1>2, <1>3, <1>4, <1>5, FinalizeKeeps, SendFinalKeeps, OtherReaderStepsKeep
        DEF StreamNext

(* Without line breaks the reader has the chunks that were sealed; as its  *)
(* indices are consecutive, the writer recorded them in their order.       *)
LEMMA InOrderUnbroken ==
  ASSUME StreamTypes, sealed # Unsealed, Message(got) = Message(Signed(sealed)),
         Unbroken(got), Unbroken(Signed(sealed))
  PROVE  got = InOrder(sealed)
<1>2. PICK n : n = sealed
  OBVIOUS
<1>3. n \in 0 .. Len(accum) /\ n \in Nat
  BY <1>2 DEF StreamTypes, Unsealed
<1>1. got = Signed(n)
  <2>1. Signed(n) \in Seq(ChunkFrames) /\ got \in Seq(ChunkFrames)
    BY <1>3, SignedType DEF StreamTypes
  <2>2. Message(got) = Message(Signed(n)) /\ Unbroken(Signed(n))
    BY <1>2
  <2> QED BY <2>1, <2>2, SameMessage
<1>4. /\ Len(got) = n
      /\ \A j \in 1 .. n : got[j] = Chunk(accum[j], written[accum[j] + 1])
  BY <1>1, <1>2, <1>3, SignedType
<1>5. ASSUME NEW j \in 1 .. n PROVE got[j] = Chunk(j - 1, written[j])
  <2>1. got[j].i = j - 1
    BY <1>4 DEF StreamTypes
  <2>2. got[j].i = accum[j]
    BY <1>4 DEF Chunk
  <2>3. accum[j] + 1 = j
    BY <1>3, <2>1, <2>2
  <2> QED BY <1>4, <2>1, <2>2, <2>3
<1>6. got = [j \in 1 .. n |-> got[j]]
  BY <1>4 DEF StreamTypes
<1>7. got = InOrder(n)
  BY <1>5, <1>6 DEF InOrder
<1> QED BY <1>2, <1>7

(* What is accepted is the message of what was sealed, or another stream.  *)
LEMMA AcceptedWhole == StreamIInv => AcceptedIsWhole
<1> SUFFICES ASSUME StreamTypes, Accepted, verdict = "ok",
                    ~(Message(got) \in OthersContent)
             PROVE  /\ sealed # Unsealed
                    /\ Message(got) = Message(Signed(sealed))
                    /\ Unbroken(got) /\ Unbroken(Signed(sealed)) => got = InOrder(sealed)
  BY DEF StreamIInv, AcceptedIsWhole
<1>1. sealed # Unsealed /\ Message(got) = Message(Signed(sealed))
  BY DEF Accepted
<1> QED BY <1>1, InOrderUnbroken

(* A frame that arrived in its place is the chunk with the next index, or  *)
(* the final frame of what the reader has: neither is refused.             *)
LEMMA SequentialAccepted == StreamIInv => SequentialStreamVerifies
<1> SUFFICES ASSUME StreamIInv, verdict = "failed", alone, Len(written) <= MaxChunks,
                    IsPrefix(fed, wire)
             PROVE  FALSE
  BY DEF SequentialStreamVerifies
<1>1. StreamTypes /\ FinalsSign /\ FedIsGot /\ OneByOne /\ SentAsWritten
  BY DEF StreamIInv
<1>2. PICK n, m : n = Len(got) /\ m = Len(accum)
  OBVIOUS
<1>3. n \in Nat /\ m \in Nat /\ got \in Seq(ChunkFrames)
  BY <1>1, <1>2 DEF StreamTypes
<1>4. PICK c : c = fed[n + 1]
  OBVIOUS
<1>5. Len(fed) = n + 1 /\ Refused(c) /\ \A j \in 1 .. n : fed[j] = got[j]
  BY <1>1, <1>2, <1>4 DEF FedIsGot
<1>6. n + 1 <= Len(wire) /\ \A j \in 1 .. n + 1 : wire[j] = fed[j]
  <2>1. Len(fed) <= Len(wire) /\ SubSeq(fed, 1, Len(fed)) = SubSeq(wire, 1, Len(fed))
    BY DEF IsPrefix
  <2>2. PICK f, w : f = fed /\ w = wire
    OBVIOUS
  <2>3. /\ f \in Seq(AllFrames \cup OtherStream) /\ w \in Seq(AllFrames)
        /\ Len(f) = n + 1 /\ n + 1 <= Len(w)
        /\ SubSeq(f, 1, n + 1) = SubSeq(w, 1, n + 1)
    BY <1>1, <1>5, <2>1, <2>2 DEF StreamTypes
  <2>4. ASSUME NEW j \in 1 .. n + 1 PROVE w[j] = f[j]
    <3>1. SubSeq(f, 1, n + 1)[j] = f[j] /\ SubSeq(w, 1, n + 1)[j] = w[j]
      BY <1>3, <2>3
    <3> QED BY <2>3, <3>1
  <2> QED BY <2>2, <2>3, <2>4
<1>7. wire[n + 1] = c /\ n <= m
  <2>1. Len(wire) \in {m, m + 1}
    BY <1>1, <1>2 DEF SentAsWritten
  <2> QED BY <1>3, <1>4, <1>6, <2>1
<1>8. CASE n < m
  <2>1. n + 1 \in 1 .. m
    BY <1>3, <1>8
  <2>2. c = Chunk((n + 1) - 1, written[n + 1])
    BY <1>1, <1>2, <1>7, <2>1 DEF SentAsWritten
  <2>3. ~c.f /\ c.i = n
    BY <1>3, <2>2 DEF Chunk
  <2>4. n < MaxChunks
    <3>1. m - 1 < Len(written)
      <4>1. m \in 1 .. Len(accum)
        BY <1>2, <1>3, <1>8
      <4> QED BY <1>1, <4>1 DEF OneByOne, StreamTypes
    <3> QED BY <1>1, <1>3, <1>8, <3>1, StreamAssumption DEF StreamTypes
  <2> QED BY <1>2, <1>5, <2>3, <2>4 DEF Refused
<1>9. CASE n = m
  <2>1. sealed # Unsealed /\ c.f
    BY <1>1, <1>2, <1>3, <1>6, <1>7, <1>9 DEF SentAsWritten
  <2>2. c.sig = Message(Signed(sealed)) /\ sealed = m
    <3>1. n + 1 \in 1 .. Len(wire)
      BY <1>1, <1>3, <1>6 DEF StreamTypes
    <3> QED BY <1>1, <1>2, <1>7, <2>1, <3>1 DEF FinalsSign, OneByOne
  <2>3. /\ Signed(m) \in Seq(ChunkFrames) /\ Len(Signed(m)) = m
        /\ \A j \in 1 .. m : Signed(m)[j] = Chunk(accum[j], written[accum[j] + 1])
    BY <1>1, <1>2, <1>3, SignedType
  <2>4. ASSUME NEW j \in 1 .. m PROVE got[j] = Signed(m)[j]
    <3>1. j \in 1 .. n /\ j \in 1 .. n + 1
      BY <1>3, <1>9
    <3>2. got[j] = wire[j]
      BY <1>5, <1>6, <3>1
    <3>3. wire[j] = Chunk(j - 1, written[j]) /\ accum[j] = j - 1 /\ (j - 1) + 1 = j
      BY <1>1, <1>2 DEF SentAsWritten, OneByOne
    <3> QED BY <2>3, <3>2, <3>3
  <2>5. got = Signed(m)
    <3>1. PICK s : s = Signed(m)
      OBVIOUS
    <3>2. /\ s \in Seq(ChunkFrames) /\ Len(s) = m /\ Len(got) = m
          /\ \A j \in 1 .. m : got[j] = s[j]
      BY <1>2, <1>9, <2>3, <2>4, <3>1
    <3>3. got = s
      BY ONLY <1>3, <3>2
    <3> QED BY <3>1, <3>3
  <2> QED BY <1>5, <2>1, <2>2, <2>5 DEF Refused
<1> QED BY <1>3, <1>7, <1>8, <1>9

(* stream.ts:247: for any texts, number of writes in flight, capacity of   *)
(* the reader and frames of other streams, what is accepted spells out     *)
(* what its signer finished, its very chunks where no text has a line      *)
(* break, or another whole stream; and a stream that was written call      *)
(* after call and arrives as it was sent is not refused.                   *)
THEOREM StreamsWhole == StreamSpec => []StreamWhole
<1>1. StreamIInv => StreamWhole
  BY AcceptedWhole, SequentialAccepted DEF StreamWhole
<1> QED BY <1>1, StreamInitHolds, StreamStepKeeps, PTL DEF StreamSpec
=============================================================================
