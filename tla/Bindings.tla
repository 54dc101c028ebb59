------------------------------ MODULE Bindings ------------------------------
(***************************************************************************)
(* The verifying side of the transport bindings.  Each is a pipeline of    *)
(* checks over one message; calls for several messages are in progress at  *)
(* once and wait between the checks for keys, signatures and stores.  A    *)
(* binding with a replay cache shares it between its calls.                *)
(***************************************************************************)
EXTENDS ReplayWindow, Sequences

CONSTANTS Stamp,      \* the timestamp of each message (a function on Keys)
          Lifetime,   \* its ttlMs, or the receiver's maxAgeMs
          BindSkew,       \* MAX_CLOCK_SKEW_MS
          Slots,      \* verification calls in progress at once
          MaxStarts,  \* bound on the calls made
          MaxBindTime \* bound on the clock

ASSUME BindingsAssumption ==
  /\ Stamp \in [Keys -> Nat] /\ Lifetime \in [Keys -> Nat]
  /\ BindSkew \in Nat /\ MaxStarts \in Nat /\ MaxBindTime \in Nat

VARIABLES binding,   \* the pipeline under check
          bindTime,
          memory,    \* its replay cache: key -> instant until which it is held
          arrivals,  \* the keys of an InMemoryWebhookReplayCache, oldest first
          slot,      \* the calls in progress
          accepted,  \* what was handed to the application
          dropped,   \* keys the cache gave up before their time
          starts

bindVars == <<binding, bindTime, memory, arrivals, slot, accepted, dropped, starts>>

(* The checks of each binding in the order the function makes them.  "now" *)
(* is a reading of the clock that all later checks of the call use; a      *)
(* binding without it reads the clock whenever it needs it.  "signature"   *)
(* stands for the lookup of the key and the verification with it.         *)
WsPipeline == <<"signature", "validate", "consume">>
(* Fault: the payload is not compared with the signed content. *)
QueuePipelineUncompared == <<"now", "validate", "signature", "consume">>
QueuePipeline == <<"now", "validate", "signature", "consume", "payload">>
WebhookPipeline == <<"now", "age", "signature", "reserve">>
GrpcPipeline == <<"validate", "signature">>
HttpPipeline == <<"validate", "signature">>
ResponsePipeline == <<"now", "expired", "age", "signature", "payload">>
PyQueuePipeline == <<"validate", "signature", "nonce", "payload">>
PyWebhookPipeline == <<"age", "signature">>
PyHttpPipeline == <<"validate", "signature">>
GoWebhookPipeline == <<"age", "signature">>
GoHttpPipeline == <<"expired", "signature">>
RustQueuePipeline == <<"validate", "signature", "payload">>
RustWebhookPipeline == <<"age", "signature">>
RustHttpPipeline == <<"validate", "signature">>

Pipelines ==
  {WsPipeline, QueuePipeline, WebhookPipeline, GrpcPipeline, HttpPipeline,
   ResponsePipeline, PyQueuePipeline, PyWebhookPipeline, PyHttpPipeline,
   GoWebhookPipeline, GoHttpPipeline, RustQueuePipeline, RustWebhookPipeline,
   RustHttpPipeline}

(* A WebSocket frame is its envelope, and a webhook's signature is over its *)
(* timestamp and body: all that is handed over is signed.                  *)
Enclosed == {WsPipeline, WebhookPipeline, PyWebhookPipeline, GoWebhookPipeline,
             RustWebhookPipeline}

(* A gRPC call is signed for by an envelope that says "grpc-call", an HTTP *)
(* request by one in a header: the envelope is verified, and the request   *)
(* beside it is passed on unread.                                          *)
Unread == {GrpcPipeline, HttpPipeline, PyHttpPipeline, GoHttpPipeline, RustHttpPipeline}

ReplayChecks == {"consume", "nonce", "reserve"}
Cached == \E j \in DOMAIN binding : binding[j] \in ReplayChecks

Expiry(k) == Stamp[k] + Lifetime[k]
NoCall == [step |-> 0]

BindingsInit ==
  /\ binding \in Pipelines
  /\ bindTime = 0
  /\ memory = Empty /\ arrivals = <<>>
  /\ slot = [s \in Slots |-> NoCall]
  /\ accepted = {} /\ dropped = {} /\ starts = 0

(* What can be altered on the way: what is signed, and what is handed over *)
(* with it, where something travels beside the envelope.                   *)
Alterations == {"nothing", "signed"} \cup (IF binding \in Enclosed THEN {} ELSE {"beside"})

(* A message arrives, altered or not.                                      *)
Arrive(s, k, altered) ==
  /\ slot[s] = NoCall
  /\ starts < MaxStarts
  /\ slot' = [slot EXCEPT ![s] =
       [step |-> 1, key |-> k, altered |-> altered, started |-> bindTime, read |-> bindTime,
        until |-> 0, call |-> starts]]
  /\ starts' = starts + 1
  /\ UNCHANGED <<binding, bindTime, memory, arrivals, accepted, dropped>>

(* validateEnvelope() and the age checks, at the instant the call uses. *)
InWindow(k, now) == Stamp[k] <= now + BindSkew /\ Expiry(k) >= now
Unexpired(k, now) == Expiry(k) >= now

(* The instant a check uses. *)
At(c) == IF binding[1] = "now" THEN c.read ELSE bindTime

Passes(c, check) ==
  CASE check = "validate" -> InWindow(c.key, At(c))
    [] check \in {"expired", "age"} -> Unexpired(c.key, At(c))
    [] check = "signature" -> c.altered # "signed"
    [] check = "payload" -> c.altered # "beside"
    [] check = "now" -> TRUE
    [] check \in ReplayChecks -> ~Replayed(memory, c.key, At(c))

(* Until when a key is held: the envelope's expiry, or, in the store the   *)
(* Python consumer is given, ttlMs from the moment of the check.           *)
HeldUntil(c, check) == IF check = "nonce" THEN bindTime + Lifetime[c.key] ELSE Expiry(c.key)

(* InMemoryWebhookReplayCache makes room by dropping the oldest key. *)
Reserve(c, now) ==
  LET pruned == Prune(memory, now)
      live == SelectSeq(arrivals, LAMBDA k : pruned[k] # NoEntry)
      full == Cardinality(Held(pruned)) >= MaxEntries
      room == IF full THEN [pruned EXCEPT ![Head(live)] = NoEntry] ELSE pruned
  IN /\ memory' = [room EXCEPT ![c.key] = Expiry(c.key)]
     /\ arrivals' = Append(IF full THEN Tail(live) ELSE live, c.key)

(* Fault: a key is held until its timestamp. *)
RememberBriefly(c, check) ==
  IF check \in ReplayChecks
  THEN memory' = [Prune(memory, At(c)) EXCEPT ![c.key] = Stamp[c.key]] /\ UNCHANGED arrivals
  ELSE UNCHANGED <<memory, arrivals>>

(* What the replay check of a pipeline does to the cache. *)
Remember(c, check) ==
  CASE check \in {"consume", "nonce"} ->
         /\ memory' \in Consumed(memory, c.key, HeldUntil(c, check), At(c))
         /\ UNCHANGED arrivals
    [] check = "reserve" -> Reserve(c, At(c))
    [] check \notin ReplayChecks -> UNCHANGED <<memory, arrivals>>

(* One check of one call, and the hand-over after the last.  A refused     *)
(* replay check has pruned the cache.                                      *)
Check(s) ==
  /\ slot[s] # NoCall
  /\ LET c == slot[s]
         check == binding[c.step]
         last == c.step = Len(binding)
         next == [c EXCEPT !.step = @ + 1,
                           !.read = IF check = "now" THEN bindTime ELSE @,
                           !.until = IF check \in ReplayChecks
                                    THEN HeldUntil(c, check)
                                    ELSE @]
     IN /\ IF Passes(c, check)
           THEN /\ Remember(c, check)
                /\ slot' = [slot EXCEPT ![s] = IF last THEN NoCall ELSE next]
                /\ accepted' = IF last
                               THEN accepted \cup {[call |-> next.call, key |-> next.key,
                                     altered |-> next.altered, started |-> next.started,
                                     until |-> next.until, at |-> bindTime]}
                               ELSE accepted
           ELSE /\ slot' = [slot EXCEPT ![s] = NoCall]
                /\ memory' = IF check \in ReplayChecks THEN Prune(memory, At(c)) ELSE memory
                /\ UNCHANGED <<arrivals, accepted>>
        /\ dropped' = dropped \cup (Held(Prune(memory, At(c))) \ Held(memory'))
  /\ UNCHANGED <<binding, bindTime, starts>>

BindLater ==
  /\ bindTime < MaxBindTime
  /\ bindTime' = bindTime + 1
  /\ UNCHANGED <<binding, memory, arrivals, slot, accepted, dropped, starts>>

BindingsNext ==
  \/ \E s \in Slots : \E k \in Keys, altered \in Alterations : Arrive(s, k, altered)
  \/ \E s \in Slots : Check(s)
  \/ BindLater

BindingsSpec == BindingsInit /\ [][BindingsNext]_bindVars

-----------------------------------------------------------------------------
BindingsTypeOK ==
  /\ memory \in [Keys -> Nat \cup {NoEntry}]
  /\ \A s \in Slots : slot[s].step \in 0 .. Len(binding)
  /\ Cardinality(Held(memory)) <= MaxEntries

(* queueBinding.ts:23, webhookBinding.ts:73: a binding with a cache hands  *)
(* a message to the application once while it holds its key.  A second     *)
(* hand-over needs the key dropped at capacity, or comes when the first    *)
(* hold is over, however the calls overlap and however old the instant is  *)
(* that a slow call prunes with.                                           *)
OncePerHold ==
  Cached => \A a, b \in accepted :
    a.key = b.key /\ a.call # b.call /\ a.key \notin dropped =>
      b.at >= a.until \/ a.at >= b.until

(* queueBinding.ts:108: however long a call waits, what reaches the        *)
(* application is what was signed, from a window that was still open when  *)
(* the call began.  What travels beside the envelope is as the sender      *)
(* signed it too, except in the gRPC and HTTP header bindings              *)
(* (grpcBinding.ts:95, httpBinding.ts:146), which pass it on whatever it   *)
(* has become.                                                             *)
AcceptedAsSigned ==
  \A a \in accepted :
    /\ a.altered # "signed"
    /\ a.altered = "beside" => binding \in Unread
    /\ Expiry(a.key) >= a.started

(* queueBinding.ts:101: in every binding, whatever the order of its checks *)
(* and of concurrent calls, what is signed is handed over as it was and    *)
(* once while its key is held, and what travels beside it as it was        *)
(* wherever the binding reads it at all.                                   *)
HandedOverOnce == OncePerHold /\ AcceptedAsSigned
=============================================================================
