----------------------------- MODULE SignedSse ------------------------------
(***************************************************************************)
(* SignedSseWriter and SignedSseReader.  An event's number is taken before *)
(* its signature is awaited.  The reader is fed as readSignedSse() feeds   *)
(* it, one event after another.  The path may drop, repeat and reorder     *)
(* events, deliver events of another stream between the same peers, and    *)
(* deliver events that do not verify.                                      *)
(***************************************************************************)
EXTENDS Integers, SequencesExt

CONSTANTS Stream, Other,   \* stream ids: the writer's and a foreign one
          OtherEvents,     \* signed events of the foreign stream
          Expect,          \* expectStreamId, or Anything
          Anything,
          MaxSent,         \* bound on the writer's events
          MaxEvents        \* options.maxEvents

SseEvents(s) ==
  [stream : {s}, seq : Nat, kind : {"message", "end"}, total : Nat, genuine : {TRUE}]

ASSUME SseAssumption ==
  /\ Anything \notin {Stream, Other}
  /\ OtherEvents \subseteq SseEvents(Other)
  /\ Expect \in {Stream, Other, Anything}
  /\ MaxSent \in Nat /\ MaxEvents \in Nat

VARIABLES sent,      \* the writer's seq
          signing,   \* events whose signature is awaited
          closed,    \* the writer's ended
          events,    \* events that were written
          expected, stream, ended, failed, count,   \* the reader's fields
          seen,      \* its replay cache
          feed,      \* the event that handle() is verifying
          delivered  \* the messages the reader has returned

sseVars == <<sent, signing, closed, events, expected, stream, ended, failed,
             count, seen, feed, delivered>>
writerVars == <<sent, signing, closed, events>>
readerVars == <<expected, stream, ended, failed, count, seen, feed, delivered>>

(* An event of kind "end" carries the number of messages before it. *)
Event(s, n, kind, total) ==
  [stream |-> s, seq |-> n, kind |-> kind, total |-> total, genuine |-> TRUE]
NoEvent == [kind |-> "none"]
Forged == [kind |-> "message", genuine |-> FALSE]

SseInit ==
  /\ sent = 0 /\ signing = {} /\ closed = FALSE /\ events = {}
  /\ expected = 0 /\ stream = Expect /\ ended = FALSE /\ failed = FALSE
  /\ count = 0 /\ seen = {} /\ feed = NoEvent /\ delivered = <<>>

(* message() and end() refuse once the stream has ended; end() marks the   *)
(* end only after its signature, so either may still slip in before.       *)
Write(kind) ==
  /\ ~closed
  /\ sent < MaxSent
  /\ signing' = signing \cup {Event(Stream, sent, kind, sent)}
  /\ sent' = sent + 1
  /\ UNCHANGED <<closed, events, readerVars>>

SignatureReady(e) ==
  /\ e \in signing
  /\ signing' = signing \ {e}
  /\ events' = events \cup {e}
  /\ closed' = (closed \/ e.kind = "end")
  /\ UNCHANGED <<sent, readerVars>>

-----------------------------------------------------------------------------
Arrivals == events \cup OtherEvents \cup {Forged}

(* feed() completes an event and starts to verify it. *)
Feed(e) ==
  /\ feed = NoEvent
  /\ ~failed
  /\ count' = IF ended THEN count ELSE count + 1
  /\ failed' = (ended \/ count + 1 > MaxEvents)
  /\ feed' = IF failed' THEN feed ELSE e
  /\ UNCHANGED <<writerVars, expected, stream, ended, seen, delivered>>

Verifies(e) == e.genuine /\ e \notin seen

(* Fault: numbers may skip ahead. *)
FitsWithGaps(e) ==
  /\ Verifies(e)
  /\ stream \in {Anything, e.stream}
  /\ e.seq >= expected
  /\ e.kind = "end" => e.total = e.seq

(* receiveEnvelope() accepts it, its stream is the one the first event     *)
(* fixed, its number is the next one, and an end counts what came before.  *)
Fits(e) ==
  /\ Verifies(e)
  /\ stream \in {Anything, e.stream}
  /\ e.seq = expected
  /\ e.kind = "end" => e.total = e.seq

AcceptEvent ==
  /\ feed # NoEvent
  /\ Fits(feed)
  /\ seen' = seen \cup {feed}
  /\ stream' = feed.stream
  /\ expected' = feed.seq + 1
  /\ ended' = (ended \/ feed.kind = "end")
  /\ delivered' = IF feed.kind = "end" THEN delivered ELSE Append(delivered, feed)
  /\ feed' = NoEvent
  /\ UNCHANGED <<writerVars, failed, count>>

(* The first violation makes the reader unusable; an event that verified   *)
(* has been recorded in the replay cache, and a first event has fixed the  *)
(* stream even if its number is refused.                                   *)
RefuseEvent ==
  /\ feed # NoEvent
  /\ ~Fits(feed)
  /\ seen' = IF Verifies(feed) THEN seen \cup {feed} ELSE seen
  /\ stream' = IF Verifies(feed) /\ stream = Anything THEN feed.stream ELSE stream
  /\ expected' = IF Verifies(feed) /\ stream \in {Anything, feed.stream}
                    /\ feed.seq = expected THEN expected + 1 ELSE expected
  /\ failed' = TRUE
  /\ feed' = NoEvent
  /\ UNCHANGED <<writerVars, ended, count, delivered>>

(* A new reader, with a cache of its own, for the next response. *)
Reopen ==
  /\ failed \/ ended
  /\ feed = NoEvent
  /\ expected' = 0 /\ stream' = Expect /\ ended' = FALSE /\ failed' = FALSE
  /\ count' = 0 /\ seen' = {} /\ delivered' = <<>>
  /\ UNCHANGED <<writerVars, feed>>

SseNext ==
  \/ \E kind \in {"message", "end"} : Write(kind)
  \/ \E e \in signing : SignatureReady(e)
  \/ \E e \in Arrivals : Feed(e)
  \/ AcceptEvent
  \/ RefuseEvent
  \/ Reopen

SseSpec == SseInit /\ [][SseNext]_sseVars

-----------------------------------------------------------------------------
SseTypeOK ==
  /\ sent \in 0 .. MaxSent
  /\ expected \in Nat
  /\ stream \in {Stream, Other, Anything}
  /\ closed \in BOOLEAN /\ ended \in BOOLEAN /\ failed \in BOOLEAN

(* mcpSse.ts:15: whatever the path does and however the writer's calls     *)
(* overlap, the messages returned are the first ones of one stream, each   *)
(* once and in the order they were written.                                *)
DeliversAPrefix ==
  \A j \in DOMAIN delivered :
    /\ delivered[j].seq = j - 1
    /\ delivered[j].stream = delivered[1].stream

(* mcpSse.ts:20: a stream that finishes was received whole: every message  *)
(* the writer numbered before the end was returned, none that came after.  *)
FinishedIsWhole ==
  ended /\ ~failed =>
    \E e \in events \cup OtherEvents :
      /\ e.kind = "end"
      /\ e.seq = Len(delivered)
      /\ e.stream = stream

(* mcpSse.ts:15,20: a reader returns a beginning of one stream, and        *)
(* finishes when it has returned the whole.                                *)
SseDelivers == DeliversAPrefix /\ FinishedIsWhole
=============================================================================
