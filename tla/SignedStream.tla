---------------------------- MODULE SignedStream ----------------------------
(***************************************************************************)
(* SignedStreamWriter and SignedStreamReader.  writeChunk() takes its      *)
(* index before it awaits the chunk's HMAC and records the chunk after, so *)
(* concurrent writes may be recorded out of order, and finalize() may sign *)
(* while writes are pending, as it does when a WebSocket closes.  The path *)
(* may lose, repeat and reorder frames, and deliver those of another       *)
(* stream of the same signer.                                              *)
(***************************************************************************)
EXTENDS Integers, SequencesExt

CONSTANTS Texts,       \* what is written: sequences of symbols
          MaxWrites,   \* bound on the writes
          MaxChunks,   \* opts.maxChunks of the reader
          MaxFed,      \* bound on the frames the reader is fed
          OtherStream  \* frames of another finished stream of this signer

(* A symbol is an integer: a number written out in digits is that number,  *)
(* the line break and the colon have numbers of their own, and any other   *)
(* integer is some other character.  writeChunk() takes any string, one    *)
(* with line breaks too.                                                   *)
LineBreak == -1
Colon == -2

ASSUME StreamAssumption ==
  /\ Texts \subseteq Seq(Int)
  /\ \A c \in OtherStream :
       \/ c \in [i : Nat, d : Texts, f : {FALSE}]
       \/ c.f = TRUE
  /\ MaxWrites \in Nat /\ MaxChunks \in Nat /\ MaxFed \in Nat

VARIABLES written,   \* the texts given to writeChunk(), by index
          inFlight,  \* indices whose HMAC is awaited
          accum,     \* the writer's record: indices in order of completion
          sealed,    \* how much of accum finalize() signed, or Unsealed
          wire,      \* the frames sent, in order
          fed,       \* the frames the reader was given
          got,       \* the reader's accum
          verdict,   \* of the reader
          alone      \* history: no write overlapped another or finalize()

streamVars == <<written, inFlight, accum, sealed, wire, fed, got, verdict, alone>>

Unsealed == -1
Chunk(i, d) == [i |-> i, d |-> d, f |-> FALSE]
Final(i, sig) == [i |-> i, f |-> TRUE, sig |-> sig]

(* buildContentMessage(): "i:d" of every chunk, joined by line breaks. *)
Part(c) == <<c.i, Colon>> \o c.d
Joined(msg, n, part) == (IF n = 1 THEN <<>> ELSE Append(msg, LineBreak)) \o part
Message(chunks) ==
  LET upTo[n \in 0 .. Len(chunks)] ==
        IF n = 0 THEN <<>> ELSE Joined(upTo[n - 1], n, Part(chunks[n]))
  IN upTo[Len(chunks)]

StreamInit ==
  /\ written = <<>> /\ inFlight = {} /\ accum = <<>> /\ sealed = Unsealed
  /\ wire = <<>> /\ fed = <<>> /\ got = <<>>
  /\ verdict = "reading" /\ alone = TRUE

(* writeChunk() takes the next index; nothing stops it after finalize(). *)
WriteChunk(d) ==
  /\ Len(written) < MaxWrites
  /\ written' = Append(written, d)
  /\ inFlight' = inFlight \cup {Len(written)}
  /\ alone' = (alone /\ inFlight = {} /\ sealed = Unsealed)
  /\ UNCHANGED <<accum, sealed, wire, fed, got, verdict>>

(* Its HMAC is there: the chunk is recorded, returned and sent. *)
ChunkReady(i) ==
  /\ i \in inFlight
  /\ inFlight' = inFlight \ {i}
  /\ accum' = Append(accum, i)
  /\ wire' = Append(wire, Chunk(i, written[i + 1]))
  /\ UNCHANGED <<written, sealed, fed, got, verdict, alone>>

Signed(n) == [j \in 1 .. n |-> Chunk(accum[j], written[accum[j] + 1])]

(* finalize() has imported its key: it signs what is recorded so far. *)
Finalize ==
  /\ sealed = Unsealed
  /\ sealed' = Len(accum)
  /\ alone' = (alone /\ inFlight = {})
  /\ UNCHANGED <<written, inFlight, accum, wire, fed, got, verdict>>

(* The final frame is sent; its index is the writer's count by then. *)
SendFinal ==
  /\ sealed # Unsealed
  /\ ~ \E j \in DOMAIN wire : wire[j].f
  /\ wire' = Append(wire, Final(Len(written), Message(Signed(sealed))))
  /\ UNCHANGED <<written, inFlight, accum, sealed, fed, got, verdict, alone>>

-----------------------------------------------------------------------------
Frames == ToSet(wire) \cup OtherStream

(* Fault: the index is not compared with the one expected. *)
ReceiveAnyIndex(c) ==
  /\ verdict = "reading"
  /\ Len(fed) < MaxFed /\ c \in Frames /\ ~c.f
  /\ fed' = Append(fed, c)
  /\ IF Len(got) < MaxChunks
     THEN got' = Append(got, c) /\ verdict' = verdict
     ELSE got' = got /\ verdict' = "failed"
  /\ UNCHANGED <<written, inFlight, accum, sealed, wire, alone>>

(* receiveChunk(): the indices must be 0, 1, 2, ...; verifyStream() stops  *)
(* at the first chunk that is refused.                                     *)
ReceiveChunk(c) ==
  /\ verdict = "reading"
  /\ Len(fed) < MaxFed /\ c \in Frames /\ ~c.f
  /\ fed' = Append(fed, c)
  /\ IF Len(got) < MaxChunks /\ c.i = Len(got)
     THEN got' = Append(got, c) /\ verdict' = verdict
     ELSE got' = got /\ verdict' = "failed"
  /\ UNCHANGED <<written, inFlight, accum, sealed, wire, alone>>

(* The reader's finalize(): the final frame's index is not looked at. *)
FinishStream(c) ==
  /\ verdict = "reading"
  /\ Len(fed) < MaxFed /\ c \in Frames /\ c.f
  /\ fed' = Append(fed, c)
  /\ verdict' = IF c.sig = Message(got) THEN "ok" ELSE "failed"
  /\ UNCHANGED <<written, inFlight, accum, sealed, wire, got, alone>>

(* The connection closes before a final frame. *)
ReaderClosed ==
  /\ verdict = "reading"
  /\ verdict' = "closed"
  /\ UNCHANGED <<written, inFlight, accum, sealed, wire, fed, got, alone>>

(* A reader that has its result is replaced by a new one. *)
NewReader ==
  /\ verdict # "reading"
  /\ verdict' = "reading" /\ fed' = <<>> /\ got' = <<>>
  /\ UNCHANGED <<written, inFlight, accum, sealed, wire, alone>>

StreamNext ==
  \/ \E d \in Texts : WriteChunk(d)
  \/ \E i \in inFlight : ChunkReady(i)
  \/ Finalize
  \/ SendFinal
  \/ \E c \in Frames : ReceiveChunk(c) \/ FinishStream(c)
  \/ ReaderClosed
  \/ NewReader

StreamSpec == StreamInit /\ [][StreamNext]_streamVars

-----------------------------------------------------------------------------
StreamTypeOK ==
  /\ written \in Seq(Texts)
  /\ inFlight \subseteq 0 .. Len(written) - 1
  /\ sealed \in -1 .. Len(accum)
  /\ verdict \in {"reading", "ok", "failed", "closed"}
  /\ alone \in BOOLEAN

InOrder(n) == [j \in 1 .. n |-> Chunk(j - 1, written[j])]
OthersContent == {c.sig : c \in {g \in OtherStream : g.f}}

(* No text of the chunks holds the line break that joins them. *)
Unbroken(chunks) == \A c \in ToSet(chunks) : LineBreak \notin ToSet(c.d)

(* stream.ts:11: what the reader accepts spells out what its signer had    *)
(* recorded when finalize() signed, or another whole stream of the same    *)
(* signer.  The chunks themselves are those recorded, in the order of      *)
(* their indices, never a mixture, a gap or a repetition, where no text    *)
(* has a line break: one that has may be cut into chunks at another place, *)
(* although stream.ts:192 says that the join keeps chunks apart.           *)
AcceptedIsWhole ==
  verdict = "ok" =>
    \/ Message(got) \in OthersContent
    \/ /\ sealed # Unsealed
       /\ Message(got) = Message(Signed(sealed))
       /\ Unbroken(got) /\ Unbroken(Signed(sealed)) => got = InOrder(sealed)

(* stream.ts:283: a writer whose calls do not overlap produces a stream    *)
(* that its reader accepts when it arrives as it was sent.                 *)
SequentialStreamVerifies ==
  verdict = "failed" /\ alone /\ Len(written) <= MaxChunks =>
    ~IsPrefix(fed, wire)

(* stream.ts:247: a reader accepts what was finished and nothing else, and *)
(* what one call after another wrote it does accept.                       *)
StreamWhole == AcceptedIsWhole /\ SequentialStreamVerifies
=============================================================================
