----------------------------- MODULE McpChannel -----------------------------
(***************************************************************************)
(* wrapMcpServer() and wrapMcpClient() joined by the stdio or the HTTP     *)
(* adapter.  The stdio client has no request ids on the pipe: an arriving  *)
(* line resolves the oldest pending send().  The path may insert copies of *)
(* lines it has seen, lines of other signers and lines that are no         *)
(* envelopes; the server's signer may throw.                               *)
(***************************************************************************)
EXTENDS Naturals, SequencesExt, FiniteSets

CONSTANTS Calls,        \* JSON-RPC requests of the client, one messageId each
          Junk,         \* a line that is no envelope or does not verify
          Elsewhere,    \* a request of this client to another server
          Stranger,     \* a reply signed by a known agent that is not the peer
          MaxFaults     \* bound on inserted lines and signer failures

ASSUME McpChannelAssumption ==
  Junk \notin Calls /\ Elsewhere \notin Calls /\ Stranger \notin Calls /\ MaxFaults \in Nat

VARIABLES carrier,      \* "stdio" or "http"
          call,         \* what each wrapped client call is doing
          pending,      \* createStdioMcpClient's queue of resolve functions
          up, down,     \* lines on their way to the server and to the client
          inbox,        \* the line send() resolved with, per call
          ran,          \* how often the handler ran, per call
          serverSeen, clientSeen,   \* the two replay caches
          replies,      \* every line the server has written
          faults, muted \* faults so far; requests the server never answered

mcpVars == <<carrier, call, pending, up, down, inbox, ran, serverSeen,
             clientSeen, replies, faults, muted>>

(* A reply names the request it answers; kind says whether the handler ran *)
(* for this line.  nr is the fresh nonce of the reply's envelope.          *)
Reply(re, kind, nr) == [re |-> re, kind |-> kind, nr |-> nr]
NoLine == [re |-> Junk, kind |-> "none", nr |-> 0]
Unreadable == [re |-> Junk, kind |-> "junk", nr |-> 0]
Foreign == [re |-> Stranger, kind |-> "junk", nr |-> 0]

McpInit ==
  /\ carrier \in {"stdio", "http"}
  /\ call = [c \in Calls |-> "idle"]
  /\ pending = <<>> /\ up = <<>> /\ down = <<>>
  /\ inbox = [c \in Calls |-> NoLine]
  /\ ran = [c \in Calls |-> 0]
  /\ serverSeen = {} /\ clientSeen = {} /\ replies = {}
  /\ faults = 0 /\ muted = 0

-----------------------------------------------------------------------------
(* encodeRequest() and send(): over stdio the resolve function is queued   *)
(* and the line written in one step.                                       *)
Send(c) ==
  /\ call[c] = "idle"
  /\ call' = [call EXCEPT ![c] = "waiting"]
  /\ up' = Append(up, [msg |-> c, own |-> TRUE])
  /\ pending' = IF carrier = "stdio" THEN Append(pending, c) ELSE pending
  /\ UNCHANGED <<carrier, down, inbox, ran, serverSeen, clientSeen, replies, faults, muted>>

(* wrapMcpServer's function runs the handler for a line that verifies, was *)
(* not seen before and names this server; every other line is refused.     *)
Fresh(line) == line \in Calls /\ line \notin serverSeen

Handle(j) ==
  LET line == up[j].msg IN
  /\ ran' = IF Fresh(line) THEN [ran EXCEPT ![line] = @ + 1] ELSE ran
  /\ serverSeen' = IF line = Junk THEN serverSeen ELSE serverSeen \cup {line}
  /\ up' = RemoveAt(up, j)
  /\ UNCHANGED <<carrier, call, pending, clientSeen>>

(* Where a reply goes: onto the pipe, or into the HTTP exchange it is for. *)
Resolve(entry, line) ==
  IF carrier = "stdio"
  THEN /\ down' = Append(down, line)
       /\ UNCHANGED inbox
  ELSE /\ inbox' = IF entry.own /\ inbox[entry.msg] = NoLine
                   THEN [inbox EXCEPT ![entry.msg] = line] ELSE inbox
       /\ UNCHANGED down

(* The lines that may be handled next: the chain of serveMcpOverStdio      *)
(* takes them in arrival order, HTTP requests run side by side.            *)
Turns == IF carrier = "stdio" /\ up # <<>> THEN {1} ELSE DOMAIN up

Serve ==
  /\ \E j \in Turns :
       LET entry == up[j]
           line == Reply(entry.msg, IF Fresh(entry.msg) THEN "answer" ELSE "refusal",
                         Cardinality(replies) + 1)
       IN /\ Handle(j)
          /\ Resolve(entry, line)
          /\ replies' = replies \cup {line}
  /\ UNCHANGED <<faults, muted>>

(* options.sign throws after the handler ran: onError on stdio, where no   *)
(* line is written, and a plain JSON body with status 500 on HTTP.         *)
SignFails ==
  /\ faults < MaxFaults
  /\ \E j \in Turns :
       /\ Handle(j)
       /\ IF carrier = "stdio"
          THEN UNCHANGED <<down, inbox>>
          ELSE Resolve(up[j], Unreadable)
  /\ faults' = faults + 1
  /\ muted' = muted + 1
  /\ UNCHANGED replies

(* Fault: a line that is no envelope takes its turn and resolves nobody. *)
ReadLineSkipsJunk ==
  /\ down # <<>>
  /\ down' = Tail(down)
  /\ IF pending = <<>> THEN UNCHANGED <<pending, inbox>>
     ELSE /\ inbox' = IF Head(down) = Unreadable THEN inbox
                     ELSE [inbox EXCEPT ![Head(pending)] = Head(down)]
          /\ pending' = Tail(pending)
  /\ UNCHANGED <<carrier, call, up, ran, serverSeen, clientSeen, replies, faults, muted>>

(* The stdio client's onLine: the oldest pending send() gets the line, and *)
(* a line nobody waits for is dropped.                                     *)
ReadLine ==
  /\ down # <<>>
  /\ down' = Tail(down)
  /\ IF pending = <<>> THEN UNCHANGED <<pending, inbox>>
     ELSE /\ inbox' = [inbox EXCEPT ![Head(pending)] = Head(down)]
          /\ pending' = Tail(pending)
  /\ UNCHANGED <<carrier, call, up, ran, serverSeen, clientSeen, replies, faults, muted>>

(* Fault: the reply's correlationId is not compared. *)
AcceptedAnyCorrelation(c) ==
  /\ inbox[c] \in replies
  /\ inbox[c] \notin clientSeen

(* decodeResponse(): verified and not seen before, from the peer, and for  *)
(* the request that was sent.                                              *)
Accepted(c) ==
  /\ inbox[c] \in replies
  /\ inbox[c] \notin clientSeen
  /\ inbox[c].re = c

Decode(c) ==
  /\ call[c] = "waiting" /\ inbox[c] # NoLine
  /\ call' = [call EXCEPT ![c] = IF Accepted(c) THEN "returned" ELSE "refused"]
  /\ clientSeen' = IF inbox[c] = Unreadable THEN clientSeen ELSE clientSeen \cup {inbox[c]}
  /\ UNCHANGED <<carrier, pending, up, down, inbox, ran, serverSeen, replies, faults,
                 muted>>

-----------------------------------------------------------------------------
Requests == {Junk, Elsewhere} \cup {c \in Calls : call[c] # "idle"}
Lines == {Unreadable, Foreign} \cup replies

InsertUp(m) ==
  /\ faults < MaxFaults
  /\ up' = Append(up, [msg |-> m, own |-> FALSE])
  /\ faults' = faults + 1
  /\ UNCHANGED <<carrier, call, pending, down, inbox, ran, serverSeen, clientSeen, replies,
                 muted>>

InsertDown(line) ==
  /\ faults < MaxFaults /\ carrier = "stdio"
  /\ down' = Append(down, line)
  /\ faults' = faults + 1
  /\ UNCHANGED <<carrier, call, pending, up, inbox, ran, serverSeen, clientSeen, replies,
                 muted>>

(* On HTTP the path answers a call itself. *)
AnswerInstead(c, line) ==
  /\ faults < MaxFaults /\ carrier = "http" /\ call[c] = "waiting" /\ inbox[c] = NoLine
  /\ inbox' = [inbox EXCEPT ![c] = line]
  /\ faults' = faults + 1
  /\ UNCHANGED <<carrier, call, pending, up, down, ran, serverSeen, clientSeen, replies,
                 muted>>

McpNext ==
  \/ \E c \in Calls : Send(c) \/ Decode(c) \/ \E line \in Lines : AnswerInstead(c, line)
  \/ Serve
  \/ SignFails
  \/ ReadLine
  \/ \E m \in Requests : InsertUp(m)
  \/ \E line \in Lines : InsertDown(line)

(* Node runs the promise chain and the line readers as long as the process *)
(* lives; nothing makes a fault happen.                                    *)
McpFairness ==
  /\ WF_mcpVars(Serve)
  /\ WF_mcpVars(ReadLine)
  /\ \A c \in Calls : WF_mcpVars(Decode(c))

McpSpec == McpInit /\ [][McpNext]_mcpVars /\ McpFairness

-----------------------------------------------------------------------------
McpTypeOK ==
  /\ carrier \in {"stdio", "http"}
  /\ call \in [Calls -> {"idle", "waiting", "returned", "refused"}]
  /\ faults \in 0 .. MaxFaults /\ muted \in 0 .. faults
  /\ \A j \in DOMAIN pending : pending[j] \in Calls
  /\ clientSeen \subseteq Lines

(* mcpWrapper.ts:27: no interleaving of calls, inserted lines and missing  *)
(* answers makes a call return what the server said to another one, and a  *)
(* call that returned the handler's answer had its handler run exactly     *)
(* once, whatever copies of it arrived.                                    *)
NoCrossTalk ==
  \A c \in Calls : call[c] = "returned" =>
    /\ inbox[c].re = c
    /\ inbox[c].kind = "answer" => ran[c] = 1

(* mcpWrapper.ts:29: a request runs at most once. *)
HandlerRunsOnce == \A c \in Calls : ran[c] <= 1

(* mcpWrapper.ts:27: lines inserted, repeated or missing, a request runs   *)
(* once and its caller gets the answer to it, or none.                     *)
RunsOnceForItsCaller == HandlerRunsOnce /\ NoCrossTalk

(* mcpTransports.ts:69: a call in flight ends.  Extra lines shift the      *)
(* answers by one, and a shifted answer still ends the call it reaches     *)
(* (as refused); only a request the stdio server left unanswered leaves    *)
(* calls waiting.                                                          *)
EveryCallEnds ==
  \A c \in Calls :
    call[c] = "waiting" ~> (call[c] \in {"returned", "refused"}
                             \/ (carrier = "stdio" /\ muted > 0))
=============================================================================
