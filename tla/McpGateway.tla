----------------------------- MODULE McpGateway -----------------------------
(***************************************************************************)
(* createAipMcpGatewayRuntime(): handleLine() takes a JSON-RPC line        *)
(* through the policy stages of createRawTaskFromJsonRpc(), has the worker *)
(* session run it as a signed TASK, verifies the signed RESULT and answers.*)
(* Lines may be handled concurrently, every audit event is awaited, and    *)
(* the sink, like either verification, may fail.                           *)
(***************************************************************************)
EXTENDS Naturals, Sequences, FiniteSets

CONSTANTS RpcLines,       \* lines given to handleLine()
          TokenQuota,     \* tokens of the injected rate limiter
          MaxUpsets       \* bound on failing sinks and verifications

ASSUME McpGatewayAssumption == TokenQuota \in Nat /\ MaxUpsets \in Nat

(* What a line may be: text that is not JSON, JSON that is no request, a   *)
(* method off the list, one the caller may not use, or one it may.         *)
Kinds == {"text", "json", "unlisted", "unauthorised", "good"}

VARIABLES kind,      \* what each line turned out to be
          stage,     \* where each line is
          trail,     \* its audit events
          tokens,    \* tokens consumed
          worked,    \* lines whose task the worker has run
          answer,    \* the JSON-RPC answer, by error code
          upsets, sinkFailed

gwVars == <<kind, stage, trail, tokens, worked, answer, upsets, sinkFailed>>

(* The stages of a well-formed line; each but "work" ends in an event. *)
Pipeline == <<"received", "allowlist", "authorize", "rateLimit", "work", "verify",
              "success">>
NextStage(s) == Pipeline[(CHOOSE j \in DOMAIN Pipeline : Pipeline[j] = s) + 1]

McpGatewayInit ==
  /\ kind = [l \in RpcLines |-> "text"]
  /\ stage = [l \in RpcLines |-> "idle"]
  /\ trail = [l \in RpcLines |-> <<>>]
  /\ tokens = 0 /\ worked = {}
  /\ answer = [l \in RpcLines |-> "none"]
  /\ upsets = 0 /\ sinkFailed = {}

Advance(l, s) == stage' = [stage EXCEPT ![l] = s]
Log(l, event) == trail' = [trail EXCEPT ![l] = Append(@, event)]
Conclude(l, code) == /\ answer' = [answer EXCEPT ![l] = code]
                   /\ Advance(l, "done")

(* parseRequest(): throws on a line that is not JSON; JSON that is no      *)
(* request is answered without an id.                                      *)
Start(l) ==
  /\ stage[l] = "idle"
  /\ \E k \in Kinds :
       /\ kind' = [kind EXCEPT ![l] = k]
       /\ Advance(l, CASE k = "text" -> "thrown"
                       [] k = "json" -> "invalid"
                       [] OTHER -> "received")
  /\ UNCHANGED <<trail, tokens, worked, answer, upsets, sinkFailed>>

Invalid(l) ==
  /\ stage[l] = "invalid"
  /\ Log(l, <<"phase", "request_error">>)
  /\ Conclude(l, "invalid_request")
  /\ UNCHANGED <<kind, tokens, worked, upsets, sinkFailed>>

Received(l) ==
  /\ stage[l] = "received"
  /\ Log(l, <<"phase", "request_received">>)
  /\ Advance(l, "allowlist")
  /\ UNCHANGED <<kind, tokens, worked, answer, upsets, sinkFailed>>

(* Fault: the limiter is asked and its answer ignored. *)
StageAllowedAnyRate(l, s) ==
  CASE s = "allowlist" -> kind[l] # "unlisted"
    [] s = "authorize" -> kind[l] # "unauthorised"
    [] s = "rateLimit" -> TRUE

(* Whether a policy stage lets the line pass. *)
StageAllowed(l, s) ==
  CASE s = "allowlist" -> kind[l] # "unlisted"
    [] s = "authorize" -> kind[l] # "unauthorised"
    [] s = "rateLimit" -> tokens < TokenQuota

(* A denial is logged and thrown; the catch logs it again and answers with *)
(* the code of the stage.  The limiter has counted the line before the     *)
(* event is awaited.                                                       *)
Policy(l) ==
  /\ stage[l] \in {"allowlist", "authorize", "rateLimit"}
  /\ tokens' = IF stage[l] = "rateLimit" /\ StageAllowed(l, "rateLimit")
               THEN tokens + 1
               ELSE tokens
  /\ IF StageAllowed(l, stage[l])
     THEN Log(l, <<"allow", stage[l]>>) /\ Advance(l, NextStage(stage[l]))
     ELSE Log(l, <<"deny", stage[l]>>) /\ Advance(l, "thrown")
  /\ UNCHANGED <<kind, worked, answer, upsets, sinkFailed>>

(* worker.handleRaw(): receive, run onTask, sign the RESULT. *)
Work(l) ==
  /\ stage[l] = "work"
  /\ worked' = worked \cup {l}
  /\ Advance(l, "verify")
  /\ UNCHANGED <<kind, trail, tokens, answer, upsets, sinkFailed>>

Verify(l) ==
  /\ stage[l] = "verify"
  /\ Advance(l, "success")
  /\ UNCHANGED <<kind, trail, tokens, worked, answer, upsets, sinkFailed>>

Succeed(l) ==
  /\ stage[l] = "success"
  /\ Log(l, <<"phase", "request_success">>)
  /\ Conclude(l, "result")
  /\ UNCHANGED <<kind, tokens, worked, upsets, sinkFailed>>

(* The clock stepped past the window, so the worker did not answer or its  *)
(* answer does not verify.                                                 *)
Unverified(l) ==
  /\ stage[l] \in {"work", "verify"} /\ upsets < MaxUpsets
  /\ Log(l, <<"phase", "verification_failed">>)
  /\ Conclude(l, "internal")
  /\ upsets' = upsets + 1
  /\ UNCHANGED <<kind, tokens, worked, sinkFailed>>

(* catch: the code is read from the message of what was thrown. *)
Catch(l) ==
  /\ stage[l] = "thrown"
  /\ Conclude(l, IF trail[l] = <<>> \/ l \in sinkFailed
                 THEN "internal"
                 ELSE trail[l][Len(trail[l])][2])
  /\ Log(l, <<"phase", "request_error">>)
  /\ UNCHANGED <<kind, tokens, worked, upsets, sinkFailed>>

(* onAuditEvent throws: inside the try it is caught as an error of the     *)
(* request, in the catch handleLine() rejects.  A limiter that was asked   *)
(* has counted the line.                                                   *)
SinkFails(l) ==
  /\ stage[l] \in {"invalid", "received", "allowlist", "authorize", "rateLimit", "success",
                   "thrown"}
  /\ upsets < MaxUpsets
  /\ upsets' = upsets + 1
  /\ sinkFailed' = sinkFailed \cup {l}
  /\ tokens' = IF stage[l] = "rateLimit" /\ StageAllowed(l, "rateLimit")
               THEN tokens + 1
               ELSE tokens
  /\ IF stage[l] = "thrown"
     THEN Conclude(l, "rejected")
     ELSE Advance(l, "thrown") /\ UNCHANGED answer
  /\ UNCHANGED <<kind, trail, worked>>

HandleLine(l) ==
  \/ Start(l) \/ Invalid(l) \/ Received(l) \/ Policy(l)
  \/ Work(l) \/ Verify(l) \/ Succeed(l) \/ Catch(l)

McpGatewayNext ==
  \E l \in RpcLines : HandleLine(l) \/ Unverified(l) \/ SinkFails(l)

McpGatewaySpec ==
  /\ McpGatewayInit /\ [][McpGatewayNext]_gwVars
  /\ \A l \in RpcLines : WF_gwVars(HandleLine(l))

-----------------------------------------------------------------------------
McpGatewayTypeOK ==
  /\ tokens \in Nat
  /\ worked \subseteq RpcLines
  /\ upsets \in 0 .. MaxUpsets
  /\ \A l \in RpcLines : Len(trail[l]) <= Len(Pipeline)

(* mcpGateway.ts:201: a result leaves the gateway only when every stage    *)
(* allowed the line, in order, and every one of the events was taken by    *)
(* the sink, however lines interleave and sinks fail.                      *)
ResultFullyAudited ==
  \A l \in RpcLines : answer[l] = "result" =>
    /\ l \in worked
    /\ trail[l] = <<<<"phase", "request_received">>, <<"allow", "allowlist">>,
                    <<"allow", "authorize">>, <<"allow", "rateLimit">>,
                    <<"phase", "request_success">>>>

(* frameworkAdapters.ts:189: a task runs only for a line the limiter       *)
(* counted, so concurrent lines never run more tasks than there are tokens.*)
WorkWithinTokens ==
  /\ Cardinality(worked) <= TokenQuota
  /\ \A l \in worked : \E j \in DOMAIN trail[l] : trail[l][j] = <<"allow", "rateLimit">>

(* mcpGateway.ts:206: while its sink works a refused line ends in exactly  *)
(* one request_error, whose task never ran, and is answered with the code  *)
(* of the stage that refused it.                                           *)
RefusalIsFinal ==
  \A l \in RpcLines : stage[l] = "done" /\ l \notin sinkFailed =>
    \A j \in DOMAIN trail[l] : trail[l][j] = <<"phase", "request_error">> =>
      /\ j = Len(trail[l])
      /\ l \notin worked
      /\ \A k \in 1 .. j - 1 : trail[l][k][1] = "deny" => answer[l] = trail[l][k][2]

(* mcpGateway.ts:193: what a line is answered with is what the audit trail *)
(* says of it, and its task ran only with a token, even when lines         *)
(* interleave and the sink fails.                                          *)
AnswerMatchesTrail == ResultFullyAudited /\ WorkWithinTokens /\ RefusalIsFinal

(* mcpGateway.ts:126: every line handed to handleLine() is answered, or    *)
(* rejected because the sink failed twice.                                 *)
EveryLineAnswered == \A l \in RpcLines : stage[l] # "idle" ~> answer[l] # "none"
=============================================================================
