----------------------------- MODULE MCExchange -----------------------------
(* Mandates, the rate limiter, MCP and the replay cache share nothing; a   *)
(* behaviour is about one of them.                                         *)
EXTENDS Mandate, RateLimiter, McpChannel, McpGateway, InMemoryReplayCache, TLC

CONSTANTS i1, i2, i3

VARIABLE part      \* the part of the system this behaviour is about

(* One intent with a ceiling that two of its payments exceed together. *)
Payment(id, amount) == [id |-> id, amount |-> amount, valid |-> TRUE]
Small == Payment(i1, 2)
Large == Payment(i2, 4)
OtherLarge == Payment(i3, 3)
MCPayments == {Small, Large, OtherLarge, [Small EXCEPT !.valid = FALSE]}
MCGrants ==
  {[for |-> Large, genuine |-> TRUE], [for |-> Large, genuine |-> FALSE],
   [for |-> OtherLarge, genuine |-> TRUE]}

OnePolicy == {[requests |-> 2, windowMs |-> 2]}

(* A caller's nowMs is its own: time may run backwards between calls. *)
MCExpiries == 1 .. 3
MCInstants == {0, 2}

mcVars == <<part, vars, limiterVars, mcpVars, gwVars, heapVars>>

MCInit ==
  /\ part \in {"mandate", "limiter", "mcp", "line", "heap"}
  /\ Init
  /\ LimiterInit
  /\ McpInit
  /\ McpGatewayInit
  /\ HeapInit
  /\ part # "mcp" => carrier = "stdio"

(* Parts that come to an end: a bound is reached or nothing is left to do. *)
Stops == part \in {"mcp", "line", "mandate"} /\ UNCHANGED mcVars

MCNext ==
  \/ /\ part = "mandate" /\ Next
     /\ UNCHANGED <<part, limiterVars, mcpVars, gwVars, heapVars>>
  \/ /\ part = "limiter" /\ LimiterNext
     /\ UNCHANGED <<part, vars, mcpVars, gwVars, heapVars>>
  \/ /\ part = "mcp" /\ McpNext
     /\ UNCHANGED <<part, vars, limiterVars, gwVars, heapVars>>
  \/ /\ part = "line" /\ McpGatewayNext
     /\ UNCHANGED <<part, vars, limiterVars, mcpVars, heapVars>>
  \/ /\ part = "heap" /\ HeapNext
     /\ UNCHANGED <<part, vars, limiterVars, mcpVars, gwVars>>
  \/ Stops

(* Every await settles and its caller acts on the answer; a process that
   has a line to read reads it. *)
MCFairness ==
  /\ \A c \in Presentations : WF_vars(part = "mandate" /\ Progress(c))
  /\ WF_mcpVars(part = "mcp" /\ Serve)
  /\ WF_mcpVars(part = "mcp" /\ ReadLine)
  /\ \A c \in Calls : WF_mcpVars(part = "mcp" /\ Decode(c))
  /\ \A l \in RpcLines : WF_gwVars(part = "line" /\ HandleLine(l))

MCSpec == MCInit /\ [][MCNext]_mcVars /\ MCFairness

(* The variables of every part have their types, and what is kept in two   *)
(* structures agrees: the limiter's windows with their order, the replay   *)
(* cache's Map with its heap.                                              *)
PartsConsistent ==
  /\ TypeOK /\ LimiterTypeOK /\ McpTypeOK /\ McpGatewayTypeOK /\ HeapTypeOK
  /\ BoundedTracking
  /\ HeapMatchesEntries /\ HeapOrdered /\ WithinCapacity

(* Whatever waits is answered: a reservation is charged or given back      *)
(* (mandate.ts:534), a call ends (mcpTransports.ts:69), a line is answered *)
(* (mcpGateway.ts:126), each up to the exceptions its property names.      *)
EverythingSettles == ReservationSettles /\ EveryCallEnds /\ EveryLineAnswered
=============================================================================
