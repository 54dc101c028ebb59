---------------------------- MODULE ToolPinning -----------------------------
(***************************************************************************)
(* guardMcpClient() over a ToolGuard: tools/list and tools/call requests   *)
(* in progress together, against a server that changes its tools while     *)
(* pages of its list are on their way.                                     *)
(***************************************************************************)
EXTENDS Integers

CONSTANTS Requests,       \* requests in progress at once
          Names,          \* tool names
          Page,           \* [Names -> 1 .. Pages]: the page of the list it is on
          Pages,
          ToolTexts,      \* what a tool may say; a digest stands for its text
          Absent,         \* not listed
          Unfit,          \* listed twice on a page, nameless, or hiding characters
          Servers,
          Server,         \* expectedServer: the one this client talks to
          Approved,       \* server -> what was approved there: a text or Absent
          AllowUnpinned,  \* trust on first use
          MaxAge,         \* maxListAgeMs
          MaxPinTime,     \* bound on the clock
          MaxChanges      \* bound on the server's changes

ASSUME PinningAssumption ==
  /\ Pages \in Nat \ {0} /\ MaxAge \in Nat /\ MaxPinTime \in Nat /\ MaxChanges \in Nat
  /\ Page \in [Names -> 1 .. Pages] /\ AllowUnpinned \in BOOLEAN
  /\ Server \in Servers
  /\ Approved \in [Servers -> [Names -> ToolTexts \cup {Absent}]]
  /\ Absent # Unfit /\ {Absent, Unfit} \cap ToolTexts = {}

VARIABLES pinTime,
          served,         \* what the server lists for each name
          changes,
          pins,           \* the guard's map: a text or Absent
          verified,       \* the verdicts and when each was recorded
          verifiedAt,     \* end of the last sweep, NeverSwept before and after invalidate()
          request,        \* the requests in progress
          exposed         \* the tools handed to the model: <<name, text>>

pinVars == <<pinTime, served, changes, pins, verified, verifiedAt, request, exposed>>

NeverSwept == -1 - MaxAge
NoVerdict == [ok |-> FALSE, recorded |-> 0]
NoVerdicts == [n \in Names |-> NoVerdict]
NoRequest == [at |-> "idle", sweep |-> FALSE, name |-> {}, begun |-> 0, page |-> 1,
              listed |-> <<>>, fresh |-> NoVerdicts]

(* pinTools(): the pins of a server.  A tool that is nameless, listed      *)
(* twice or hiding characters is refused, so a pin is never Unfit.         *)
PinTools(s) == [server |-> s, pins |-> Approved[s]]

(* canonicalPins(): the version is a constant; the server and every pin    *)
(* are what a signature covers.                                            *)
CanonicalPins(set) == <<set.server, set.pins>>

SignToolPins(set) == [set |-> set, signature |-> CanonicalPins(set)]

(* Signed pin sets as they may reach a client: those of every server, and  *)
(* one set under the signature of another.                                 *)
PinDocuments ==
  {[set |-> [server |-> t, pins |-> Approved[u]],
    signature |-> SignToolPins(PinTools(s)).signature] : s, t, u \in Servers}

VerifyToolPins(doc) ==
  /\ doc.set.server = Server
  /\ doc.signature = CanonicalPins(doc.set)

(* new ToolGuard: the pins of a set that was verified *)
PinInit ==
  /\ pinTime = 0 /\ changes = 0
  /\ served \in [Names -> ToolTexts \cup {Absent}]
  /\ \E doc \in PinDocuments : VerifyToolPins(doc) /\ pins = doc.set.pins
  /\ \A n \in Names : Approved[Server][n] # Absent => served[n] = Approved[Server][n]
  /\ verified = NoVerdicts /\ verifiedAt = NeverSwept
  /\ request = [r \in Requests |-> NoRequest]
  /\ exposed = {}

(* inspect(): a listed tool is allowed when it is listed once, hides       *)
(* nothing and says what its pin says, or has no pin on trust-on-first-use.*)
Allowed(t, pin) ==
  /\ t \in ToolTexts
  /\ pin = t \/ (pin = Absent /\ AllowUnpinned)

Verdicts(q) ==
  [n \in {m \in DOMAIN q.listed : q.listed[m] # Absent} |->
     [ok |-> Allowed(q.listed[n], pins[n]), recorded |-> IF q.sweep THEN 0 ELSE pinTime]]

(* inspect(): an unpinned tool that is allowed is pinned as it is. *)
PinsAfter(listed) ==
  [n \in Names |-> IF n \in DOMAIN listed /\ Allowed(listed[n], pins[n])
                   THEN listed[n]
                   ELSE pins[n]]

Merge(m, vs) == [n \in Names |-> IF n \in DOMAIN vs THEN vs[n] ELSE m[n]]

-----------------------------------------------------------------------------
(* The server changes what it lists under a name. *)
ServerChanges(n, t) ==
  /\ changes < MaxChanges /\ served[n] # t
  /\ served' = [served EXCEPT ![n] = t]
  /\ changes' = changes + 1
  /\ UNCHANGED <<pinTime, pins, verified, verifiedAt, request, exposed>>

(* invalidate(), on the server's list_changed notification. *)
Invalidate ==
  /\ verifiedAt' = NeverSwept
  /\ UNCHANGED <<pinTime, served, changes, pins, verified, request, exposed>>

(* A tools/list request is passed on, for one page. *)
BeginList(r, p) ==
  /\ request[r].at = "idle"
  /\ request' = [request EXCEPT ![r] = [NoRequest EXCEPT !.at = "listing", !.page = p]]
  /\ UNCHANGED <<pinTime, served, changes, pins, verified, verifiedAt, exposed>>

(* A tools/call request: a sweep begins when the last one is too old.      *)
BeginCall(r, n) ==
  /\ request[r].at = "idle"
  /\ request' = [request EXCEPT ![r] = [NoRequest EXCEPT !.name = {n}, !.begun = pinTime,
       !.at = IF pinTime - verifiedAt >= MaxAge THEN "listing" ELSE "deciding",
       !.sweep = pinTime - verifiedAt >= MaxAge]]
  /\ UNCHANGED <<pinTime, served, changes, pins, verified, verifiedAt, exposed>>

(* The server answers with a page of its list as it stands. *)
PageArrives(r) ==
  /\ request[r].at = "listing"
  /\ request' = [request EXCEPT ![r].at = "inspecting",
       ![r].listed = [n \in {m \in Names : Page[m] = request[r].page} |-> served[n]]]
  /\ UNCHANGED <<pinTime, served, changes, pins, verified, verifiedAt, exposed>>

(* The list fails, or never ends: a sweep refuses its call, a tools/list   *)
(* is answered as it is.                                                   *)
ListFails(r) ==
  /\ request[r].at = "listing"
  /\ request' = [request EXCEPT ![r] = NoRequest]
  /\ UNCHANGED <<pinTime, served, changes, pins, verified, verifiedAt, exposed>>

(* A page of a sweep is inspected.  The last page replaces the verdicts    *)
(* and stamps them.                                                        *)
SweepInspected(r) ==
  LET q == request[r]
      fresh == Merge(q.fresh, Verdicts(q))
  IN
  /\ q.at = "inspecting" /\ q.sweep
  /\ pins' = PinsAfter(q.listed)
  /\ IF q.page = Pages
     THEN /\ verified' = [n \in Names |-> [fresh[n] EXCEPT !.recorded = pinTime]]
          /\ verifiedAt' = pinTime
          /\ request' = [request EXCEPT ![r].at = "deciding", ![r].listed = <<>>,
                                        ![r].fresh = NoVerdicts]
     ELSE /\ request' = [request EXCEPT ![r].at = "listing", ![r].page = @ + 1,
                                        ![r].listed = <<>>, ![r].fresh = fresh]
          /\ UNCHANGED <<verified, verifiedAt>>
  /\ UNCHANGED <<pinTime, served, changes, exposed>>

(* Fault: a single list stamps all the verdicts. *)
ListInspectedStamps(r) ==
  LET q == request[r] IN
  /\ q.at = "inspecting" /\ ~q.sweep
  /\ pins' = PinsAfter(q.listed)
  /\ verified' = Merge(verified, Verdicts(q)) /\ verifiedAt' = pinTime
  /\ exposed' = exposed \cup
       {<<n, q.listed[n]>> : n \in {m \in DOMAIN q.listed : Allowed(q.listed[m], pins[m])}}
  /\ request' = [request EXCEPT ![r] = NoRequest]
  /\ UNCHANGED <<pinTime, served, changes>>

(* The page of a tools/list is inspected: its verdicts join the others     *)
(* without a stamp, and the allowed tools are returned.                    *)
ListInspected(r) ==
  LET q == request[r] IN
  /\ q.at = "inspecting" /\ ~q.sweep
  /\ pins' = PinsAfter(q.listed)
  /\ verified' = Merge(verified, Verdicts(q))
  /\ exposed' = exposed \cup
       {<<n, q.listed[n]>> : n \in {m \in DOMAIN q.listed : Allowed(q.listed[m], pins[m])}}
  /\ request' = [request EXCEPT ![r] = NoRequest]
  /\ UNCHANGED <<pinTime, served, changes, verifiedAt>>

(* The verdict of the tool decides: the call is forwarded, or blocked when *)
(* there is none or it says so.                                            *)
DecideCall(r) ==
  /\ request[r].at = "deciding"
  /\ request' = [request EXCEPT ![r] = NoRequest]
  /\ UNCHANGED <<pinTime, served, changes, pins, verified, verifiedAt, exposed>>

PinLater ==
  /\ pinTime < MaxPinTime
  /\ pinTime' = pinTime + 1
  /\ UNCHANGED <<served, changes, pins, verified, verifiedAt, request, exposed>>

PinNext ==
  \/ \E n \in Names, t \in ToolTexts \cup {Absent, Unfit} : ServerChanges(n, t)
  \/ Invalidate \/ PinLater
  \/ \E r \in Requests :
       \/ \E p \in 1 .. Pages : BeginList(r, p)
       \/ \E n \in Names : BeginCall(r, n)
       \/ PageArrives(r) \/ ListFails(r) \/ SweepInspected(r) \/ ListInspected(r)
       \/ DecideCall(r)

PinSpec == PinInit /\ [][PinNext]_pinVars

-----------------------------------------------------------------------------
PinTypeOK ==
  /\ pinTime \in 0 .. MaxPinTime /\ changes \in 0 .. MaxChanges
  /\ served \in [Names -> ToolTexts \cup {Absent, Unfit}]
  /\ pins \in [Names -> ToolTexts \cup {Absent}]
  /\ verifiedAt \in {NeverSwept} \cup 0 .. MaxPinTime
  /\ \A r \in Requests :
       /\ request[r].at \in {"idle", "listing", "inspecting", "deciding"}
       /\ request[r].at # "idle" /\ request[r].name # {} =>
            \E n \in Names : request[r].name = {n}

(* mcpToolPinning.ts:335: a call that is forwarded rests on a verdict that *)
(* was recorded since the call began or less than MaxAge before, even when *)
(* sweeps and lists of other requests overwrite each other's verdicts.     *)
Forwards(r, n) == request[r].at = "deciding" /\ request[r].name = {n} /\ verified[n].ok

ForwardedOnRecentVerdict ==
  \A r \in Requests, n \in Names :
    Forwards(r, n) => \/ verified[n].recorded >= request[r].begun
                      \/ request[r].begun - verified[n].recorded < MaxAge

(* mcpToolPinning.ts:272: whatever was handed to the model says what its   *)
(* pin says, which is what was approved for this server if anything was,   *)
(* and no pin ever changes, so two inspections in progress can not trust   *)
(* two texts of one tool.                                                  *)
ExposedIsPinned ==
  \A x \in exposed :
    pins[x[1]] = x[2] /\ Approved[Server][x[1]] \in {x[2], Absent}

(* mcpToolPinning.ts:368: while sweeps, lists and calls overlap and the    *)
(* server changes its tools, the model is shown and may call only tools    *)
(* that were recently found to be what was pinned.                         *)
PinnedToolsOnly == ForwardedOnRecentVerdict /\ ExposedIsPinned
=============================================================================
