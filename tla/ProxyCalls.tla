----------------------------- MODULE ProxyCalls -----------------------------
(***************************************************************************)
(* Governed calls: the tools/call, prompts/get and resources/read handlers *)
(* of createProxyServer (packages/core/src/core.ts), the middleware        *)
(* pipeline they run (middleware.ts), the policy engine and the consent    *)
(* gate in it, the delegation chain along calls that agents behind the     *)
(* proxy make in turn, and the telemetry of each call.                     *)
(*                                                                         *)
(* A call is one request.  Its pipeline is a sequence of middleware,       *)
(* outermost first, and behind the last one the terminal handler; frame    *)
(* and result say where each stands.  An action is what one middleware     *)
(* does between two awaits.                                                *)
(*                                                                         *)
(* The audit middleware is here an observer that sees the call's outcome;  *)
(* its trail and its failures are AuditSession.                            *)
(***************************************************************************)
EXTENDS Integers, Sequences, FiniteSets

CONSTANTS
  Call,
  Session,
  None,            \* `undefined`
  Star, NaN,       \* see Policy
  Scheme,          \* see MeshNames
  RolesOf,         \* identity -> roles
  AgentOf,         \* backend key -> the identity under which that backend, an agent,
                   \* calls in turn; None: it never does
  MaxChainEntries,
  Configuration,   \* the options of a proxy and its middleware, with `requests`, what
                   \* its clients ask: [kind, name, identity, session, payload]
  Depth            \* the length of the longest pipeline

INSTANCE Policy
INSTANCE Delegation
INSTANCE MeshNames

(***************************************************************************)
(* What the proofs take for granted.  The host puts the middleware of one  *)
(* policy and one audit handle at most once into a pipeline.               *)
(***************************************************************************)
MiddlewareName == {"audit", "policy", "consent", "host"}

AtMostOnce(mws, name) ==
  \A i, j \in DOMAIN mws : mws[i] = name /\ mws[j] = name => i = j

ASSUME DepthAssumption == Depth \in Nat
ASSUME CallAssumption == IsFiniteSet(Call)
ASSUME NoneAssumption ==
  None \notin Nat \cup Session \cup {"allow", "deny", "DELEGATION_INVALID"}
ASSUME ConfigurationAssumption ==
  \A k \in Configuration :
    /\ k.policy.budget \in Nat \cup {None, NaN}
    /\ \A mws \in {k.toolMiddleware, k.promptMiddleware, k.resourceMiddleware} :
         /\ mws \in Seq(MiddlewareName) /\ Len(mws) <= Depth
         /\ AtMostOnce(mws, "policy") /\ AtMostOnce(mws, "audit")
    /\ \A r \in k.requests :
         /\ DOMAIN r = {"kind", "name", "identity", "session", "payload"}
         /\ r.kind \in {"tool", "prompt", "resource"}
         /\ r.payload.array =>
              LET chain == r.payload.chain IN chain \in Seq({chain[i] : i \in DOMAIN chain})

VARIABLES
  config,          \* the configuration in use
  \* one call
  req, parent,     \* the request; the call its sender was serving, if any
  pipeline,        \* its middleware, chosen when the handler starts; None before
  index,           \* compose: the last position dispatched, or -1
  frame, result,   \* per position of the pipeline
  policy,          \* ctx.policy; NoDecision before there is one
  audited,         \* what the audit middleware recorded
  telemetry,       \* the tool_call events emitted
  settled,         \* the handler returned or threw
  sent,            \* what went upstream, in order
  \* shared
  live,            \* sessions that have not ended
  callCounts,      \* policy: session -> calls counted; None: no entry
  consented,       \* the host's record: pairs of an identity and a name
  \* for the properties only
  sawConsent,      \* the calls for which the host's record said yes
  released,        \* calls counted before their session's counter was dropped
  straddling       \* calls that were under way when their session ended

requestVars == <<req, parent, pipeline>>
reportVars == <<audited, telemetry, settled>>
callVars == <<requestVars, index, frame, result, policy, reportVars, sent>>
hostVars == <<consented, sawConsent>>
budgetVars == <<callCounts, released>>
sessionVars == <<live, straddling>>
sharedVars == <<hostVars, budgetVars, sessionVars>>
vars == <<config, callVars, sharedVars>>

RejectionReason ==
  {"TOOL_HIDDEN", "RESOURCE_HIDDEN", "BACKEND_UNROUTABLE", "POLICY_DENIED",
   "IDENTITY_UNRESOLVED", "CONSENT_MISSING", "SENSITIVITY_BLOCKED",
   "DELEGATION_INVALID", "BUDGET_EXCEEDED", "SESSION_LIMIT", "BODY_LIMIT"}

(***************************************************************************)
(* How a call or a middleware may end: with a result (a CallToolResult or  *)
(* its legacy shape, one that says isError, none at all) or with an error  *)
(* (plain, with a reason mcpose does not know, with one it knows).         *)
(***************************************************************************)
Result == {"ok", "isError", "none", "thrown", "foreign"} \cup RejectionReason

\* An upstream that is a proxy itself may answer with a rejection.
UpstreamResult == {"ok", "isError", "foreign", "POLICY_DENIED"}
LocalResult == {"ok", "none", "thrown"}

NoDecision == [decision |-> None, ruleId |-> None, reason |-> None]

Position == 0..Depth
Surface == [tool |-> "tools", prompt |-> "prompts", resource |-> "resources"]
Keys(kind) == config.keys[Surface[kind]]

(***************************************************************************)
(* The pipeline of a call.                                                 *)
(***************************************************************************)
\* pipe: an options array has the innermost middleware first.
Pipe(s) == [i \in DOMAIN s |-> s[Len(s) + 1 - i]]

\* Marked by markPassThroughObserver.
IsPassThroughObserver(mw) == mw = "audit"

\* Those of s that are marked, in their order: audit, as often as it is there.
Observers(s) ==
  [i \in 1..Cardinality({j \in DOMAIN s : IsPassThroughObserver(s[j])}) |-> "audit"]

IsHidden(r) == r.kind = "tool" /\ r.name \in config.hidden
IsLocal(r) == r.kind = "tool" /\ ~IsHidden(r) /\ r.name \in config.local

\* Defect: a pass-through entry also frees a hidden tool.
PipelineFor_HiddenToo(r) ==
  CASE r.kind = "tool" ->
         IF ~IsLocal(r) /\ r.name \in config.passThrough
         THEN Pipe(Observers(config.toolMiddleware))
         ELSE Pipe(config.toolMiddleware)
    [] r.kind = "prompt" -> Pipe(config.promptMiddleware)
    [] r.kind = "resource" ->
         IF r.name \in config.passThroughResources THEN <<>>
         ELSE Pipe(config.resourceMiddleware)

\* Defect: a pass-through entry also frees a hidden or a local tool.
PipelineFor_NameOnly(r) ==
  CASE r.kind = "tool" ->
         IF r.name \in config.passThrough
         THEN Pipe(Observers(config.toolMiddleware))
         ELSE Pipe(config.toolMiddleware)
    [] r.kind = "prompt" -> Pipe(config.promptMiddleware)
    [] r.kind = "resource" ->
         IF r.name \in config.passThroughResources THEN <<>>
         ELSE Pipe(config.resourceMiddleware)

\* Pass-through applies to what goes upstream only.
PipelineFor(r) ==
  CASE r.kind = "tool" ->
         IF ~IsHidden(r) /\ ~IsLocal(r) /\ r.name \in config.passThrough
         THEN Pipe(Observers(config.toolMiddleware))
         ELSE Pipe(config.toolMiddleware)
    [] r.kind = "prompt" -> Pipe(config.promptMiddleware)
    [] r.kind = "resource" ->
         IF r.name \in config.passThroughResources THEN <<>>
         ELSE Pipe(config.resourceMiddleware)

Terminal(c) == Len(pipeline[c])
Middleware(c, i) == IF i < Terminal(c) THEN pipeline[c][i + 1] ELSE "terminal"

At(c, i, mw, status) == frame[c][i] = status /\ Middleware(c, i) = mw

---------------------------------------------------------------------------
Init ==
  /\ config \in {k \in Configuration : Accepted(k.policy)}
  /\ req = [c \in Call |-> None]
  /\ parent = [c \in Call |-> None]
  /\ pipeline = [c \in Call |-> None]
  /\ index = [c \in Call |-> -1]
  /\ frame = [c \in Call |-> [i \in Position |-> "idle"]]
  /\ result = [c \in Call |-> [i \in Position |-> None]]
  /\ policy = [c \in Call |-> NoDecision]
  /\ audited = [c \in Call |-> None]
  /\ telemetry = [c \in Call |-> <<>>]
  /\ settled = [c \in Call |-> FALSE]
  /\ sent = [c \in Call |-> <<>>]
  /\ live = Session
  /\ callCounts = [s \in Session |-> None]
  /\ consented = config.consented
  /\ sawConsent = {}
  /\ released = {}
  /\ straddling = {}

(***************************************************************************)
(* A request comes in.  The session is looked up now and the handler runs  *)
(* later, after validateSession: it may have ended by then.  A proxy       *)
(* without the surface answers without a handler.                          *)
(***************************************************************************)
Ask(c, r, p) ==
  /\ req[c] = None
  /\ r.session # None => r.session \in live
  /\ Keys(r.kind) # {} \/ (r.kind = "tool" /\ config.local # {})
  /\ req' = [req EXCEPT ![c] = r]
  /\ parent' = [parent EXCEPT ![c] = p]
  /\ UNCHANGED <<config, pipeline, index, frame, result, policy, reportVars, sent, sharedVars>>

ClientAsks(c, r) == r \in config.requests /\ Ask(c, r, None)

\* An agent behind the proxy, serving call p, calls in turn, as itself and with the
\* chain it was sent.
AgentAsks(c, p, r) ==
  /\ r \in config.requests
  /\ req[p] # None /\ "calling" \in {frame[p][i] : i \in Position}
  /\ sent[p] # <<>> /\ AgentOf[sent[p][1].key] # None
  /\ Ask(c, [r EXCEPT !.identity = AgentOf[sent[p][1].key], !.payload = sent[p][1].payload], p)

\* The handler starts: a hidden resource is refused before any pipeline.
Handle(c) ==
  /\ req[c] # None /\ index[c] = -1 /\ ~settled[c]
  /\ IF req[c].kind = "resource" /\ req[c].name \in config.hiddenResources
     THEN /\ settled' = [settled EXCEPT ![c] = TRUE]
          /\ UNCHANGED <<pipeline, index, frame>>
     ELSE /\ pipeline' = [pipeline EXCEPT ![c] = PipelineFor(req[c])]
          /\ index' = [index EXCEPT ![c] = 0]
          /\ frame' = [frame EXCEPT ![c][0] = "running"]
          /\ UNCHANGED settled
  /\ UNCHANGED <<config, req, parent, result, policy, audited, telemetry, sent, sharedVars>>

(***************************************************************************)
(* compose.                                                                *)
(***************************************************************************)
\* Defect: only positions before the last one count as dispatched.
AlreadyDispatched_OffByOne(c, i) == i < index[c]

AlreadyDispatched(c, i) == i <= index[c]

End(c, i, r) ==
  /\ frame' = [frame EXCEPT ![c][i] = "done"]
  /\ result' = [result EXCEPT ![c][i] = r]

\* The middleware at i calls next.  If it was called before, the call rejects, and the
\* middleware with it.
CallNext(c, i) ==
  IF AlreadyDispatched(c, i + 1)
  THEN End(c, i, "thrown") /\ UNCHANGED index
  ELSE /\ index' = [index EXCEPT ![c] = i + 1]
       /\ frame' = [frame EXCEPT ![c][i] = IF @ = "done" THEN "done" ELSE "awaiting",
                                 ![c][i + 1] = "running"]
       /\ UNCHANGED result

\* What next returned is returned.
PassOn(c, i) == End(c, i, result[c][i + 1])

Answered(c, i) == frame[c][i] = "awaiting" /\ frame[c][i + 1] = "done"

(***************************************************************************)
(* The policy gate.                                                        *)
(***************************************************************************)
Counted(c) == policy[c].decision = "allow"
Used(s) == IF callCounts[s] = None THEN 0 ELSE callCounts[s]

Metered(r) == config.policy.budget # None /\ r.session # None

Refuse(c, i, decision) ==
  /\ policy' = [policy EXCEPT ![c] = decision]
  /\ End(c, i, decision.reason)
  /\ UNCHANGED <<index, callCounts>>

\* Defect: the count is read at the gate and written when the call returns, so
\* concurrent calls read the same one.
PolicyGate_CountsLate(c, i) ==
  LET r == req[c]
      decision == Evaluate(config.policy, r.name, r.identity)
  IN /\ At(c, i, "policy", "running")
     /\ IF decision.decision = "deny" THEN Refuse(c, i, decision)
        ELSE IF Metered(r) /\ Used(r.session) >= config.policy.budget
        THEN Refuse(c, i, Deny("BUDGET_EXCEEDED", None))
        ELSE /\ policy' = [policy EXCEPT ![c] = decision]
             /\ UNCHANGED callCounts
             /\ CallNext(c, i)
     /\ UNCHANGED <<config, requestVars, reportVars, sent, hostVars, released, sessionVars>>

\* gate: evaluate, spendBudget, stamp, next, without an await.
PolicyGate(c, i) ==
  LET r == req[c]
      decision == Evaluate(config.policy, r.name, r.identity)
  IN /\ At(c, i, "policy", "running")
     /\ IF decision.decision = "deny" THEN Refuse(c, i, decision)
        ELSE IF Metered(r) /\ Used(r.session) >= config.policy.budget
        THEN Refuse(c, i, Deny("BUDGET_EXCEEDED", None))
        ELSE /\ policy' = [policy EXCEPT ![c] = decision]
             /\ callCounts' = IF Metered(r)
                              THEN [callCounts EXCEPT ![r.session] = Used(r.session) + 1]
                              ELSE callCounts
             /\ CallNext(c, i)
     /\ UNCHANGED <<config, requestVars, reportVars, sent, hostVars, released, sessionVars>>

(***************************************************************************)
(* The consent gate.                                                       *)
(***************************************************************************)
ConsentAsked(c, i) ==
  /\ At(c, i, "consent", "running")
  /\ IF req[c].identity = None
     THEN End(c, i, "CONSENT_MISSING")
     ELSE frame' = [frame EXCEPT ![c][i] = "asking"] /\ UNCHANGED result
  /\ UNCHANGED <<config, requestVars, index, policy, reportVars, sent, sharedVars>>

\* The resolver reads the host's record; its answer is on its way.  It may answer no
\* with something that is not a boolean.
ConsentResolved(c, i, answer) ==
  /\ At(c, i, "consent", "asking")
  /\ LET granted == <<req[c].identity, req[c].name>> \in consented IN
     /\ answer \in IF granted THEN {"true"} ELSE {"false", "truthy"}
     /\ sawConsent' = IF granted THEN sawConsent \cup {c} ELSE sawConsent
  /\ frame' = [frame EXCEPT ![c][i] = answer]
  /\ UNCHANGED <<config, requestVars, index, result, policy, reportVars,
                 sent, consented, budgetVars, sessionVars>>

\* The resolver throws or rejects.
ConsentUnavailable(c, i) ==
  /\ At(c, i, "consent", "asking")
  /\ End(c, i, "CONSENT_MISSING")
  /\ UNCHANGED <<config, requestVars, index, policy, reportVars, sent, sharedVars>>

\* Defect: anything but false is a grant.
ConsentGate_Truthy(c, i, answer) ==
  /\ At(c, i, "consent", answer)
  /\ IF answer # "false" THEN CallNext(c, i)
     ELSE End(c, i, "CONSENT_MISSING") /\ UNCHANGED index
  /\ UNCHANGED <<config, requestVars, policy, reportVars, sent, sharedVars>>

ConsentGate(c, i, answer) ==
  /\ At(c, i, "consent", answer)
  /\ IF answer = "true" THEN CallNext(c, i)
     ELSE End(c, i, "CONSENT_MISSING") /\ UNCHANGED index
  /\ UNCHANGED <<config, requestVars, policy, reportVars, sent, sharedVars>>

ConsentWithdrawn(pair) ==
  /\ pair \in consented
  /\ consented' = consented \ {pair}
  /\ UNCHANGED <<config, callVars, sawConsent, budgetVars, sessionVars>>

\* Both gates return what next returned.
GateReturns(c, i) ==
  /\ At(c, i, "policy", "awaiting") \/ At(c, i, "consent", "awaiting")
  /\ Answered(c, i)
  /\ PassOn(c, i)
  /\ UNCHANGED <<config, requestVars, index, policy, reportVars, sent, sharedVars>>

(***************************************************************************)
(* Audit, and a middleware of the host.                                    *)
(***************************************************************************)
AuditEnters(c, i) ==
  /\ At(c, i, "audit", "running")
  /\ CallNext(c, i)
  /\ UNCHANGED <<config, requestVars, policy, reportVars, sent, sharedVars>>

Report(outcome, reason) == [outcome |-> outcome, reason |-> reason]

\* Defect: an error whose reason mcpose does not know counts as a rejection.
AuditOutcome_ForeignReason(kind, r) ==
  IF r \in RejectionReason \cup {"foreign"} THEN Report("rejected", r)
  ELSE IF r \in {"thrown", "none"} \/ (kind = "tool" /\ r = "isError")
  THEN Report("error", None) ELSE Report("success", None)

\* The audit middleware's judgement, isError for tools only.
AuditOutcome(kind, r) ==
  IF r \in RejectionReason THEN Report("rejected", r)
  ELSE IF r \in {"thrown", "foreign", "none"} \/ (kind = "tool" /\ r = "isError")
  THEN Report("error", None) ELSE Report("success", None)

AuditReturns(c, i) ==
  /\ At(c, i, "audit", "awaiting")
  /\ Answered(c, i)
  /\ PassOn(c, i)
  /\ audited' = [audited EXCEPT ![c] = AuditOutcome(req[c].kind, result[c][i + 1])]
  /\ UNCHANGED <<config, requestVars, index, policy, telemetry, settled, sent, sharedVars>>

\* A middleware of the host calls next: once, again while the first is pending, or for
\* the first time after it has answered.
HostCallsNext(c, i) ==
  /\ \/ At(c, i, "host", "running") \/ At(c, i, "host", "awaiting")
     \/ At(c, i, "host", "done") /\ index[c] = i
  /\ CallNext(c, i)
  /\ UNCHANGED <<config, requestVars, policy, reportVars, sent, sharedVars>>

\* It answers by itself, without next or without waiting for it, with a result or none.
HostAnswers(c, i, r) ==
  /\ At(c, i, "host", "running") \/ At(c, i, "host", "awaiting")
  /\ End(c, i, r)
  /\ UNCHANGED <<config, requestVars, index, policy, reportVars, sent, sharedVars>>

HostReturns(c, i) ==
  /\ At(c, i, "host", "awaiting")
  /\ Answered(c, i)
  /\ PassOn(c, i)
  /\ UNCHANGED <<config, requestVars, index, policy, reportVars, sent, sharedVars>>

(***************************************************************************)
(* The terminal handler.                                                   *)
(***************************************************************************)
\* Where an exposed name leads, or None.
Routed(r) ==
  IF ~config.mesh THEN [key |-> <<>>, name |-> r.name]
  ELSE IF r.kind = "resource" THEN RouteResourceUri(r.name, Keys(r.kind))
  ELSE RouteNamespaced(r.name, Keys(r.kind))

\* Why a call does not go upstream, or None.
Refusal(r) ==
  CASE DelegationInvalid(r.payload, r.identity) -> "DELEGATION_INVALID"
    [] ~DelegationInvalid(r.payload, r.identity) /\ IsHidden(r) -> "TOOL_HIDDEN"
    [] OTHER ->
         IF IsLocal(r) THEN None
         ELSE IF Routed(r) = None THEN "BACKEND_UNROUTABLE"
         ELSE IF Routed(r).key \notin Keys(r.kind) THEN "thrown" ELSE None

Refused(c, i) ==
  /\ At(c, i, "terminal", "running")
  /\ Refusal(req[c]) # None
  /\ End(c, i, Refusal(req[c]))
  /\ UNCHANGED <<config, requestVars, index, policy, reportVars, sent, sharedVars>>

\* stripRequest, then attachDelegationMeta.
Outbound(r) ==
  Attach(IF config.strip THEN NoPayload ELSE r.payload,
         OutboundChain(ReadInbound(r.payload).chain, r.identity))

Forward(c, i) ==
  /\ At(c, i, "terminal", "running")
  /\ Refusal(req[c]) = None /\ ~IsLocal(req[c])
  /\ sent' = [sent EXCEPT ![c] = Append(@, [key |-> Routed(req[c]).key,
                                            name |-> Routed(req[c]).name,
                                            payload |-> Outbound(req[c])])]
  /\ frame' = [frame EXCEPT ![c][i] = "calling"]
  /\ UNCHANGED <<config, requestVars, index, result, policy, reportVars, sharedVars>>

\* A local tool's handler starts.
RunLocal(c, i) ==
  /\ At(c, i, "terminal", "running")
  /\ Refusal(req[c]) = None /\ IsLocal(req[c])
  /\ frame' = [frame EXCEPT ![c][i] = "local"]
  /\ UNCHANGED <<config, requestVars, index, result, policy, reportVars, sent, sharedVars>>

Answers(c, i, r) ==
  /\ \/ At(c, i, "terminal", "calling") /\ r \in UpstreamResult
     \/ At(c, i, "terminal", "local") /\ r \in LocalResult
  /\ End(c, i, r)
  /\ UNCHANGED <<config, requestVars, index, policy, reportVars, sent, sharedVars>>

\* Defect: a result that is none is a success.
Outcome_NoneIsSuccess(r) ==
  IF r \in RejectionReason THEN Report("rejected", r)
  ELSE IF r \in {"thrown", "foreign", "isError"} THEN Report("error", None)
  ELSE Report("success", None)

\* The handler's judgement of a tool call, for telemetry.
Outcome(r) ==
  IF r \in RejectionReason THEN Report("rejected", r)
  ELSE IF r \in {"thrown", "foreign", "isError", "none"} THEN Report("error", None)
  ELSE Report("success", None)

\* The pipeline has answered: the handler emits telemetry and returns or rethrows.
Settle(c) ==
  /\ req[c] # None /\ ~settled[c] /\ frame[c][0] = "done"
  /\ settled' = [settled EXCEPT ![c] = TRUE]
  /\ telemetry' = IF req[c].kind = "tool"
                  THEN [telemetry EXCEPT ![c] = Append(@, Outcome(result[c][0]))]
                  ELSE telemetry
  /\ UNCHANGED <<config, requestVars, index, frame, result, policy, audited, sent, sharedVars>>

(***************************************************************************)
(* A session ends: onSessionClosed calls evictSession.                     *)
(***************************************************************************)
\* Defect: nothing is dropped.
EvictSession_NoOp(s) == UNCHANGED budgetVars

EvictSession(s) ==
  /\ callCounts' = [callCounts EXCEPT ![s] = None]
  /\ released' = released \cup {c \in Call : req[c] # None /\ req[c].session = s /\ Counted(c)}

\* Calls that were let in are not stopped.
SessionEnds(s) ==
  /\ s \in live
  /\ live' = live \ {s}
  /\ straddling' = straddling \cup
       {c \in Call : req[c] # None /\ req[c].session = s /\ ~Counted(c)}
  /\ EvictSession(s)
  /\ UNCHANGED <<config, callVars, hostVars>>

GateStep(c, i) ==
  \/ PolicyGate(c, i)
  \/ ConsentAsked(c, i)
  \/ \E answer \in {"true", "false", "truthy"} :
       ConsentResolved(c, i, answer) \/ ConsentGate(c, i, answer)
  \/ ConsentUnavailable(c, i)
  \/ GateReturns(c, i)

ObserverStep(c, i) ==
  \/ AuditEnters(c, i)
  \/ AuditReturns(c, i)
  \/ HostCallsNext(c, i)
  \/ \E r \in {"ok", "none"} : HostAnswers(c, i, r)
  \/ HostReturns(c, i)

TerminalStep(c, i) ==
  \/ Refused(c, i)
  \/ Forward(c, i)
  \/ RunLocal(c, i)
  \/ \E r \in Result : Answers(c, i, r)

Next ==
  \/ \E c \in Call :
       \/ \E r \in config.requests : ClientAsks(c, r) \/ \E p \in Call : AgentAsks(c, p, r)
       \/ Handle(c)
       \/ \E i \in Position : GateStep(c, i) \/ ObserverStep(c, i) \/ TerminalStep(c, i)
       \/ Settle(c)
  \/ \E pair \in consented : ConsentWithdrawn(pair)
  \/ \E s \in Session : SessionEnds(s)

Spec == Init /\ [][Next]_vars

---------------------------------------------------------------------------
(***************************************************************************)
(* Properties.                                                             *)
(***************************************************************************)
ToolCallReport ==
  [outcome : {"success", "error"}, reason : {None}]
    \cup [outcome : {"rejected"}, reason : RejectionReason]

TypeOK ==
  /\ config \in Configuration
  /\ \A c \in Call : req[c] # None => req[c].kind \in {"tool", "prompt", "resource"}
  /\ parent \in [Call -> Call \cup {None}]
  /\ index \in [Call -> {-1} \cup Position]
  /\ frame \in [Call -> [Position ->
       {"idle", "running", "asking", "true", "false", "truthy", "awaiting", "calling",
        "local", "done"}]]
  /\ result \in [Call -> [Position -> Result \cup {None}]]
  /\ audited \in [Call -> ToolCallReport \cup {None}]
  /\ \A c \in Call : {telemetry[c][i] : i \in DOMAIN telemetry[c]} \subseteq ToolCallReport
  /\ settled \in [Call -> BOOLEAN]
  /\ live \subseteq Session
  /\ callCounts \in [Session -> Nat \cup {None}]
  /\ consented \subseteq config.consented
  /\ sawConsent \subseteq Call /\ released \subseteq Call /\ straddling \subseteq Call

\* A request goes upstream at most once, whatever a middleware does with next: calls it
\* again, calls it after it answered, answers while it is pending (compose).
UpstreamOnce == \A c \in Call : Len(sent[c]) <= 1

Reached(c) == pipeline[c] # None /\ index[c] = Terminal(c)

\* The middleware the options put around a request: pass-through concerns what goes
\* upstream as it is, never a hidden or a local tool.
InForce(r) ==
  LET mws == CASE r.kind = "tool" -> config.toolMiddleware
               [] r.kind = "prompt" -> config.promptMiddleware
               [] r.kind = "resource" -> config.resourceMiddleware
      exempt == \/ /\ r.kind = "tool"
                   /\ r.name \in config.passThrough \ (config.local \cup config.hidden)
                \/ r.kind = "resource" /\ r.name \in config.passThroughResources
  IN IF exempt THEN {} ELSE {mws[i] : i \in DOMAIN mws}

\* Nothing reaches the end of its pipeline before every gate the options put there agreed
\* to this very call: the policy by its rules, the host's record by a yes that was given
\* after the call came in (createPolicyMiddleware, createConsentMiddleware).
Governed ==
  \A c \in Call : Reached(c) =>
    /\ "policy" \in InForce(req[c]) => Counted(c)
    /\ "consent" \in InForce(req[c]) => c \in sawConsent

\* A rule that reads as a refusal refuses: for options createPolicyMiddleware accepts, no
\* call its author meant to stop gets past the policy layer (assertRules).
RefusalsHold ==
  \A c \in Call : Reached(c) /\ "policy" \in InForce(req[c]) =>
    ~MeantToRefuse(config.policy, req[c].name, req[c].identity)

\* The counter of a session is the number of calls the gate let through since the counter
\* was dropped, over tools and prompts and under any concurrency, and within the budget
\* (spendBudget).
BudgetExact ==
  config.policy.budget # None =>
    \A s \in Session :
      /\ Used(s) <= config.policy.budget
      /\ Used(s) = Cardinality({c \in Call : /\ req[c] # None /\ req[c].session = s
                                             /\ Counted(c) /\ c \notin released})

\* With evictSession wired to onSessionClosed, what is left of a session's counter after
\* its end is due to calls that were under way then and reached the gate afterwards.
CountersReleased ==
  \A s \in Session \ live :
    Used(s) <= Cardinality({c \in straddling : req[c].session = s /\ Counted(c)})

\* Telemetry has one event for every tool call that was answered, and where audit is the
\* outermost middleware the two tell the same outcome and reason (emitTelemetry, observe).
ReportsAgree ==
  \A c \in Call : req[c] # None /\ req[c].kind = "tool" =>
    /\ Len(telemetry[c]) = IF settled[c] THEN 1 ELSE 0
    /\ settled[c] /\ Middleware(c, 0) = "audit" => audited[c] = telemetry[c][1]

\* The first call of the line that led to this one.
Origin[c \in Call] == IF parent[c] = None THEN c ELSE Origin[parent[c]]

\* What the first caller presented.
Presented(c) == ReadInbound(req[Origin[c]].payload).chain

\* The callers of a call from the first one on, its own included, as far as they were
\* resolved; what the first one presented comes before.
Lineage[c \in Call] ==
  LET before == IF parent[c] = None THEN ReadInbound(req[c].payload).chain
                ELSE Lineage[parent[c]]
  IN IF req[c].identity = None THEN before ELSE Append(before, req[c].identity)

\* Whom a payload on the wire names, however many they are.
NamedIn(payload) == [i \in DOMAIN payload.chain |-> payload.chain[i].sub]

\* What goes upstream names every caller along the way in order, and none of them was
\* there before: a call that cycles through proxies is refused when it closes the cycle.
\* The first caller answers for what it presents (outboundDelegationChain,
\* detectDelegationLoop).
DelegationFaithful ==
  \A c \in Call : sent[c] # <<>> =>
    LET chain == NamedIn(sent[c][1].payload) IN
    /\ chain = Lineage[c]
    /\ \A i, j \in DOMAIN chain : i < j /\ chain[i] = chain[j] => j <= Len(Presented(c))

=============================================================================
