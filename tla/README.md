# mcpose, verified

TLA+ models of the parts of [mcpose](../src/README.md) in which order, failure and
timing decide whether the program is right: the audit trail and its signed manifests,
the life of HTTP sessions on one or several proxy processes, the governed calls of a
session (pipeline, policy, consent, delegation), the event stores behind SSE replay, and
the catalog a proxy shows of its backends. TLC checks the models on small instances;
TLAPS proves the type invariant of every component, its safety properties and both
refinements, for every instance. Liveness is only model-checked.

Paths below are relative to `src/packages/`.

## The system

mcpose is a proxy between an MCP client and one or more MCP servers. Each client session
has a proxy server that runs every call through a pipeline of middleware.

| Component | State | Operations | Talks to | What is hard | What makes it correct |
|---|---|---|---|---|---|
| Audit middleware, `audit/src/middleware.ts` | live sessions (events, chain tip, calls in flight, close in progress), sealed sessions (manifest, signature, attempt), memoized subkeys | `observe` (an audited call), `closeSession` | signing key provider, subject key store, `onEvent`, `onManifest`, `onAuditError` | calls interleave over four awaits; a close races them; the drain deadline; retries of signing and delivery; an id used again | every call that ran has its event in a verifiable chain; every event is in a manifest or was reported; one signature per manifest; an undelivered manifest is kept |
| Chain and Merkle tree, `audit/src/chain.ts`, `verify.ts` | none | hash an event, build a tree and proofs, verify | the audit middleware, external verifiers | odd layers, index bounds | a proof verifies for its position and event only |
| HTTP sessions, `startHttpProxy` in `core/src/core.ts` | sessions, slots taken, resumes in flight, TTL timers | initialize, resume, route, DELETE, TTL, `server.close` | session registry, host hooks, MCP SDK transport | every step awaits a host hook or a store; sessions move between processes; shutdown meets the rest | limit respected, slots given back, nothing leaks, one hook per session, a deadline holds everywhere |
| Session registry, `core/src/sessionRegistry.ts`, `store-redis`, `store-postgres` | session records with deadlines | set, get, delete | HTTP sessions | writes that fail after they took effect | a record is written before the id is given out |
| Event store, `core/src/eventStore.ts`, `store-redis`, `store-postgres` | bounded log of SSE events | store, replay after a cursor | MCP SDK transport | eviction and new events during a replay | a session replays its own events, in order, each once |
| List-changed bus, `core.ts:824-917` | proxy servers subscribed to a backend | join, leave, fan out | backends, proxy servers | joins and leaves during a fan-out | live servers get every notification, dead ones leave |
| Pipeline and handlers, `core/src/middleware.ts`, `core.ts:935-1460` | per call: position in the pipeline, context | compose, forward, reject, report | all middleware, backends | `next` called again or late | the upstream is called once, a rejection is seen by audit and telemetry |
| Policy, `policy/src/index.ts` | calls counted per session | gate, `evictSession` | pipeline | late calls after eviction | deny wins, no call past the budget |
| Consent, `consent/src/index.ts` | none | gate | host's resolver | the answer comes after an await | no call without an unambiguous yes |
| Mesh and delegation, `core/src/mesh.ts`, `delegation.ts` | none | list over backends, route, extend and check a chain | backends, other proxies | partial failure, endless paging, loops | a failed backend hides nothing else; a call never cycles unseen |
| Subject keys, `audit/src/subjectKeyStore.ts` | key per subject | getOrCreate, destroy | audit middleware | erasure during a call | nothing readable survives an erasure |
| The rest: hidden tools, catalog sanitizer, signing keys, sensitivity, backend client, OpenTelemetry, test helpers, examples | none to speak of | pure functions, process start, I/O | | nothing a unit test does not reach | |

`PROJECT.json` lists the components with their status, and every hazard of the code with
the properties that would catch it.

## The modules

| Module | Models |
|---|---|
| `AuditSession` | `createAuditMiddleware`: calls, drain, seal, sign, deliver, retry |
| `AuditTrail` | the same, as a host sees it: a trail that is recorded, closed and accepted. `AuditSession` implements it |
| `AuditSession_proofs`, `AuditTrail_proofs` | theorems about `AuditSession`; the second rests on the first and has the refinement |
| `MerkleTree` | the tree of a manifest, layer by layer, and `verifyMerkleProof`, level by level |
| `HttpSessions` | the sessions of `startHttpProxy` on several processes |
| `ProxyCalls` | the `tools/call`, `prompts/get` and `resources/read` handlers, `compose`, policy and consent gates, telemetry |
| `Policy` | which policy options are accepted and what `evaluate` decides |
| `Delegation` | reading, checking and extending a delegation chain |
| `MeshNames` | the names a mesh exposes, and the way back |
| `EventStores` | in-memory, Redis and Postgres event stores behind `scopeEventStore`, and the registries beside them |
| `ReplayLog` | what a reconnecting client is promised. `EventStores` implements it |
| `Catalog` | list-changed buses and list requests over several backends |
| `HttpSessions_proofs`, `ProxyCalls_proofs`, `EventStores_proofs`, `Catalog_proofs`, `MerkleTree_proofs`, `MeshNames_proofs` | theorems about these modules |
| `MCAuditSession`, `MCMerkleTree`, `MCHttpSessions`, `MCProxyCalls`, `MCEventStores`, `MCCatalog` | symmetry, and the values of constants that are functions or records |

`ProxyCalls` takes in `Policy`, `Delegation` and `MeshNames` with `INSTANCE`, `Catalog`
takes in `MeshNames`: names, rules and chains are operators without state, one module
each.

Node runs one callback at a time, so in all of them **an action is what runs between two
awaits**. Operators named `X_Something` under the comment "Defect" are wrong variants of
`X`; nothing uses them. They record, for each property, a mistake it would catch.

### AuditSession

A call is one run of `observe`; `pc` says at which await it stands. `Admit` is the
synchronous head: it opens a session if there is none under the id and captures it. A
session object has the name of the call that created it, so that two objects under one
id stay apart. `HaveSubkeys`, `SubjectKeyFetched`, `NextSettled`, `OnEventFulfilled` and
the rejected variants are the continuations; `NextSettled` classifies, builds, appends
and calls `onEvent` in one step because the code has no await there. `Settle` is the
`finally` that leaves `inflight` and wakes the drain.

`CloseLive`, `DrainAgain`, `DrainEnds` and `DeadlinePasses` are `sealSession`, with
`Seal` as its tail; `closing` says where it stands. A woken drain does not go on at
once: its continuation is another callback, and calls may be admitted before it.
`RetryFinalize`, `RetryThrowsSync`, `Signed`, `AttemptRejected` and `Delivered` are
`finalize`, whose memo is `attempt`.

Left out: event content, encryption and the two validations that throw before any state
changes (`ctx.proxy`, the options). A hash is a constructor that commits to its
arguments.

### MerkleTree

A hash is a term, as a collision-free hash allows. `Grow` is the loop of
`computeMerkleRootAndProofs`: one more layer, until one node is left. `Start`, `Climb`
and `Finish` are `verifyMerkleProof`, `Malformed` its first return. `Offered` is a
constant: the arguments tried on a tree. In `MCMerkleTree` they are every position's
proof, under every index from -1 to twice the event count, with one edit of the path (a
sibling replaced or missing, a direction flipped, a level dropped or added), for every
event and every node as the claimed leaf; the proofs allow any. `Positions` is the index
that both loops halve from layer to layer, and `EventAt` reads an index from the root
down, bit by bit: the event it stands for. The empty session is left out: it has no
manifest (`middleware.ts:552`).

### HttpSessions

An attempt is one run of the code that can bring a session up, a new-session POST or
`resumeSession`, on a process; `stage` says at which await it stands. Its session and
the proxy server it builds have the attempt's name; the session id has the name of the
attempt that minted it. `sessions`, `pendingSessions` and `resuming` are the variables
of the same name. `Destroy` is the synchronous head of `destroySession`, the single
teardown path, and `teardown` its awaits. `registry` is the set of ids with a record: a
`set` or `delete` that rejects may have taken effect or not. `expired` is the set of ids
whose deadline, fixed at initialize, has passed; the deadline may pass at any moment.
`Restart` ends a process anywhere and puts a new one in its place.

A request for an existing session changes none of this state; `onRequest`,
`validateSession` and the header and body checks are left out. A request that joins a
resume in flight changes nothing either. External to `src/` and modelled from its use:
the SDK transport (it accepts or refuses an initialize, awaits `onsessioninitialized`,
and closes itself after `onsessionclosed`).

### ProxyCalls, with Policy, Delegation and MeshNames

A call is one request; its `pipeline` is the sequence of middleware the handler chose
for it, outermost first, with the terminal handler behind the last. `frame` and `result`
say where each middleware of a call stands, `index` is the variable of that name in
`compose`. `CallNext` is `dispatch`: a position that was dispatched before rejects. An
action is what one middleware does between two awaits. `PolicyGate` is one action
because the engine has no await between evaluating, spending the budget and calling
`next`; the consent gate is three, because the host's resolver answers late
(`ConsentAsked`, `ConsentResolved`, `ConsentGate`), while the host's record may change
(`ConsentWithdrawn`). The resolver may throw and may answer with something that is no
boolean.

A host's own middleware may call `next` again, call it after it has answered, or answer
while it is pending (`HostCallsNext`, `HostAnswers`). The terminal handler refuses, runs
a local tool or forwards (`Refused`, `RunLocal`, `Forward`), and `Settle` emits
telemetry. The audit middleware is here an observer of outcomes; its trail is
`AuditSession`.

`AgentAsks` lets a backend that is an agent call through the proxy in turn, with the
chain it was sent. `SessionEnds` is `onSessionClosed` with `evictSession` as the hook; a
call that was looked up before runs on.

`config` is one of a set of options, some of which `createPolicyMiddleware` refuses
(`Accepted`): `Init` starts with an accepted one. A policy field is kept as its author
wrote it, wildcard, array or bare string, and `MeantToRefuse` says what the author of a
refusing rule meant, so that `RefusalsHold` can compare the two. In `MeshNames` a name
is a sequence of characters, because where the separator is found is the point.

`dispatcherAwareBlock` is covered by letting a name in `hidden` stand for a name
together with the arguments that make the dispatcher block it.

### EventStores

One store is in use, `kind` says which. Every command of a client library is an action:
`XAdd` and `PExpire`, `Insert` and `Commit`, the steps of a replay (`ScopeCheck`,
`FindCursor`, `ReadEvents`, `SendNext`). Between them others run, keys expire (`Tick`),
rows and records are pruned, writes fail and the process restarts. An event's id is its
place in the store's order. The in-memory replay iterates over the map as it is:
`Remaining` follows JavaScript's rule that an iterator goes on to added entries and
skips deleted ones. `record` is the session's entry in the Redis or Postgres registry,
from which `ResumeSession` brings a session back with what is left of its time.

`ReplayLog` is the abstract specification: a replay starts at an event of the client's
own session and sends later events of that session, in order, each once. The mapping
takes `owners` from the log and shows a replay while it is sending.

### Catalog

One surface (tools, prompts or resources) of a proxy over a few backends. `bus` is
`listChangedBuses`; `servers` keeps the servers of every bus a backend has had, because
the handler installed on the backend's client is that of its latest bus. `LeaveBuses` is
the leave functions that `onclose` runs, `closings` allows `onclose` to be called twice,
and `Hooked` are servers on which a consumer assigns `onclose` later. A listing reads
each backend page by page while others change (`FetchPage`, `BackendFails`), and
`FinishList` concatenates, namespaces, overlays local tools and filters hidden ones.
`createProxyServer`'s checks of keys and of local names are `AcceptedOptions`. Keys and
names are sequences of `Character`; filters and the concatenation of what the backends
give are folds (`FlattenSeq`), which can be reasoned about where `SelectSeq` cannot.
`KnownNames` is what the options are like when the code reads them: the keys of a record
differ, and a proxy that is no mesh has one backend. A backend has one key: a client that
is passed under two of them is not modelled.

## Runs

| Run | Question | Instance |
|---|---|---|
| `audit_safety` | Is the trail complete and verifiable, one manifest signed once, no drain forgotten, `AuditTrail` implemented? | 3 calls, 1 session id |
| `audit_closing` | Does a close always seal, and a retry always deliver? | 2 calls, 1 id, fairness |
| `audit_lost_manifest` | Is a sealed manifest kept until delivered when its id is used again? **No** | as in its cfg |
| `audit_stuck_retry` | Can a delivery always be retried? **No**, after a synchronous throw | as in its cfg |
| `audit_straggler` | Is a call reported as left out really left out? **No** | as in its cfg |
| `merkle` | Does a proof verify for its own position and event only? | up to 6 leaves |
| `http_safety` | Limit, slots, leaks, one hook, no replaced session? | 3 attempts, 1 process, 2 sessions |
| `http_closing` | Does a deadline kill a session everywhere, does `server.close` complete? | 2 attempts, 2 processes, fairness |
| `http_shutdown_hooks` | Does the close callback wait for every hook? **No** | 2 attempts, 1 process |
| `governed_calls` | Does anything get past a gate, upstream twice, past the budget, or reported wrongly? Are chains complete? | 2 calls, 4 accepted and 5 refused sets of options |
| `event_stores` | Does a replay send the session's own events, in order, each once, and skip none it should have? | 2 sessions, three stores |
| `catalog` | Do notifications reach the open servers only, are listings whole, do names lead back, do clients catch up? | 3 servers, 2 backends, 1 client that lists, fairness |

What the passing runs show:

- `TrailVerifies`: `verifyAuditChain` accepts the events of every session under every
  interleaving. `NoOrphanEvent`: an event is at any time in a session that a close can
  still seal, in the manifest at its own position, or its call was reported (issue
  #168). `EveryCallAccounted`: a call of a session that ran upstream is in the trail,
  was reported, or is a rejection the options leave out. `NoLostWakeUp`: a close that
  waits has a call under way whose end will wake it, also when the calls it waited for
  fail together because their shared key derivation is rejected. `OneSignature`,
  `ManifestFrozen`: retries never sign again and never change the manifest.
  `ImplementsTrail`: after a close the trail grows only by calls that were reported.
- `CloseSeals`: with a finite deadline a close seals although handlers and sinks hang.
  `RetainedUntilDelivered`, `RetryDelivers`: hold when a host does not use an id again
  before its manifest is delivered (`ReuseDuringDelivery = FALSE`), and its `onManifest`
  and its key provider's `sign` never throw synchronously (`SinkThrowsSync = FALSE`,
  `SignThrowsSync = FALSE`). Two of the violated runs lift the first and the second.
- `PositionBound`, `NoOtherPosition`, `HonestAccepted`: the verifier accepts the proofs
  a manifest carries, and for an index below the signed `eventCount` nothing else.
  An index above it verifies only for the event that its bits lead to from the root, a
  copy that pads an odd layer, and with no bit left over; which is why the count is
  signed.
- `SessionLimit`, `SlotsConserved`: concurrent initializes and resumes never overshoot
  `maxSessions`, and every way out gives its slot back. `NoLeakedServer`: a connected
  proxy server is wanted by an attempt, a session or a teardown. `OneHookPerSession`,
  `NeverReplaced`: DELETE, TTL, shutdown and resume never tear down a session twice or
  replace a live one. Hooks are counted per session as a process holds it: one that is
  resumed while the DELETE of its id is pending is another, with a hook of its own.
- `DeadlineKills`: once a session's deadline has passed there is a time from which no
  process holds it. A record deleted by another process does not end a session here;
  its deadline does. `ShutdownCompletes`: `server.close` completes although attempts
  hang.
- `UpstreamOnce`: a host's middleware cannot send a request twice, however it misuses
  `next`. `Governed`: no call reaches the end of its pipeline unless the policy allowed
  it and the host's record said yes after the call came in, whatever the order of the
  gates; pass-through never frees a hidden or a local tool, and `Governed` asks of one
  that is listed there what it asks of any tool. `RefusalsHold`: no rule that
  reads as a refusal is accepted and refuses nothing. `BudgetExact`: the counter is the
  number of calls let through since it was dropped, over tools and prompts together, and
  within the budget. `CountersReleased`: what is left of a counter after the session's
  end is due to calls that were under way then. The code keeps such a counter for good;
  the property bounds it. `ReportsAgree`: telemetry and audit compute the outcome of a
  call apart and agree. `DelegationFaithful`: what goes upstream names whom the first
  call presented and every resolved caller since, in order, over any number of agents
  that call on, and no call whose caller is already in its chain goes on.
- `ImplementsLog`: each store behind `scopeEventStore` is a `ReplayLog`. `NoneSkipped`:
  a replay has sent at its end every event that was acknowledged before it started and
  that the store says it still keeps, although events come, go and expire between its
  steps. `HistoryOutlivesSession`: while the registry knows a session, all its
  acknowledged events can be replayed.
- `FanOutExact`: a backend's notifications reach the open servers and no closed one,
  although buses are discarded and made anew and `onclose` runs twice.
  `ListingComplete`: a listing has all of a backend or nothing and a report.
  `ListedRoutes`: each name it shows leads back to a backend or a local tool.
  `CatalogConverges`: once the upstream catalogs rest, every open client shows what they
  serve.

### Disagreements with the documentation

The four violated runs check a sentence of the code's own documentation, quoted in
`PROJECT.json` under "findings":

1. `sealed.delete(sessionId)` (`middleware.ts:615`) releases what is stored under the id
   by then, which can be a later session's undelivered manifest.
2. With the signature memoized, an `onManifest` that throws before it returns ends the
   attempt before `pending.attempt ??=` (`middleware.ts:599`) stores it: the rejected
   promise stays and no later retry calls `onManifest`. A `sign` that throws before it
  returns does the same to the first attempt or a retry (`FirstAttempt`,
  `RetryThrowsSync`); `audit_safety` has it among its steps, and it has no run of its own.
3. At the drain deadline a call that waits only for `onEvent` is reported as "not in the
   manifest" (`middleware.ts:530`) although its event is.
4. `server.close` (`core.ts:2064`) waits for the sessions in the map at that moment. One
   whose DELETE or TTL teardown began before is not waited for.

One more was met without a run. A backend key may not hold the separator, so that "the
first occurrence always splits the two" (`core/src/mesh.ts:9`), but `BACKEND_KEY`
accepts a key that ends in an underscore: the tool `t` of a backend `a_` is exposed as
`a___t`, which splits into `a` and `_t`. `RouteInverse` is therefore proved for keys
that satisfy `Apart`. URIs have no such case.

### Bounds

Three calls are enough for one call that drains, one admitted while it drains and one
that comes after the close and opens a second object under the same id; a second id
shares only the subkeys. In the liveness run two calls suffice for a straggler or a
second session. Six leaves make the first and the second layer odd. Three attempts allow
two pending ones and a live session at a limit of two, or an initialize and two resumes
of it. One process is enough for the safety properties, each of which speaks of one
process: what others do reaches it through the registry only, and its own restarts and
failing deletes leave the registry in the same states. Deadlock checking is off because
every model can finish: a host may stop calling.

`governed_calls`: two calls compete for a budget of one or two, and the second may be
made by an agent that serves the first (`MCProxyCalls` has the options: a mesh under all
three middlewares, a host's middleware between gates, a single backend with pass-through
and hidden resources, whose pass-through list also names a hidden local tool that both
gates agree to, a proxy without tools upstream). `Depth` is 3, the longest of
these pipelines. `MaxChainEntries` is 3: among the requests are one that presents a chain
of that length, which its own caller makes too long for the next proxy, one whose chain
names somebody twice, a loop, and payloads that are refused.

`event_stores`: `MaxEvents = 3` and five ids let the map
evict its cursor, the event it has just sent and one still to be sent. Redis and
Postgres have no cap, time means nothing to the in-memory store: `MCMaxId` and
`MCMaxNow` give each what it depends on. `TTL = SessionTTL = 2` is the least that lets
an event and its session expire apart. One replay at a time (`MaxReplays`) is enough
because a
replay only reads; the theorem is for any number.

`catalog`: of three servers
one lists, and the others open, close and discard buses around it. `MaxPages = 2` for
catalogs of up to two pages and an endless one; a catalog changes once (twice in the 1:1
case), so that a change can fall into a listing; `onclose` runs at most twice.

### Fairness

`AuditSession`: the event loop runs a timer that is due and the continuation of a drain
that was woken (`FairDrain`). Nothing is assumed of handlers, keys or `onEvent`.
`RetryDelivers` also needs a host that closes and retries, and a provider and sink that
do not reject for ever (`FairRetry`, strong fairness: an attempt is abandoned in
between). `HttpSessions`: timers fire; a `registry.delete` and `onSessionClosed` that
were called settle, which with `closeSession` as the hook is what its drain deadline is
for. Nothing is assumed of `resolveIdentity`, `registry.get`, `registry.set` or replays.

`Catalog`: a notification on its way is delivered, and a client whose server told it of
a change lists; a backend that is asked answers a page or fails, which the SDK's request
timeout is for. Nothing is assumed of servers that come and go. `ProxyCalls` and
`EventStores` have safety properties only.

## Proofs

### Audit sessions

`AuditSession_proofs` proves for any set of calls and ids and any options:
`TypeCorrect`, `NoOrphanEventHolds`, `ManifestFrozenHolds`, `TrailVerifiesHolds`,
`NoLostWakeUpHolds`, `OneSignatureHolds`. The only assumptions are that `None` is no
call and no id, and that the options are Boolean.

`NoOrphanEvent` is not inductive: it does not say why no call can append to a sealed
object. The inductive invariant `IInv` (`IInvHolds`) adds the reason. `Admission`: the
calls in flight in an object are exactly the unsettled calls that captured it. `Opened`:
a captured object was created by the call it is named after. `Mapped`: an unsealed
object is the one under its id, and only such objects are there. `Covered`: a sealed
object has only reported calls in flight, and its manifest is a prefix of its trail that
lacks no unreported call. So a call that appends after the seal was in flight at the
seal, and was reported. There is one lemma per kind of step (`MoveStep`, `SettleStep`,
`DrainStep`, `SealStep`, `AdmitStep`, `RecordStep`) and `IInvStep` puts the actions
under them.

`TrailVerifies` needs that the memoized chain tip is the hash of the last event (`Tip`);
`ChainExtends` is the lemma that a verified list stays verified when the next event is
built for it. `NoLostWakeUp` needs `Admission` and that a drain waits only while calls are
in flight (`Waits`, `SettleWakes`). `OneSignature` needs that a signing attempt is only under way for a
sealed, unsigned manifest (`SignedOnce`). `ManifestFrozen` needs that a seal happens
once.

`AuditTrail_proofs` goes on from there. `TrailInv` says what becomes of a call and of a
manifest: once a call's outcome is known it is in the trail, reported, or one the options
leave out (`Accounted`); a recorded call is past its event, so it is recorded once
(`RecordedOnce`); what is sealed under an id is not delivered yet (`Delivery`). That is
`EveryCallAccountedHolds`. `AuditImplementsTrail` is the refinement: `StepImplements` maps
recording, sealing and delivering to the three abstract actions and all else to none; that
a call recorded after the seal was reported comes from `IInv`.
`RetainedUntilDeliveredHolds` assumes `~ReuseDuringDelivery`, a host that opens no session
under an id whose manifest is being signed or delivered; the run `audit_lost_manifest`
shows what happens otherwise. Its invariant `Undisturbed` says what such a host brings: an
attempt under way is that of the manifest stored under its id.

### Governed calls

`ProxyCalls_proofs` proves for any number of calls, sessions and options and pipelines
of any length: `UpstreamOnceHolds`, `GovernedHolds`, `RefusalsHoldAlways`,
`BudgetExactHolds`, `CountersReleasedHolds`, `ReportsAgreeHolds`, `TypesHold`. Assumed,
and checked by TLC on its instance: `Call` is finite; pipelines have at most `Depth`
middleware; a budget is a natural number, none or `NaN`; `None` is neither a number nor
a session; and the host puts the middleware of one policy and one audit handle at most
once into a pipeline (the code does not prevent two, which would share a counter and a
record per call).

`DelegationFaithfulHolds` is about the same calls. The lineage of a call is a recursive
function along the calls that made it, and `LineInv` avoids induction over it: its parts
hold of *every* solution of the equations that define `Lineage` and `Origin`, and there is
one. `Resettled` keeps that true of a call nobody descends from when it is given a
request; `Handed` ties a call made by an agent to the chain its caller's was sent with;
`Traced` ties a chain to the solutions. So no step has to look further back than one call.

None of the properties is inductive. `PassageInv` carries them. `Frames`: the last
position dispatched is the deepest; below it all is idle, only it may be at work, and
who awaits `next` is above it. This is what `compose`'s `index` is for, and it holds
although a host's middleware may call `next` after it answered. `SentOnce` follows: what
went upstream was sent from the last position, which has left its first state for good.
`PolicyPassed` and `ConsentPassed`: a gate above the deepest position agreed. `Chosen`
ties the pipeline to the request. Lemmas of the form `...Moves` say once how each action
moves the frames, and the parts of the invariant use only those.

`BudgetInv` adds that a call is decided at its gate and not before (`Decided`), and
`Ledger`: the counter against the set of calls counted and not released, as a
cardinality; the step that counts adds one call to that set, since the gate, being in
the pipeline once, decides a call once. `Ended` relates the calls of an ended session to
those released or under way. `Told` and `Observed` tie the reports to the results.
`Allowed` ties a counted call to `Evaluate`, and `AllowedIsMeant` is the fact about
accepted rules behind `RefusalsHold`.

### Event stores

`StoresImplementLog` proves the refinement, initial states and every step, for any
sessions, events, clocks and concurrent replays. Its invariant, `Inv`, says that the
cursor of a replay that was let through is an event of the session that asked, and that
what was read is later and of the same session; it holds because ids are never given to
another event except by the restart of an in-memory store, which ends all replays. There
is one lemma per abstract action (`StoreImplements`, `BeginImplements`,
`SendImplements`, `EndImplements`, `RestartImplements`).

`HistoryOutlivesSessionHolds` needs `TTL >= SessionTTL` (`InStep`: the defaults are
equal and the code's comments ask the host to keep them so). `HistoryInv` says why: an
event is stored while its session lives, so its time is up no earlier than the record's,
in Redis because `pExpire` renews the whole stream.

`TypeCorrect` and `NoneSkippedHolds` have an invariant of their own, `ReplayInv`, for any
of the three stores, any clock and any TTLs in step. `Window`: the in-memory map holds
exactly the last `MaxEvents` events. `SkipOK` is the promise to a replay under way: what it
owes (acknowledged before it began, still retained) and has not sent is still to come,
after all it has sent; a cursor it owes is not refused. The store, the clock and other
sessions may do what they like (`SkipStays`): they only take from what is retained.
`BoundsAreNumbers` says that the bounds on ids and on the clock are numbers.

### HTTP sessions

`HttpSessions_proofs` proves for any finite set of attempts, any processes, any limit and
any options: `TypeCorrect`, `SlotsConservedHolds`, `SessionLimitHolds`,
`NoLeakedServerHolds`, `OneHookPerSessionHolds`, `NeverReplacedHolds`. `StepKinds` sorts
the actions by what they do to attempts and sessions (an attempt goes on, admits its
session, gives its slot back; sessions end; a process restarts), and each part of the
invariant `IInv` has one lemma over these kinds.

`SessionLimit` and `SlotsConserved` are not inductive. `Room` counts the live sessions and
the attempts past their check of the limit: they are at most `maxSessions`. A resume takes
its slot unchecked and is checked after its lookup, its own slot among those counted; until
then it is pending and not committed, so slots may exceed the limit and sessions never do. `NeverReplaced` rests on `Fresh` (an id being initialized is
known to no client) and `Alone` (an id being resumed has one resume on its process, and no
session there): an admission finds its place empty. `OneHookPerSession` rests on `Held`
(what is in the map has no teardown under way) and `Hooked`; `NoLeakedServer` on `Unbuilt`.

### Catalog

`Catalog_proofs` proves `TypeCorrect`, `FanOutExactHolds`, `ListedRoutesHolds` and
`ListingCompleteHolds` for any servers, backends, configurations, names and pages.
Assumed, and checked by TLC on its instance: backends are known (`KnownBackends`), their
keys and names are as above (`KnownNames`), at least one page is drained, and `None` is no
membership, route or drain.

`FanOutExact` needs to know of memberships as well as of buses. `Members`:
an open server is an active member of the newest bus of every backend it subscribes to,
and nobody else's membership is active. `Buses`: that bus holds exactly the open servers,
and it is in the map of the buses while there are any. So the last to leave discards a bus
that nobody is on, and a second `onclose` has nothing to leave. `Reading` bounds the pages
of a drain.

The theorems about listings have a hypothesis, `Callable`: a mesh whose options are
accepted serves no empty name, and prompts and tools are not named under a key that ends in
an underscore. The code accepts both and lists such names, which then cannot be called:
`routeNamespaced` refuses the empty one, and finds the separator of the other one place
early. Everything else `normalizeBackends` accepts is covered, names that hold the
separator included.

`LInv` adds to `IInv` what a listing is made of. `Drains`: while a backend has not changed
since the listing began, what was read of it is the first pages of what it serves, and all
of it once the drain is done. `Shows`: a listing is a sequence of names that lead back or
are local, none hidden, and a local tool is there once (`Once`). `ListingComplete` is a part
of its own: it is established by `FinishList` from `Drains`, and every other step leaves
the listing alone, or the backend among those that moved. The step of `FinishList` is a
chain of equalities on sequences (`NamesOf` of what `Overlaid` makes of `Upstream`): names
distribute over concatenation; those of another backend, of a local tool or of a hidden
entry vanish; what is left is `Visible` (`SeenUpstream`, `Finished`). The laws of
`FlattenSeq` and of the filter `Without` are proved for every sequence, by well-founded
induction on sets (`NatSetInduction`, `SeqSetInduction`).

### Merkle tree

`MerkleTree_proofs` proves for trees of any number of leaves and any arguments of the
declared types: `TypeCorrect`, `PositionBoundHolds`, `NoOtherPositionHolds`,
`HonestAcceptedHolds`. `TreeInv` says what the tree is: leaf hashes below, and each layer
standing on the one before. `Place`: the loop's index is the position above the claimed one,
and a hash it has computed is a node of the tree only on the layer it has climbed to; the
tags are what keeps a leaf from being taken for an inner node (`HashesApart`, `LeafPlace`).
`OnPath` follows a hash down again: being at a position's node, the loop has come from the
event there, by the path the tree has for it. `OnDescent` says the same of any index and
the event its bits lead to. `Genuine`: on the tree's own proof the loop is at the
position's node on every layer.

The positions of an index and its descent are recursive functions. That they are what they
should be on every layer is proved from the well-foundedness of the natural numbers
(`NatSetInduction`, on a set rather than on a predicate; `PositionsHalve`,
`DescentLeads`).

### Names

`RouteInverse` and `UriInverse`: an exposed name or URI leads back to its own backend
and its own name, for any set of accepted keys, names and URIs, the names which hold the
separator included.

### Model-checked only

Liveness (`CloseSeals`, `RetryDelivers`, `DeadlineKills`, `ShutdownCompletes`,
`CatalogConverges`): TLAPS has no ENABLED, on which fairness rests. `CloseAwaitsHooks`
and `StragglersLeftOut` do not hold of the code; `RetainedUntilDelivered` and
`RetryDelivers` hold of it only where the host does not do what the runs
`audit_lost_manifest` and `audit_stuck_retry` let it do.

## Not modelled

- Pure functions of a string or a record: hidden-tool patterns, catalog sanitizer,
  identity mapping, signing keys, sensitivity map, the OpenTelemetry mapping. Process
  start and I/O of backend clients, SQL and Redis protocol, test helpers, examples.
- The refusal of a bad delegation chain by the list handlers (modelled for calls), and
  `listToolsMiddleware`, which is host code. `Catalog` looks at one surface at a time.
- The composition of `HttpSessions` and `AuditSession`: a request validated while its
  session ends may open an audit session under an id that nobody closes again.
  `CountersReleased` is the counterpart for the policy's counters.
- The map of subject keys, `destroy`, and an erasure during a call.
- Event stores: creation of tables, an infinite `ttlMs`, clocks of database and process
  that differ. A Redis command that fails between `xAdd` and `pExpire` on a new key
  leaves a stream that never expires: modelled (`StoreFails`), but no property is about
  storage that is not reclaimed. Two Postgres inserts of one stream that commit in the
  opposite order of their ids need two processes serving one session; `NoneSkipped`
  speaks of what was acknowledged before a replay started. An event stored after a Redis
  or Postgres replay has read its batch and before the SDK attaches the stream is not in
  the replay; an in-memory replay goes on as long as events are stored faster than it
  sends.

## Plan

Done: `AuditSession`, `AuditTrail`, `HttpSessions`, `MerkleTree`, `ProxyCalls` (policy,
consent, pipeline, delegation), `EventStores`, `Catalog` (buses and mesh listing), and
the proofs above.

Left, in this order:

1. `SessionAudit`: `HttpSessions` and `AuditSession` composed through `onSessionClosed`,
   with a request that is validated while its session ends and resumed chains under one
   id.
2. `Erasure`: the subject key store and `destroy` under calls in flight.
