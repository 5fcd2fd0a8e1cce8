--------------------------- MODULE HttpSessions ---------------------------
(***************************************************************************)
(* The session life cycle of startHttpProxy (packages/core/src/core.ts),   *)
(* on one or several proxy processes that share a SessionRegistry: a       *)
(* session is initialized or resumed, lives under its id, and ends by      *)
(* client DELETE, TTL expiry or server shutdown, through destroySession.   *)
(*                                                                         *)
(* An Attempt is one run of the code that can bring a session up: the      *)
(* new-session branch of the request handler, or resumeSession.  The       *)
(* session object it admits, and the proxy server it builds, are named by  *)
(* the attempt; the session id (a random UUID) is named by the attempt     *)
(* that minted it.  An action is what runs between two awaits.             *)
(*                                                                         *)
(* Abstracted: the content of requests and records, the status codes, the  *)
(* clock (the deadline of a session passes at any time after it is fixed). *)
(* onRequest, the path and method checks and the body limit come before    *)
(* any of this state is touched; validateSession reads it only.            *)
(***************************************************************************)
EXTENDS Integers, FiniteSets

CONSTANTS
  Attempt,       \* runs of the session-creating code
  Instance,      \* proxy processes
  None,          \* `undefined`
  MaxSessions,   \* httpOptions.maxSessions
  Shared,        \* httpOptions.sessionRegistry is given
  Expires,       \* httpOptions.sessionTtlMs is finite
  ClosesTwice    \* the host may call server.close again during a shutdown

ASSUME NoneIsNew == None \notin Attempt \cup Instance
ASSUME LimitIsNat == MaxSessions \in Nat
ASSUME OptionsAreBoolean == {Shared, Expires, ClosesTwice} \subseteq BOOLEAN
ASSUME AttemptsFinite == IsFiniteSet(Attempt)

VARIABLES
  \* one attempt
  stage,         \* where it stands
  inst,          \* the process it runs on
  id,            \* the session id it is for
  proxyServer,   \* its proxy server is connected and not closed
  teardown,      \* where destroySession of its session stands
  hooks,         \* how often onSessionClosed was called for its session
  \* one process
  sessions,      \* session id -> live session
  pendingSessions,
  resuming,      \* session id -> the resume in flight
  closing,       \* where server.close stands
  awaited,       \* the sessions server.close waits for
  \* shared
  registry,      \* session ids with a record
  issued,        \* session ids a client was given
  expired        \* session ids whose deadline has passed

attemptVars == <<stage, inst, id, proxyServer>>
endVars == <<teardown, hooks>>
shutVars == <<closing, awaited>>
vars == <<attemptVars, endVars, sessions, pendingSessions, resuming, shutVars,
          registry, issued, expired>>

InProgress == {"identity", "initialize", "set", "lookup", "found", "missing",
               "replay", "admitted"}
Stage == InProgress \cup {"idle", "done"}

Live(p) == {s \in Attempt : sessions[p][s] # None}
Pending(p) == {a \in Attempt : inst[a] = p /\ stage[a] \in InProgress}

---------------------------------------------------------------------------
Init ==
  /\ stage = [a \in Attempt |-> "idle"]
  /\ inst = [a \in Attempt |-> None]
  /\ id = [a \in Attempt |-> None]
  /\ proxyServer = [a \in Attempt |-> FALSE]
  /\ teardown = [a \in Attempt |-> "none"]
  /\ hooks = [a \in Attempt |-> 0]
  /\ sessions = [p \in Instance |-> [s \in Attempt |-> None]]
  /\ pendingSessions = [p \in Instance |-> 0]
  /\ resuming = [p \in Instance |-> [s \in Attempt |-> None]]
  /\ closing = [p \in Instance |-> "open"]
  /\ awaited = [p \in Instance |-> {}]
  /\ registry = {}
  /\ issued = {}
  /\ expired = {}

\* The server takes requests until rawClose, after the shutdown's teardowns.
Listening(p) == closing[p] # "closed"

\* Defect: the slot is given back by the inner and by the outer `finally`.
Finish_Twice(a) ==
  LET p == inst[a] IN
  /\ stage' = [stage EXCEPT ![a] = "done"]
  /\ pendingSessions' = [pendingSessions EXCEPT ![p] = @ - 2]
  /\ resuming' = IF resuming[p][id[a]] = a
                 THEN [resuming EXCEPT ![p][id[a]] = None] ELSE resuming
  /\ proxyServer' = IF sessions[p][id[a]] = None
                    THEN [proxyServer EXCEPT ![a] = FALSE] ELSE proxyServer

\* The `finally` of an attempt: give the slot back and, for a resume, leave
\* `resuming`; close the proxy server if no session is live under the id.
Finish(a) ==
  LET p == inst[a] IN
  /\ stage' = [stage EXCEPT ![a] = "done"]
  /\ pendingSessions' = [pendingSessions EXCEPT ![p] = @ - 1]
  /\ resuming' = IF resuming[p][id[a]] = a
                 THEN [resuming EXCEPT ![p][id[a]] = None] ELSE resuming
  /\ proxyServer' = IF sessions[p][id[a]] = None
                    THEN [proxyServer EXCEPT ![a] = FALSE] ELSE proxyServer

(***************************************************************************)
(* A new session.                                                          *)
(***************************************************************************)
\* Defect: the initializes under way are not counted.
StartInitialize_PendingIgnored(a, p) ==
  /\ stage[a] = "idle" /\ Listening(p)
  /\ Cardinality(Live(p)) < MaxSessions
  /\ pendingSessions' = [pendingSessions EXCEPT ![p] = @ + 1]
  /\ stage' = [stage EXCEPT ![a] = "identity"]
  /\ inst' = [inst EXCEPT ![a] = p]
  /\ id' = [id EXCEPT ![a] = a]
  /\ UNCHANGED <<proxyServer, endVars, sessions, resuming, shutVars, registry,
                 issued, expired>>

\* A POST without a session id: refused with 503 at the limit (no state changes),
\* else a slot is taken before the identity is resolved.  The id is fixed later by
\* randomUUID; the attempt names it.
StartInitialize(a, p) ==
  /\ stage[a] = "idle" /\ Listening(p)
  /\ Cardinality(Live(p)) + pendingSessions[p] < MaxSessions
  /\ pendingSessions' = [pendingSessions EXCEPT ![p] = @ + 1]
  /\ stage' = [stage EXCEPT ![a] = "identity"]
  /\ inst' = [inst EXCEPT ![a] = p]
  /\ id' = [id EXCEPT ![a] = a]
  /\ UNCHANGED <<proxyServer, endVars, sessions, resuming, shutVars, registry,
                 issued, expired>>

\* Defect: the 401 returns before the `try` whose `finally` gives the slot back.
IdentityRejected_SlotKept(a) ==
  /\ stage[a] = "identity"
  /\ stage' = [stage EXCEPT ![a] = "done"]
  /\ UNCHANGED <<inst, id, proxyServer, pendingSessions, resuming, endVars, sessions,
                 shutVars, registry, issued, expired>>

IdentityRejected(a) ==
  /\ stage[a] = "identity"
  /\ Finish(a)
  /\ UNCHANGED <<inst, id, endVars, sessions, shutVars, registry, issued, expired>>

\* The proxy server is built and connected, the transport takes the request.
IdentityResolved(a) ==
  /\ stage[a] = "identity"
  /\ stage' = [stage EXCEPT ![a] = "initialize"]
  /\ proxyServer' = [proxyServer EXCEPT ![a] = TRUE]
  /\ UNCHANGED <<inst, id, endVars, sessions, pendingSessions, resuming,
                 shutVars, registry, issued, expired>>

\* The transport refuses the body (not an initialize, a bad Host).
InitializeRefused(a) ==
  /\ stage[a] = "initialize"
  /\ Finish(a)
  /\ UNCHANGED <<inst, id, endVars, sessions, shutVars, registry, issued, expired>>

\* admitSession: the session goes live and its TTL timer is armed.  The answer that
\* carries the id goes out any time from now on.
Admit(a) ==
  /\ issued' = issued \cup {id[a]}
  /\ sessions' = [sessions EXCEPT ![inst[a]][id[a]] = a]
  /\ stage' = [stage EXCEPT ![a] = "admitted"]

InitializeAccepted(a) ==
  /\ stage[a] = "initialize"
  /\ IF Shared
     THEN stage' = [stage EXCEPT ![a] = "set"] /\ UNCHANGED <<sessions, issued>>
     ELSE Admit(a)
  /\ UNCHANGED <<inst, id, proxyServer, endVars, pendingSessions, resuming,
                 shutVars, registry, expired>>

RegistrySet(a) ==
  /\ stage[a] = "set"
  /\ registry' = registry \cup {id[a]}
  /\ Admit(a)
  /\ UNCHANGED <<inst, id, proxyServer, endVars, pendingSessions, resuming,
                 shutVars, expired>>

\* registry.set rejects: the SDK answers 400 and no session comes up.  The write may
\* have reached the store all the same.
RegistrySetRejected(a) ==
  /\ stage[a] = "set"
  /\ registry' \in {registry, registry \cup {id[a]}}
  /\ Finish(a)
  /\ UNCHANGED <<inst, id, endVars, sessions, shutVars, issued, expired>>

\* handleRequest returns (for a resume, the replay has its answer).
Answered(a) ==
  /\ stage[a] = "admitted"
  /\ Finish(a)
  /\ UNCHANGED <<inst, id, endVars, sessions, shutVars, registry, issued, expired>>

(***************************************************************************)
(* A resumed session.                                                      *)
(***************************************************************************)
\* Defect: the resume in flight is not shared.
StartResume_NotShared(a, p, s) ==
  /\ Shared /\ stage[a] = "idle" /\ Listening(p)
  /\ s \in issued /\ sessions[p][s] = None
  /\ resuming' = [resuming EXCEPT ![p][s] = a]
  /\ pendingSessions' = [pendingSessions EXCEPT ![p] = @ + 1]
  /\ stage' = [stage EXCEPT ![a] = "lookup"]
  /\ inst' = [inst EXCEPT ![a] = p]
  /\ id' = [id EXCEPT ![a] = s]
  /\ UNCHANGED <<proxyServer, endVars, sessions, shutVars, registry, issued, expired>>

\* A request for an id this process does not hold and is not resuming already.
\* (An id no client was given takes a slot for its lookup just as one whose record is
\* gone.)
StartResume(a, p, s) ==
  /\ Shared /\ stage[a] = "idle" /\ Listening(p)
  /\ s \in issued /\ sessions[p][s] = None /\ resuming[p][s] = None
  /\ resuming' = [resuming EXCEPT ![p][s] = a]
  /\ pendingSessions' = [pendingSessions EXCEPT ![p] = @ + 1]
  /\ stage' = [stage EXCEPT ![a] = "lookup"]
  /\ inst' = [inst EXCEPT ![a] = p]
  /\ id' = [id EXCEPT ![a] = s]
  /\ UNCHANGED <<proxyServer, endVars, sessions, shutVars, registry, issued, expired>>

\* The store answers registry.get; the process goes on later.
RegistryRead(a) ==
  /\ stage[a] = "lookup"
  /\ stage' = [stage EXCEPT ![a] =
       IF id[a] \in registry \ expired THEN "found" ELSE "missing"]
  /\ UNCHANGED <<inst, id, proxyServer, endVars, sessions, pendingSessions, resuming,
                 shutVars, registry, issued, expired>>

RegistryReadRejected(a) ==
  /\ stage[a] = "lookup"
  /\ Finish(a)
  /\ UNCHANGED <<inst, id, endVars, sessions, shutVars, registry, issued, expired>>

MayResume(a) ==
  /\ stage[a] = "found" /\ id[a] \notin expired
  /\ Cardinality(Live(inst[a])) + pendingSessions[inst[a]] <= MaxSessions

\* No live record (404), or the process is full (503).
ResumeRefused(a) ==
  /\ stage[a] \in {"found", "missing"} /\ ~MayResume(a)
  /\ Finish(a)
  /\ UNCHANGED <<inst, id, endVars, sessions, shutVars, registry, issued, expired>>

Replay(a) ==
  /\ MayResume(a)
  /\ stage' = [stage EXCEPT ![a] = "replay"]
  /\ proxyServer' = [proxyServer EXCEPT ![a] = TRUE]
  /\ UNCHANGED <<inst, id, endVars, sessions, pendingSessions, resuming,
                 shutVars, registry, issued, expired>>

\* The replayed initialize is accepted: the session is live here.
Resumed(a) ==
  /\ stage[a] = "replay"
  /\ Admit(a)
  /\ UNCHANGED <<inst, id, proxyServer, endVars, pendingSessions, resuming,
                 shutVars, registry, expired>>

\* Defect: a refused replay leaves the proxy server it built on the bus.
ReplayRefused_ServerLeft(a) ==
  /\ stage[a] = "replay"
  /\ stage' = [stage EXCEPT ![a] = "done"]
  /\ pendingSessions' = [pendingSessions EXCEPT ![inst[a]] = @ - 1]
  /\ resuming' = [resuming EXCEPT ![inst[a]][id[a]] = None]
  /\ UNCHANGED <<inst, id, proxyServer, endVars, sessions, shutVars, registry, issued,
                 expired>>

\* The replay fails or brings no session up: the proxy server it built is closed.
ReplayRefused(a) ==
  /\ stage[a] = "replay"
  /\ Finish(a)
  /\ UNCHANGED <<inst, id, endVars, sessions, shutVars, registry, issued, expired>>

---------------------------------------------------------------------------
(***************************************************************************)
(* The end of a session.                                                   *)
(***************************************************************************)
\* Defect: the session leaves the map only when its hook has settled.
Destroy_LeftInMap(p, S, keepRecord) ==
  LET direct == keepRecord \/ ~Shared
  IN  /\ UNCHANGED sessions
      /\ teardown' = [a \in Attempt |-> IF a \notin S THEN teardown[a]
                                        ELSE IF direct THEN "hook" ELSE "registry"]
      /\ hooks' = [a \in Attempt |-> IF a \in S /\ direct THEN hooks[a] + 1
                                     ELSE hooks[a]]

\* The synchronous head of destroySession for the sessions of S on p: out of the
\* map, timer cleared, on to the registry or to the hook, which is called.
Destroy(p, S, keepRecord) ==
  LET direct == keepRecord \/ ~Shared
  IN  /\ sessions' = [sessions EXCEPT ![p] =
                        [s \in Attempt |-> IF @[s] \in S THEN None ELSE @[s]]]
      /\ teardown' = [a \in Attempt |-> IF a \notin S THEN teardown[a]
                                        ELSE IF direct THEN "hook" ELSE "registry"]
      /\ hooks' = [a \in Attempt |-> IF a \in S /\ direct THEN hooks[a] + 1
                                     ELSE hooks[a]]

\* A DELETE that the transport accepts.  The transport closes itself, and with it the
\* proxy server, once onsessionclosed has started the teardown.
ClientDelete(a) ==
  /\ inst[a] # None /\ Listening(inst[a])
  /\ sessions[inst[a]][id[a]] = a
  /\ Destroy(inst[a], {a}, FALSE)
  /\ proxyServer' = [proxyServer EXCEPT ![a] = FALSE]
  /\ UNCHANGED <<stage, inst, id, pendingSessions, resuming, shutVars, registry,
                 issued, expired>>

\* The deadline fixed when the session was initialized passes.
DeadlinePasses(s) ==
  /\ Expires /\ s \notin expired
  /\ s \in issued \/ stage[s] = "set"
  /\ expired' = expired \cup {s}
  /\ UNCHANGED <<attemptVars, endVars, sessions, pendingSessions, resuming, shutVars,
                 registry, issued>>

\* Defect: a resumed session gets no timer.
TtlFires_NotResumed(a) ==
  /\ inst[a] # None /\ id[a] \in expired /\ id[a] = a
  /\ sessions[inst[a]][id[a]] = a
  /\ Destroy(inst[a], {a}, FALSE)
  /\ UNCHANGED <<attemptVars, pendingSessions, resuming, shutVars, registry, issued, expired>>

\* The session's own timer, armed for what is left of the deadline.
TtlFires(a) ==
  /\ inst[a] # None /\ id[a] \in expired
  /\ sessions[inst[a]][id[a]] = a
  /\ Destroy(inst[a], {a}, FALSE)
  /\ UNCHANGED <<attemptVars, pendingSessions, resuming, shutVars, registry, issued, expired>>

\* registry.delete settles, with the record gone or, when it rejects, perhaps not.
RegistryDeleted(a) ==
  /\ teardown[a] = "registry"
  /\ registry' \in {registry \ {id[a]}, registry}
  /\ teardown' = [teardown EXCEPT ![a] = "hook"]
  /\ hooks' = [hooks EXCEPT ![a] = @ + 1]
  /\ UNCHANGED <<attemptVars, sessions, pendingSessions, resuming, shutVars, issued,
                 expired>>

\* onSessionClosed settles, well or badly, and the proxy server is closed.
HookSettled(a) ==
  /\ teardown[a] = "hook"
  /\ teardown' = [teardown EXCEPT ![a] = "gone"]
  /\ proxyServer' = [proxyServer EXCEPT ![a] = FALSE]
  /\ UNCHANGED <<stage, inst, id, hooks, sessions, pendingSessions, resuming,
                 shutVars, registry, issued, expired>>

\* Defect: the attempts under way are waited for as well.
Shutdown_AwaitsPending(p) ==
  /\ closing[p] = "open"
  /\ LET S == {sessions[p][s] : s \in Live(p)}
     IN  /\ closing' = [closing EXCEPT ![p] = "closing"]
         /\ awaited' = [awaited EXCEPT ![p] = S \cup Pending(p)]
         /\ Destroy(p, S, TRUE)
  /\ UNCHANGED <<attemptVars, pendingSessions, resuming, registry, issued, expired>>

\* server.close: every session in the map is torn down, its record kept.
Shutdown(p) ==
  /\ closing[p] = "open"
  /\ LET S == {sessions[p][s] : s \in Live(p)}
     IN  /\ closing' = [closing EXCEPT ![p] = "closing"]
         /\ awaited' = [awaited EXCEPT ![p] = S]
         /\ Destroy(p, S, TRUE)
  /\ UNCHANGED <<attemptVars, pendingSessions, resuming, registry, issued, expired>>

\* Every awaited teardown has settled: rawClose, the connections are cut and the
\* close callback runs.
CloseCallback(p) ==
  /\ closing[p] = "closing"
  /\ \A a \in awaited[p] : teardown[a] = "gone"
  /\ closing' = [closing EXCEPT ![p] = "closed"]
  /\ UNCHANGED <<attemptVars, endVars, sessions, pendingSessions, resuming, awaited,
                 registry, issued, expired>>

\* A second server.close goes straight to rawClose: its callback runs once the
\* connections have ended, whatever the teardowns have come to.
CloseAgain(p) ==
  /\ ClosesTwice /\ closing[p] = "closing"
  /\ closing' = [closing EXCEPT ![p] = "closed"]
  /\ UNCHANGED <<attemptVars, endVars, sessions, pendingSessions, resuming, awaited,
                 registry, issued, expired>>

\* The process dies, in the middle of anything or after its shutdown, and a new one
\* takes its place.
Restart(p) ==
  LET gone == {a \in Attempt : inst[a] = p}
  IN  /\ gone # {} \/ closing[p] # "open"
      /\ stage' = [a \in Attempt |-> IF a \in gone THEN "done" ELSE stage[a]]
      /\ id' = [a \in Attempt |-> IF a \in gone THEN None ELSE id[a]]
      /\ hooks' = [a \in Attempt |-> IF a \in gone THEN 0 ELSE hooks[a]]
      /\ inst' = [a \in Attempt |-> IF a \in gone THEN None ELSE inst[a]]
      /\ proxyServer' = [a \in Attempt |-> a \notin gone /\ proxyServer[a]]
      /\ teardown' = [a \in Attempt |-> IF a \in gone THEN "gone" ELSE teardown[a]]
      /\ sessions' = [sessions EXCEPT ![p] = [s \in Attempt |-> None]]
      /\ pendingSessions' = [pendingSessions EXCEPT ![p] = 0]
      /\ resuming' = [resuming EXCEPT ![p] = [s \in Attempt |-> None]]
      /\ closing' = [closing EXCEPT ![p] = "open"]
      /\ awaited' = [awaited EXCEPT ![p] = {}]
      /\ UNCHANGED <<registry, issued, expired>>

---------------------------------------------------------------------------
AttemptStep(a) ==
  \/ IdentityRejected(a) \/ IdentityResolved(a)
  \/ InitializeRefused(a) \/ InitializeAccepted(a)
  \/ RegistrySet(a) \/ RegistrySetRejected(a)
  \/ RegistryRead(a) \/ RegistryReadRejected(a)
  \/ ResumeRefused(a) \/ Replay(a) \/ Resumed(a) \/ ReplayRefused(a)
  \/ Answered(a)

TeardownStep(a) == RegistryDeleted(a) \/ HookSettled(a)

Next ==
  \/ \E a \in Attempt, p \in Instance : StartInitialize(a, p)
  \/ \E a, s \in Attempt, p \in Instance : StartResume(a, p, s)
  \/ \E a \in Attempt : AttemptStep(a) \/ TeardownStep(a)
  \/ \E a \in Attempt : ClientDelete(a) \/ DeadlinePasses(a) \/ TtlFires(a)
  \/ \E p \in Instance : Shutdown(p) \/ CloseCallback(p) \/ CloseAgain(p) \/ Restart(p)

Spec == Init /\ [][Next]_vars

\* Timers fire; onSessionClosed settles (HookSettled), as does registry.delete.
\* Nothing is assumed of identities, lookups and replays, which may hang.
FairSpec ==
  /\ Spec
  /\ \A a \in Attempt : WF_vars(TtlFires(a)) /\ WF_vars(TeardownStep(a))
  /\ \A p \in Instance : WF_vars(CloseCallback(p))

---------------------------------------------------------------------------
(***************************************************************************)
(* Properties.                                                             *)
(***************************************************************************)
TypeOK ==
  /\ stage \in [Attempt -> Stage]
  /\ inst \in [Attempt -> Instance \cup {None}]
  /\ id \in [Attempt -> Attempt \cup {None}]
  /\ proxyServer \in [Attempt -> BOOLEAN]
  /\ teardown \in [Attempt -> {"none", "registry", "hook", "gone"}]
  /\ hooks \in [Attempt -> Nat]
  /\ sessions \in [Instance -> [Attempt -> Attempt \cup {None}]]
  /\ pendingSessions \in [Instance -> Nat]
  /\ resuming \in [Instance -> [Attempt -> Attempt \cup {None}]]
  /\ closing \in [Instance -> {"open", "closing", "closed"}]
  /\ awaited \in [Instance -> SUBSET Attempt]
  /\ registry \subseteq Attempt /\ issued \subseteq Attempt /\ expired \subseteq Attempt

\* A process never holds more sessions than maxSessions, however many initializes
\* and resumes are under way at once.
SessionLimit == \A p \in Instance : Cardinality(Live(p)) <= MaxSessions

\* pendingSessions counts the attempts under way: every way out of an attempt gives
\* its slot back, once.
SlotsConserved == \A p \in Instance : pendingSessions[p] = Cardinality(Pending(p))

\* A connected proxy server belongs to an attempt that has yet to admit its session,
\* to a live session, or to a teardown that will close it: none leaks.
NoLeakedServer ==
  \A a \in Attempt :
    proxyServer[a] =>
      \/ stage[a] \in {"initialize", "set", "replay"}
      \/ sessions[inst[a]][id[a]] = a
      \/ teardown[a] \in {"registry", "hook"}

\* onSessionClosed fires at most once for a session, and not while it is live, even
\* when a DELETE, the TTL and the shutdown meet.
OneHookPerSession ==
  \A a \in Attempt :
    /\ hooks[a] <= 1
    /\ inst[a] # None /\ sessions[inst[a]][id[a]] = a => hooks[a] = 0

\* A live session is never replaced by another one under its id, which would leave
\* its timer and its proxy server behind.
NeverReplaced ==
  [][\A p \in Instance, s \in Attempt :
       sessions[p][s] # None => sessions'[p][s] \in {sessions[p][s], None}]_vars

\* "server.close() does not complete until every session's hook has settled": when
\* the close callback runs, no teardown is under way.
CloseAwaitsHooks ==
  \A p \in Instance, a \in Attempt :
    closing[p] = "closed" /\ inst[a] = p => teardown[a] \notin {"registry", "hook"}

\* "dead on every instance": once a session's deadline has passed, there comes a
\* time after which no process holds it, whatever was resumed where meanwhile.
DeadlineKills ==
  \A s \in Attempt : (s \in expired) ~> [](\A p \in Instance : sessions[p][s] = None)

\* server.close completes, whatever requests come during the shutdown.
ShutdownCompletes ==
  \A p \in Instance : closing[p] = "closing" ~> closing[p] # "closing"

=============================================================================
