--------------------------- MODULE AuditSession ---------------------------
(***************************************************************************)
(* The session life cycle of createAuditMiddleware                         *)
(* (packages/audit/src/middleware.ts): audited calls that are admitted to  *)
(* a session, run upstream and append a chained event, and closeSession,   *)
(* which drains the session, seals its manifest, signs it and delivers it, *)
(* with retries.                                                           *)
(*                                                                         *)
(* Node runs one callback at a time, so an action is what runs between two *)
(* awaits.  A Call is one invocation of the middleware (`observe`).  A     *)
(* SessionState object is created by the first call that finds no session  *)
(* under its id, and is named here by that call: `session[c]` is the       *)
(* object call c captured, and `events[o]`, `inflight[o]`, ... are the     *)
(* fields of object o.  Several objects can carry one session id, one      *)
(* after the other (the id is reused, or a late call comes after a close). *)
(*                                                                         *)
(* Abstracted: what an event says (its call stands for it), the bytes of   *)
(* hashes (ChainHash is an injective constructor, as a collision-free HMAC *)
(* is), signatures (a flag), the Merkle root (the list of leaves it        *)
(* commits to, see MerkleTree), and the two clocks (a deadline may pass at *)
(* any time after the close began).                                        *)
(***************************************************************************)
EXTENDS Integers, Sequences

CONSTANTS
  Call,                 \* invocations of the middleware
  SessionId,            \* session ids the host uses
  None,                 \* `undefined`
  Erasable,             \* options.keyStore is given
  IncludeRejections,    \* options.includeRejections
  FiniteDrain,          \* closeDrainTimeoutMs is not Infinity
  SignThrowsSync,       \* signingKey.sign may throw before it returns a promise
  SinkThrowsSync,       \* onManifest may throw before it returns a promise
  ReuseDuringDelivery   \* the host may open a session under an id whose
                        \*   earlier manifest is being signed or delivered

ASSUME NoneIsNew == None \notin Call \cup SessionId \cup Nat
ASSUME OptionsAreBoolean ==
  {Erasable, IncludeRejections, FiniteDrain, SignThrowsSync, SinkThrowsSync,
   ReuseDuringDelivery} \subseteq BOOLEAN

VARIABLES
  \* one audited call
  pc,             \* where `observe` stands
  sid,            \* ctx.sessionId
  session,        \* the SessionState captured at admission
  outcome,        \* what `next` settled with
  \* shared by the whole middleware
  subkeys,        \* the memoized derivation promise
  sessions,       \* session id -> live SessionState
  sealed,         \* session id -> SealedSession
  \* fields of a SessionState
  events,
  prevChainHash,
  inflight,
  closing,        \* where `sealSession` stands
  expired,        \* the drain deadline has passed
  \* fields of a SealedSession
  manifest,       \* the event hashes `unsigned` covers, <<>> before sealing
  signature,
  attempt,        \* where the sign-and-deliver attempt stands
  \* what the host has seen
  signings,       \* object -> how often the provider signed its manifest
  delivered,      \* objects whose manifest onManifest accepted
  reported,       \* calls whose audit failure went to onAuditError
  stragglers,     \* calls reported as "its event is not in the manifest"
  replaced        \* objects whose undelivered manifest was reported replaced

callVars  == <<pc, sid, session, outcome>>
chainVars == <<events, prevChainHash>>
sealVars  == <<manifest, signature, attempt, signings, delivered, replaced>>
vars == <<callVars, subkeys, sessions, sealed, chainVars, inflight, closing,
          expired, sealVars, reported, stragglers>>

\* How `next` can settle, as far as the flow of `observe` tells: with an error that
\* carries a known rejectionReason, or in any other way (success or error).
Outcome == {"answered", "rejected"}
Active == {"subkeys", "subjectKey", "next", "onEvent"}

(***************************************************************************)
(* The chain.  A hash commits to the previous hash and to the event: its   *)
(* id and its position.                                                    *)
(***************************************************************************)
Hash == Seq(Call \X Nat)
Event == [call : Call, position : Nat, chainHash : Hash]

ChainHash(c, position, prev) == Append(prev, <<c, position>>)

buildEvent(c, position, prev) ==
  [call |-> c, position |-> position, chainHash |-> ChainHash(c, position, prev)]

\* verifyAuditChain on a non-empty list of events.
ChainVerifies(evs) ==
  \A i \in 1 .. Len(evs) :
    /\ evs[i].position = i - 1
    /\ evs[i].chainHash =
         ChainHash(evs[i].call, i - 1, IF i = 1 THEN <<>> ELSE evs[i - 1].chainHash)

Recorded(o) == {events[o][i].call : i \in 1 .. Len(events[o])}

---------------------------------------------------------------------------
(***************************************************************************)
(* An audited call.                                                        *)
(***************************************************************************)
Init ==
  /\ pc = [c \in Call |-> "idle"]
  /\ sid = [c \in Call |-> None]
  /\ session = [c \in Call |-> None]
  /\ outcome = [c \in Call |-> None]
  /\ subkeys = "unset"
  /\ sessions = [id \in SessionId |-> None]
  /\ sealed = [id \in SessionId |-> None]
  /\ events = [o \in Call |-> <<>>]
  /\ prevChainHash = [o \in Call |-> <<>>]
  /\ inflight = [o \in Call |-> {}]
  /\ closing = [o \in Call |-> "open"]
  /\ expired = [o \in Call |-> FALSE]
  /\ manifest = [o \in Call |-> <<>>]
  /\ signature = [o \in Call |-> FALSE]
  /\ attempt = [o \in Call |-> "none"]
  /\ signings = [o \in Call |-> 0]
  /\ delivered = {}
  /\ reported = {}
  /\ stragglers = {}
  /\ replaced = {}

MayOpen(id) ==
  ReuseDuringDelivery \/ \A o \in Call : sid[o] = id => attempt[o] = "none"

\* The synchronous head of `observe`: open the session if there is none under
\* the id, admit the call, ask for the subkeys.
Admit(c, id) ==
  /\ pc[c] = "idle"
  /\ id # None /\ sessions[id] = None => MayOpen(id)
  /\ LET o == IF id = None THEN None
              ELSE IF sessions[id] = None THEN c ELSE sessions[id]
     IN  /\ session' = [session EXCEPT ![c] = o]
         /\ sessions' = IF o = c THEN [sessions EXCEPT ![id] = c] ELSE sessions
         /\ inflight' = IF o = None THEN inflight
                        ELSE [inflight EXCEPT ![o] = @ \cup {c}]
  /\ sid' = [sid EXCEPT ![c] = id]
  /\ pc' = [pc EXCEPT ![c] = "subkeys"]
  /\ subkeys' = IF subkeys = "unset" THEN "deriving" ELSE subkeys
  /\ UNCHANGED <<outcome, sealed, chainVars, closing, expired, sealVars, reported,
                 stragglers>>

\* The `finally` of `observe`, for all the calls of S: leave `inflight`, and
\* wake the drain that waits for it to empty.
Settle(S) ==
  /\ inflight' = [o \in Call |-> inflight[o] \ S]
  /\ closing' = [o \in Call |->
                   IF /\ closing[o] = "waiting"
                      /\ \E c \in S : session[c] = o
                      /\ inflight[o] \subseteq S
                   THEN "woken" ELSE closing[o]]

SubkeysDerived ==
  /\ subkeys = "deriving"
  /\ subkeys' = "ready"
  /\ UNCHANGED <<callVars, sessions, sealed, chainVars, inflight, closing, expired,
                 sealVars, reported, stragglers>>

\* Defect: the calls that fail together do not leave `inflight`.
SubkeysRejected_StillInFlight ==
  /\ subkeys = "deriving"
  /\ subkeys' = "unset"
  /\ pc' = [c \in Call |-> IF pc[c] = "subkeys" THEN "done" ELSE pc[c]]
  /\ UNCHANGED <<sid, session, outcome, sessions, sealed, chainVars, inflight, closing,
                 expired, sealVars, reported, stragglers>>

\* The provider rejects: every call that joined the derivation fails without an
\* event, and the memo is cleared so that a later call derives again.
SubkeysRejected ==
  /\ subkeys = "deriving"
  /\ subkeys' = "unset"
  /\ LET waiting == {c \in Call : pc[c] = "subkeys"}
     IN  /\ pc' = [c \in Call |-> IF c \in waiting THEN "done" ELSE pc[c]]
         /\ Settle(waiting)
  /\ UNCHANGED <<sid, session, outcome, sessions, sealed, chainVars, expired,
                 sealVars, reported, stragglers>>

HaveSubkeys(c) ==
  /\ pc[c] = "subkeys" /\ subkeys = "ready"
  /\ pc' = [pc EXCEPT ![c] = IF Erasable THEN "subjectKey" ELSE "next"]
  /\ UNCHANGED <<sid, session, outcome, subkeys, sessions, sealed, chainVars,
                 inflight, closing, expired, sealVars, reported, stragglers>>

SubjectKeyFetched(c) ==
  /\ pc[c] = "subjectKey"
  /\ pc' = [pc EXCEPT ![c] = "next"]
  /\ UNCHANGED <<sid, session, outcome, subkeys, sessions, sealed, chainVars,
                 inflight, closing, expired, sealVars, reported, stragglers>>

SubjectKeyRejected(c) ==
  /\ pc[c] = "subjectKey"
  /\ pc' = [pc EXCEPT ![c] = "done"]
  /\ Settle({c})
  /\ UNCHANGED <<sid, session, outcome, subkeys, sessions, sealed, chainVars,
                 expired, sealVars, reported, stragglers>>

\* Defect: the chain tip is not advanced.
AppendEvent_StaleTip(o, c) ==
  IF o = None THEN UNCHANGED chainVars
  ELSE /\ events' = [events EXCEPT
               ![o] = Append(@, buildEvent(c, Len(events[o]), prevChainHash[o]))]
       /\ UNCHANGED prevChainHash

\* Defect: the position is the index of the last event, not of the new one.
AppendEvent_OffByOne(o, c) ==
  IF o = None THEN UNCHANGED chainVars
  ELSE LET event == buildEvent(c, Len(events[o]) - 1, prevChainHash[o])
       IN  /\ events' = [events EXCEPT ![o] = Append(@, event)]
           /\ prevChainHash' = [prevChainHash EXCEPT ![o] = event.chainHash]

\* What an appended event does to the captured session.
AppendEvent(o, c) ==
  IF o = None THEN UNCHANGED chainVars
  ELSE LET event == buildEvent(c, Len(events[o]), prevChainHash[o])
       IN  /\ events' = [events EXCEPT ![o] = Append(@, event)]
           /\ prevChainHash' = [prevChainHash EXCEPT ![o] = event.chainHash]

ToRecord(result) == result # "rejected" \/ IncludeRejections

\* `next` settles: classify, read the position, build the event, append it and
\* call onEvent, in one piece.  A throwing sensitivityResolver is reported and
\* the event is recorded all the same.
NextSettled(c, result) ==
  /\ pc[c] = "next" /\ ToRecord(result)
  /\ outcome' = [outcome EXCEPT ![c] = result]
  /\ reported' \in {reported, reported \cup {c}}
  /\ AppendEvent(session[c], c)
  /\ pc' = [pc EXCEPT ![c] = "onEvent"]
  /\ UNCHANGED <<sid, session, subkeys, sessions, sealed, inflight, closing,
                 expired, sealVars, stragglers>>

NextNotRecorded(c, result) ==
  /\ pc[c] = "next" /\ ~ToRecord(result)
  /\ outcome' = [outcome EXCEPT ![c] = result]
  /\ pc' = [pc EXCEPT ![c] = "done"]
  /\ Settle({c})
  /\ UNCHANGED <<sid, session, subkeys, sessions, sealed, chainVars, expired,
                 sealVars, reported, stragglers>>

\* Defect: the failure of the audit section is swallowed.
BuildEventThrows_Silent(c, result) ==
  /\ pc[c] = "next" /\ ToRecord(result)
  /\ outcome' = [outcome EXCEPT ![c] = result]
  /\ pc' = [pc EXCEPT ![c] = "done"]
  /\ Settle({c})
  /\ UNCHANGED <<sid, session, subkeys, sessions, sealed, chainVars, expired,
                 sealVars, reported, stragglers>>

\* buildEvent throws (a payload whose toJSON throws): reported, nothing appended.
BuildEventThrows(c, result) ==
  /\ pc[c] = "next" /\ ToRecord(result)
  /\ outcome' = [outcome EXCEPT ![c] = result]
  /\ reported' = reported \cup {c}
  /\ pc' = [pc EXCEPT ![c] = "done"]
  /\ Settle({c})
  /\ UNCHANGED <<sid, session, subkeys, sessions, sealed, chainVars, expired,
                 sealVars, stragglers>>

OnEventFulfilled(c) ==
  /\ pc[c] = "onEvent"
  /\ pc' = [pc EXCEPT ![c] = "done"]
  /\ Settle({c})
  /\ UNCHANGED <<sid, session, outcome, subkeys, sessions, sealed, chainVars,
                 expired, sealVars, reported, stragglers>>

OnEventRejected(c) ==
  /\ pc[c] = "onEvent"
  /\ pc' = [pc EXCEPT ![c] = "done"]
  /\ reported' = reported \cup {c}
  /\ Settle({c})
  /\ UNCHANGED <<sid, session, outcome, subkeys, sessions, sealed, chainVars,
                 expired, sealVars, stragglers>>

---------------------------------------------------------------------------
(***************************************************************************)
(* closeSession.                                                           *)
(***************************************************************************)
\* Where `finalize` gets with a manifest that is not signed.  When `sign` throws before it
\* returns, the attempt has run to its end, `finally` included, before
\* `pending.attempt ??=` stores its rejected promise: the promise stays.
FirstAttempt == {"signing"} \cup IF SignThrowsSync THEN {"rejected"} ELSE {}

\* Defect: the sealed session stays in the admission map.
Seal_StillAdmitting(o, id, late) ==
  /\ closing' = [closing EXCEPT ![o] = "sealed"]
  /\ stragglers' = stragglers \cup late
  /\ IF events[o] = <<>>
     THEN UNCHANGED <<sessions, sealed, manifest, attempt, replaced>>
     ELSE /\ manifest' = [manifest EXCEPT
               ![o] = [i \in 1 .. Len(events[o]) |-> events[o][i].chainHash]]
          /\ sealed' = [sealed EXCEPT ![id] = o]
          /\ \E to \in FirstAttempt : attempt' = [attempt EXCEPT ![o] = to]
          /\ UNCHANGED <<sessions, replaced>>

\* The tail of `sealSession` for object o under id, once the drain is over:
\* leave the admission map, fix the manifest, hand it to `finalize`.
Seal(o, id, late) ==
  /\ closing' = [closing EXCEPT ![o] = "sealed"]
  /\ stragglers' = stragglers \cup late
  /\ sessions' = [sessions EXCEPT ![id] = None]
  /\ IF events[o] = <<>>
     THEN UNCHANGED <<sealed, manifest, attempt, replaced>>
     ELSE /\ manifest' = [manifest EXCEPT
               ![o] = [i \in 1 .. Len(events[o]) |-> events[o][i].chainHash]]
          /\ replaced' = IF sealed[id] = None THEN replaced
                         ELSE replaced \cup {sealed[id]}
          /\ sealed' = [sealed EXCEPT ![id] = o]
          /\ \E to \in FirstAttempt : attempt' = [attempt EXCEPT ![o] = to]

\* closeSession on a live session whose close has not begun: seal at once when
\* nothing is in flight, else wait.  (A later closeSession joins `closing` and
\* changes nothing.)
CloseLive(id) ==
  LET o == sessions[id] IN
  /\ o # None /\ closing[o] = "open"
  /\ IF inflight[o] = {}
     THEN Seal(o, id, {})
     ELSE /\ closing' = [closing EXCEPT ![o] = "waiting"]
          /\ UNCHANGED <<sessions, sealed, manifest, attempt, replaced, stragglers>>
  /\ UNCHANGED <<callVars, subkeys, chainVars, inflight, expired, signature,
                 signings, delivered, reported>>

\* Defect: the deadline is looked at only when a call settles.
DeadlinePasses_NoWake(o) ==
  /\ FiniteDrain
  /\ closing[o] \in {"waiting", "woken"} /\ ~expired[o]
  /\ expired' = [expired EXCEPT ![o] = TRUE]
  /\ UNCHANGED <<callVars, subkeys, sessions, sealed, chainVars, inflight, closing,
                 sealVars, reported, stragglers>>

\* The drain timer fires.
DeadlinePasses(o) ==
  /\ FiniteDrain
  /\ closing[o] \in {"waiting", "woken"} /\ ~expired[o]
  /\ expired' = [expired EXCEPT ![o] = TRUE]
  /\ closing' = [closing EXCEPT ![o] = "woken"]
  /\ UNCHANGED <<callVars, subkeys, sessions, sealed, chainVars, inflight, sealVars,
                 reported, stragglers>>

\* The drain loop runs on after its wait: a call may have been admitted between
\* the wake-up and now, so it looks at `inflight` again.
DrainAgain(o) ==
  /\ closing[o] = "woken"
  /\ inflight[o] # {} /\ ~expired[o]
  /\ closing' = [closing EXCEPT ![o] = "waiting"]
  /\ UNCHANGED <<callVars, subkeys, sessions, sealed, chainVars, inflight, expired,
                 sealVars, reported, stragglers>>

\* Defect: the drain does not look again after its wait.
DrainEnds_NoRecheck(o) ==
  /\ closing[o] = "woken"
  /\ Seal(o, sid[o], {})
  /\ UNCHANGED <<callVars, subkeys, chainVars, inflight, expired, signature,
                 signings, delivered, reported>>

DrainEnds(o) ==
  /\ closing[o] = "woken"
  /\ inflight[o] = {} \/ expired[o]
  /\ Seal(o, sid[o], inflight[o])
  /\ UNCHANGED <<callVars, subkeys, chainVars, inflight, expired, signature,
                 signings, delivered, reported>>

\* Defect: a retry signs again.
RetryFinalize_SignsAgain(id) ==
  LET o == sealed[id] IN
  /\ sessions[id] = None /\ o # None /\ attempt[o] = "none"
  /\ attempt' = [attempt EXCEPT ![o] = "signing"]
  /\ UNCHANGED <<callVars, subkeys, sessions, sealed, chainVars, inflight, closing,
                 expired, manifest, signature, signings, delivered, replaced,
                 reported, stragglers>>

\* Defect: a retry builds the manifest from the events there are now.
RetryFinalize_Rebuilds(id) ==
  LET o == sealed[id] IN
  /\ sessions[id] = None /\ o # None /\ attempt[o] = "none"
  /\ attempt' = [attempt EXCEPT ![o] = IF signature[o] THEN "delivering" ELSE "signing"]
  /\ manifest' = [manifest EXCEPT
       ![o] = [i \in 1 .. Len(events[o]) |-> events[o][i].chainHash]]
  /\ UNCHANGED <<callVars, subkeys, sessions, sealed, chainVars, inflight, closing,
                 expired, signature, signings, delivered, replaced, reported,
                 stragglers>>

\* closeSession on a sealed, undelivered session with no attempt in progress:
\* resume where the last attempt stopped.
RetryFinalize(id) ==
  LET o == sealed[id] IN
  /\ sessions[id] = None /\ o # None /\ attempt[o] = "none"
  /\ attempt' = [attempt EXCEPT ![o] = IF signature[o] THEN "delivering" ELSE "signing"]
  /\ UNCHANGED <<callVars, subkeys, sessions, sealed, chainVars, inflight, closing,
                 expired, manifest, signature, signings, delivered, replaced,
                 reported, stragglers>>

\* The same, but what it calls first, onManifest when the signature is there and `sign`
\* when not, throws before it returns: see FirstAttempt.
RetryThrowsSync(id) ==
  LET o == sealed[id] IN
  /\ sessions[id] = None /\ o # None /\ attempt[o] = "none"
  /\ IF signature[o] THEN SinkThrowsSync ELSE SignThrowsSync
  /\ attempt' = [attempt EXCEPT ![o] = "rejected"]
  /\ UNCHANGED <<callVars, subkeys, sessions, sealed, chainVars, inflight, closing,
                 expired, manifest, signature, signings, delivered, replaced,
                 reported, stragglers>>

Signed(o) ==
  /\ attempt[o] = "signing"
  /\ signature' = [signature EXCEPT ![o] = TRUE]
  /\ signings' = [signings EXCEPT ![o] = @ + 1]
  /\ attempt' = [attempt EXCEPT ![o] = "delivering"]
  /\ UNCHANGED <<callVars, subkeys, sessions, sealed, chainVars, inflight, closing,
                 expired, manifest, delivered, replaced, reported, stragglers>>

\* Defect: the sealed session is released whatever became of the attempt.
AttemptRejected_Releases(o) ==
  /\ attempt[o] \in {"signing", "delivering"}
  /\ attempt' = [attempt EXCEPT ![o] = "none"]
  /\ sealed' = [sealed EXCEPT ![sid[o]] = None]
  /\ UNCHANGED <<callVars, subkeys, sessions, chainVars, inflight, closing, expired,
                 manifest, signature, signings, delivered, replaced, reported,
                 stragglers>>

\* Defect: the rejected attempt stays memoized.
AttemptRejected_Kept(o) ==
  /\ attempt[o] \in {"signing", "delivering"}
  /\ attempt' = [attempt EXCEPT ![o] = "rejected"]
  /\ UNCHANGED <<callVars, subkeys, sessions, sealed, chainVars, inflight, closing,
                 expired, manifest, signature, signings, delivered, replaced,
                 reported, stragglers>>

\* The provider or the sink rejects; `finally` frees the attempt for a retry.
AttemptRejected(o) ==
  /\ attempt[o] \in {"signing", "delivering"}
  /\ attempt' = [attempt EXCEPT ![o] = "none"]
  /\ UNCHANGED <<callVars, subkeys, sessions, sealed, chainVars, inflight, closing,
                 expired, manifest, signature, signings, delivered, replaced,
                 reported, stragglers>>

\* onManifest settles: whatever is sealed under the id is forgotten.
Delivered(o) ==
  /\ attempt[o] = "delivering"
  /\ attempt' = [attempt EXCEPT ![o] = "none"]
  /\ delivered' = delivered \cup {o}
  /\ sealed' = [sealed EXCEPT ![sid[o]] = None]
  /\ UNCHANGED <<callVars, subkeys, sessions, chainVars, inflight, closing, expired,
                 manifest, signature, signings, replaced, reported, stragglers>>

---------------------------------------------------------------------------
CallStep(c) ==
  \/ HaveSubkeys(c)
  \/ SubjectKeyFetched(c)
  \/ SubjectKeyRejected(c)
  \/ \E result \in Outcome : NextSettled(c, result)
  \/ \E result \in Outcome : NextNotRecorded(c, result)
  \/ \E result \in Outcome : BuildEventThrows(c, result)
  \/ OnEventFulfilled(c)
  \/ OnEventRejected(c)

CloseStep(o) ==
  \/ DeadlinePasses(o)
  \/ DrainAgain(o)
  \/ DrainEnds(o)
  \/ Signed(o)
  \/ AttemptRejected(o)
  \/ Delivered(o)

Next ==
  \/ \E c \in Call, id \in SessionId \cup {None} : Admit(c, id)
  \/ SubkeysDerived
  \/ SubkeysRejected
  \/ \E c \in Call : CallStep(c)
  \/ \E o \in Call : CloseStep(o)
  \/ \E id \in SessionId : CloseLive(id) \/ RetryFinalize(id) \/ RetryThrowsSync(id)

Spec == Init /\ [][Next]_vars

\* The event loop runs the timer and the continuation of a drain.  Nothing is
\* assumed of the calls: a handler or a sink may hang for ever.
FairDrain ==
  \A o \in Call : WF_vars(DeadlinePasses(o)) /\ WF_vars(DrainAgain(o) \/ DrainEnds(o))

\* The host closes what is open and retries what was rejected, and neither the
\* provider nor the sink rejects for ever.
FairRetry ==
  /\ \A id \in SessionId : WF_vars(CloseLive(id)) /\ WF_vars(RetryFinalize(id))
  /\ \A o \in Call : SF_vars(Signed(o)) /\ SF_vars(Delivered(o))

FairSpec == Spec /\ FairDrain /\ FairRetry

---------------------------------------------------------------------------
(***************************************************************************)
(* Properties.                                                             *)
(***************************************************************************)
TypeOK ==
  /\ pc \in [Call -> Active \cup {"idle", "done"}]
  /\ sid \in [Call -> SessionId \cup {None}]
  /\ session \in [Call -> Call \cup {None}]
  /\ outcome \in [Call -> Outcome \cup {None}]
  /\ subkeys \in {"unset", "deriving", "ready"}
  /\ sessions \in [SessionId -> Call \cup {None}]
  /\ sealed \in [SessionId -> Call \cup {None}]
  /\ events \in [Call -> Seq(Event)]
  /\ prevChainHash \in [Call -> Hash]
  /\ inflight \in [Call -> SUBSET Call]
  /\ closing \in [Call -> {"open", "waiting", "woken", "sealed"}]
  /\ expired \in [Call -> BOOLEAN]
  /\ manifest \in [Call -> Seq(Hash)]
  /\ signature \in [Call -> BOOLEAN]
  /\ attempt \in [Call -> {"none", "signing", "delivering", "rejected"}]
  /\ signings \in [Call -> Nat]
  /\ delivered \subseteq Call /\ reported \subseteq Call
  /\ stragglers \subseteq Call /\ replaced \subseteq Call

\* verifyAuditChain accepts the events of every session object, however the calls
\* of the session interleave and whatever fails between them.
TrailVerifies == \A o \in Call : ChainVerifies(events[o])

\* Every event recorded in a session is, at any later time, in a session that a
\* closeSession can still seal, or in the sealed manifest at its own position, or
\* its call was reported as left out: no event becomes an orphan (#168).
NoOrphanEvent ==
  \A o \in Call : \A i \in 1 .. Len(events[o]) :
    \/ sessions[sid[o]] = o
    \/ i <= Len(manifest[o]) /\ manifest[o][i] = events[o][i].chainHash
    \/ events[o][i].call \in stragglers

\* A call that ran upstream and has settled is in its session's trail, unless its
\* failure was reported or it is a rejection the options leave out.  (A call with
\* no session has no trail to be in.)
EveryCallAccounted ==
  \A c \in Call :
    pc[c] = "done" /\ outcome[c] # None /\ session[c] # None
      => \/ c \in Recorded(session[c])
         \/ c \in reported
         \/ ~ToRecord(outcome[c])

\* A close that waits has somebody to wait for: a call that is under way and whose
\* `finally` will wake it.  Calls that fail before they run, all at once when their
\* shared key derivation is rejected, must not leave a drain behind that only its
\* deadline ends, or nothing where closeDrainTimeoutMs is Infinity.
NoLostWakeUp ==
  \A o \in Call : closing[o] = "waiting" =>
    \E c \in inflight[o] : pc[c] \in Active /\ session[c] = o

\* "never a second signed artifact": however often the host retries, the provider
\* signs a session's manifest once.
OneSignature == \A o \in Call : signings[o] <= 1

\* "A retry signs the same payload and delivers the same manifest": once fixed, a
\* manifest never changes, even if a straggler appends to the session after it.
ManifestFrozen ==
  [][\A o \in Call : manifest[o] # <<>> => manifest'[o] = manifest[o]]_vars

\* "The state is released only once onManifest has settled successfully": a sealed
\* manifest stays where closeSession finds it until it is delivered, or its loss
\* is reported.
RetainedUntilDelivered ==
  \A o \in Call :
    manifest[o] # <<>> => o \in delivered \cup replaced \/ sealed[sid[o]] = o

\* A straggler is reported with "its event is not in the manifest": no manifest
\* holds the event of a call so reported.
StragglersLeftOut ==
  \A o \in Call : \A i \in 1 .. Len(manifest[o]) :
    events[o][i].call \notin stragglers

\* closeSession seals within the drain deadline even if a handler or a sink of the
\* session never settles, and however many calls come while it drains.
CloseSeals ==
  \A o \in Call : closing[o] \in {"waiting", "woken"} ~> closing[o] = "sealed"

\* "A rejection from the signing provider or from onManifest is retryable": with a
\* host that retries and a sink that recovers, every manifest is delivered or
\* reported replaced.
RetryDelivers ==
  \A o \in Call : manifest[o] # <<>> ~> o \in delivered \cup replaced

(***************************************************************************)
(* What a host relies on: see AuditTrail.                                  *)
(***************************************************************************)
Trail == INSTANCE AuditTrail WITH
  Session <- Call,
  trail <- [o \in Call |-> [i \in 1 .. Len(events[o]) |-> events[o][i].call]],
  covered <- [o \in Call |-> IF closing[o] = "sealed" THEN Len(manifest[o]) ELSE None],
  excused <- stragglers,
  accepted <- delivered

\* The middleware implements the abstract trail.
ImplementsTrail == Trail!Spec

=============================================================================
