------------------------- MODULE AuditTrail_proofs -------------------------
(***************************************************************************)
(* What becomes of calls and manifests in AuditSession, and that it        *)
(* implements AuditTrail, for any calls, session ids and options.          *)
(***************************************************************************)
EXTENDS AuditSession_proofs

(***************************************************************************)
(* The invariants, which rest on IInv of AuditSession_proofs.              *)
(***************************************************************************)
\* Once a call's outcome is known, its event is in the trail of the session it captured,
\* or there is a reason why not.
Accounted ==
  \A c \in Call :
    /\ pc[c] \notin {"onEvent", "done"} => outcome[c] = None
    /\ outcome[c] # None /\ session[c] # None =>
         c \in Recorded(session[c]) \/ c \in reported \/ ~ToRecord(outcome[c])

\* A recorded call is past its event, so it is recorded once.
RecordedOnce ==
  \A o \in Call : \A i \in 1 .. Len(events[o]) : pc[events[o][i].call] \in {"onEvent", "done"}

\* An attempt to sign and deliver is for a sealed object, and what is sealed under an id
\* is not delivered yet.
Delivery ==
  /\ \A o \in Call : attempt[o] # "none" \/ o \in delivered =>
       closing[o] = "sealed" /\ manifest[o] # <<>> /\ sid[o] \in SessionId
  /\ \A o \in Call : attempt[o] # "none" => o \notin delivered
  /\ \A id \in SessionId : sealed[id] # None =>
       /\ closing[sealed[id]] = "sealed" /\ manifest[sealed[id]] # <<>>
       /\ sid[sealed[id]] = id /\ sealed[id] \notin delivered

\* Without reuse of an id during a delivery, nothing is opened under it or sealed over it.
Undisturbed ==
  /\ \A o \in Call : attempt[o] # "none" =>
       sealed[sid[o]] = o /\ sessions[sid[o]] = None
  /\ \A o \in Call : manifest[o] # <<>> =>
       /\ sid[o] \in SessionId
       /\ o \in delivered \cup replaced \/ sealed[sid[o]] = o

TrailInv == Accounted /\ RecordedOnce /\ Delivery

---------------------------------------------------------------------------
(***************************************************************************)
(* The kinds of steps.                                                     *)
(***************************************************************************)
\* A call stays where it is, moves on before its outcome is known, or is done.
CallMoves(c) ==
  \/ pc'[c] = pc[c] /\ outcome'[c] = outcome[c]
  \/ /\ pc[c] \notin {"onEvent", "done"} /\ pc'[c] \notin {"idle", "onEvent", "done"}
     /\ outcome'[c] = outcome[c]
  \/ /\ pc'[c] = "done"
     /\ \/ outcome'[c] = outcome[c]
        \/ ~ToRecord(outcome'[c]) \/ c \in reported'

\* Calls move and settle, drains begin, wake and go on; no event is recorded and nothing is
\* sealed or delivered.
CallsMove ==
  /\ \A c \in Call : CallMoves(c)
  /\ \A o \in Call : closing'[o] = "sealed" <=> closing[o] = "sealed"
  /\ reported \subseteq reported'
  /\ UNCHANGED <<sid, session, sessions, sealed, chainVars, sealVars, stragglers>>

\* An object is sealed.
Seals(o, id) ==
  /\ session[o] = o /\ sid[o] = id /\ sessions[id] = o /\ closing[o] # "sealed"
  /\ Seal(o, id, inflight[o])
  /\ UNCHANGED <<callVars, chainVars, delivered, reported>>

\* An attempt begins or goes on.
Attempts ==
  /\ \/ \E id \in SessionId : /\ sealed[id] # None /\ sessions[id] = None
                              /\ \E to : attempt' = [attempt EXCEPT ![sealed[id]] = to]
     \/ \E o \in Call : /\ attempt[o] # "none"
                        /\ \E to : attempt' = [attempt EXCEPT ![o] = to]
  /\ UNCHANGED <<callVars, sessions, sealed, chainVars, closing, manifest, delivered, replaced,
                 reported, stragglers>>

TrailKinds ==
  \/ \E c \in Call, id \in SessionId \cup {None} : Admit(c, id)
  \/ \E c \in Call, result \in Outcome : NextSettled(c, result)
  \/ CallsMove
  \/ \E o \in Call, id \in SessionId : Seals(o, id)
  \/ Attempts
  \/ \E o \in Call : Delivered(o)

\* Every step is one of these.
LEMMA TrailStepKinds ==
  ASSUME IInv, [Next]_vars
  PROVE  TrailKinds
<1> TypeOK
  BY DEF IInv
<1>1. ASSUME NEW S \in SUBSET Call, Settle(S)
      PROVE  \A o \in Call : closing'[o] = "sealed" <=> closing[o] = "sealed"
  BY <1>1 DEF Settle
<1> USE DEF callVars, chainVars, sealVars
<1>2. CASE SubkeysDerived \/ UNCHANGED vars
  BY <1>2 DEF SubkeysDerived, vars, CallsMove, CallMoves, TrailKinds
<1>3. CASE SubkeysRejected
  <2> DEFINE S == {c \in Call : pc[c] = "subkeys"}
  <2>1. Settle(S) /\ S \in SUBSET Call
    BY <1>3 DEF SubkeysRejected
  <2>2. \A c \in Call : CallMoves(c)
    BY <1>3 DEF SubkeysRejected, CallMoves
  <2>3. CallsMove
    BY <1>1, <1>3, <2>1, <2>2 DEF SubkeysRejected, CallsMove
  <2> QED BY <2>3 DEF TrailKinds
<1>4. ASSUME NEW c \in Call, CallStep(c) PROVE TrailKinds
  <2>1. CASE HaveSubkeys(c) \/ SubjectKeyFetched(c)
    <3>1. \A d \in Call : CallMoves(d)
      BY <2>1 DEF HaveSubkeys, SubjectKeyFetched, CallMoves, TypeOK
    <3>2. CallsMove
      BY <2>1, <3>1 DEF HaveSubkeys, SubjectKeyFetched, CallsMove
    <3> QED BY <3>2 DEF TrailKinds
  <2>2. CASE SubjectKeyRejected(c) \/ OnEventFulfilled(c) \/ OnEventRejected(c)
    <3>1. \A d \in Call : CallMoves(d)
      BY <2>2 DEF SubjectKeyRejected, OnEventFulfilled, OnEventRejected, CallMoves, TypeOK
    <3>2. Settle({c}) /\ reported \subseteq reported'
      BY <2>2 DEF SubjectKeyRejected, OnEventFulfilled, OnEventRejected
    <3>3. CallsMove
      BY <1>1, <2>2, <3>1, <3>2
         DEF SubjectKeyRejected, OnEventFulfilled, OnEventRejected, CallsMove
    <3> QED BY <3>3 DEF TrailKinds
  <2>3. ASSUME NEW result \in Outcome,
               NextNotRecorded(c, result) \/ BuildEventThrows(c, result)
        PROVE  TrailKinds
    <3>1. \A d \in Call : CallMoves(d)
      BY <2>3 DEF NextNotRecorded, BuildEventThrows, CallMoves, TypeOK
    <3>2. Settle({c}) /\ reported \subseteq reported'
      BY <2>3 DEF NextNotRecorded, BuildEventThrows
    <3>3. CallsMove
      BY <1>1, <2>3, <3>1, <3>2 DEF NextNotRecorded, BuildEventThrows, CallsMove
    <3> QED BY <3>3 DEF TrailKinds
  <2>4. ASSUME NEW result \in Outcome, NextSettled(c, result) PROVE TrailKinds
    BY <2>4 DEF TrailKinds
  <2> QED BY <1>4, <2>1, <2>2, <2>3, <2>4 DEF CallStep
<1>5. ASSUME NEW o \in Call, CloseStep(o) PROVE TrailKinds
  <2>1. CASE DeadlinePasses(o) \/ DrainAgain(o)
    <3>1. \A c \in Call : CallMoves(c)
      BY <2>1 DEF DeadlinePasses, DrainAgain, CallMoves
    <3>2. \A p \in Call : closing'[p] = "sealed" <=> closing[p] = "sealed"
      BY <2>1 DEF DeadlinePasses, DrainAgain, TypeOK
    <3>3. CallsMove
      BY <2>1, <3>1, <3>2 DEF DeadlinePasses, DrainAgain, CallsMove
    <3> QED BY <3>3 DEF TrailKinds
  <2>2. CASE DrainEnds(o)
    <3>1. session[o] = o /\ closing[o] # "sealed"
      BY <2>2 DEF DrainEnds, IInv, Opened
    <3>2. sid[o] \in SessionId /\ sessions[sid[o]] = o
      BY <3>1 DEF IInv, Mapped
    <3>3. Seals(o, sid[o])
      BY <2>2, <3>1, <3>2 DEF DrainEnds, Seals
    <3> QED BY <3>2, <3>3 DEF TrailKinds
  <2>3. CASE Signed(o) \/ AttemptRejected(o)
    <3>1. Attempts
      BY <2>3 DEF Signed, AttemptRejected, Attempts
    <3> QED BY <3>1 DEF TrailKinds
  <2>4. CASE Delivered(o)
    BY <2>4 DEF TrailKinds
  <2> QED BY <1>5, <2>1, <2>2, <2>3, <2>4 DEF CloseStep
<1>6. ASSUME NEW id \in SessionId, CloseLive(id) PROVE TrailKinds
  <2> DEFINE o == sessions[id]
  <2>1. o \in Call /\ session[o] = o /\ sid[o] = id /\ closing[o] = "open"
    BY <1>6 DEF CloseLive, IInv, Mapped, TypeOK
  <2>2. CASE inflight[o] = {}
    <3>1. Seals(o, id)
      BY <1>6, <2>1, <2>2 DEF CloseLive, Seals
    <3> QED BY <2>1, <3>1 DEF TrailKinds
  <2>3. CASE inflight[o] # {}
    <3>1. closing' = [closing EXCEPT ![o] = "waiting"]
      BY <1>6, <2>3 DEF CloseLive
    <3>2. \A p \in Call : closing'[p] = "sealed" <=> closing[p] = "sealed"
      BY <2>1, <3>1 DEF TypeOK
    <3>3. \A c \in Call : CallMoves(c)
      BY <1>6 DEF CloseLive, CallMoves
    <3>4. CallsMove
      BY <1>6, <2>3, <3>2, <3>3 DEF CloseLive, CallsMove
    <3> QED BY <3>4 DEF TrailKinds
  <2> QED BY <2>2, <2>3
<1>7. ASSUME NEW id \in SessionId, RetryFinalize(id) \/ RetryThrowsSync(id) PROVE TrailKinds
  <2>1. Attempts
    BY <1>7 DEF RetryFinalize, RetryThrowsSync, Attempts
  <2> QED BY <2>1 DEF TrailKinds
<1>8. ASSUME NEW c \in Call, NEW id \in SessionId \cup {None}, Admit(c, id) PROVE TrailKinds
  BY <1>8 DEF TrailKinds
<1> QED BY <1>2, <1>3, <1>4, <1>5, <1>6, <1>7, <1>8 DEF Next

---------------------------------------------------------------------------
(***************************************************************************)
(* What is recorded.                                                       *)
(***************************************************************************)
\* A recorded call's event is the last of its session's trail, which keeps the others.
Appends(o, c) ==
  /\ o \in Call /\ Len(events[o]) \in Nat
  /\ Len(events'[o]) = Len(events[o]) + 1
  /\ events'[o][Len(events[o]) + 1].call = c
  /\ \A i \in 1 .. Len(events[o]) : events'[o][i] = events[o][i]
  /\ \A p \in Call \ {o} : events'[p] = events[p]

LEMMA Recording ==
  ASSUME TypeOK, NEW c \in Call, session[c] # None, AppendEvent(session[c], c)
  PROVE  Appends(session[c], c)
<1> DEFINE o == session[c]
           e == buildEvent(c, Len(events[o]), prevChainHash[o])
<1>1. o \in Call /\ events[o] \in Seq(Event) /\ prevChainHash[o] \in Hash
  BY DEF TypeOK
<1>2. e \in Event /\ e.call = c
  BY <1>1, BuildEventType DEF buildEvent
<1>3. events' = [events EXCEPT ![o] = Append(@, e)]
  BY DEF AppendEvent
<1> HIDE DEF o, e
<1>4. events'[o] = Append(events[o], e) /\ \A p \in Call \ {o} : events'[p] = events[p]
  BY <1>1, <1>3 DEF TypeOK
<1>5. Appends(o, c)
  BY <1>1, <1>2, <1>4 DEF Appends
<1> QED BY <1>5 DEF o

\* What is in a trail stays there.
LEMMA RecordedStays ==
  ASSUME TypeOK, NEW o \in Call,
         UNCHANGED chainVars \/ \E c \in Call : AppendEvent(session[c], c)
  PROVE  Recorded(o) \subseteq Recorded(o)'
<1>1. CASE UNCHANGED chainVars
  BY <1>1 DEF chainVars, Recorded
<1>2. ASSUME NEW c \in Call, AppendEvent(session[c], c) PROVE Recorded(o) \subseteq Recorded(o)'
  <2>1. CASE session[c] = None
    BY <1>1, <1>2, <2>1 DEF AppendEvent
  <2>2. CASE session[c] # None /\ session[c] = o
    <3>1. Appends(o, c)
      BY <1>2, <2>2, Recording
    <3>2. /\ Len(events[o]) \in Nat /\ Len(events'[o]) = Len(events[o]) + 1
          /\ \A i \in 1 .. Len(events[o]) : events'[o][i] = events[o][i]
      BY <3>1 DEF Appends
    <3>3. ASSUME NEW d \in Recorded(o) PROVE d \in Recorded(o)'
      <4>1. PICK i \in 1 .. Len(events[o]) : d = events[o][i].call
        BY <3>3 DEF Recorded
      <4>2. i \in 1 .. Len(events'[o]) /\ events'[o][i] = events[o][i]
        BY <3>2, <4>1
      <4> QED BY <4>1, <4>2 DEF Recorded
    <3> QED BY <3>3
  <2>3. CASE session[c] # None /\ session[c] # o
    <3>1. Appends(session[c], c)
      BY <1>2, <2>3, Recording
    <3>2. events'[o] = events[o]
      BY <2>3, <3>1 DEF Appends
    <3> QED BY <3>2 DEF Recorded
  <2> QED BY <2>1, <2>2, <2>3
<1> QED BY <1>1, <1>2

\* The call whose outcome arrives is in the trail of its session from then on.
LEMMA RecordedNow ==
  ASSUME TypeOK, NEW c \in Call, NEW o, o = session[c], o # None, AppendEvent(o, c)
  PROVE  c \in Recorded(o)'
<1>2. Appends(o, c)
  BY Recording
<1>3. /\ Len(events'[o]) \in Nat /\ Len(events'[o]) \in 1 .. Len(events'[o])
      /\ events'[o][Len(events'[o])].call = c
  BY <1>2 DEF Appends
<1>4. c \in {events'[o][i].call : i \in 1 .. Len(events'[o])}
  BY <1>3
<1> QED BY <1>4 DEF Recorded

LEMMA AccountedStep ==
  ASSUME IInv, Accounted, [Next]_vars
  PROVE  Accounted'
<1> TypeOK
  BY DEF IInv
<1> DEFINE Fine(c) ==
      /\ pc'[c] \notin {"onEvent", "done"} => outcome'[c] = None
      /\ outcome'[c] # None /\ session'[c] # None =>
           (c \in Recorded(session[c]))' \/ c \in reported' \/ ~ToRecord(outcome'[c])
<1>1. \A o \in Call : Recorded(o) \subseteq Recorded(o)'
  <2>1. UNCHANGED chainVars \/ \E c \in Call : AppendEvent(session[c], c)
    BY ChainUnlessRecorded DEF vars
  <2> QED BY <2>1, RecordedStays
<1>2. ASSUME NEW c \in Call, UNCHANGED <<session>>, pc'[c] = pc[c], outcome'[c] = outcome[c],
             reported \subseteq reported'
      PROVE  Fine(c)
  BY <1>1, <1>2 DEF Accounted, TypeOK
<1>3. ASSUME NEW c \in Call, NEW id \in SessionId \cup {None}, Admit(c, id), NEW d \in Call
      PROVE  Fine(d)
  <2>1. UNCHANGED <<outcome, reported, chainVars>> /\ pc' = [pc EXCEPT ![c] = "subkeys"]
    BY <1>3 DEF Admit
  <2>2. CASE d = c
    BY <1>3, <2>1, <2>2 DEF Admit, Accounted, TypeOK
  <2>3. CASE d # c
    <3>1. session'[d] = session[d] /\ pc'[d] = pc[d]
      BY <1>3, <2>1, <2>3 DEF Admit, TypeOK
    <3> QED BY <1>1, <2>1, <3>1 DEF Accounted, TypeOK
  <2> QED BY <2>2, <2>3
<1>4. ASSUME NEW c \in Call, NEW result \in Outcome, NextSettled(c, result), NEW d \in Call
      PROVE  Fine(d)
  <2>1. /\ pc[c] = "next" /\ pc' = [pc EXCEPT ![c] = "onEvent"]
        /\ outcome' = [outcome EXCEPT ![c] = result]
        /\ session' = session /\ reported \subseteq reported'
        /\ AppendEvent(session[c], c)
    BY <1>4 DEF NextSettled
  <2>2. CASE d = c
    <3>1. pc'[d] = "onEvent"
      BY <2>1, <2>2 DEF TypeOK
    <3>2. PICK o : o = session[c]
      OBVIOUS
    <3>3. o # None => c \in Recorded(o)'
      BY <2>1, <3>2, RecordedNow
    <3>4. session'[c] # None => (c \in Recorded(session[c]))'
      BY <2>1, <3>2, <3>3
    <3> QED BY <2>2, <3>1, <3>4
  <2>3. CASE d # c
    BY <1>2, <2>1, <2>3 DEF TypeOK
  <2> QED BY <2>2, <2>3
<1>5. ASSUME CallsMove, NEW c \in Call PROVE Fine(c)
  <2>1. CallMoves(c) /\ reported \subseteq reported' /\ session' = session
    BY <1>5 DEF CallsMove
  <2> QED BY <1>1, <1>2, <2>1 DEF CallMoves, Accounted, TypeOK
<1>6. ASSUME UNCHANGED callVars, UNCHANGED reported, NEW c \in Call PROVE Fine(c)
  BY <1>2, <1>6 DEF callVars
<1>7. \A c \in Call : Fine(c)
  <2> HIDE DEF Fine
  <2> QED BY <1>3, <1>4, <1>5, <1>6, TrailStepKinds
          DEF TrailKinds, Seals, Attempts, Delivered
<1> QED BY <1>7 DEF Accounted

LEMMA RecordedOnceStep ==
  ASSUME IInv, RecordedOnce, [Next]_vars
  PROVE  RecordedOnce'
<1> TypeOK
  BY DEF IInv
<1>1. ASSUME NEW o \in Call, NEW i \in 1 .. Len(events[o])
      PROVE  events[o][i].call \in Call
  <2>1. events[o] \in Seq(Event)
    BY DEF TypeOK
  <2>2. events[o][i] \in Event
    BY <2>1
  <2> QED BY <2>2 DEF Event
<1>2. ASSUME UNCHANGED events,
             \A c \in Call : pc[c] \in {"onEvent", "done"} => pc'[c] \in {"onEvent", "done"}
      PROVE  RecordedOnce'
  BY <1>1, <1>2 DEF RecordedOnce
<1>3. ASSUME NEW c \in Call, NEW id \in SessionId \cup {None}, Admit(c, id) PROVE RecordedOnce'
  BY <1>2, <1>3 DEF Admit, TypeOK, chainVars
<1>4. ASSUME NEW c \in Call, NEW result \in Outcome, NextSettled(c, result)
      PROVE  RecordedOnce'
  <2>1. /\ pc' = [pc EXCEPT ![c] = "onEvent"] /\ AppendEvent(session[c], c)
    BY <1>4 DEF NextSettled
  <2>2. \A d \in Call : pc[d] \in {"onEvent", "done"} => pc'[d] \in {"onEvent", "done"}
    BY <2>1 DEF TypeOK
  <2>3. CASE session[c] = None
    BY <1>2, <2>1, <2>2, <2>3 DEF AppendEvent, chainVars
  <2>4. CASE session[c] # None
    <3>1. PICK o : o = session[c] /\ Appends(o, c)
      BY <2>1, <2>4, Recording
    <3>2. ASSUME NEW p \in Call, NEW i \in 1 .. Len(events'[p])
          PROVE  pc'[events'[p][i].call] \in {"onEvent", "done"}
      <4>1. CASE p # o
        BY <1>1, <2>2, <3>1, <3>2, <4>1 DEF Appends, RecordedOnce
      <4>2. CASE p = o /\ i \in 1 .. Len(events[o])
        BY <1>1, <2>2, <3>1, <4>2 DEF Appends, RecordedOnce
      <4>3. CASE p = o /\ i = Len(events[o]) + 1
        BY <2>1, <3>1, <4>3 DEF Appends, TypeOK
      <4> QED BY <3>1, <3>2, <4>1, <4>2, <4>3 DEF Appends
    <3> QED BY <3>2 DEF RecordedOnce
  <2> QED BY <2>3, <2>4
<1>5. ASSUME CallsMove PROVE RecordedOnce'
  BY <1>2, <1>5 DEF CallsMove, CallMoves, chainVars
<1>6. ASSUME UNCHANGED <<callVars, chainVars>> PROVE RecordedOnce'
  BY <1>2, <1>6 DEF callVars, chainVars
<1> QED BY <1>3, <1>4, <1>5, <1>6, TrailStepKinds DEF TrailKinds, Seals, Attempts, Delivered

---------------------------------------------------------------------------
(***************************************************************************)
(* What is delivered.                                                      *)
(***************************************************************************)
\* A call that opens a session, or joins one, has not been sealed, let alone delivered.
LEMMA Unsealed ==
  ASSUME IInv, Delivery, NEW c \in Call, pc[c] = "idle"
  PROVE  /\ manifest[c] = <<>> /\ closing[c] = "open"
         /\ attempt[c] = "none" /\ c \notin delivered
         /\ \A id \in SessionId : sealed[id] # c
<1>1. session[c] # c
  BY NoneIsNew DEF IInv, Admission
<1>2. manifest[c] = <<>> /\ closing[c] = "open"
  BY <1>1 DEF IInv, Opened
<1> QED BY <1>2, NoneIsNew DEF Delivery

\* What sealing leaves: the manifest is empty, or under way to its host.
LEMMA SealResult ==
  ASSUME IInv, NEW o \in Call, NEW id \in SessionId, Seals(o, id)
  PROVE  /\ closing' = [closing EXCEPT ![o] = "sealed"]
         /\ sessions' = [sessions EXCEPT ![id] = None]
         /\ manifest[o] = <<>>
         /\ Len(manifest'[o]) = Len(events[o])
         /\ \/ /\ events[o] = <<>>
               /\ UNCHANGED <<sealed, manifest, attempt, replaced>>
            \/ /\ manifest'[o] # <<>>
               /\ \A p \in Call \ {o} : manifest'[p] = manifest[p]
               /\ sealed' = [sealed EXCEPT ![id] = o]
               /\ \E to \in {"signing", "rejected"} : attempt' = [attempt EXCEPT ![o] = to]
               /\ replaced \subseteq replaced'
               /\ sealed[id] # None => sealed[id] \in replaced'
<1>1. TypeOK /\ manifest[o] = <<>>
  BY DEF IInv, Covered, Seals
<1>2. /\ closing' = [closing EXCEPT ![o] = "sealed"]
      /\ sessions' = [sessions EXCEPT ![id] = None]
  BY DEF Seals, Seal
<1>3. CASE events[o] = <<>>
  BY <1>1, <1>2, <1>3 DEF Seals, Seal
<1>4. CASE events[o] # <<>>
  <2> DEFINE hashes == [i \in 1 .. Len(events[o]) |-> events[o][i].chainHash]
  <2>1. manifest' = [manifest EXCEPT ![o] = hashes]
    BY <1>4 DEF Seals, Seal
  <2>2. events[o] \in Seq(Event) /\ Len(events[o]) \in Nat \ {0}
    BY <1>1, <1>4 DEF TypeOK
  <2>3. Len(hashes) = Len(events[o])
    BY <2>2
  <2>4. hashes # <<>>
    BY <2>2, <2>3
  <2> HIDE DEF hashes
  <2>5. manifest'[o] = hashes /\ \A p \in Call \ {o} : manifest'[p] = manifest[p]
    BY <1>1, <2>1 DEF TypeOK
  <2>6. /\ sealed' = [sealed EXCEPT ![id] = o]
        /\ \E to \in {"signing", "rejected"} : attempt' = [attempt EXCEPT ![o] = to]
        /\ replaced \subseteq replaced'
        /\ sealed[id] # None => sealed[id] \in replaced'
    BY <1>4 DEF Seals, Seal, FirstAttempt
  <2> QED BY <1>1, <1>2, <2>3, <2>4, <2>5, <2>6
<1> QED BY <1>3, <1>4

LEMMA DeliveryStep ==
  ASSUME IInv, Delivery, [Next]_vars
  PROVE  Delivery'
<1> TypeOK
  BY DEF IInv
<1>1. ASSUME NEW c \in Call, NEW id \in SessionId \cup {None}, Admit(c, id) PROVE Delivery'
  <2>1. pc[c] = "idle" /\ sid' = [sid EXCEPT ![c] = id]
        /\ UNCHANGED <<attempt, delivered, closing, manifest, sealed>>
    BY <1>1 DEF Admit, sealVars
  <2>2. attempt[c] = "none" /\ c \notin delivered /\ \A i \in SessionId : sealed[i] # c
    BY <2>1, Unsealed
  <2>3. \A d \in Call \ {c} : sid'[d] = sid[d]
    BY <2>1 DEF TypeOK
  <2> QED BY <2>1, <2>2, <2>3 DEF Delivery, TypeOK
<1>2. ASSUME UNCHANGED <<sid, attempt, delivered, manifest, sealed>>,
             \A o \in Call : closing'[o] = "sealed" <=> closing[o] = "sealed"
      PROVE  Delivery'
  BY <1>2 DEF Delivery, TypeOK
<1>3. ASSUME NEW c \in Call, NEW result \in Outcome, NextSettled(c, result) PROVE Delivery'
  BY <1>2, <1>3 DEF NextSettled, sealVars
<1>4. ASSUME CallsMove PROVE Delivery'
  BY <1>2, <1>4 DEF CallsMove, sealVars
<1>5. ASSUME NEW o \in Call, NEW id \in SessionId, Seals(o, id) PROVE Delivery'
  <2>1. closing[o] # "sealed" /\ sid[o] = id /\ UNCHANGED <<sid, delivered>>
    BY <1>5 DEF Seals, callVars
  <2>2. /\ closing'[o] = "sealed"
        /\ \A p \in Call \ {o} : closing'[p] = closing[p]
    BY <1>5, SealResult DEF TypeOK
  <2>3. attempt[o] = "none" /\ o \notin delivered /\ \A i \in SessionId : sealed[i] # o
    BY <2>1, NoneIsNew DEF Delivery
  <2>4. CASE UNCHANGED <<sealed, manifest, attempt>>
    BY <2>1, <2>2, <2>3, <2>4 DEF Delivery, TypeOK
  <2>5. CASE /\ manifest'[o] # <<>>
             /\ \A p \in Call \ {o} : manifest'[p] = manifest[p]
             /\ sealed' = [sealed EXCEPT ![id] = o]
             /\ \E to \in {"signing", "rejected"} : attempt' = [attempt EXCEPT ![o] = to]
    BY <2>1, <2>2, <2>3, <2>5 DEF Delivery, TypeOK
  <2> QED BY <1>5, <2>4, <2>5, SealResult
<1>6. ASSUME Attempts PROVE Delivery'
  <2>1. UNCHANGED <<sid, delivered, closing, manifest, sealed>>
    BY <1>6 DEF Attempts, callVars
  <2>2. ASSUME NEW o \in Call, NEW to, attempt' = [attempt EXCEPT ![o] = to],
               closing[o] = "sealed", manifest[o] # <<>>, sid[o] \in SessionId,
               o \notin delivered
        PROVE  Delivery'
    BY <2>1, <2>2 DEF Delivery, TypeOK
  <2>3. ASSUME NEW id \in SessionId, sealed[id] # None
        PROVE  /\ sealed[id] \in Call /\ closing[sealed[id]] = "sealed"
               /\ manifest[sealed[id]] # <<>> /\ sid[sealed[id]] \in SessionId
               /\ sealed[id] \notin delivered
    BY <2>3 DEF Delivery, TypeOK
  <2>4. ASSUME NEW o \in Call, attempt[o] # "none"
        PROVE  /\ closing[o] = "sealed" /\ manifest[o] # <<>> /\ sid[o] \in SessionId
               /\ o \notin delivered
    BY <2>4 DEF Delivery
  <2> QED BY <1>6, <2>2, <2>3, <2>4 DEF Attempts
<1>7. ASSUME NEW o \in Call, Delivered(o) PROVE Delivery'
  <2>1. /\ attempt[o] = "delivering" /\ attempt' = [attempt EXCEPT ![o] = "none"]
        /\ delivered' = delivered \cup {o} /\ sealed' = [sealed EXCEPT ![sid[o]] = None]
        /\ UNCHANGED <<sid, closing, manifest>>
    BY <1>7 DEF Delivered, callVars
  <2>2. closing[o] = "sealed" /\ manifest[o] # <<>> /\ sid[o] \in SessionId
    BY <2>1 DEF Delivery
  <2>3. \A id \in SessionId : sealed'[id] # None => sealed'[id] = sealed[id] /\ id # sid[o]
    BY <2>1 DEF TypeOK
  <2>4. \A p \in Call : attempt'[p] # "none" => attempt[p] # "none" /\ p # o
    BY <2>1 DEF TypeOK
  <2> QED BY <2>1, <2>2, <2>3, <2>4 DEF Delivery, TypeOK
<1> QED BY <1>1, <1>3, <1>4, <1>5, <1>6, <1>7, TrailStepKinds DEF TrailKinds

\* Between its seal and the host's answer, nothing comes in the way of a manifest.
LEMMA UndisturbedStep ==
  ASSUME IInv, Delivery, Undisturbed, ~ReuseDuringDelivery, [Next]_vars
  PROVE  Undisturbed'
<1> TypeOK
  BY DEF IInv
<1>1. ASSUME NEW c \in Call, NEW id \in SessionId \cup {None}, Admit(c, id)
      PROVE  Undisturbed'
  <2>1. /\ pc[c] = "idle" /\ sid' = [sid EXCEPT ![c] = id]
        /\ UNCHANGED <<attempt, delivered, replaced, manifest, sealed>>
    BY <1>1 DEF Admit, sealVars
  <2>2. attempt[c] = "none" /\ manifest[c] = <<>>
    BY <2>1, Unsealed
  <2>3. \A d \in Call \ {c} : sid'[d] = sid[d]
    BY <2>1 DEF TypeOK
  <2>4. ASSUME NEW o \in Call, attempt[o] # "none" PROVE sessions'[sid[o]] = None
    <3>1. sessions[sid[o]] = None /\ sid[o] \in SessionId
      BY <2>4 DEF Undisturbed, Delivery
    <3>2. CASE id = sid[o]
      BY <1>1, <2>4, <3>1, <3>2, NoneIsNew DEF Admit, MayOpen
    <3>3. CASE id # sid[o]
      BY <1>1, <3>1, <3>3 DEF Admit, TypeOK
    <3> QED BY <3>2, <3>3
  <2> QED BY <2>1, <2>2, <2>3, <2>4 DEF Undisturbed
<1>2. ASSUME UNCHANGED <<sid, attempt, delivered, replaced, manifest, sealed, sessions>>
      PROVE  Undisturbed'
  BY <1>2 DEF Undisturbed
<1>3. ASSUME NEW c \in Call, NEW result \in Outcome, NextSettled(c, result)
      PROVE  Undisturbed'
  BY <1>2, <1>3 DEF NextSettled, sealVars
<1>4. ASSUME CallsMove PROVE Undisturbed'
  BY <1>2, <1>4 DEF CallsMove, sealVars
<1>5. ASSUME NEW o \in Call, NEW id \in SessionId, Seals(o, id) PROVE Undisturbed'
  <2>1. /\ sid[o] = id /\ sessions[id] = o /\ UNCHANGED <<sid, delivered>>
    BY <1>5 DEF Seals, callVars
  <2>2. \A p \in Call : attempt[p] # "none" => sid[p] # id
    BY <2>1, NoneIsNew DEF Undisturbed
  <2>3. sessions' = [sessions EXCEPT ![id] = None]
    BY <1>5, SealResult
  <2>4. \A s \in SessionId \ {id} : sessions'[s] = sessions[s]
    BY <2>3 DEF TypeOK
  <2>5. CASE UNCHANGED <<sealed, manifest, attempt, replaced>>
    BY <2>1, <2>2, <2>3, <2>4, <2>5 DEF Undisturbed, Delivery
  <2>6. CASE /\ manifest'[o] # <<>>
             /\ \A p \in Call \ {o} : manifest'[p] = manifest[p]
             /\ sealed' = [sealed EXCEPT ![id] = o]
             /\ \E to \in {"signing", "rejected"} : attempt' = [attempt EXCEPT ![o] = to]
             /\ replaced \subseteq replaced'
             /\ sealed[id] # None => sealed[id] \in replaced'
    <3>1. /\ sealed'[id] = o /\ sessions'[id] = None
          /\ \A i \in SessionId \ {id} : sealed'[i] = sealed[i]
      BY <2>3, <2>6 DEF TypeOK
    <3>2. ASSUME NEW p \in Call, attempt'[p] # "none"
          PROVE  sealed'[sid[p]] = p /\ sessions'[sid[p]] = None
      <4>1. CASE p = o
        BY <2>1, <3>1, <4>1
      <4>2. CASE p # o
        <5>1. attempt[p] # "none"
          BY <2>6, <3>2, <4>2 DEF TypeOK
        <5>2. sid[p] # id /\ sid[p] \in SessionId
          BY <2>2, <5>1 DEF Delivery
        <5> QED BY <2>4, <3>1, <5>1, <5>2 DEF Undisturbed
      <4> QED BY <4>1, <4>2
    <3>3. ASSUME NEW p \in Call, manifest'[p] # <<>>
          PROVE  /\ sid[p] \in SessionId
                 /\ p \in delivered \cup replaced' \/ sealed'[sid[p]] = p
      <4>1. CASE p = o
        BY <2>1, <3>1, <4>1
      <4>2. CASE p # o
        <5>1. manifest[p] # <<>>
          BY <2>6, <3>3, <4>2
        <5>2. CASE sid[p] = id
          BY <2>6, <5>1, <5>2, NoneIsNew DEF Undisturbed
        <5>3. CASE sid[p] # id
          BY <2>6, <3>1, <5>1, <5>3 DEF Undisturbed
        <5> QED BY <5>2, <5>3
      <4> QED BY <4>1, <4>2
    <3> QED BY <2>1, <3>2, <3>3 DEF Undisturbed
  <2> QED BY <1>5, <2>5, <2>6, SealResult
<1>6. ASSUME Attempts PROVE Undisturbed'
  <2>1. UNCHANGED <<sid, delivered, replaced, manifest, sealed, sessions>>
    BY <1>6 DEF Attempts, callVars
  <2>2. ASSUME NEW o \in Call, NEW to, attempt' = [attempt EXCEPT ![o] = to],
               sealed[sid[o]] = o, sessions[sid[o]] = None
        PROVE  Undisturbed'
    BY <2>1, <2>2 DEF Undisturbed, TypeOK
  <2>3. ASSUME NEW id \in SessionId, sealed[id] # None
        PROVE  sealed[id] \in Call /\ sid[sealed[id]] = id
    BY <2>3 DEF Delivery, TypeOK
  <2>4. ASSUME NEW o \in Call, attempt[o] # "none"
        PROVE  sealed[sid[o]] = o /\ sessions[sid[o]] = None
    BY <2>4 DEF Undisturbed
  <2> QED BY <1>6, <2>2, <2>3, <2>4 DEF Attempts
<1>7. ASSUME NEW o \in Call, Delivered(o) PROVE Undisturbed'
  <2>1. /\ attempt[o] = "delivering" /\ attempt' = [attempt EXCEPT ![o] = "none"]
        /\ delivered' = delivered \cup {o} /\ sealed' = [sealed EXCEPT ![sid[o]] = None]
        /\ UNCHANGED <<sid, manifest, replaced, sessions>>
    BY <1>7 DEF Delivered, callVars
  <2>2. sealed[sid[o]] = o
    BY <2>1 DEF Undisturbed
  <2>3. \A p \in Call \ {o} : sealed[sid[p]] = p => sid[p] # sid[o]
    BY <2>2
  <2>4. \A i \in SessionId \ {sid[o]} : sealed'[i] = sealed[i]
    BY <2>1 DEF TypeOK
  <2>5. \A p \in Call : attempt'[p] # "none" => attempt[p] # "none" /\ p # o
    BY <2>1 DEF TypeOK
  <2> QED BY <2>1, <2>2, <2>3, <2>4, <2>5 DEF Undisturbed, Delivery
<1> QED BY <1>1, <1>3, <1>4, <1>5, <1>6, <1>7, TrailStepKinds DEF TrailKinds

---------------------------------------------------------------------------
(***************************************************************************)
(* The theorems.                                                           *)
(***************************************************************************)
LEMMA TrailInvInit == Init => TrailInv
<1> SUFFICES ASSUME Init PROVE TrailInv
  OBVIOUS
<1> USE DEF Init
<1>1. Accounted /\ RecordedOnce
  BY DEF Accounted, RecordedOnce
<1>2. Delivery
  BY DEF Delivery
<1> QED BY <1>1, <1>2 DEF TrailInv

LEMMA TrailInvStep == IInv /\ TrailInv /\ [Next]_vars => TrailInv'
BY AccountedStep, RecordedOnceStep, DeliveryStep DEF TrailInv

LEMMA TrailInvHolds == Spec => [](IInv /\ TrailInv)
BY TrailInvInit, TrailInvStep, IInvHolds, PTL DEF Spec

\* A call that ran upstream and settled is in its session's trail, or was reported, or is a
\* rejection the options leave out, whatever failed and however calls interleave (observe).
THEOREM EveryCallAccountedHolds == Spec => []EveryCallAccounted
<1>1. TrailInv => EveryCallAccounted
  BY DEF TrailInv, Accounted, EveryCallAccounted
<1> QED BY <1>1, TrailInvHolds, PTL

\* With a host that opens no session under an id whose manifest is being signed or
\* delivered, a manifest stays where closeSession finds it until it is delivered, whatever
\* rejects and however often it is retried (sealSession, finalize).
THEOREM RetainedUntilDeliveredHolds ==
  ASSUME ~ReuseDuringDelivery
  PROVE  Spec => []RetainedUntilDelivered
<1>1. Init => Undisturbed
  BY DEF Init, Undisturbed
<1>2. IInv /\ TrailInv /\ Undisturbed /\ [Next]_vars => Undisturbed'
  BY UndisturbedStep DEF TrailInv
<1>3. Undisturbed => RetainedUntilDelivered
  BY DEF Undisturbed, RetainedUntilDelivered
<1> QED BY <1>1, <1>2, <1>3, TrailInvHolds, PTL DEF Spec

---------------------------------------------------------------------------
(***************************************************************************)
(* The refinement.                                                         *)
(***************************************************************************)
Calls(evs) == [i \in 1 .. Len(evs) |-> evs[i].call]
Trails == [o \in Call |-> Calls(events[o])]
Covers(o) == IF closing[o] = "sealed" THEN Len(manifest[o]) ELSE None
CoveredBy == [o \in Call |-> Covers(o)]

\* The abstract next-state relation, in these terms.
LEMMA AbstractSteps ==
  /\ \A o, c \in Call :
       /\ \A p \in Call : \A i \in 1 .. Len(Trails[p]) : Trails[p][i] # c
       /\ CoveredBy[o] = None \/ c \in stragglers
       /\ Trails' = [Trails EXCEPT ![o] = Append(@, c)]
       /\ UNCHANGED <<CoveredBy, stragglers, delivered>>
       => Trail!Next
  /\ \A o \in Call, late \in SUBSET Call :
       /\ CoveredBy[o] = None
       /\ CoveredBy' = [CoveredBy EXCEPT ![o] = Len(Trails[o])]
       /\ stragglers' = stragglers \cup late
       /\ UNCHANGED <<Trails, delivered>>
       => Trail!Next
  /\ \A o \in Call :
       /\ CoveredBy[o] \notin {None, 0} /\ o \notin delivered
       /\ delivered' = delivered \cup {o}
       /\ UNCHANGED <<Trails, CoveredBy, stragglers>>
       => Trail!Next
  /\ UNCHANGED <<Trails, CoveredBy, stragglers, delivered>> => UNCHANGED Trail!vars
<1> USE DEF Trails, CoveredBy, Covers, Calls
<1>1. ASSUME NEW o \in Call, NEW c \in Call,
             \A p \in Call : \A i \in 1 .. Len(Trails[p]) : Trails[p][i] # c,
             CoveredBy[o] = None \/ c \in stragglers,
             Trails' = [Trails EXCEPT ![o] = Append(@, c)],
             UNCHANGED <<CoveredBy, stragglers, delivered>>
      PROVE  Trail!Record(o, c)
  BY <1>1 DEF Trail!Record
<1>2. ASSUME NEW o \in Call, NEW late \in SUBSET Call,
             CoveredBy[o] = None, CoveredBy' = [CoveredBy EXCEPT ![o] = Len(Trails[o])],
             stragglers' = stragglers \cup late, UNCHANGED <<Trails, delivered>>
      PROVE  Trail!Close(o)
  BY <1>2 DEF Trail!Close
<1>3. ASSUME NEW o \in Call, CoveredBy[o] \notin {None, 0}, o \notin delivered,
             delivered' = delivered \cup {o}, UNCHANGED <<Trails, CoveredBy, stragglers>>
      PROVE  Trail!Accept(o)
  BY <1>3 DEF Trail!Accept
<1>4. ASSUME UNCHANGED <<Trails, CoveredBy, stragglers, delivered>>
      PROVE  UNCHANGED Trail!vars
  BY <1>4 DEF Trail!vars
<1> HIDE DEF Trails, CoveredBy, Covers, Calls
<1> QED BY <1>1, <1>2, <1>3, <1>4 DEF Trail!Next

\* What a trail is, seen from the events.
LEMMA TrailOf ==
  ASSUME TypeOK, NEW o \in Call
  PROVE  /\ Trails[o] \in Seq(Call) /\ Len(Trails[o]) = Len(events[o])
         /\ \A i \in 1 .. Len(events[o]) : Trails[o][i] = events[o][i].call
<1>1. events[o] \in Seq(Event) /\ Len(events[o]) \in Nat
  BY DEF TypeOK
<1>2. \A i \in 1 .. Len(events[o]) : events[o][i] \in Event
  BY <1>1
<1>3. \A i \in 1 .. Len(events[o]) : events[o][i].call \in Call
  BY <1>2 DEF Event
<1>4. Calls(events[o]) \in [1 .. Len(events[o]) -> Call]
  BY <1>3 DEF Calls
<1>5. Calls(events[o]) \in Seq(Call) /\ Len(Calls(events[o])) = Len(events[o])
  BY <1>1, <1>4
<1> QED BY <1>5 DEF Trails, Calls

\* A recorded call is one more in its session's trail.
LEMMA TrailGrows ==
  ASSUME TypeOK, TypeOK', NEW o \in Call, NEW c \in Call, Appends(o, c)
  PROVE  Trails' = [Trails EXCEPT ![o] = Append(@, c)]
<1> DEFINE now == Trails[o]
           next == Calls(events'[o])
           n == Len(events[o])
<1>1. n \in Nat /\ now \in Seq(Call) /\ Len(now) = n
      /\ \A i \in 1 .. n : now[i] = events[o][i].call
  BY TrailOf DEF Appends
<1>2. /\ next = [i \in 1 .. n + 1 |-> events'[o][i].call]
      /\ events'[o][n + 1].call = c
      /\ \A i \in 1 .. n : events'[o][i] = events[o][i]
  BY DEF Calls, Appends
<1> HIDE DEF now, next, n
<1>3. next = Append(now, c)
  <2> DEFINE app == Append(now, c)
  <2>1. /\ app \in Seq(Call) /\ Len(app) = n + 1 /\ app[n + 1] = c
        /\ \A i \in 1 .. n : app[i] = now[i]
    BY <1>1
  <2> HIDE DEF app
  <2>2. app = [i \in 1 .. n + 1 |-> app[i]]
    BY <2>1
  <2>3. ASSUME NEW i \in 1 .. n + 1 PROVE app[i] = events'[o][i].call
    <3>1. CASE i \in 1 .. n
      BY <1>1, <1>2, <2>1, <3>1
    <3>2. CASE i = n + 1
      BY <1>2, <2>1, <3>2
    <3> QED BY <1>1, <3>1, <3>2
  <2>4. next = app
    BY <1>2, <2>2, <2>3
  <2> QED BY <2>4 DEF app
<1>4. \A p \in Call \ {o} : Calls(events'[p]) = Calls(events[p])
  BY DEF Appends
<1>5. Trails' = [p \in Call |-> Calls(events'[p])]
  BY DEF Trails, Calls
<1>6. Trails = [p \in Call |-> Calls(events[p])]
  BY DEF Trails
<1>7. Append(Trails[o], c) = Calls(events'[o])
  BY <1>3 DEF now, next
<1> QED BY <1>4, <1>5, <1>6, <1>7

\* Every step of the middleware is a step of the abstract trail, or none.
LEMMA StepImplements ==
  ASSUME IInv, TrailInv, [Next]_vars
  PROVE  [Trail!Next]_(Trail!vars)
<1> TypeOK /\ TypeOK'
  BY TypeOKStep DEF IInv
<1>1. ASSUME UNCHANGED <<events, manifest, stragglers, delivered>>,
             \A o \in Call : closing'[o] = "sealed" <=> closing[o] = "sealed"
      PROVE  UNCHANGED Trail!vars
  <2>1. UNCHANGED <<Trails, CoveredBy>>
    BY <1>1 DEF Trails, CoveredBy, Covers
  <2> QED BY <1>1, <2>1, AbstractSteps
<1>2. ASSUME NEW c \in Call, NEW id \in SessionId \cup {None}, Admit(c, id)
      PROVE  UNCHANGED Trail!vars
  BY <1>1, <1>2 DEF Admit, chainVars, sealVars
<1>3. ASSUME CallsMove PROVE UNCHANGED Trail!vars
  BY <1>1, <1>3 DEF CallsMove, chainVars, sealVars
<1>4. ASSUME Attempts PROVE UNCHANGED Trail!vars
  BY <1>1, <1>4 DEF Attempts, chainVars
<1>5. ASSUME NEW c \in Call, NEW result \in Outcome, NextSettled(c, result)
      PROVE  Trail!Next \/ UNCHANGED Trail!vars
  <2>1. /\ pc[c] = "next" /\ AppendEvent(session[c], c)
        /\ UNCHANGED <<manifest, stragglers, delivered, closing>>
    BY <1>5 DEF NextSettled, sealVars
  <2>2. CASE session[c] = None
    BY <1>1, <2>1, <2>2 DEF AppendEvent, chainVars
  <2>3. CASE session[c] # None
    <3>1. PICK o : o = session[c] /\ Appends(o, c)
      BY <2>1, <2>3, Recording
    <3>2. o \in Call
      BY <3>1 DEF Appends
    <3>3. Trails' = [Trails EXCEPT ![o] = Append(@, c)]
      BY <3>1, <3>2, TrailGrows
    <3>4. \A p \in Call : \A i \in 1 .. Len(Trails[p]) : Trails[p][i] # c
      BY <2>1, TrailOf DEF TrailInv, RecordedOnce
    <3>5. CoveredBy[o] = None \/ c \in stragglers
      <4>1. c \in inflight[o]
        BY <2>1, <3>1, <3>2 DEF IInv, Admission, Active
      <4>2. closing[o] = "sealed" => c \in stragglers
        BY <3>2, <4>1 DEF IInv, Covered
      <4> QED BY <3>2, <4>2 DEF CoveredBy, Covers
    <3>6. UNCHANGED CoveredBy
      BY <2>1 DEF CoveredBy, Covers
    <3> QED BY <2>1, <3>2, <3>3, <3>4, <3>5, <3>6, AbstractSteps
  <2> QED BY <2>2, <2>3
<1>6. ASSUME NEW o \in Call, NEW id \in SessionId, Seals(o, id) PROVE Trail!Next
  <2>1. /\ closing[o] # "sealed" /\ UNCHANGED <<events, delivered>>
        /\ stragglers' = stragglers \cup inflight[o]
    BY <1>6 DEF Seals, Seal, chainVars
  <2>2. /\ closing'[o] = "sealed" /\ Len(manifest'[o]) = Len(events[o])
        /\ \A p \in Call \ {o} : closing'[p] = closing[p] /\ manifest'[p] = manifest[p]
    BY <1>6, SealResult DEF TypeOK
  <2>3. CoveredBy[o] = None
    BY <2>1 DEF CoveredBy, Covers
  <2>4. CoveredBy' = [CoveredBy EXCEPT ![o] = Len(Trails[o])]
    BY <2>2, TrailOf DEF CoveredBy, Covers
  <2>5. UNCHANGED Trails
    BY <2>1 DEF Trails
  <2>6. inflight[o] \in SUBSET Call
    BY DEF TypeOK
  <2> QED BY <2>1, <2>3, <2>4, <2>5, <2>6, AbstractSteps
<1>7. ASSUME NEW o \in Call, Delivered(o) PROVE Trail!Next
  <2>1. /\ attempt[o] # "none" /\ delivered' = delivered \cup {o}
        /\ UNCHANGED <<events, closing, manifest, stragglers>>
    BY <1>7 DEF Delivered, chainVars
  <2>2. closing[o] = "sealed" /\ manifest[o] # <<>> /\ o \notin delivered
    BY <2>1 DEF TrailInv, Delivery
  <2>3. manifest[o] \in Seq(Hash)
    BY DEF TypeOK
  <2>4. Len(manifest[o]) \in Nat \ {0}
    BY <2>2, <2>3
  <2>5. CoveredBy[o] \notin {None, 0}
    BY <2>2, <2>4, NoneIsNew DEF CoveredBy, Covers
  <2>6. UNCHANGED <<Trails, CoveredBy>>
    BY <2>1 DEF Trails, CoveredBy, Covers
  <2> QED BY <2>1, <2>2, <2>5, <2>6, AbstractSteps
<1> QED BY <1>2, <1>3, <1>4, <1>5, <1>6, <1>7, TrailStepKinds DEF TrailKinds

\* The middleware keeps what AuditTrail promises its host: a trail records a call once, a
\* close fixes a manifest that covers all of the trail, what comes after is a call that was
\* reported as left out, and a manifest is accepted once.
THEOREM AuditImplementsTrail == Spec => ImplementsTrail
<1>1. Init => Trail!Init
  <2> SUFFICES ASSUME Init PROVE Trail!Init
    OBVIOUS
  <2>1. \A o \in Call : events[o] = <<>> /\ closing[o] = "open"
    BY DEF Init
  <2>2. ASSUME NEW o \in Call PROVE Calls(events[o]) = <<>>
    <3>1. Len(events[o]) = 0
      BY <2>1
    <3>2. Calls(events[o]) \in Seq(Call) /\ Len(Calls(events[o])) = 0
      BY <3>1 DEF Calls
    <3> QED BY <3>2
  <2> QED BY <2>1, <2>2 DEF Init, Trail!Init, Calls
<1>2. IInv /\ TrailInv /\ [Next]_vars => [Trail!Next]_(Trail!vars)
  BY StepImplements
<1> QED BY <1>1, <1>2, TrailInvHolds, PTL DEF Spec, ImplementsTrail, Trail!Spec

=============================================================================
