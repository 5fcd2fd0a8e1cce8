----------------------- MODULE AuditSession_proofs -----------------------
(***************************************************************************)
(* Theorems about AuditSession, for any calls, session ids and options.    *)
(***************************************************************************)
EXTENDS AuditSession, TLAPS

(***************************************************************************)
(* The inductive invariant.  It ties the four places that speak about a    *)
(* session object to one another: the admission map, the set of calls in   *)
(* flight, the objects the calls captured, and the sealed manifest.        *)
(***************************************************************************)
\* The calls in flight in o are the calls that captured o and have not settled.
Admission ==
  /\ \A c, o \in Call : c \in inflight[o] <=> pc[c] \in Active /\ session[c] = o
  /\ \A c \in Call : pc[c] = "idle" => session[c] = None

\* An object exists when the call that names it has captured it.  Objects that do
\* not exist are untouched, and every call captured an object that exists.
Opened ==
  /\ \A c \in Call : session[c] # None => session[session[c]] = session[c]
  /\ \A o \in Call : session[o] # o =>
       events[o] = <<>> /\ manifest[o] = <<>> /\ closing[o] = "open"

\* An object is under its id in the admission map until it is sealed.
Mapped ==
  /\ \A id \in SessionId : sessions[id] # None =>
       /\ sid[sessions[id]] = id
       /\ session[sessions[id]] = sessions[id]
       /\ closing[sessions[id]] # "sealed"
  /\ \A o \in Call : session[o] = o /\ closing[o] # "sealed" =>
       sid[o] \in SessionId /\ sessions[sid[o]] = o

\* A sealed object has no call in flight but the reported ones, and its manifest is
\* a prefix of its trail that lacks no other call's event.
Covered ==
  \A o \in Call :
    /\ closing[o] # "sealed" => manifest[o] = <<>>
    /\ closing[o] = "sealed" => inflight[o] \subseteq stragglers
    /\ Len(manifest[o]) <= Len(events[o])
    /\ \A i \in 1 .. Len(manifest[o]) : manifest[o][i] = events[o][i].chainHash
    /\ closing[o] = "sealed" =>
         \A i \in 1 .. Len(events[o]) :
           i > Len(manifest[o]) => events[o][i].call \in stragglers

IInv == TypeOK /\ Admission /\ Opened /\ Mapped /\ Covered

---------------------------------------------------------------------------
(***************************************************************************)
(* Type correctness.                                                       *)
(***************************************************************************)
LEMMA BuildEventType ==
  ASSUME NEW c \in Call, NEW n \in Nat, NEW h \in Hash
  PROVE  buildEvent(c, n, h) \in Event /\ buildEvent(c, n, h).chainHash \in Hash
BY DEF buildEvent, ChainHash, Event, Hash

\* What a manifest covers, the chain hashes of some events, is a sequence of hashes.
LEMMA HashesType ==
  ASSUME NEW s \in Seq(Event)
  PROVE  [i \in 1 .. Len(s) |-> s[i].chainHash] \in Seq(Hash)
<1>1. \A i \in 1 .. Len(s) : s[i] \in Event
  OBVIOUS
<1>2. \A e \in Event : e.chainHash \in Hash
  BY DEF Event
<1>3. \A i \in 1 .. Len(s) : s[i].chainHash \in Hash
  BY <1>1, <1>2
<1> QED BY <1>3

\* Appending an event (middleware.ts:453-456) keeps trail and chain tip well typed.
LEMMA AppendEventType ==
  ASSUME TypeOK, NEW c \in Call, AppendEvent(session[c], c)
  PROVE  events' \in [Call -> Seq(Event)] /\ prevChainHash' \in [Call -> Hash]
<1>1. CASE session[c] = None
  BY <1>1 DEF AppendEvent, TypeOK, chainVars
<1>2. CASE session[c] # None
  <2> DEFINE o == session[c]
             e == buildEvent(c, Len(events[o]), prevChainHash[o])
  <2>1. o \in Call
    BY <1>2 DEF TypeOK
  <2>2. e \in Event /\ e.chainHash \in Hash
    BY <2>1, BuildEventType DEF TypeOK
  <2>3. /\ events' = [events EXCEPT ![o] = Append(@, e)]
        /\ prevChainHash' = [prevChainHash EXCEPT ![o] = e.chainHash]
    BY <1>2 DEF AppendEvent
  <2>4. events \in [Call -> Seq(Event)] /\ prevChainHash \in [Call -> Hash]
    BY DEF TypeOK
  <2>5. Append(events[o], e) \in Seq(Event)
    BY <2>1, <2>2, <2>4
  <2> HIDE DEF e, o
  <2> QED BY <2>1, <2>2, <2>3, <2>4, <2>5
<1> QED BY <1>1, <1>2

\* Sealing a session (the tail of sealSession) keeps the maps and the manifest typed.
LEMMA SealType ==
  ASSUME TypeOK, NEW o \in Call, NEW id \in SessionId, NEW late \in SUBSET Call,
         Seal(o, id, late)
  PROVE  /\ closing' \in [Call -> {"open", "waiting", "woken", "sealed"}]
         /\ stragglers' \subseteq Call
         /\ sessions' \in [SessionId -> Call \cup {None}]
         /\ sealed' \in [SessionId -> Call \cup {None}]
         /\ manifest' \in [Call -> Seq(Hash)]
         /\ attempt' \in [Call -> {"none", "signing", "delivering", "rejected"}]
         /\ replaced' \subseteq Call
<1> DEFINE hashes == [i \in 1 .. Len(events[o]) |-> events[o][i].chainHash]
<1>1. hashes \in Seq(Hash)
  BY HashesType DEF TypeOK
<1> HIDE DEF hashes
<1>2. CASE events[o] = <<>>
  BY <1>2 DEF Seal, TypeOK
<1>3. CASE events[o] # <<>>
  <2>1. manifest' = [manifest EXCEPT ![o] = hashes]
    BY <1>3 DEF Seal, hashes
  <2>2. manifest' \in [Call -> Seq(Hash)]
    BY <1>1, <2>1 DEF TypeOK
  <2>3. replaced' \subseteq Call
    BY <1>3 DEF Seal, TypeOK
  <2>4. /\ closing' = [closing EXCEPT ![o] = "sealed"]
        /\ stragglers' = stragglers \cup late
        /\ sessions' = [sessions EXCEPT ![id] = None]
        /\ sealed' = [sealed EXCEPT ![id] = o]
        /\ \E to \in {"signing", "rejected"} : attempt' = [attempt EXCEPT ![o] = to]
    BY <1>3 DEF Seal, FirstAttempt
  <2> QED BY <2>2, <2>3, <2>4 DEF TypeOK
<1> QED BY <1>2, <1>3

\* No step of a call, of a close or of a delivery breaks the types.
LEMMA TypeOKStep ==
  ASSUME IInv, [Next]_vars
  PROVE  TypeOK'
<1> USE DEF TypeOK, Active, Outcome
<1> TypeOK
  BY DEF IInv
<1> USE DEF callVars, chainVars, sealVars
<1>1. ASSUME NEW c \in Call, NEW id \in SessionId \cup {None}, Admit(c, id)
      PROVE  TypeOK'
  <2> DEFINE o == IF id = None THEN None
                  ELSE IF sessions[id] = None THEN c ELSE sessions[id]
  <2>1. o \in Call \cup {None} /\ (o = c => id \in SessionId)
    BY NoneIsNew
  <2>2. /\ session' = [session EXCEPT ![c] = o]
        /\ sessions' = IF o = c THEN [sessions EXCEPT ![id] = c] ELSE sessions
        /\ inflight' = IF o = None THEN inflight
                       ELSE [inflight EXCEPT ![o] = @ \cup {c}]
    BY <1>1 DEF Admit
  <2> HIDE DEF o
  <2>3. session' \in [Call -> Call \cup {None}] /\ sessions' \in [SessionId -> Call \cup {None}]
    BY <2>1, <2>2
  <2>4. inflight' \in [Call -> SUBSET Call]
    BY <2>1, <2>2
  <2>5. /\ pc' \in [Call -> Active \cup {"idle", "done"}]
        /\ sid' \in [Call -> SessionId \cup {None}]
        /\ subkeys' \in {"unset", "deriving", "ready"}
    BY <1>1 DEF Admit
  <2>6. UNCHANGED <<outcome, sealed, chainVars, closing, expired, sealVars, reported,
                    stragglers>>
    BY <1>1 DEF Admit
  <2> QED BY <2>3, <2>4, <2>5, <2>6 DEF chainVars, sealVars
<1>2. CASE SubkeysDerived
  BY <1>2 DEF SubkeysDerived
<1>3. CASE SubkeysRejected
  BY <1>3 DEF SubkeysRejected, Settle
<1>4. ASSUME NEW c \in Call, CallStep(c)
      PROVE  TypeOK'
  <2>1. CASE HaveSubkeys(c)
    BY <2>1 DEF HaveSubkeys
  <2>2. CASE SubjectKeyFetched(c)
    BY <2>2 DEF SubjectKeyFetched
  <2>3. CASE SubjectKeyRejected(c)
    BY <2>3 DEF SubjectKeyRejected, Settle
  <2>4. ASSUME NEW result \in Outcome, NextSettled(c, result)
        PROVE  TypeOK'
    <3>1. events' \in [Call -> Seq(Event)] /\ prevChainHash' \in [Call -> Hash]
      BY <2>4, AppendEventType DEF NextSettled
    <3> QED BY <2>4, <3>1 DEF NextSettled
  <2>5. ASSUME NEW result \in Outcome, NextNotRecorded(c, result)
        PROVE  TypeOK'
    BY <2>5 DEF NextNotRecorded, Settle
  <2>6. ASSUME NEW result \in Outcome, BuildEventThrows(c, result)
        PROVE  TypeOK'
    BY <2>6 DEF BuildEventThrows, Settle
  <2>7. CASE OnEventFulfilled(c)
    BY <2>7 DEF OnEventFulfilled, Settle
  <2>8. CASE OnEventRejected(c)
    BY <2>8 DEF OnEventRejected, Settle
  <2> QED BY <1>4, <2>1, <2>2, <2>3, <2>4, <2>5, <2>6, <2>7, <2>8 DEF CallStep
<1>5. ASSUME NEW o \in Call, CloseStep(o)
      PROVE  TypeOK'
  <2>1. CASE DeadlinePasses(o)
    BY <2>1 DEF DeadlinePasses
  <2>2. CASE DrainAgain(o)
    BY <2>2 DEF DrainAgain
  <2>3. CASE DrainEnds(o)
    <3>1. sid[o] \in SessionId
      BY <2>3 DEF DrainEnds, IInv, Opened, Mapped
    <3>2. Seal(o, sid[o], inflight[o]) /\ inflight[o] \in SUBSET Call
      BY <2>3 DEF DrainEnds
    <3> QED BY <2>3, <3>1, <3>2, SealType DEF DrainEnds
  <2>4. CASE Signed(o)
    BY <2>4 DEF Signed
  <2>5. CASE AttemptRejected(o)
    BY <2>5 DEF AttemptRejected
  <2>6. CASE Delivered(o)
    BY <2>6 DEF Delivered
  <2> QED BY <1>5, <2>1, <2>2, <2>3, <2>4, <2>5, <2>6 DEF CloseStep
<1>6. ASSUME NEW id \in SessionId, CloseLive(id)
      PROVE  TypeOK'
  <2>1. CASE inflight[sessions[id]] = {}
    <3>1. Seal(sessions[id], id, {}) /\ sessions[id] \in Call
      BY <1>6, <2>1 DEF CloseLive
    <3> QED BY <1>6, <3>1, SealType DEF CloseLive
  <2>2. CASE inflight[sessions[id]] # {}
    BY <1>6, <2>2 DEF CloseLive
  <2> QED BY <2>1, <2>2
<1>7. ASSUME NEW id \in SessionId, RetryFinalize(id)
      PROVE  TypeOK'
  BY <1>7 DEF RetryFinalize
<1>8. ASSUME NEW id \in SessionId, RetryThrowsSync(id)
      PROVE  TypeOK'
  BY <1>8 DEF RetryThrowsSync
<1>9. CASE UNCHANGED vars
  BY <1>9 DEF vars
<1> QED BY <1>1, <1>2, <1>3, <1>4, <1>5, <1>6, <1>7, <1>8, <1>9 DEF Next

---------------------------------------------------------------------------
(***************************************************************************)
(* What the kinds of steps do to the inductive invariant.                  *)
(***************************************************************************)
StructVars == <<sessions, session, sid, events, manifest, stragglers>>

\* A call moves on without settling.
LEMMA MoveStep ==
  ASSUME IInv, NEW c \in Call, NEW to \in Active, pc[c] \in Active,
         pc' = [pc EXCEPT ![c] = to], UNCHANGED <<StructVars, inflight, closing>>
  PROVE  Admission' /\ Opened' /\ Mapped' /\ Covered'
BY DEF IInv, TypeOK, Admission, Opened, Mapped, Covered, StructVars, Active

\* Calls settle.
LEMMA SettleStep ==
  ASSUME IInv, NEW S \in SUBSET Call, \A c \in S : pc[c] \in Active,
         pc' = [c \in Call |-> IF c \in S THEN "done" ELSE pc[c]],
         Settle(S), UNCHANGED StructVars
  PROVE  Admission' /\ Opened' /\ Mapped' /\ Covered'
<1> USE DEF StructVars
<1>1. \A o \in Call : /\ inflight'[o] = inflight[o] \ S
                      /\ closing'[o] = "sealed" <=> closing[o] = "sealed"
                      /\ closing[o] = "open" => closing'[o] = "open"
  BY DEF Settle
<1>2. Admission'
  BY <1>1 DEF IInv, TypeOK, Admission, Active
<1>3. Opened'
  BY <1>1 DEF IInv, Opened
<1>4. Mapped'
  BY <1>1 DEF IInv, TypeOK, Mapped
<1>5. Covered'
  BY <1>1 DEF IInv, Covered
<1> QED BY <1>2, <1>3, <1>4, <1>5

\* A drain begins, goes on or is woken: nothing is opened or sealed.
LEMMA DrainStep ==
  ASSUME IInv, NEW o \in Call, NEW to \in {"waiting", "woken"},
         session[o] = o, closing[o] # "sealed",
         closing' = [closing EXCEPT ![o] = to],
         UNCHANGED <<StructVars, pc, inflight>>
  PROVE  Admission' /\ Opened' /\ Mapped' /\ Covered'
<1> USE DEF StructVars
<1>1. \A p \in Call : /\ closing'[p] = "sealed" <=> closing[p] = "sealed"
                      /\ p # o => closing'[p] = closing[p]
  BY DEF IInv, TypeOK
<1>2. Admission' /\ Opened'
  BY <1>1 DEF IInv, Admission, Opened
<1>3. Mapped'
  BY <1>1 DEF IInv, TypeOK, Mapped
<1>4. Covered'
  BY <1>1 DEF IInv, Covered
<1> QED BY <1>2, <1>3, <1>4

\* A session is sealed, its late calls reported.
LEMMA SealStep ==
  ASSUME IInv, NEW o \in Call, NEW id \in SessionId,
         session[o] = o, sid[o] = id, closing[o] # "sealed",
         Seal(o, id, inflight[o]), UNCHANGED <<pc, session, sid, events, inflight>>
  PROVE  Admission' /\ Opened' /\ Mapped' /\ Covered'
<1> USE DEF IInv
<1>1. /\ closing' = [closing EXCEPT ![o] = "sealed"]
      /\ stragglers' = stragglers \cup inflight[o]
      /\ sessions' = [sessions EXCEPT ![id] = None]
  BY DEF Seal
<1>2. \A p \in Call : p # o => manifest'[p] = manifest[p]
  BY DEF Seal, TypeOK
<1>3. /\ Len(manifest'[o]) = Len(events[o])
      /\ \A i \in 1 .. Len(events[o]) : manifest'[o][i] = events[o][i].chainHash
  <2>1. CASE events[o] = <<>>
    BY <2>1 DEF Seal, Covered, TypeOK
  <2>2. CASE events[o] # <<>>
    <3> DEFINE hashes == [i \in 1 .. Len(events[o]) |-> events[o][i].chainHash]
    <3>1. hashes \in Seq(Hash) /\ Len(events[o]) \in Nat
      BY HashesType DEF TypeOK
    <3>2. manifest'[o] = hashes
      BY <2>2 DEF Seal, TypeOK
    <3>3. Len(hashes) = Len(events[o])
      BY <3>1
    <3> QED BY <3>2, <3>3
  <2> QED BY <2>1, <2>2
<1>4. Admission'
  BY DEF Admission
<1>5. Opened'
  BY <1>1, <1>2 DEF Opened, TypeOK
<1>6. sessions[id] = o
  BY DEF Mapped
<1>7. Mapped'
  BY <1>1, <1>6 DEF Mapped, TypeOK
<1>8. Covered'
  <2> SUFFICES ASSUME NEW p \in Call
               PROVE  /\ closing'[p] # "sealed" => manifest'[p] = <<>>
                      /\ closing'[p] = "sealed" => inflight[p] \subseteq stragglers'
                      /\ Len(manifest'[p]) <= Len(events[p])
                      /\ \A i \in 1 .. Len(manifest'[p]) :
                           manifest'[p][i] = events[p][i].chainHash
                      /\ closing'[p] = "sealed" =>
                           \A i \in 1 .. Len(events[p]) :
                             i > Len(manifest'[p]) => events[p][i].call \in stragglers'
    BY DEF Covered
  <2>1. Len(events[p]) \in Nat
    BY DEF TypeOK
  <2>2. CASE p = o
    <3>1. closing'[o] = "sealed" /\ inflight[o] \subseteq stragglers'
      BY <1>1 DEF TypeOK
    <3>2. \A i \in 1 .. Len(events[o]) : ~(i > Len(events[o]))
      BY <2>1, <2>2
    <3> QED BY <1>3, <2>1, <2>2, <3>1, <3>2
  <2>3. CASE p # o
    BY <1>1, <1>2, <2>3 DEF Covered, TypeOK
  <2> QED BY <2>2, <2>3
<1> QED BY <1>4, <1>5, <1>7, <1>8

\* A call is admitted, to a new object or to the live one.
LEMMA AdmitStep ==
  ASSUME IInv, NEW c \in Call, NEW id \in SessionId \cup {None}, Admit(c, id)
  PROVE  Admission' /\ Opened' /\ Mapped' /\ Covered'
<1> USE DEF IInv, Admit, chainVars, sealVars
<1> DEFINE o == IF id = None THEN None
                ELSE IF sessions[id] = None THEN c ELSE sessions[id]
<1>1. /\ session[c] = None /\ pc[c] = "idle"
      /\ \A p \in Call : session[p] # c
  BY NoneIsNew DEF TypeOK, Admission, Opened
<1>2. /\ session' = [session EXCEPT ![c] = o]
      /\ sessions' = IF o = c THEN [sessions EXCEPT ![id] = c] ELSE sessions
      /\ inflight' = IF o = None THEN inflight
                     ELSE [inflight EXCEPT ![o] = @ \cup {c}]
      /\ sid' = [sid EXCEPT ![c] = id]
      /\ pc' = [pc EXCEPT ![c] = "subkeys"]
      /\ UNCHANGED <<events, closing, manifest, stragglers>>
  OBVIOUS
<1>3. o \in Call \cup {None}
  BY DEF TypeOK
<1>4. o # None /\ o # c => session[o] = o /\ sid[o] = id /\ closing[o] # "sealed"
                            /\ sessions[id] = o
  BY DEF Mapped, TypeOK
<1>5. o = c => id \in SessionId /\ sessions[id] = None
  BY <1>1, NoneIsNew DEF Mapped, TypeOK
<1> HIDE DEF o, Admit
<1>6. Admission'
  BY <1>1, <1>2, <1>3, <1>4, NoneIsNew DEF Admission, TypeOK, Active
<1>7. Opened'
  BY <1>1, <1>2, <1>3, <1>4, NoneIsNew DEF Opened, TypeOK
<1>8. closing[c] = "open" /\ manifest[c] = <<>>
  BY <1>1, NoneIsNew DEF Opened
<1>9. Mapped'
  BY <1>1, <1>2, <1>3, <1>4, <1>5, <1>8, NoneIsNew DEF Mapped, TypeOK
<1>10. Covered'
  BY <1>2, <1>3, <1>4, <1>8 DEF Covered, TypeOK
<1> QED BY <1>6, <1>7, <1>9, <1>10

\* A call records its event in the object it captured.
LEMMA RecordStep ==
  ASSUME IInv, NEW c \in Call, pc[c] = "next", pc' = [pc EXCEPT ![c] = "onEvent"],
         AppendEvent(session[c], c),
         UNCHANGED <<sessions, session, sid, manifest, stragglers, inflight, closing>>
  PROVE  Admission' /\ Opened' /\ Mapped' /\ Covered'
<1> USE DEF IInv
<1>1. Admission' /\ Mapped'
  BY DEF Admission, Mapped, TypeOK, Active
<1>2. CASE session[c] = None
  BY <1>1, <1>2 DEF AppendEvent, chainVars, Opened, Covered
<1>3. CASE session[c] # None
  <2> DEFINE o == session[c]
             e == buildEvent(c, Len(events[o]), prevChainHash[o])
  <2>1. o \in Call /\ session[o] = o /\ c \in inflight[o]
    BY <1>3 DEF TypeOK, Opened, Admission, Active
  <2>2. events' = [events EXCEPT ![o] = Append(@, e)]
    BY <1>3 DEF AppendEvent
  <2>3. e.call = c
    BY DEF buildEvent
  <2>4. e \in Event
    BY <2>1, BuildEventType DEF TypeOK
  <2> HIDE DEF o, e
  <2>5. Opened'
    BY <2>1, <2>2 DEF Opened, TypeOK
  <2>6. /\ Len(events'[o]) = Len(events[o]) + 1 /\ Len(events[o]) \in Nat
        /\ \A i \in 1 .. Len(events[o]) : events'[o][i] = events[o][i]
        /\ events'[o][Len(events[o]) + 1] = e
    BY <2>1, <2>2, <2>4 DEF TypeOK
  <2>7. Len(manifest[o]) \in Nat
    BY <2>1 DEF TypeOK
  <2>8. closing[o] = "sealed" => c \in stragglers
    BY <2>1 DEF Covered
  <2>9. \A p \in Call : p # o => events'[p] = events[p]
    BY <2>2 DEF TypeOK
  <2>10. \A p \in Call : p # o =>
           /\ closing[p] # "sealed" => manifest[p] = <<>>
           /\ closing[p] = "sealed" => inflight[p] \subseteq stragglers
           /\ Len(manifest[p]) <= Len(events'[p])
           /\ \A i \in 1 .. Len(manifest[p]) : manifest[p][i] = events'[p][i].chainHash
           /\ closing[p] = "sealed" =>
                \A i \in 1 .. Len(events'[p]) :
                  i > Len(manifest[p]) => events'[p][i].call \in stragglers
    BY <2>9 DEF Covered
  <2>11. /\ closing[o] # "sealed" => manifest[o] = <<>>
         /\ closing[o] = "sealed" => inflight[o] \subseteq stragglers
         /\ Len(manifest[o]) <= Len(events[o])
         /\ \A i \in 1 .. Len(manifest[o]) : manifest[o][i] = events[o][i].chainHash
         /\ closing[o] = "sealed" =>
              \A i \in 1 .. Len(events[o]) :
                i > Len(manifest[o]) => events[o][i].call \in stragglers
    BY <2>1 DEF Covered
  <2>12. /\ Len(manifest[o]) <= Len(events'[o])
         /\ \A i \in 1 .. Len(manifest[o]) : manifest[o][i] = events'[o][i].chainHash
    BY <2>6, <2>7, <2>11
  <2>13. ASSUME closing[o] = "sealed", NEW i \in 1 .. Len(events'[o]),
                i > Len(manifest[o])
         PROVE  events'[o][i].call \in stragglers
    <3>1. CASE i = Len(events[o]) + 1
      BY <2>3, <2>6, <2>8, <2>13, <3>1
    <3>2. CASE i # Len(events[o]) + 1
      <4>1. i \in 1 .. Len(events[o])
        BY <2>6, <3>2
      <4> QED BY <2>6, <2>11, <2>13, <4>1
    <3> QED BY <3>1, <3>2
  <2>14. Covered'
    BY <2>10, <2>11, <2>12, <2>13 DEF Covered
  <2> QED BY <1>1, <2>5, <2>14
<1> QED BY <1>2, <1>3

---------------------------------------------------------------------------
\* The inductive invariant holds before any call was admitted.
LEMMA IInvInit == Init => IInv
<1> SUFFICES ASSUME Init PROVE IInv
  OBVIOUS
<1> USE NoneIsNew DEF Init
<1>1. TypeOK
  BY DEF TypeOK, Hash, Event
<1>2. Admission /\ Opened /\ Mapped /\ Covered
  BY DEF Admission, Opened, Mapped, Covered, Active
<1> QED BY <1>1, <1>2 DEF IInv

\* Every step keeps it: admission, settling, draining and sealing each have a lemma.
LEMMA IInvStep == IInv /\ [Next]_vars => IInv'
<1> SUFFICES ASSUME IInv, [Next]_vars
             PROVE  Admission' /\ Opened' /\ Mapped' /\ Covered'
  BY TypeOKStep DEF IInv
<1> USE DEF StructVars, callVars, chainVars, sealVars
<1> TypeOK
  BY DEF IInv
<1>1. ASSUME NEW c \in Call, NEW id \in SessionId \cup {None}, Admit(c, id)
      PROVE  Admission' /\ Opened' /\ Mapped' /\ Covered'
  BY <1>1, AdmitStep
<1>2. CASE SubkeysDerived
  BY <1>2 DEF SubkeysDerived, IInv, Admission, Opened, Mapped, Covered
<1>3. CASE SubkeysRejected
  <2> DEFINE S == {c \in Call : pc[c] = "subkeys"}
  <2>1. S \in SUBSET Call /\ \A c \in S : pc[c] \in Active
    BY DEF Active
  <2>2. /\ pc' = [c \in Call |-> IF c \in S THEN "done" ELSE pc[c]]
        /\ Settle(S) /\ UNCHANGED StructVars
    BY <1>3 DEF SubkeysRejected
  <2> HIDE DEF S
  <2> QED BY <2>1, <2>2, SettleStep
<1>4. ASSUME NEW c \in Call, CallStep(c)
      PROVE  Admission' /\ Opened' /\ Mapped' /\ Covered'
  <2>1. ASSUME pc[c] \in Active, pc' = [pc EXCEPT ![c] = "done"], Settle({c}),
               UNCHANGED StructVars
        PROVE  Admission' /\ Opened' /\ Mapped' /\ Covered'
    <3>1. pc' = [d \in Call |-> IF d \in {c} THEN "done" ELSE pc[d]]
      BY <2>1 DEF TypeOK
    <3> QED BY <2>1, <3>1, SettleStep
  <2>2. CASE HaveSubkeys(c) \/ SubjectKeyFetched(c)
    <3>1. PICK to \in Active : pc' = [pc EXCEPT ![c] = to]
      BY <2>2 DEF HaveSubkeys, SubjectKeyFetched, Active
    <3> QED BY <2>2, <3>1, MoveStep DEF HaveSubkeys, SubjectKeyFetched, Active
  <2>3. CASE SubjectKeyRejected(c) \/ OnEventFulfilled(c) \/ OnEventRejected(c)
    BY <2>1, <2>3 DEF SubjectKeyRejected, OnEventFulfilled, OnEventRejected, Active
  <2>4. ASSUME NEW result \in Outcome, NextSettled(c, result)
        PROVE  Admission' /\ Opened' /\ Mapped' /\ Covered'
    BY <2>4, RecordStep DEF NextSettled
  <2>5. ASSUME NEW result \in Outcome,
               NextNotRecorded(c, result) \/ BuildEventThrows(c, result)
        PROVE  Admission' /\ Opened' /\ Mapped' /\ Covered'
    BY <2>1, <2>5 DEF NextNotRecorded, BuildEventThrows, Active
  <2> QED BY <1>4, <2>2, <2>3, <2>4, <2>5 DEF CallStep
<1>5. ASSUME NEW o \in Call, CloseStep(o)
      PROVE  Admission' /\ Opened' /\ Mapped' /\ Covered'
  <2>1. closing[o] = "waiting" \/ closing[o] = "woken" => session[o] = o
    BY DEF IInv, Opened
  <2>2. CASE DeadlinePasses(o) \/ DrainAgain(o)
    <3>1. PICK to \in {"waiting", "woken"} : closing' = [closing EXCEPT ![o] = to]
      BY <2>2 DEF DeadlinePasses, DrainAgain
    <3> QED BY <2>1, <2>2, <3>1, DrainStep DEF DeadlinePasses, DrainAgain
  <2>3. CASE DrainEnds(o)
    <3>1. sid[o] \in SessionId
      BY <2>1, <2>3 DEF DrainEnds, IInv, Mapped
    <3> QED BY <2>1, <2>3, <3>1, SealStep DEF DrainEnds
  <2>4. CASE Signed(o) \/ AttemptRejected(o) \/ Delivered(o)
    BY <2>4 DEF Signed, AttemptRejected, Delivered, IInv, Admission, Opened, Mapped,
                Covered
  <2> QED BY <1>5, <2>2, <2>3, <2>4 DEF CloseStep
<1>6. ASSUME NEW id \in SessionId, CloseLive(id)
      PROVE  Admission' /\ Opened' /\ Mapped' /\ Covered'
  <2> DEFINE o == sessions[id]
  <2>1. o \in Call /\ session[o] = o /\ sid[o] = id /\ closing[o] = "open"
    BY <1>6 DEF CloseLive, IInv, Mapped, TypeOK
  <2>2. CASE inflight[o] = {}
    BY <1>6, <2>1, <2>2, SealStep DEF CloseLive
  <2>3. CASE inflight[o] # {}
    BY <1>6, <2>1, <2>3, DrainStep DEF CloseLive
  <2> QED BY <2>2, <2>3
<1>7. ASSUME NEW id \in SessionId, RetryFinalize(id) \/ RetryThrowsSync(id)
      PROVE  Admission' /\ Opened' /\ Mapped' /\ Covered'
  BY <1>7 DEF RetryFinalize, RetryThrowsSync, IInv, Admission, Opened, Mapped, Covered
<1>8. CASE UNCHANGED vars
  BY <1>8 DEF vars, IInv, Admission, Opened, Mapped, Covered
<1> QED BY <1>1, <1>2, <1>3, <1>4, <1>5, <1>6, <1>7, <1>8 DEF Next

\* The inductive invariant holds at all times, for any calls, ids and options.
THEOREM IInvHolds == Spec => []IInv
BY IInvInit, IInvStep, PTL DEF Spec

\* Every variable keeps the shape the declarations of middleware.ts give it.
THEOREM TypeCorrect == Spec => []TypeOK
<1>1. IInv => TypeOK
  BY DEF IInv
<1> QED BY <1>1, IInvHolds, PTL

\* No event of a session is ever orphaned: it can still be sealed, it is in the
\* manifest, or its call was reported (the guarantee of issue #168, for any number
\* of calls, sessions and reuses of an id).
THEOREM NoOrphanEventHolds == Spec => []NoOrphanEvent
<1>1. IInv => NoOrphanEvent
  <2> SUFFICES ASSUME IInv, NEW o \in Call, NEW i \in 1 .. Len(events[o]),
                      sessions[sid[o]] # o, events[o][i].call \notin stragglers
               PROVE  i <= Len(manifest[o]) /\ manifest[o][i] = events[o][i].chainHash
    BY DEF NoOrphanEvent
  <2>1. Len(events[o]) \in Nat /\ Len(manifest[o]) \in Nat
    BY DEF IInv, TypeOK
  <2>2. events[o] # <<>>
    BY DEF IInv, TypeOK
  <2>3. session[o] = o
    BY <2>2 DEF IInv, Opened
  <2>4. closing[o] = "sealed"
    BY <2>3 DEF IInv, Mapped
  <2>5. i <= Len(manifest[o])
    BY <2>1, <2>4 DEF IInv, Covered
  <2> QED BY <2>1, <2>5 DEF IInv, Covered
<1> QED BY <1>1, IInvHolds, PTL

\* A manifest never changes once it is sealed, so a retry signs and delivers what the
\* first attempt did.
THEOREM ManifestFrozenHolds == Spec => ManifestFrozen
<1>1. IInv /\ [Next]_vars
        => [\A o \in Call : manifest[o] # <<>> => manifest'[o] = manifest[o]]_vars
  <2> SUFFICES ASSUME IInv, Next, NEW o \in Call, manifest[o] # <<>>
               PROVE  manifest'[o] = manifest[o]
    OBVIOUS
  <2>1. closing[o] = "sealed"
    BY DEF IInv, Covered
  <2>2. ASSUME NEW p \in Call, NEW id, NEW late, closing[p] # "sealed", Seal(p, id, late)
        PROVE  manifest'[o] = manifest[o]
    BY <2>1, <2>2 DEF Seal, IInv, TypeOK
  <2>3. CASE \E id \in SessionId : CloseLive(id)
    <3>1. PICK id \in SessionId : CloseLive(id)
      BY <2>3
    <3>2. sessions[id] \in Call /\ closing[sessions[id]] # "sealed"
      BY <3>1 DEF CloseLive, IInv, TypeOK
    <3> QED BY <2>2, <3>1, <3>2 DEF CloseLive
  <2>4. CASE \E p \in Call : DrainEnds(p)
    BY <2>2, <2>4 DEF DrainEnds
  <2>5. CASE UNCHANGED manifest
    BY <2>5
  <2>6. \/ \E id \in SessionId : CloseLive(id)
        \/ \E p \in Call : DrainEnds(p)
        \/ UNCHANGED manifest
    BY DEF Next, CallStep, CloseStep, Admit, SubkeysDerived, SubkeysRejected, HaveSubkeys,
           SubjectKeyFetched, SubjectKeyRejected, NextSettled, NextNotRecorded,
           BuildEventThrows, OnEventFulfilled, OnEventRejected, DeadlinePasses,
           DrainAgain, Signed, AttemptRejected, Delivered, RetryFinalize,
           RetryThrowsSync, sealVars
  <2> QED BY <2>3, <2>4, <2>5, <2>6
<1> QED BY <1>1, IInvHolds, PTL DEF Spec, ManifestFrozen

---------------------------------------------------------------------------
(***************************************************************************)
(* The chain of a session.                                                 *)
(***************************************************************************)
\* `prevChainHash` is the hash of the last event.
Tip ==
  \A o \in Call :
    prevChainHash[o] = IF events[o] = <<>> THEN <<>>
                       ELSE events[o][Len(events[o])].chainHash

\* A list of events that verifies still does with the next event built for it.
LEMMA ChainExtends ==
  ASSUME NEW evs \in Seq(Event), NEW c \in Call, ChainVerifies(evs),
         NEW h \in Hash, h = IF evs = <<>> THEN <<>> ELSE evs[Len(evs)].chainHash
  PROVE  LET e == buildEvent(c, Len(evs), h)
         IN  /\ ChainVerifies(Append(evs, e))
             /\ Append(evs, e)[Len(Append(evs, e))].chainHash = e.chainHash
             /\ Append(evs, e) # <<>>
<1> DEFINE e == buildEvent(c, Len(evs), h)
           n == Len(evs)
           longer == Append(evs, e)
<1>1. n \in Nat /\ e \in Event
  BY BuildEventType
<1>2. e.call = c /\ e.position = n /\ e.chainHash = ChainHash(c, n, h)
  BY DEF buildEvent
<1> HIDE DEF e
<1>3. /\ Len(longer) = n + 1
      /\ \A i \in 1 .. n : longer[i] = evs[i]
      /\ longer[n + 1] = e
  BY <1>1
<1> HIDE DEF longer, n
<1>4. ASSUME NEW i \in 1 .. n + 1
      PROVE  /\ longer[i].position = i - 1
             /\ longer[i].chainHash =
                  ChainHash(longer[i].call, i - 1,
                            IF i = 1 THEN <<>> ELSE longer[i - 1].chainHash)
  <2>1. CASE i \in 1 .. n
    <3>1. i # 1 => longer[i - 1] = evs[i - 1]
      BY <1>1, <1>3, <2>1
    <3> QED BY <1>3, <2>1, <3>1 DEF ChainVerifies, n
  <2>2. CASE i = n + 1
    <3>1. h = IF i = 1 THEN <<>> ELSE longer[i - 1].chainHash
      <4>1. CASE n = 0
        BY <2>2, <4>1 DEF n
      <4>2. CASE n # 0
        BY <1>1, <1>3, <2>2, <4>2 DEF n
      <4> QED BY <4>1, <4>2
    <3>2. i - 1 = n
      BY <1>1, <2>2
    <3> QED BY <1>2, <1>3, <2>2, <3>1, <3>2
  <2> QED BY <1>1, <2>1, <2>2
<1>5. ChainVerifies(longer)
  BY <1>3, <1>4 DEF ChainVerifies
<1>6. longer # <<>> /\ longer[Len(longer)].chainHash = e.chainHash
  BY <1>1, <1>3
<1> QED BY <1>5, <1>6 DEF longer, e, n

\* A step that records nothing leaves every trail and chain tip as they are.
LEMMA ChainUnlessRecorded ==
  Next => UNCHANGED chainVars \/ \E c \in Call : AppendEvent(session[c], c)
BY DEF Next, CallStep, CloseStep, Admit, SubkeysDerived, SubkeysRejected, HaveSubkeys,
       SubjectKeyFetched, SubjectKeyRejected, NextSettled, NextNotRecorded,
       BuildEventThrows, OnEventFulfilled, OnEventRejected, DeadlinePasses, DrainAgain,
       DrainEnds, Signed, AttemptRejected, Delivered, CloseLive, RetryFinalize,
       RetryThrowsSync

\* verifyAuditChain accepts every session's events, for any number of calls in any
\* interleaving: positions are dense and every hash commits to the one before it.
THEOREM TrailVerifiesHolds == Spec => []TrailVerifies
<1>1. Init => TrailVerifies /\ Tip
  BY DEF Init, TrailVerifies, Tip, ChainVerifies
<1>2. TypeOK /\ TrailVerifies /\ Tip /\ [Next]_vars => (TrailVerifies /\ Tip)'
  <2> SUFFICES ASSUME TypeOK, TrailVerifies, Tip, [Next]_vars
               PROVE  (TrailVerifies /\ Tip)'
    OBVIOUS
  <2>1. CASE UNCHANGED chainVars
    BY <2>1 DEF TrailVerifies, Tip, chainVars
  <2>2. ASSUME NEW c \in Call, AppendEvent(session[c], c), session[c] # None
        PROVE  (TrailVerifies /\ Tip)'
    <3> DEFINE o == session[c]
               e == buildEvent(c, Len(events[o]), prevChainHash[o])
    <3>1. o \in Call /\ events[o] \in Seq(Event) /\ prevChainHash[o] \in Hash
      BY <2>2 DEF TypeOK
    <3>2. /\ events' = [events EXCEPT ![o] = Append(@, e)]
          /\ prevChainHash' = [prevChainHash EXCEPT ![o] = e.chainHash]
      BY <2>2 DEF AppendEvent
    <3>3. /\ ChainVerifies(Append(events[o], e))
          /\ Append(events[o], e)[Len(Append(events[o], e))].chainHash = e.chainHash
          /\ Append(events[o], e) # <<>>
      BY <3>1, ChainExtends DEF TrailVerifies, Tip
    <3> HIDE DEF o, e
    <3>4. /\ events'[o] = Append(events[o], e) /\ prevChainHash'[o] = e.chainHash
          /\ \A p \in Call : p # o => /\ events'[p] = events[p]
                                      /\ prevChainHash'[p] = prevChainHash[p]
      BY <3>1, <3>2 DEF TypeOK
    <3>5. TrailVerifies'
      BY <3>3, <3>4 DEF TrailVerifies
    <3>6. Tip'
      BY <3>3, <3>4 DEF Tip
    <3> QED BY <3>5, <3>6
  <2>3. CASE Next
    BY <2>1, <2>2, <2>3, ChainUnlessRecorded DEF AppendEvent
  <2>4. CASE UNCHANGED vars
    BY <2>1, <2>4 DEF vars, chainVars
  <2> QED BY <2>3, <2>4
<1> QED BY <1>1, <1>2, TypeCorrect, PTL DEF Spec

---------------------------------------------------------------------------
(***************************************************************************)
(* The drain.                                                              *)
(***************************************************************************)
\* A drain waits only while calls are in flight.
Waits == \A o \in Call : closing[o] = "waiting" => inflight[o] # {}

\* Calls that settle wake the drain they leave with nobody to wait for.
LEMMA SettleWakes ==
  ASSUME TypeOK, Admission, Waits, NEW S \in SUBSET Call, Settle(S)
  PROVE  Waits'
<1> SUFFICES ASSUME NEW o \in Call, closing'[o] = "waiting"
             PROVE  inflight'[o] # {}
  BY DEF Waits
<1>1. closing[o] = "waiting" /\ inflight'[o] = inflight[o] \ S
  BY DEF Settle
<1>2. CASE inflight[o] \subseteq S
  <2>1. PICK c \in inflight[o] : TRUE
    BY <1>1 DEF Waits
  <2>2. c \in S /\ session[c] = o
    BY <1>2, <2>1 DEF TypeOK, Admission
  <2> QED BY <1>1, <1>2, <2>2 DEF Settle
<1>3. CASE ~(inflight[o] \subseteq S)
  BY <1>1, <1>3
<1> QED BY <1>2, <1>3

\* A close never waits for calls that have all settled, however many fail together:
\* the last one wakes it, for any number of calls and of concurrent closes.
THEOREM NoLostWakeUpHolds == Spec => []NoLostWakeUp
<1>1. Init => Waits
  BY DEF Init, Waits
<1>2. IInv /\ Waits /\ [Next]_vars => Waits'
  <2> SUFFICES ASSUME IInv, Waits, [Next]_vars
               PROVE  Waits'
    OBVIOUS
  <2> TypeOK /\ Admission
    BY DEF IInv
  <2>1. ASSUME UNCHANGED <<inflight, closing>>
        PROVE  Waits'
    BY <2>1 DEF Waits
  <2>2. ASSUME NEW c \in Call, NEW id \in SessionId \cup {None}, Admit(c, id)
        PROVE  Waits'
    <3>1. closing' = closing /\ \A o \in Call : inflight[o] \subseteq inflight'[o]
      BY <2>2 DEF Admit, TypeOK
    <3> QED BY <3>1 DEF Waits
  <2>3. CASE SubkeysDerived
    BY <2>1, <2>3 DEF SubkeysDerived
  <2>4. CASE SubkeysRejected
    <3>1. Settle({c \in Call : pc[c] = "subkeys"})
      BY <2>4 DEF SubkeysRejected
    <3> QED BY <3>1, SettleWakes
  <2>5. ASSUME NEW c \in Call, CallStep(c)
        PROVE  Waits'
    <3>1. UNCHANGED <<inflight, closing>> \/ Settle({c})
      BY <2>5 DEF CallStep, HaveSubkeys, SubjectKeyFetched, SubjectKeyRejected,
                  NextSettled, NextNotRecorded, BuildEventThrows, OnEventFulfilled,
                  OnEventRejected
    <3> QED BY <2>1, <3>1, SettleWakes
  <2>6. ASSUME NEW o \in Call, CloseStep(o)
        PROVE  Waits'
    <3>1. CASE DeadlinePasses(o)
      BY <3>1 DEF DeadlinePasses, Waits, TypeOK
    <3>2. CASE DrainAgain(o)
      BY <3>2 DEF DrainAgain, Waits, TypeOK
    <3>3. CASE DrainEnds(o)
      BY <3>3 DEF DrainEnds, Seal, Waits, TypeOK
    <3>4. CASE Signed(o) \/ AttemptRejected(o) \/ Delivered(o)
      BY <2>1, <3>4 DEF Signed, AttemptRejected, Delivered
    <3> QED BY <2>6, <3>1, <3>2, <3>3, <3>4 DEF CloseStep
  <2>7. ASSUME NEW id \in SessionId, CloseLive(id)
        PROVE  Waits'
    <3> DEFINE o == sessions[id]
    <3>1. o \in Call /\ inflight' = inflight
      BY <2>7 DEF CloseLive, TypeOK
    <3>2. CASE inflight[o] = {}
      BY <2>7, <3>1, <3>2 DEF CloseLive, Seal, Waits, TypeOK
    <3>3. CASE inflight[o] # {}
      BY <2>7, <3>1, <3>3 DEF CloseLive, Waits, TypeOK
    <3> QED BY <3>2, <3>3
  <2>8. ASSUME NEW id \in SessionId, RetryFinalize(id) \/ RetryThrowsSync(id)
        PROVE  Waits'
    BY <2>1, <2>8 DEF RetryFinalize, RetryThrowsSync
  <2>9. CASE UNCHANGED vars
    BY <2>1, <2>9 DEF vars
  <2> QED BY <2>2, <2>3, <2>4, <2>5, <2>6, <2>7, <2>8, <2>9 DEF Next
<1>3. IInv /\ Waits => NoLostWakeUp
  <2> SUFFICES ASSUME IInv, Waits, NEW o \in Call, closing[o] = "waiting"
               PROVE  \E c \in inflight[o] : pc[c] \in Active /\ session[c] = o
    BY DEF NoLostWakeUp
  <2>1. PICK c \in inflight[o] : TRUE
    BY DEF Waits
  <2> QED BY <2>1 DEF IInv, TypeOK, Admission
<1> QED BY <1>1, <1>2, <1>3, IInvHolds, PTL DEF Spec

---------------------------------------------------------------------------
(***************************************************************************)
(* The signature of a manifest.                                            *)
(***************************************************************************)
\* The provider is asked only for an unsigned manifest, and only after the seal.
SignedOnce ==
  /\ \A o \in Call :
       /\ signings[o] = IF signature[o] THEN 1 ELSE 0
       /\ attempt[o] = "signing" => ~signature[o]
       /\ closing[o] # "sealed" => ~signature[o] /\ attempt[o] = "none"
  /\ \A id \in SessionId : sealed[id] # None => closing[sealed[id]] = "sealed"

\* Sealing starts a delivery with a manifest that no one has signed yet.
LEMMA SignedOnceSeal ==
  ASSUME TypeOK, SignedOnce, NEW o \in Call, NEW id \in SessionId, NEW late,
         closing[o] # "sealed", Seal(o, id, late), UNCHANGED <<signature, signings>>
  PROVE  SignedOnce'
<1>1. closing' = [closing EXCEPT ![o] = "sealed"]
  BY DEF Seal
<1>2. \/ UNCHANGED <<sealed, attempt>>
      \/ sealed' = [sealed EXCEPT ![id] = o]
         /\ \E to \in {"signing", "rejected"} : attempt' = [attempt EXCEPT ![o] = to]
  BY DEF Seal, FirstAttempt
<1>3. /\ \A p \in Call : p # o => closing'[p] = closing[p] /\ attempt'[p] = attempt[p]
      /\ closing'[o] = "sealed"
      /\ attempt'[o] \in {"none", "signing", "rejected"}
  BY <1>1, <1>2 DEF SignedOnce, TypeOK
<1>4. \A p \in Call :
        /\ signings'[p] = IF signature'[p] THEN 1 ELSE 0
        /\ attempt'[p] = "signing" => ~signature'[p]
        /\ closing'[p] # "sealed" => ~signature'[p] /\ attempt'[p] = "none"
  BY <1>3 DEF SignedOnce
<1>5. \A i \in SessionId : sealed'[i] # None => closing'[sealed'[i]] = "sealed"
  BY <1>1, <1>2 DEF SignedOnce, TypeOK
<1> QED BY <1>4, <1>5 DEF SignedOnce

\* However the host closes and retries, the provider signs a session's manifest at
\* most once: there is never a second signed artifact.
THEOREM OneSignatureHolds == Spec => []OneSignature
<1>1. Init => SignedOnce
  BY DEF Init, SignedOnce
<1>2. IInv /\ SignedOnce /\ [Next]_vars => SignedOnce'
  <2> SUFFICES ASSUME IInv, SignedOnce, [Next]_vars
               PROVE  SignedOnce'
    OBVIOUS
  <2> TypeOK
    BY DEF IInv
  <2>1. ASSUME UNCHANGED <<signings, signature, attempt, sealed>>,
               \A o \in Call : closing'[o] = "sealed" <=> closing[o] = "sealed"
        PROVE  SignedOnce'
    BY <2>1 DEF SignedOnce, TypeOK
  <2>2. ASSUME NEW S \in SUBSET Call, Settle(S)
        PROVE  \A o \in Call : closing'[o] = "sealed" <=> closing[o] = "sealed"
    BY <2>2 DEF Settle
  <2>3. ASSUME NEW c \in Call, NEW id \in SessionId \cup {None}, Admit(c, id)
        PROVE  SignedOnce'
    BY <2>1, <2>3 DEF Admit, sealVars
  <2>4. CASE SubkeysDerived
    BY <2>1, <2>4 DEF SubkeysDerived, sealVars
  <2>5. CASE SubkeysRejected
    <3>1. Settle({c \in Call : pc[c] = "subkeys"})
      BY <2>5 DEF SubkeysRejected
    <3> QED BY <2>1, <2>2, <2>5, <3>1 DEF SubkeysRejected, sealVars
  <2>6. ASSUME NEW c \in Call, CallStep(c)
        PROVE  SignedOnce'
    <3>1. UNCHANGED closing \/ Settle({c})
      BY <2>6 DEF CallStep, HaveSubkeys, SubjectKeyFetched, SubjectKeyRejected,
                  NextSettled, NextNotRecorded, BuildEventThrows, OnEventFulfilled,
                  OnEventRejected
    <3>2. UNCHANGED <<signings, signature, attempt, sealed>>
      BY <2>6 DEF CallStep, HaveSubkeys, SubjectKeyFetched, SubjectKeyRejected,
                  NextSettled, NextNotRecorded, BuildEventThrows, OnEventFulfilled,
                  OnEventRejected, sealVars
    <3> QED BY <2>1, <2>2, <3>1, <3>2
  <2>7. ASSUME NEW o \in Call, CloseStep(o)
        PROVE  SignedOnce'
    <3>1. CASE DeadlinePasses(o) \/ DrainAgain(o)
      BY <2>1, <3>1 DEF DeadlinePasses, DrainAgain, sealVars, TypeOK
    <3>2. CASE DrainEnds(o)
      <4>1. sid[o] \in SessionId
        BY <3>2 DEF DrainEnds, IInv, Opened, Mapped
      <4> QED BY <3>2, <4>1, SignedOnceSeal DEF DrainEnds
    <3>3. CASE Signed(o)
      BY <3>3 DEF Signed, SignedOnce, TypeOK
    <3>4. CASE AttemptRejected(o)
      BY <3>4 DEF AttemptRejected, SignedOnce, TypeOK
    <3>5. CASE Delivered(o)
      BY <3>5 DEF Delivered, SignedOnce, TypeOK
    <3> QED BY <2>7, <3>1, <3>2, <3>3, <3>4, <3>5 DEF CloseStep
  <2>8. ASSUME NEW id \in SessionId, CloseLive(id)
        PROVE  SignedOnce'
    <3> DEFINE o == sessions[id]
    <3>1. o \in Call /\ closing[o] = "open"
      BY <2>8 DEF CloseLive, TypeOK
    <3>2. CASE inflight[o] = {}
      BY <2>8, <3>1, <3>2, SignedOnceSeal DEF CloseLive
    <3>3. CASE inflight[o] # {}
      BY <2>1, <2>8, <3>1, <3>3 DEF CloseLive, TypeOK
    <3> QED BY <3>2, <3>3
  <2>9. ASSUME NEW id \in SessionId, RetryFinalize(id) \/ RetryThrowsSync(id)
        PROVE  SignedOnce'
    BY <2>9 DEF RetryFinalize, RetryThrowsSync, SignedOnce, TypeOK
  <2>10. CASE UNCHANGED vars
    BY <2>1, <2>10 DEF vars, sealVars
  <2> QED BY <2>3, <2>4, <2>5, <2>6, <2>7, <2>8, <2>9, <2>10 DEF Next
<1>3. SignedOnce => OneSignature
  <2> SUFFICES ASSUME SignedOnce, NEW o \in Call
               PROVE  signings[o] <= 1
    BY DEF OneSignature
  <2>1. signings[o] = 1 \/ signings[o] = 0
    BY DEF SignedOnce
  <2> QED BY <2>1
<1> QED BY <1>1, <1>2, <1>3, IInvHolds, PTL DEF Spec

=============================================================================
