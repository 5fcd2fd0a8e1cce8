------------------------- MODULE EventStores_proofs -------------------------
(***************************************************************************)
(* The three event stores implement ReplayLog, keep the history of every   *)
(* session they know and skip nothing they retain, for any sessions, any   *)
(* TTLs in step, any cap, any number of events and replays and any clock.  *)
(***************************************************************************)
EXTENDS EventStores, FiniteSetTheorems, TLAPS

Event == [owner : Session, at : Int]

\* What was handed to the store, and that only such events are in it or on their way.
LogOK ==
  /\ log \in Seq(Event) /\ now \in Int
  /\ stored \subseteq DOMAIN log /\ writing \subseteq DOMAIN log

\* The cursor of a replay that was let through is an event of the session that asked, and
\* what is left to send are later events of that session.
ReplayOK(s) ==
  LET r == replay[s] IN
  /\ DOMAIN r = {"status", "cursor", "batch", "sent", "due"}
  /\ r.cursor \in DOMAIN log \cup {None}
  /\ r.status \in {"none", "asked", "checked", "found"} => r.sent = <<>>
  /\ r.status \in {"checked", "found", "sending"} =>
       r.cursor \in DOMAIN log /\ log[r.cursor].owner = s
  /\ r.status = "sending" =>
       /\ r.sent \in Seq(DOMAIN log)
       /\ \A id \in r.batch : id \in DOMAIN log /\ log[id].owner = s /\ id > r.cursor

Inv ==
  /\ LogOK
  /\ DOMAIN replay = Session
  /\ \A s \in Session : ReplayOK(s)

(***************************************************************************)
(* The mapping, named.                                                     *)
(***************************************************************************)
Owners == [id \in DOMAIN log |-> log[id].owner]
Idle == [after |-> 0, sent |-> <<>>]
Sending(s) ==
  IF replay[s].status = "sending"
  THEN [after |-> replay[s].cursor, sent |-> replay[s].sent] ELSE Idle
Replays == [s \in Session |-> Sending(s)]

---------------------------------------------------------------------------
\* Nothing of the replays changes.
Quiet == UNCHANGED <<log, replay>>

\* What a step does to the log and the replays.
LEMMA StepKinds ==
  ASSUME Inv, [Next]_vars
  PROVE  \/ Quiet
         \/ \E s \in Session : log' = Append(log, [owner |-> s, at |-> now]) /\ UNCHANGED replay
         \/ \E s \in Session : \/ ScopeCheck(s) \/ FindCursor(s) \/ ReadEvents(s)
                               \/ SendNext(s) \/ EndReplay(s)
                               \/ \E cursor \in DOMAIN log \cup {None} : AskReplay(s, cursor)
         \/ \E s \in Session : UNCHANGED log /\ replay' = [replay EXCEPT ![s] = NoReplay]
         \/ /\ replay' = [s \in Session |-> NoReplay]
            /\ log' = <<>> \/ UNCHANGED log
<1> USE DEF Quiet, sessionVars, storeVars
<1>1. CASE Tick
  BY <1>1 DEF Tick
<1>2. ASSUME NEW s \in Session, StoreInMemory(s) \/ XAdd(s) \/ Insert(s)
      PROVE  log' = Append(log, [owner |-> s, at |-> now]) /\ UNCHANGED replay
  BY <1>2 DEF StoreInMemory, XAdd, Insert, Logged
<1>3. ASSUME NEW id \in writing, PExpire(id) \/ Commit(id) \/ StoreFails(id) PROVE Quiet
  BY <1>3 DEF PExpire, Commit, StoreFails
<1>4. ASSUME PruneExpired \/ PruneRecords PROVE Quiet
  BY <1>4 DEF PruneExpired, PruneRecords
<1>5. ASSUME NEW s \in Session, CreateSession(s) \/ ResumeSession(s) PROVE Quiet
  BY <1>5 DEF CreateSession, ResumeSession
<1>6. ASSUME NEW s \in Session, CloseSession(s) \/ Disconnect(s)
      PROVE  UNCHANGED log /\ replay' = [replay EXCEPT ![s] = NoReplay]
  BY <1>6 DEF CloseSession, Disconnect
<1>7. ASSUME Restart
      PROVE  replay' = [s \in Session |-> NoReplay] /\ (log' = <<>> \/ UNCHANGED log)
  BY <1>7 DEF Restart
<1>8. CASE UNCHANGED vars
  BY <1>8 DEF vars
<1> QED BY <1>1, <1>2, <1>3, <1>4, <1>5, <1>6, <1>7, <1>8 DEF Next

\* An id a client may name leads to the event's session, if it is still in the store.
LEMMA StreamIdForOK ==
  ASSUME LogOK, NEW id, NEW s \in Session, StreamIdFor(id) = s
  PROVE  id \in DOMAIN log /\ log[id].owner = s
BY NoneIsNew DEF StreamIdFor, Readable, LogOK

\* The store keeps what it was handed and nothing else.
LEMMA LogStep ==
  ASSUME LogOK, [Next]_vars
  PROVE  LogOK'
<1> USE DEF sessionVars, storeVars
<1>1. ASSUME UNCHANGED <<log, now>>, stored' \subseteq stored \cup writing,
             writing' \subseteq writing
      PROVE  LogOK'
  BY <1>1 DEF LogOK
<1>2. CASE Tick
  BY <1>2 DEF Tick, LogOK
<1>3. ASSUME NEW s \in Session, Logged(s), UNCHANGED now,
             stored' \subseteq stored \cup {NewId}, writing' \subseteq writing \cup {NewId}
      PROVE  LogOK'
  <2>1. log' \in Seq(Event) /\ DOMAIN log' = DOMAIN log \cup {NewId}
    BY <1>3 DEF Logged, LogOK, Event, NewId
  <2> QED BY <1>3, <2>1 DEF LogOK
<1>4. ASSUME NEW s \in Session, StoreInMemory(s) PROVE LogOK'
  BY <1>3, <1>4 DEF StoreInMemory, Capped
<1>5. ASSUME NEW s \in Session, XAdd(s) \/ Insert(s) PROVE LogOK'
  BY <1>3, <1>5 DEF XAdd, Insert
<1>6. ASSUME NEW id \in writing, PExpire(id) \/ Commit(id) \/ StoreFails(id) PROVE LogOK'
  BY <1>1, <1>6 DEF PExpire, Commit, StoreFails
<1>7. ASSUME PruneExpired \/ PruneRecords PROVE LogOK'
  BY <1>1, <1>7 DEF PruneExpired, PruneRecords
<1>8. ASSUME NEW s \in Session,
             CreateSession(s) \/ ResumeSession(s) \/ CloseSession(s) \/ Disconnect(s)
      PROVE  LogOK'
  BY <1>1, <1>8 DEF CreateSession, ResumeSession, CloseSession, Disconnect
<1>9. CASE Restart
  <2>1. CASE kind = "memory"
    BY <1>9, <2>1 DEF Restart, LogOK
  <2>2. CASE kind # "memory"
    BY <1>1, <1>9, <2>2 DEF Restart
  <2> QED BY <2>1, <2>2
<1>10. ASSUME NEW s \in Session,
              \/ ScopeCheck(s) \/ FindCursor(s) \/ ReadEvents(s) \/ SendNext(s) \/ EndReplay(s)
              \/ \E cursor \in DOMAIN log \cup {None} : AskReplay(s, cursor)
       PROVE  LogOK'
  BY <1>1, <1>10 DEF ScopeCheck, FindCursor, ReadEvents, SendNext, EndReplay, AskReplay
<1>11. CASE UNCHANGED vars
  BY <1>1, <1>11 DEF vars
<1> QED BY <1>2, <1>4, <1>5, <1>6, <1>7, <1>8, <1>9, <1>10, <1>11 DEF Next

\* What is true of a replay stays true while the log grows.
LEMMA ReplayGrows ==
  ASSUME NEW s \in Session, ReplayOK(s), replay'[s] = replay[s],
         DOMAIN log \subseteq DOMAIN log', \A id \in DOMAIN log : log'[id] = log[id]
  PROVE  ReplayOK(s)'
<1>1. ASSUME NEW q \in Seq(DOMAIN log) PROVE q \in Seq(DOMAIN log')
  BY <1>1
<1> QED BY <1>1 DEF ReplayOK

\* A step of a replay.
LEMMA ReplaySteps ==
  ASSUME Inv, NEW s \in Session, UNCHANGED log,
         \/ ScopeCheck(s) \/ FindCursor(s) \/ ReadEvents(s) \/ SendNext(s) \/ EndReplay(s)
         \/ \E cursor \in DOMAIN log \cup {None} : AskReplay(s, cursor)
  PROVE  DOMAIN replay' = Session /\ \A t \in Session : ReplayOK(t)'
<1> USE DEF Inv
<1>1. DOMAIN replay' = Session /\ \A t \in Session \ {s} : replay'[t] = replay[t]
  BY DEF ScopeCheck, FindCursor, ReadEvents, SendNext, EndReplay, AskReplay, SetStatus
<1>2. \A t \in Session \ {s} : ReplayOK(t)'
  BY <1>1, ReplayGrows
<1>3. ReplayOK(s) /\ LogOK
  OBVIOUS
<1>4. CASE \E cursor \in DOMAIN log \cup {None} : AskReplay(s, cursor)
  <2>1. PICK cursor \in DOMAIN log \cup {None} : AskReplay(s, cursor)
    BY <1>4
  <2>2. /\ replay'[s].status = "asked" /\ replay'[s].cursor = cursor /\ replay'[s].sent = <<>>
        /\ DOMAIN replay'[s] = {"status", "cursor", "batch", "sent", "due"}
    BY <2>1 DEF AskReplay, NoReplay
  <2>3. ReplayOK(s)'
    BY <2>1, <2>2 DEF ReplayOK
  <2> QED BY <1>1, <1>2, <2>3
<1>5. ASSUME NEW status, SetStatus(s, status), status \in {"checked", "refused", "found", "done"},
             status = "checked" => /\ replay[s].status = "asked"
                                   /\ replay[s].cursor \in DOMAIN log
                                   /\ log[replay[s].cursor].owner = s,
             status = "found" => replay[s].status = "checked"
      PROVE  ReplayOK(s)'
  <2>1. /\ replay'[s].status = status /\ replay'[s].cursor = replay[s].cursor
        /\ replay'[s].sent = replay[s].sent
        /\ DOMAIN replay'[s] = {"status", "cursor", "batch", "sent", "due"}
    BY <1>3, <1>5 DEF SetStatus, ReplayOK
  <2> QED BY <1>3, <1>5, <2>1 DEF ReplayOK
<1>6. CASE ScopeCheck(s)
  <2>1. CASE StreamIdFor(replay[s].cursor) = s
    BY <1>1, <1>2, <1>3, <1>5, <1>6, <2>1, StreamIdForOK DEF ScopeCheck
  <2>2. CASE StreamIdFor(replay[s].cursor) # s
    BY <1>1, <1>2, <1>5, <1>6, <2>2 DEF ScopeCheck
  <2> QED BY <2>1, <2>2
<1>7. CASE FindCursor(s)
  <2>1. SetStatus(s, "found") \/ SetStatus(s, "refused")
    BY <1>7 DEF FindCursor
  <2>2. replay[s].status = "checked"
    BY <1>7 DEF FindCursor
  <2> QED BY <1>1, <1>2, <1>5, <2>1, <2>2
<1>8. CASE ReadEvents(s)
  <2>1. CASE SetStatus(s, "refused")
    BY <1>1, <1>2, <1>5, <2>1
  <2>2. CASE ~SetStatus(s, "refused")
    <3> DEFINE batch == IF kind = "memory" THEN {} ELSE After(replay[s].cursor)
    <3>1. /\ replay[s].status \in {"checked", "found"}
          /\ replay' = [replay EXCEPT ![s].status = "sending", ![s].batch = batch]
      BY <1>8, <2>2 DEF ReadEvents
    <3>2. \A id \in batch : id \in DOMAIN log /\ log[id].owner = s /\ id > replay[s].cursor
      BY <1>3, <3>1 DEF After, Readable, ReplayOK, LogOK
    <3> HIDE DEF batch
    <3>3. /\ replay'[s].status = "sending" /\ replay'[s].cursor = replay[s].cursor
          /\ replay'[s].sent = <<>> /\ replay'[s].batch = batch
          /\ DOMAIN replay'[s] = {"status", "cursor", "batch", "sent", "due"}
      BY <1>3, <3>1 DEF ReplayOK
    <3>4. <<>> \in Seq(DOMAIN log')
      OBVIOUS
    <3>5. replay[s].cursor \in DOMAIN log' /\ log'[replay[s].cursor].owner = s
      BY <1>3, <3>1 DEF ReplayOK
    <3>6. ReplayOK(s)'
      BY <3>2, <3>3, <3>4, <3>5 DEF ReplayOK
    <3> QED BY <1>1, <1>2, <3>6
  <2> QED BY <2>1, <2>2
<1>9. CASE SendNext(s)
  <2>1. PICK id \in Remaining(s) : replay' = [replay EXCEPT ![s].sent = Append(@, id)]
    BY <1>9 DEF SendNext
  <2>2. replay[s].status = "sending"
    BY <1>9 DEF SendNext
  <2>3. id \in DOMAIN log
    BY <1>3, <2>2 DEF Remaining, After, Readable, LogOK, ReplayOK
  <2>4. replay[s].sent \in Seq(DOMAIN log)
    BY <1>3, <2>2 DEF ReplayOK
  <2>5. Append(replay[s].sent, id) \in Seq(DOMAIN log)
    BY <2>3, <2>4
  <2>6. /\ replay'[s].status = "sending" /\ replay'[s].cursor = replay[s].cursor
        /\ replay'[s].sent = Append(replay[s].sent, id) /\ replay'[s].batch = replay[s].batch
        /\ DOMAIN replay'[s] = {"status", "cursor", "batch", "sent", "due"}
    BY <1>3, <2>1, <2>2 DEF ReplayOK
  <2>7. ReplayOK(s)'
    BY <1>3, <2>2, <2>5, <2>6 DEF ReplayOK
  <2> QED BY <1>1, <1>2, <2>7
<1>10. CASE EndReplay(s)
  BY <1>1, <1>2, <1>5, <1>10 DEF EndReplay
<1> QED BY <1>4, <1>6, <1>7, <1>8, <1>9, <1>10

\* A replay that is not under way is one.
LEMMA NoReplayOK ==
  ASSUME NEW s \in Session, replay[s] = NoReplay
  PROVE  ReplayOK(s)
BY DEF ReplayOK, NoReplay

\* The invariant is inductive.
LEMMA Inductive == (Init => Inv) /\ (Inv /\ [Next]_vars => Inv')
<1>1. ASSUME Init PROVE Inv
  <2>1. LogOK
    BY <1>1 DEF Init, LogOK
  <2>2. DOMAIN replay = Session /\ \A s \in Session : replay[s] = NoReplay
    BY <1>1 DEF Init
  <2> QED BY <2>1, <2>2, NoReplayOK DEF Inv
<1>2. ASSUME Inv, [Next]_vars PROVE Inv'
  <2> USE <1>2
  <2> DEFINE Good == DOMAIN replay' = Session /\ \A s \in Session : ReplayOK(s)'
  <2>1. LogOK'
    BY LogStep DEF Inv
  <2>2. ASSUME UNCHANGED replay, DOMAIN log \subseteq DOMAIN log',
               \A id \in DOMAIN log : log'[id] = log[id]
        PROVE  Good
    BY <2>2, ReplayGrows DEF Inv
  <2>3. CASE Quiet
    BY <2>1, <2>2, <2>3 DEF Quiet, Inv
  <2>4. ASSUME NEW s \in Session, log' = Append(log, [owner |-> s, at |-> now]), UNCHANGED replay
        PROVE  Good
    BY <2>2, <2>4 DEF Inv, LogOK
  <2>5. ASSUME NEW s \in Session,
               \/ ScopeCheck(s) \/ FindCursor(s) \/ ReadEvents(s) \/ SendNext(s) \/ EndReplay(s)
               \/ \E cursor \in DOMAIN log \cup {None} : AskReplay(s, cursor)
        PROVE  Good
    <3>1. UNCHANGED log
      BY <2>5 DEF ScopeCheck, FindCursor, ReadEvents, SendNext, EndReplay, AskReplay, storeVars
    <3> QED BY <2>5, <3>1, ReplaySteps
  <2>6. ASSUME NEW s \in Session, UNCHANGED log, replay' = [replay EXCEPT ![s] = NoReplay]
        PROVE  Good
    <3>1. /\ DOMAIN replay' = Session /\ replay'[s] = NoReplay
          /\ \A t \in Session \ {s} : replay'[t] = replay[t]
      BY <2>6 DEF Inv
    <3>2. ReplayOK(s)'
      BY <3>1 DEF ReplayOK, NoReplay
    <3>3. \A t \in Session \ {s} : ReplayOK(t)'
      BY <2>6, <3>1, ReplayGrows DEF Inv
    <3> QED BY <3>1, <3>2, <3>3
  <2>7. ASSUME replay' = [s \in Session |-> NoReplay] PROVE Good
    BY <2>7 DEF ReplayOK, NoReplay
  <2>8. Good
    BY <2>3, <2>4, <2>5, <2>6, <2>7, <2>2, StepKinds DEF Quiet
  <2> QED BY <2>1, <2>8 DEF Inv
<1> QED BY <1>1, <1>2

---------------------------------------------------------------------------
(***************************************************************************)
(* The refinement.                                                         *)
(***************************************************************************)

\* What a replay has sent and what it started at, seen from the log.
LEMMA Mapped ==
  ASSUME Inv
  PROVE  /\ Owners \in Seq(Session) /\ Len(Owners) = Len(log) /\ DOMAIN Owners = DOMAIN log
         /\ \A id \in DOMAIN log : Owners[id] = log[id].owner
         /\ DOMAIN Replays = Session /\ \A s \in Session : Replays[s] = Sending(s)
<1>1. DOMAIN log = 1..Len(log) /\ Len(log) \in Nat
  BY DEF Inv, LogOK
<1>2. \A id \in 1..Len(log) : log[id] \in Event
  BY DEF Inv, LogOK
<1>3. \A id \in 1..Len(log) : log[id].owner \in Session
  BY <1>2 DEF Event
<1>4. Owners \in [1..Len(log) -> Session]
  BY <1>1, <1>3 DEF Owners
<1>5. Owners \in Seq(Session) /\ Len(Owners) = Len(log)
  BY <1>1, <1>4
<1> QED BY <1>1, <1>5 DEF Owners, Replays

\* A stored event.
LEMMA StoreImplements ==
  ASSUME Inv, NEW s \in Session, log' = Append(log, [owner |-> s, at |-> now]),
         UNCHANGED replay
  PROVE  Log!Store(s)
<1>1. Replays' = Replays
  BY DEF Replays, Sending
<1>2. Owners' = Append(Owners, s)
  <2>1. /\ DOMAIN log' = 1..(Len(log) + 1) /\ DOMAIN log = 1..Len(log) /\ Len(log) \in Nat
        /\ log'[Len(log) + 1] = [owner |-> s, at |-> now]
        /\ \A id \in DOMAIN log : log'[id] = log[id]
    BY DEF Inv, LogOK
  <2>2. Owners' = [id \in 1..(Len(log) + 1) |-> log'[id].owner]
    BY <2>1 DEF Owners
  <2>3. Owners \in Seq(Session) /\ Len(Owners) = Len(log)
    BY Mapped
  <2> DEFINE app == Append(Owners, s)
  <2>4. /\ app \in Seq(Session) /\ Len(app) = Len(log) + 1 /\ app[Len(log) + 1] = s
        /\ \A id \in 1..Len(log) : app[id] = Owners[id]
    BY <2>3
  <2>5. app = [id \in 1..(Len(log) + 1) |-> app[id]]
    <3> HIDE DEF app
    <3>1. app = [id \in 1..Len(app) |-> app[id]]
      BY <2>4
    <3> QED BY <2>4, <3>1
  <2>6. ASSUME NEW id \in 1..(Len(log) + 1) PROVE log'[id].owner = app[id]
    <3>1. CASE id = Len(log) + 1
      BY <2>1, <2>4, <3>1
    <3>2. CASE id # Len(log) + 1
      BY <2>1, <2>4, <2>6, <3>2, Mapped
    <3> QED BY <3>1, <3>2
  <2> HIDE DEF app
  <2>7. Owners' = app
    BY <2>2, <2>5, <2>6
  <2> QED BY <2>7 DEF app
<1> QED BY <1>1, <1>2 DEF Log!Store, Owners, Replays, Sending, Idle

\* The replay of one session changes.
LEMMA OneReplay ==
  ASSUME Inv, NEW s \in Session, UNCHANGED log,
         DOMAIN replay' = Session, \A t \in Session \ {s} : replay'[t] = replay[t]
  PROVE  /\ Owners' = Owners
         /\ Replays' = [Replays EXCEPT ![s] = Sending(s)']
<1>1. Owners' = Owners
  BY DEF Owners
<1>2. \A t \in Session \ {s} : Sending(t)' = Sending(t)
  BY DEF Sending
<1> QED BY <1>1, <1>2 DEF Replays

\* A replay that stops sending, for whatever reason.
LEMMA EndImplements ==
  ASSUME Inv, NEW S \in SUBSET Session, UNCHANGED log,
         \A t \in Session : Sending(t)' = IF t \in S THEN Idle ELSE Sending(t)
  PROVE  Log!End(S)
<1>1. Owners' = Owners
  BY DEF Owners
<1>2. Replays' = [t \in Session |-> IF t \in S THEN Idle ELSE Replays[t]]
  BY DEF Replays
<1> QED BY <1>1, <1>2 DEF Log!End, Log!Idle, Owners, Replays, Sending, Idle

\* The first read of a replay.
LEMMA BeginImplements ==
  ASSUME Inv, NEW s \in Session, ReadEvents(s), UNCHANGED log
  PROVE  (\E id \in DOMAIN log : Log!Begin(s, id)) \/ Log!End({})
<1> USE DEF Inv
<1>1. /\ replay[s].status \in {"checked", "found"}
      /\ DOMAIN replay' = Session /\ \A t \in Session \ {s} : replay'[t] = replay[t]
  BY DEF ReadEvents, SetStatus
<1>2. /\ replay[s].cursor \in DOMAIN log /\ log[replay[s].cursor].owner = s
      /\ replay[s].sent = <<>> /\ Sending(s) = Idle
      /\ DOMAIN replay[s] = {"status", "cursor", "batch", "sent", "due"}
  BY <1>1 DEF ReplayOK, Sending
<1>3. CASE SetStatus(s, "refused")
  <2>1. Sending(s)' = Idle
    BY <1>2, <1>3 DEF SetStatus, Sending
  <2>2. \A t \in Session : Sending(t)' = Sending(t)
    BY <1>1, <1>2, <2>1 DEF Sending
  <2> QED BY <2>2, EndImplements
<1>4. CASE ~SetStatus(s, "refused")
  <2>1. \E batch : replay' = [replay EXCEPT ![s].status = "sending", ![s].batch = batch]
    BY <1>4 DEF ReadEvents
  <2>2. Sending(s)' = [after |-> replay[s].cursor, sent |-> <<>>]
    BY <1>2, <2>1 DEF Sending
  <2>3. /\ Owners' = Owners
        /\ Replays' = [Replays EXCEPT ![s] =
                         [after |-> replay[s].cursor, sent |-> <<>>]]
    BY <1>1, <2>2, OneReplay
  <2>4. Replays[s] = Idle /\ replay[s].cursor \in DOMAIN Owners /\ Owners[replay[s].cursor] = s
    BY <1>2, Mapped DEF Idle
  <2>5. PICK id \in DOMAIN log : id = replay[s].cursor
    BY <1>2
  <2>6. Log!Begin(s, id)
    BY <2>3, <2>4, <2>5 DEF Log!Begin, Log!Idle, Owners, Replays, Sending, Idle
  <2> QED BY <2>6
<1> QED BY <1>3, <1>4

\* An event that is sent.
LEMMA SendImplements ==
  ASSUME Inv, NEW s \in Session, SendNext(s), UNCHANGED log
  PROVE  \E id \in DOMAIN log : Log!Send(s, id)
<1> USE DEF Inv
<1>1. replay[s].status = "sending" /\ ReplayOK(s)
  BY DEF SendNext
<1>2. PICK id \in Remaining(s) : replay' = [replay EXCEPT ![s].sent = Append(@, id)]
  BY DEF SendNext
<1>3. /\ id \in DOMAIN log /\ log[id].owner = s /\ id > replay[s].cursor
      /\ \A i \in DOMAIN replay[s].sent : id > replay[s].sent[i]
  BY <1>1 DEF Remaining, After, Readable, LogOK, ReplayOK
<1>4. DOMAIN replay' = Session /\ \A t \in Session \ {s} : replay'[t] = replay[t]
  BY <1>2
<1>5. Replays[s] = [after |-> replay[s].cursor, sent |-> replay[s].sent]
  BY <1>1, Mapped DEF Sending
<1>6. Sending(s)' = [after |-> replay[s].cursor,
                     sent |-> Append(replay[s].sent, id)]
  BY <1>1, <1>2 DEF Sending, ReplayOK
<1>7. /\ Owners' = Owners
      /\ Replays' = [Replays EXCEPT ![s] = Sending(s)']
  BY <1>4, OneReplay
<1>8. [Replays EXCEPT ![s].sent = Append(@, id)]
        = [Replays EXCEPT ![s] = [after |-> replay[s].cursor,
                                  sent |-> Append(replay[s].sent, id)]]
  <2>1. [Replays[s] EXCEPT !.sent = Append(Replays[s].sent, id)]
          = [after |-> replay[s].cursor, sent |-> Append(replay[s].sent, id)]
    <3>1. PICK r, a, q : r = Replays[s] /\ a = replay[s].cursor /\ q = replay[s].sent
      OBVIOUS
    <3>2. r = [after |-> a, sent |-> q]
      BY <1>5, <3>1
    <3>3. [r EXCEPT !.sent = Append(r.sent, id)] = [after |-> a, sent |-> Append(q, id)]
      BY ONLY <3>2
    <3> QED BY <3>1, <3>3
  <2> QED BY <2>1
<1>9. Replays' = [Replays EXCEPT ![s].sent = Append(@, id)]
  BY <1>6, <1>7, <1>8
<1>10. id \in DOMAIN Owners /\ Owners[id] = s
  BY <1>3, Mapped
<1>11. /\ Replays[s] # Idle
       /\ id > Replays[s].after
       /\ \A i \in DOMAIN Replays[s].sent : id > Replays[s].sent[i]
  BY <1>1, <1>3, <1>5 DEF Idle, ReplayOK, LogOK
<1>12. Log!Send(s, id) <=>
         /\ Replays[s] # Idle
         /\ id \in DOMAIN Owners /\ Owners[id] = s
         /\ id > Replays[s].after
         /\ \A i \in DOMAIN Replays[s].sent : id > Replays[s].sent[i]
         /\ Replays' = [Replays EXCEPT ![s].sent = Append(@, id)]
         /\ UNCHANGED Owners
  BY Zenon DEF Log!Send, Log!Idle, Owners, Replays, Sending, Idle
<1>13. Log!Send(s, id)
  BY <1>7, <1>9, <1>10, <1>11, <1>12
<1> QED BY <1>3, <1>13

\* A restart.
LEMMA RestartImplements ==
  ASSUME Inv, replay' = [s \in Session |-> NoReplay], log' = <<>> \/ UNCHANGED log
  PROVE  Log!Forget \/ Log!End(Session)
<1>1. \A s \in Session : Sending(s)' = Idle
  BY DEF Sending, NoReplay
<1>2. CASE UNCHANGED log
  BY <1>1, <1>2, EndImplements
<1>3. CASE log' = <<>>
  <2>1. Owners' = <<>>
    BY <1>3 DEF Owners
  <2>2. Replays' = [s \in Session |-> Idle]
    BY <1>1 DEF Replays
  <2> QED BY <2>1, <2>2 DEF Log!Forget, Log!Idle, Owners, Replays, Sending, Idle
<1> QED BY <1>2, <1>3

\* Every step of a store is a step of the log, or none.
LEMMA StepImplements ==
  ASSUME Inv, [Next]_vars
  PROVE  [Log!Next]_(Log!vars)
<1>1. CASE Quiet
  BY <1>1 DEF Quiet, Log!vars
<1>2. ASSUME NEW s \in Session, log' = Append(log, [owner |-> s, at |-> now]), UNCHANGED replay
      PROVE  Log!Next
  BY <1>2, StoreImplements DEF Log!Next
<1>3. ASSUME Log!End({}) \/ (\E s \in Session : Log!End({s})) \/ Log!End(Session)
      PROVE  Log!Next
  BY <1>3 DEF Log!Next
<1>4. ASSUME NEW s \in Session, UNCHANGED log,
             DOMAIN replay' = Session, \A t \in Session \ {s} : replay'[t] = replay[t],
             replay'[s].status # "sending"
      PROVE  Log!Next
  <2>1. \A t \in Session : Sending(t)' = IF t \in {s} THEN Idle ELSE Sending(t)
    BY <1>4 DEF Sending
  <2>2. Log!End({s})
    BY <1>4, <2>1, EndImplements
  <2> QED BY <1>3, <2>2
<1>5. ASSUME NEW s \in Session,
             \/ ScopeCheck(s) \/ FindCursor(s) \/ EndReplay(s)
             \/ \E cursor \in DOMAIN log \cup {None} : AskReplay(s, cursor)
      PROVE  Log!Next
  <2>1. UNCHANGED log
    BY <1>5 DEF ScopeCheck, FindCursor, EndReplay, AskReplay, storeVars
  <2>2. DOMAIN replay' = Session /\ \A t \in Session \ {s} : replay'[t] = replay[t]
    BY <1>5 DEF ScopeCheck, FindCursor, EndReplay, AskReplay, SetStatus, Inv
  <2>3. "status" \in DOMAIN replay[s]
    BY DEF Inv, ReplayOK
  <2>4. replay'[s].status # "sending"
    BY <1>5, <2>3 DEF ScopeCheck, FindCursor, EndReplay, AskReplay, SetStatus, NoReplay, Inv
  <2> QED BY <1>4, <2>1, <2>2, <2>4
<1>6. ASSUME NEW s \in Session, ReadEvents(s) PROVE Log!Next
  <2>1. UNCHANGED log
    BY <1>6 DEF ReadEvents, storeVars
  <2>2. (\E id \in DOMAIN log : Log!Begin(s, id)) \/ Log!End({})
    BY <1>6, <2>1, BeginImplements
  <2> QED BY <1>3, <2>2, Mapped DEF Log!Next, Owners
<1>7. ASSUME NEW s \in Session, SendNext(s) PROVE Log!Next
  <2>1. UNCHANGED log
    BY <1>7 DEF SendNext, storeVars
  <2>2. \E id \in DOMAIN log : Log!Send(s, id)
    BY <1>7, <2>1, SendImplements
  <2> QED BY <2>2, Mapped DEF Log!Next, Owners
<1>8. ASSUME NEW s \in Session, UNCHANGED log, replay' = [replay EXCEPT ![s] = NoReplay]
      PROVE  Log!Next
  BY <1>4, <1>8 DEF Inv, NoReplay
<1>9. ASSUME replay' = [s \in Session |-> NoReplay], log' = <<>> \/ UNCHANGED log
      PROVE  Log!Next
  BY <1>3, <1>9, RestartImplements DEF Log!Next
<1> QED BY <1>1, <1>2, <1>5, <1>6, <1>7, <1>8, <1>9, StepKinds

\* Every store behind scopeEventStore is a ReplayLog: a replay sends the session's own
\* events, in order, each once, after the cursor, whatever is stored, evicted, pruned or
\* expires meanwhile and whichever process restarts.
THEOREM StoresImplementLog == Spec => ImplementsLog
<1>1. Init => Inv
  BY Inductive
<1>2. Inv /\ [Next]_vars => Inv'
  BY Inductive
<1>3. Init => Log!Init
  BY DEF Init, NoReplay, Log!Init, Log!Idle
<1>4. Inv /\ [Next]_vars => [Log!Next]_(Log!vars)
  BY StepImplements
<1> QED BY <1>1, <1>2, <1>3, <1>4, PTL DEF Spec, ImplementsLog, Log!Spec

---------------------------------------------------------------------------
(***************************************************************************)
(* History outlives the session.                                           *)
(***************************************************************************)

\* A session's record promises no more than its events will live to see: an event is
\* stored while the session is there, so its time is up after the record's.
RecordOK(s) ==
  record[s] # None =>
    /\ kind # "memory"
    /\ record[s] \in Nat /\ record[s] <= now + SessionTTL
    /\ \A id \in DOMAIN log : log[id].owner = s => record[s] <= log[id].at + TTL

\* So what was acknowledged is there: the stream's key goes after the record, and so does
\* a row.
HistoryOK(s) ==
  record[s] # None =>
    /\ kind = "redis" =>
         /\ expiry[s] # None => expiry[s] \in Nat /\ record[s] <= expiry[s]
         /\ \A id \in acked \cup writing : log[id].owner = s => id \in stored
    /\ kind # "redis" =>
         \A id \in acked : log[id].owner = s /\ Fresh(id) => id \in stored

\* A session that is still to come has no events, no record and no stream that expires.
NewOK(s) ==
  session[s] = "new" =>
    record[s] = None /\ expiry[s] = None /\ \A id \in DOMAIN log : log[id].owner # s

HistoryInv ==
  /\ LogOK /\ now \in Nat /\ acked \subseteq DOMAIN log
  /\ DOMAIN session = Session /\ DOMAIN record = Session /\ DOMAIN expiry = Session
  /\ \A s \in Session : RecordOK(s) /\ HistoryOK(s) /\ NewOK(s)
  /\ kind # "redis" => \A s \in Session : expiry[s] = None

\* An event has a time.
LEMMA EventAt ==
  ASSUME LogOK, NEW id \in DOMAIN log
  PROVE  log[id].at \in Int
<1>1. log[id] \in Event
  BY DEF LogOK
<1> QED BY <1>1 DEF Event

\* Nothing of a session's history changes but by events that go with their record.
LEMMA HistoryStays ==
  ASSUME HistoryInv, LogOK', NEW s \in Session,
         UNCHANGED <<kind, now, log>>,
         record'[s] = record[s] \/ record'[s] = None,
         \/ expiry'[s] = expiry[s]
         \/ expiry'[s] = now + TTL /\ \E id \in DOMAIN log : log[id].owner = s,
         session'[s] = "new" => session[s] = "new",
         acked' \subseteq acked \cup writing, writing' \subseteq writing,
         kind = "redis" => stored' = stored,
         kind # "redis" => /\ \A id \in stored : Fresh(id) => id \in stored'
                           /\ \A id \in acked' \ acked : id \in stored'
  PROVE  RecordOK(s)' /\ HistoryOK(s)' /\ NewOK(s)'
<1> USE DEF HistoryInv
<1>1. RecordOK(s) /\ HistoryOK(s) /\ NewOK(s)
  OBVIOUS
<1>2. RecordOK(s)' /\ NewOK(s)'
  BY <1>1 DEF RecordOK, NewOK
<1>3. CASE record'[s] = None
  BY <1>2, <1>3 DEF HistoryOK
<1>4. CASE record'[s] # None
  <2>1. record'[s] = record[s] /\ record[s] # None
    BY <1>4
  <2>2. kind' = "redis" =>
          /\ expiry'[s] # None => expiry'[s] \in Nat /\ record'[s] <= expiry'[s]
          /\ \A id \in acked' \cup writing' : log'[id].owner = s => id \in stored'
    BY <1>1, <2>1, InStep DEF RecordOK, HistoryOK
  <2>3. kind' # "redis" =>
          \A id \in acked' : log'[id].owner = s /\ Fresh(id)' => id \in stored'
    <3>1. ASSUME kind # "redis", NEW id \in acked', log'[id].owner = s, Fresh(id)'
          PROVE  id \in stored'
      <4>1. log[id].owner = s /\ Fresh(id)
        BY <3>1 DEF Fresh
      <4>2. CASE id \in acked
        BY <1>1, <2>1, <3>1, <4>1, <4>2 DEF HistoryOK
      <4>3. CASE id \notin acked
        BY <3>1, <4>3
      <4> QED BY <4>2, <4>3
    <3> QED BY <3>1
  <2>4. HistoryOK(s)'
    BY <2>2, <2>3 DEF HistoryOK
  <2> QED BY <1>2, <2>4
<1> QED BY <1>2, <1>3, <1>4

\* An event is stored.
LEMMA HistoryStored ==
  ASSUME HistoryInv, LogOK', NEW t \in Session, StoreInMemory(t) \/ XAdd(t) \/ Insert(t)
  PROVE  HistoryInv'
<1> USE DEF HistoryInv, sessionVars
<1>1. /\ DOMAIN log' = DOMAIN log \cup {NewId} /\ NewId \notin DOMAIN log
      /\ log'[NewId] = [owner |-> t, at |-> now]
      /\ \A id \in DOMAIN log : log'[id] = log[id]
  <2>1. Logged(t)
    BY DEF StoreInMemory, XAdd, Insert
  <2>2. log \in Seq(Event) /\ [owner |-> t, at |-> now] \in Event
    BY DEF LogOK, Event
  <2> HIDE DEF HistoryInv
  <2> QED BY ONLY <2>1, <2>2 DEF Logged, NewId
<1>2. /\ UNCHANGED <<kind, now, expiry, session, deadline, record>>
      /\ session[t] = "live"
      /\ acked' \subseteq acked \cup {NewId}
      /\ kind # "memory" => UNCHANGED acked
      /\ kind = "redis" => stored' = stored \cup {NewId} /\ writing' = writing \cup {NewId}
      /\ kind \notin {"redis", "memory"} => stored' = stored
  <2>1. CASE StoreInMemory(t)
    BY <2>1 DEF StoreInMemory, MayStore
  <2>2. CASE XAdd(t)
    BY <2>2 DEF XAdd, MayStore
  <2>3. CASE Insert(t)
    BY <2>3 DEF Insert, MayStore
  <2> QED BY <2>1, <2>2, <2>3
<1>3. ASSUME NEW s \in Session PROVE RecordOK(s)' /\ HistoryOK(s)' /\ NewOK(s)'
  <2>1. RecordOK(s) /\ HistoryOK(s) /\ NewOK(s)
    OBVIOUS
  <2>2. RecordOK(s)'
    BY <1>1, <1>2, <2>1, InStep DEF RecordOK
  <2>3. NewOK(s)'
    BY <1>1, <1>2, <2>1 DEF NewOK
  <2>4. ASSUME kind = "redis", record[s] # None
        PROVE  \A id \in acked' \cup writing' : log'[id].owner = s => id \in stored'
    BY <1>1, <1>2, <2>1, <2>4 DEF HistoryOK, LogOK
  <2>5. ASSUME kind # "redis", record[s] # None
        PROVE  \A id \in acked' : log'[id].owner = s /\ Fresh(id)' => id \in stored'
    BY <1>1, <1>2, <2>1, <2>5 DEF RecordOK, HistoryOK, Fresh
  <2>6. HistoryOK(s)'
    BY <1>2, <2>1, <2>4, <2>5 DEF HistoryOK
  <2> QED BY <2>2, <2>3, <2>6
<1> QED BY <1>1, <1>2, <1>3

\* Time passes: a key goes with its record, or after it.
LEMMA HistoryTicks ==
  ASSUME HistoryInv, LogOK', Tick
  PROVE  HistoryInv'
<1> USE DEF HistoryInv
<1> DEFINE expired == {s \in Session : expiry[s] = now + 1}
<1>1. /\ UNCHANGED <<kind, log, writing, acked, session>> /\ now' = now + 1
      /\ stored' = {id \in stored : log[id].owner \notin expired}
      /\ expiry' = [s \in Session |-> IF s \in expired THEN None ELSE expiry[s]]
      /\ record' = IF kind = "redis" THEN UnexpiredRecords(now + 1) ELSE record
  BY DEF Tick
<1>2. DOMAIN record' = Session /\ DOMAIN expiry' = Session
  BY <1>1 DEF UnexpiredRecords
<1>3. ASSUME NEW s \in Session PROVE RecordOK(s)' /\ HistoryOK(s)' /\ NewOK(s)'
  <2>1. RecordOK(s) /\ HistoryOK(s) /\ NewOK(s)
    OBVIOUS
  <2>2. /\ record'[s] = record[s] \/ record'[s] = None
        /\ kind = "redis" /\ record'[s] # None => ~(record[s] <= now + 1)
    BY <1>1 DEF UnexpiredRecords
  <2>3. RecordOK(s)' /\ NewOK(s)'
    BY <1>1, <2>1, <2>2, InStep DEF RecordOK, NewOK
  <2>4. ASSUME kind = "redis", record'[s] # None
        PROVE  /\ s \notin expired
               /\ expiry'[s] # None => expiry'[s] \in Nat /\ record'[s] <= expiry'[s]
    <3>1. record[s] \in Nat /\ record'[s] = record[s] /\ ~(record[s] <= now + 1)
      BY <2>1, <2>2, <2>4 DEF RecordOK
    <3>2. expiry[s] # None => expiry[s] \in Nat /\ record[s] <= expiry[s]
      BY <2>1, <2>2, <2>4 DEF HistoryOK
    <3>3. expiry[s] # now + 1
      BY <3>1, <3>2, NoneIsNew
    <3> QED BY <1>1, <3>1, <3>2, <3>3
  <2>5. ASSUME kind = "redis", record'[s] # None,
               NEW id \in acked' \cup writing', log'[id].owner = s
        PROVE  id \in stored'
    BY <1>1, <2>1, <2>2, <2>4, <2>5 DEF HistoryOK
  <2>6. ASSUME kind # "redis", record'[s] # None,
               NEW id \in acked', log'[id].owner = s, Fresh(id)'
        PROVE  id \in stored'
    <3>1. id \in acked /\ log[id].owner = s /\ log[id].at \in Int
      BY <1>1, <2>6, EventAt
    <3>2. Fresh(id) /\ id \in stored
      BY <1>1, <2>1, <2>2, <2>6, <3>1, InStep DEF Fresh, HistoryOK
    <3>3. expiry[s] # now + 1
      BY <2>6, NoneIsNew
    <3> QED BY <1>1, <3>1, <3>2, <3>3
  <2>7. HistoryOK(s)'
    BY <1>1, <2>4, <2>5, <2>6 DEF HistoryOK
  <2> QED BY <2>3, <2>7
<1> QED BY <1>1, <1>2, <1>3

\* A session comes up, with its record and no history.
LEMMA HistoryStarts ==
  ASSUME HistoryInv, LogOK', NEW t \in Session, CreateSession(t)
  PROVE  HistoryInv'
<1> USE DEF HistoryInv
<1>1. /\ UNCHANGED <<kind, now, log, stored, writing, acked, expiry>>
      /\ session' = [session EXCEPT ![t] = "live"]
      /\ record' = [record EXCEPT ![t] = IF kind = "memory" THEN None ELSE now + SessionTTL]
      /\ session[t] = "new"
  BY DEF CreateSession, storeVars
<1>2. ASSUME NEW s \in Session PROVE RecordOK(s)' /\ HistoryOK(s)' /\ NewOK(s)'
  <2>1. CASE s # t
    BY <1>1, <1>2, <2>1, HistoryStays DEF RecordOK, HistoryOK, NewOK, Fresh
  <2>2. CASE s = t
    <3>1. /\ record'[s] = IF kind = "memory" THEN None ELSE now + SessionTTL
          /\ session'[s] = "live" /\ expiry'[s] = None
          /\ \A id \in DOMAIN log' : log'[id].owner # s
      BY <1>1, <2>2 DEF NewOK
    <3> QED BY <1>1, <2>2, <3>1, InStep DEF RecordOK, HistoryOK, NewOK, LogOK
  <2> QED BY <2>1, <2>2
<1> QED BY <1>1, <1>2

\* The invariant is inductive.
LEMMA HistoryInductive == (Init => HistoryInv) /\ (HistoryInv /\ [Next]_vars => HistoryInv')
<1>1. ASSUME Init PROVE HistoryInv
  BY <1>1 DEF Init, HistoryInv, LogOK, RecordOK, HistoryOK, NewOK
<1>2. ASSUME HistoryInv, [Next]_vars PROVE HistoryInv'
  <2> USE <1>2 DEF HistoryInv
  <2>1. LogOK'
    BY LogStep
  <2>2. ASSUME UNCHANGED <<kind, now, log>>,
               DOMAIN session' = Session, DOMAIN record' = Session, DOMAIN expiry' = Session,
               \A s \in Session :
                 /\ record'[s] = record[s] \/ record'[s] = None
                 /\ \/ expiry'[s] = expiry[s]
                    \/ /\ kind = "redis" /\ expiry'[s] = now + TTL
                       /\ \E id \in DOMAIN log : log[id].owner = s
                 /\ session'[s] = "new" => session[s] = "new",
               acked' \subseteq acked \cup writing, writing' \subseteq writing,
               kind = "redis" => stored' = stored,
               kind # "redis" => /\ \A id \in stored : Fresh(id) => id \in stored'
                                 /\ \A id \in acked' \ acked : id \in stored'
        PROVE  HistoryInv'
    <3>1. ASSUME NEW s \in Session PROVE RecordOK(s)' /\ HistoryOK(s)' /\ NewOK(s)'
      BY <2>1, <2>2, <3>1, HistoryStays
    <3>2. acked' \subseteq DOMAIN log' /\ now' \in Nat
      BY <2>2 DEF LogOK
    <3>3. kind' # "redis" => \A s \in Session : expiry'[s] = None
      BY <2>2
    <3> QED BY <2>1, <2>2, <3>1, <3>2, <3>3
  <2>3. ASSUME UNCHANGED <<kind, now, log, stored, acked, expiry, session, record>>,
               writing' \subseteq writing
        PROVE  HistoryInv'
    BY <2>2, <2>3
  <2>4. CASE Tick
    BY <2>1, <2>4, HistoryTicks
  <2>5. ASSUME NEW s \in Session, StoreInMemory(s) \/ XAdd(s) \/ Insert(s) PROVE HistoryInv'
    BY <2>1, <2>5, HistoryStored
  <2>6. ASSUME NEW id \in writing, PExpire(id) PROVE HistoryInv'
    <3>1. id \in DOMAIN log
      BY DEF LogOK
    <3> QED BY <2>2, <2>6, <3>1 DEF PExpire, sessionVars
  <2>7. ASSUME NEW id \in writing, Commit(id) PROVE HistoryInv'
    BY <2>2, <2>7 DEF Commit, sessionVars
  <2>8. ASSUME NEW id \in writing, StoreFails(id) PROVE HistoryInv'
    BY <2>3, <2>8 DEF StoreFails, sessionVars
  <2>9. CASE PruneExpired
    BY <2>2, <2>9 DEF PruneExpired, sessionVars
  <2>10. CASE PruneRecords
    BY <2>2, <2>10 DEF PruneRecords, UnexpiredRecords, storeVars
  <2>11. ASSUME NEW s \in Session, CreateSession(s) PROVE HistoryInv'
    BY <2>1, <2>11, HistoryStarts
  <2>12. ASSUME NEW s \in Session, CloseSession(s) PROVE HistoryInv'
    BY <2>2, <2>12 DEF CloseSession, storeVars
  <2>13. ASSUME NEW s \in Session, ResumeSession(s) PROVE HistoryInv'
    BY <2>2, <2>13 DEF ResumeSession, storeVars
  <2>14. CASE Restart
    <3>1. CASE kind # "memory"
      BY <2>2, <2>14, <3>1 DEF Restart
    <3>2. CASE kind = "memory"
      <4>1. /\ UNCHANGED <<kind, now, expiry, record>> /\ log' = <<>> /\ acked' = {}
            /\ DOMAIN session' = Session
        BY <2>14, <3>2 DEF Restart
      <4>2. \A s \in Session : record[s] = None /\ expiry[s] = None
        BY <3>2 DEF RecordOK
      <4> QED BY <2>1, <3>2, <4>1, <4>2 DEF RecordOK, HistoryOK, NewOK
    <3> QED BY <3>1, <3>2
  <2>15. ASSUME NEW s \in Session,
                \/ ScopeCheck(s) \/ FindCursor(s) \/ ReadEvents(s) \/ SendNext(s)
                \/ EndReplay(s) \/ Disconnect(s)
                \/ \E cursor \in DOMAIN log \cup {None} : AskReplay(s, cursor)
         PROVE  HistoryInv'
    BY <2>3, <2>15 DEF ScopeCheck, FindCursor, ReadEvents, SendNext, EndReplay, Disconnect,
                       AskReplay, storeVars, sessionVars
  <2>16. CASE UNCHANGED vars
    BY <2>3, <2>16 DEF vars, storeVars, sessionVars
  <2> QED BY <2>4, <2>5, <2>6, <2>7, <2>8, <2>9, <2>10, <2>11, <2>12, <2>13, <2>14, <2>15,
             <2>16 DEF Next
<1> QED BY <1>1, <1>2

\* While the registry knows a session, every event acknowledged to it can be replayed, for
\* any TTLs that are in step (ttlMs of store-redis and store-postgres).
THEOREM HistoryOutlivesSessionHolds == Spec => []HistoryOutlivesSession
<1>1. ASSUME HistoryInv PROVE HistoryOutlivesSession
  <2>1. ASSUME NEW s \in Session, GetRecord(s) # None,
               NEW id \in acked, log[id].owner = s
        PROVE  id \in Readable
    <3>1. record[s] # None /\ record[s] > now
      BY <2>1 DEF GetRecord
    <3>2. RecordOK(s) /\ HistoryOK(s) /\ id \in DOMAIN log /\ log[id].at \in Int
      BY <1>1, <2>1, EventAt DEF HistoryInv
    <3>3. Fresh(id)
      BY <1>1, <2>1, <3>1, <3>2, InStep DEF HistoryInv, RecordOK, Fresh
    <3> QED BY <2>1, <3>1, <3>2, <3>3 DEF HistoryOK, Readable
  <2> QED BY <2>1 DEF HistoryOutlivesSession
<1> QED BY <1>1, HistoryInductive, PTL DEF Spec

---------------------------------------------------------------------------
(***************************************************************************)
(* No replay skips an event that the store promises to keep.               *)
(***************************************************************************)
\* What every variable is.
Types ==
  /\ kind \in Kind /\ now \in 0..MaxNow[kind]
  /\ log \in Seq([owner : Session, at : 0..MaxNow[kind]]) /\ Len(log) <= MaxId[kind]
  /\ expiry \in [Session -> Nat \cup {None}]
  /\ session \in [Session -> {"new", "live", "parked", "closed"}]
  /\ deadline \in [Session -> Nat]
  /\ record \in [Session -> Nat \cup {None}]
  /\ \A s \in Session :
       replay[s].status \in {"none", "asked", "checked", "found", "sending", "done", "refused"}

\* The in-memory store holds the last MaxEvents events, no fewer and no others.
Window == kind = "memory" => stored = {id \in DOMAIN log : id > Len(log) - MaxEvents}

\* A replay needs a live session, whose record says when the session ends.
SessionOK(s) ==
  /\ session[s] # "live" => deadline[s] = 0 /\ replay[s] = NoReplay
  /\ kind # "memory" /\ now < deadline[s] => record[s] = deadline[s]

\* What a replay owes are acknowledged events of its session, none before its cursor.
DueOK(s) ==
  \A id \in replay[s].due :
    /\ id \in acked /\ log[id].owner = s
    /\ replay[s].cursor \in DOMAIN log /\ id >= replay[s].cursor

\* What it still has to have sent when it ends, and what it has sent.
Owed(s) == {id \in replay[s].due \ {replay[s].cursor} : Retained(id)}
Sent(s) == {replay[s].sent[i] : i \in DOMAIN replay[s].sent}

\* NoneSkipped, and what makes it true of a replay under way: what is owed and not sent is
\* still to come, after all that was sent and in the batch that was read.
CursorOwed(s) == replay[s].cursor \in replay[s].due /\ Retained(replay[s].cursor)
RefusedOK(s) == replay[s].status = "refused" => ~CursorOwed(s)
SendingOK(s) ==
  replay[s].status = "sending" =>
    \A id \in Owed(s) :
      \/ id \in Sent(s)
      \/ (kind # "memory" => id \in replay[s].batch) /\ \A other \in Sent(s) : id > other
DoneOK(s) == replay[s].status = "done" => Owed(s) \subseteq Sent(s)

SkipOK(s) == now < deadline[s] => RefusedOK(s) /\ SendingOK(s) /\ DoneOK(s)

ReplayInv ==
  /\ Inv /\ HistoryInv
  /\ Types /\ Window
  /\ \A s \in Session : SessionOK(s) /\ DueOK(s) /\ SkipOK(s)

---------------------------------------------------------------------------
(***************************************************************************)
(* Types.                                                                  *)
(***************************************************************************)
LEMMA TypesInit == Init => Types
<1> SUFFICES ASSUME Init PROVE Types
  OBVIOUS
<1>1. kind \in Kind /\ MaxNow[kind] \in Nat /\ MaxId[kind] \in Nat
  BY BoundsAreNumbers DEF Init
<1>2. log = <<>> /\ now = 0
  BY DEF Init
<1>3. log \in Seq([owner : Session, at : 0..MaxNow[kind]]) /\ Len(log) = 0
  BY <1>2
<1>4. \A s \in Session : replay[s].status = "none"
  BY DEF Init, NoReplay
<1> QED BY <1>1, <1>2, <1>3, <1>4 DEF Init, Types

\* The log is appended to, within its bound, or unchanged, or emptied.
LEMMA TypesLog ==
  ASSUME Types, NEW s \in Session, Logged(s), MayStore(s)
  PROVE  log' \in Seq([owner : Session, at : 0..MaxNow[kind]]) /\ Len(log') <= MaxId[kind]
<1> DEFINE E == [owner : Session, at : 0..MaxNow[kind]]
<1>1. log \in Seq(E) /\ [owner |-> s, at |-> now] \in E
  BY DEF Types
<1> HIDE DEF E
<1>2. log' \in Seq(E) /\ Len(log') = Len(log) + 1
  BY <1>1 DEF Logged
<1>3. Len(log) + 1 <= MaxId[kind]
  BY DEF MayStore, NewId
<1> QED BY <1>2, <1>3 DEF E

\* A status is one of the seven.
LEMMA TypesReplay ==
  ASSUME Types, Inv, [Next]_vars
  PROVE  \A s \in Session :
           replay'[s].status
             \in {"none", "asked", "checked", "found", "sending", "done", "refused"}
<1> DEFINE Statuses == {"none", "asked", "checked", "found", "sending", "done", "refused"}
<1>1. DOMAIN replay = Session /\ \A s \in Session : replay[s].status \in Statuses
  BY DEF Types, Inv
<1>2. \A s \in Session : DOMAIN replay[s] = {"status", "cursor", "batch", "sent", "due"}
  BY DEF Inv, ReplayOK
<1>3. NoReplay.status = "none"
  BY DEF NoReplay
<1>4. ASSUME NEW s \in Session, NEW r, replay' = [replay EXCEPT ![s] = r], r.status \in Statuses
      PROVE  \A t \in Session : replay'[t].status \in Statuses
  BY <1>1, <1>4
<1>5. ASSUME NEW s \in Session, NEW status \in Statuses, SetStatus(s, status)
      PROVE  \A t \in Session : replay'[t].status \in Statuses
  <2>1. /\ replay'[s].status = status
        /\ \A t \in Session \ {s} : replay'[t] = replay[t]
    BY <1>1, <1>2, <1>5 DEF SetStatus
  <2> QED BY <1>1, <2>1
<1>6. ASSUME NEW s \in Session, NEW cursor \in DOMAIN log \cup {None}, AskReplay(s, cursor)
      PROVE  \A t \in Session : replay'[t].status \in Statuses
  <2>1. PICK due : replay' = [replay EXCEPT ![s] =
          [NoReplay EXCEPT !.status = "asked", !.cursor = cursor, !.due = due]]
    BY <1>6 DEF AskReplay
  <2>2. [NoReplay EXCEPT !.status = "asked", !.cursor = cursor, !.due = due].status = "asked"
    BY DEF NoReplay
  <2> QED BY <1>4, <2>1, <2>2
<1>7. ASSUME NEW s \in Session, ReadEvents(s)
      PROVE  \A t \in Session : replay'[t].status \in Statuses
  <2>1. CASE SetStatus(s, "refused")
    BY <1>5, <2>1
  <2>2. CASE ~SetStatus(s, "refused")
    <3>1. /\ replay'[s].status = "sending"
          /\ \A t \in Session \ {s} : replay'[t] = replay[t]
      BY <1>1, <1>2, <1>7, <2>2 DEF ReadEvents
    <3> QED BY <1>1, <3>1
  <2> QED BY <2>1, <2>2
<1>8. ASSUME NEW s \in Session, SendNext(s)
      PROVE  \A t \in Session : replay'[t].status \in Statuses
  <2>1. PICK id : replay' = [replay EXCEPT ![s].sent = Append(@, id)]
    BY <1>8 DEF SendNext
  <2>2. \A t \in Session : replay'[t].status = replay[t].status
    BY <1>1, <1>2, <2>1
  <2> QED BY <1>1, <2>2
<1>9. ASSUME NEW s \in Session, ScopeCheck(s) \/ FindCursor(s) \/ EndReplay(s)
      PROVE  \A t \in Session : replay'[t].status \in Statuses
  BY <1>5, <1>9 DEF ScopeCheck, FindCursor, EndReplay
<1>10. ASSUME UNCHANGED replay
      PROVE  \A t \in Session : replay'[t].status \in Statuses
  BY <1>1, <1>10
<1>11. ASSUME replay' = [s \in Session |-> NoReplay]
      PROVE  \A t \in Session : replay'[t].status \in Statuses
  BY <1>3, <1>11
<1>12. ASSUME NEW s \in Session, replay' = [replay EXCEPT ![s] = NoReplay]
       PROVE  \A t \in Session : replay'[t].status \in Statuses
  BY <1>3, <1>4, <1>12
<1> HIDE DEF Statuses
<1>13. ASSUME NEW s \in Session,
              \/ ScopeCheck(s) \/ FindCursor(s) \/ ReadEvents(s) \/ SendNext(s) \/ EndReplay(s)
              \/ \E cursor \in DOMAIN log \cup {None} : AskReplay(s, cursor)
       PROVE  \A t \in Session : replay'[t].status \in Statuses
  BY <1>6, <1>7, <1>8, <1>9, <1>13
<1>14. ASSUME Quiet
      PROVE  \A t \in Session : replay'[t].status \in Statuses
  BY <1>10, <1>14 DEF Quiet
<1>15. \A t \in Session : replay'[t].status \in Statuses
  BY <1>10, <1>11, <1>12, <1>13, <1>14, StepKinds
<1> QED BY <1>15 DEF Statuses

LEMMA TypesStep ==
  ASSUME Types, Inv, [Next]_vars
  PROVE  Types'
<1> USE DEF storeVars, sessionVars
<1> DEFINE Rest == /\ expiry' \in [Session -> Nat \cup {None}]
                   /\ session' \in [Session -> {"new", "live", "parked", "closed"}]
                   /\ deadline' \in [Session -> Nat]
                   /\ record' \in [Session -> Nat \cup {None}]
           Clock == kind' = kind /\ now' \in 0..MaxNow[kind]
           Events == /\ log' \in Seq([owner : Session, at : 0..MaxNow[kind]])
                     /\ Len(log') <= MaxId[kind]
<1>1. /\ now \in Nat /\ SessionTTL \in Nat /\ TTL \in Nat
      /\ kind \in Kind /\ MaxNow[kind] \in Nat /\ MaxId[kind] \in Nat
  BY InStep, BoundsAreNumbers DEF Types
<1>0. ASSUME Clock /\ Rest /\ Events PROVE Types'
  BY <1>1, <1>0, TypesReplay DEF Types
<1>2. ASSUME UNCHANGED log PROVE Events
  BY <1>2 DEF Types
<1>3. ASSUME UNCHANGED <<kind, now>> PROVE Clock
  BY <1>3 DEF Types
<1>4. ASSUME UNCHANGED <<expiry, session, deadline, record>> PROVE Rest
  BY <1>4 DEF Types
<1>5. CASE Tick
  <2>1. record' \in [Session -> Nat \cup {None}]
    BY <1>5 DEF Tick, UnexpiredRecords, Types
  <2>2. expiry' \in [Session -> Nat \cup {None}]
    BY <1>5 DEF Tick, Types
  <2>3. Clock
    BY <1>1, <1>5 DEF Tick, Types
  <2>4. Rest /\ Events
    BY <1>2, <1>5, <2>1, <2>2 DEF Tick, Types
  <2> HIDE DEF Clock, Rest, Events
  <2> QED BY <1>0, <2>3, <2>4
<1>6. ASSUME NEW s \in Session, StoreInMemory(s) \/ XAdd(s) \/ Insert(s)
      PROVE  Clock /\ Rest /\ Events
  <2>1. Logged(s) /\ MayStore(s) /\ UNCHANGED <<kind, now, expiry, session, deadline, record>>
    BY <1>6 DEF StoreInMemory, XAdd, Insert
  <2> QED BY <1>3, <1>4, <2>1, TypesLog
<1>7. ASSUME NEW id \in writing, PExpire(id) \/ Commit(id) \/ StoreFails(id)
      PROVE  Clock /\ Rest /\ Events
  <2>1. UNCHANGED <<kind, now, log, session, deadline, record>>
    BY <1>7 DEF PExpire, Commit, StoreFails
  <2>2. id \in DOMAIN log /\ log[id] \in Event
    BY DEF Inv, LogOK
  <2>3. now + TTL \in Nat
    BY <1>1
  <2>4. expiry' \in [Session -> Nat \cup {None}]
    BY <1>7, <2>2, <2>3 DEF PExpire, Commit, StoreFails, Types, Event
  <2>5. Rest
    BY <2>1, <2>4 DEF Types
  <2> QED BY <1>2, <1>3, <2>1, <2>5
<1>8. ASSUME PruneExpired PROVE Clock /\ Rest /\ Events
  BY <1>2, <1>3, <1>4, <1>8 DEF PruneExpired
<1>9. ASSUME PruneRecords PROVE Clock /\ Rest /\ Events
  <2>1. record' \in [Session -> Nat \cup {None}]
    BY <1>9 DEF PruneRecords, UnexpiredRecords, Types
  <2> QED BY <1>2, <1>3, <1>9, <2>1 DEF PruneRecords, Types
<1>10. ASSUME NEW s \in Session, CreateSession(s) PROVE Clock /\ Rest /\ Events
  <2>1. now + SessionTTL \in Nat
    BY <1>1
  <2> QED BY <1>2, <1>3, <1>10, <2>1 DEF CreateSession, Types
<1>11. ASSUME NEW s \in Session, CloseSession(s) PROVE Clock /\ Rest /\ Events
  BY <1>2, <1>3, <1>11 DEF CloseSession, Types
<1>12. ASSUME NEW s \in Session, ResumeSession(s) PROVE Clock /\ Rest /\ Events
  <2>1. GetRecord(s) \in Nat
    BY <1>12 DEF ResumeSession, GetRecord, Types
  <2> QED BY <1>2, <1>3, <1>12, <2>1 DEF ResumeSession, Types
<1>13. ASSUME Restart PROVE Clock /\ Rest /\ Events
  <2>1. Rest
    BY <1>13 DEF Restart, Types
  <2>2. CASE log' = <<>>
    <3>1. Len(log') = 0 /\ log' \in Seq([owner : Session, at : 0..MaxNow[kind]])
      BY <2>2
    <3> QED BY <1>1, <1>3, <1>13, <2>1, <3>1 DEF Restart
  <2>3. CASE UNCHANGED log
    BY <1>2, <1>3, <1>13, <2>1, <2>3 DEF Restart
  <2> QED BY <1>13, <2>2, <2>3 DEF Restart
<1>14. ASSUME NEW s \in Session,
              \/ ScopeCheck(s) \/ FindCursor(s) \/ ReadEvents(s) \/ SendNext(s) \/ EndReplay(s)
              \/ Disconnect(s) \/ \E cursor \in DOMAIN log \cup {None} : AskReplay(s, cursor)
       PROVE  Clock /\ Rest /\ Events
  BY <1>2, <1>3, <1>4, <1>14
     DEF ScopeCheck, FindCursor, ReadEvents, SendNext, EndReplay, Disconnect, AskReplay
<1>15. ASSUME UNCHANGED vars PROVE Clock /\ Rest /\ Events
  BY <1>2, <1>3, <1>4, <1>15 DEF vars
<1> HIDE DEF Clock, Rest, Events
<1> QED BY <1>5, <1>6, <1>7, <1>8, <1>9, <1>10, <1>11, <1>12, <1>13, <1>14, <1>15, <1>0 DEF Next

---------------------------------------------------------------------------
(***************************************************************************)
(* What the in-memory store holds, and what a session's record says.       *)
(***************************************************************************)
\* Capped drops the oldest event of a window that is one too large, and nothing else.
LEMMA CappedWindow ==
  ASSUME NEW n \in Nat,
         stored = {id \in 1..n : id > n - MaxEvents}
  PROVE  Capped(stored \cup {n + 1}) = {id \in 1..(n + 1) : id > (n + 1) - MaxEvents}
<1> DEFINE events == stored \cup {n + 1}
<1>1. MaxEvents \in Nat \ {0}
  BY SomeEvents
<1>2. CASE n < MaxEvents
  <2>1. events = 1..(n + 1)
    BY <1>1, <1>2
  <2>2. Cardinality(1..(n + 1)) = n + 1
    <3>1. 1 \in Int /\ n + 1 \in Int /\ ~(1 > n + 1) /\ (n + 1) - 1 + 1 = n + 1
      OBVIOUS
    <3> QED BY <3>1, FS_Interval, Zenon
  <2>3. ~(Cardinality(events) > MaxEvents)
    <3>1. Cardinality(events) = n + 1
      BY <2>1, <2>2
    <3> HIDE DEF events
    <3> QED BY <1>1, <1>2, <3>1
  <2>4. Capped(events) = events
    BY <2>3 DEF Capped
  <2> QED BY <1>1, <1>2, <2>1, <2>4
<1>3. CASE ~(n < MaxEvents)
  <2> DEFINE least == n - MaxEvents + 1
  <2>1. events = least..(n + 1) /\ least \in Nat \ {0} /\ least <= n
    BY <1>1, <1>3
  <2>2. Cardinality(least..(n + 1)) = (n + 1) - least + 1
    <3>1. least \in Int /\ n + 1 \in Int /\ ~(least > n + 1)
      BY <2>1
    <3> HIDE DEF least
    <3> QED BY <3>1, FS_Interval, Zenon
  <2>3. Cardinality(events) > MaxEvents
    <3>1. Cardinality(events) = Cardinality(least..(n + 1))
      BY <2>1
    <3>2. Cardinality(events) = MaxEvents + 1 /\ MaxEvents \in Nat
      BY <1>1, <2>2, <3>1
    <3> HIDE DEF events
    <3> QED BY <3>2
  <2>4. Capped(events) = {id \in events : \E older \in events : older < id}
    BY <2>3 DEF Capped
  <2>5. \A id \in events : (\E older \in events : older < id) <=> id > least
    <3> HIDE DEF events, least
    <3> QED BY <2>1
  <2>6. Capped(events) = {id \in events : id > least}
    BY <2>4, <2>5
  <2> QED BY <1>1, <1>3, <2>1, <2>6
<1> QED BY <1>2, <1>3

LEMMA WindowStep ==
  ASSUME Inv, HistoryInv, Window, [Next]_vars
  PROVE  Window'
<1> USE DEF storeVars, sessionVars
<1>1. log \in Seq(Event) /\ DOMAIN log = 1..Len(log) /\ Len(log) \in Nat
  BY DEF Inv, LogOK
<1>2. ASSUME UNCHANGED <<kind, log, stored>> PROVE Window'
  BY <1>2 DEF Window
<1>3. ASSUME kind' = kind, kind # "memory" PROVE Window'
  BY <1>3 DEF Window
<1>4. CASE Tick
  <2>1. CASE kind = "memory"
    <3>1. \A t \in Session : expiry[t] = None
      BY <2>1 DEF HistoryInv
    <3>2. now + 1 # None
      BY NoneIsNew DEF HistoryInv
    <3>3. stored' = stored
      BY <1>4, <3>1, <3>2 DEF Tick
    <3> QED BY <1>2, <1>4, <3>3 DEF Tick
  <2>2. CASE kind # "memory"
    BY <1>3, <1>4, <2>2 DEF Tick
  <2> QED BY <2>1, <2>2
<1>5. ASSUME NEW s \in Session, StoreInMemory(s) PROVE Window'
  <2>1. /\ kind = "memory" /\ Logged(s) /\ stored' = Capped(stored \cup {Len(log) + 1})
    BY <1>5 DEF StoreInMemory, NewId
  <2>2. Len(log') = Len(log) + 1 /\ DOMAIN log' = 1..(Len(log) + 1)
    <3>1. [owner |-> s, at |-> now] \in Event
      BY DEF Event, Inv, LogOK
    <3> QED BY <1>1, <2>1, <3>1 DEF Logged
  <2>3. stored = {id \in 1..Len(log) : id > Len(log) - MaxEvents}
    BY <1>1, <2>1 DEF Window
  <2>4. stored' = {id \in 1..(Len(log) + 1) : id > (Len(log) + 1) - MaxEvents}
    BY <1>1, <2>1, <2>3, CappedWindow
  <2>5. stored' = {id \in DOMAIN log' : id > Len(log') - MaxEvents}
    BY <2>2, <2>4, Zenon
  <2> QED BY <2>5 DEF Window
<1>6. ASSUME NEW s \in Session, XAdd(s) \/ Insert(s) PROVE Window'
  BY <1>3, <1>6 DEF XAdd, Insert
<1>7. ASSUME NEW id \in writing, PExpire(id) \/ Commit(id) \/ StoreFails(id) PROVE Window'
  BY <1>2, <1>3, <1>7 DEF PExpire, Commit, StoreFails
<1>8. ASSUME PruneExpired \/ PruneRecords PROVE Window'
  BY <1>3, <1>8 DEF PruneExpired, PruneRecords
<1>9. CASE Restart
  <2>1. CASE kind = "memory"
    <3>1. log' = <<>> /\ stored' = {}
      BY <1>9, <2>1 DEF Restart
    <3> QED BY <3>1 DEF Window
  <2>2. CASE kind # "memory"
    BY <1>3, <1>9, <2>2 DEF Restart
  <2> QED BY <2>1, <2>2
<1>10. ASSUME NEW s \in Session,
              \/ CreateSession(s) \/ CloseSession(s) \/ ResumeSession(s) \/ Disconnect(s)
              \/ ScopeCheck(s) \/ FindCursor(s) \/ ReadEvents(s) \/ SendNext(s) \/ EndReplay(s)
              \/ \E cursor \in DOMAIN log \cup {None} : AskReplay(s, cursor)
       PROVE  Window'
  BY <1>2, <1>10 DEF CreateSession, CloseSession, ResumeSession, Disconnect,
       ScopeCheck, FindCursor, ReadEvents, SendNext, EndReplay, AskReplay
<1>11. CASE UNCHANGED vars
  BY <1>2, <1>11 DEF vars
<1> QED BY <1>4, <1>5, <1>6, <1>7, <1>8, <1>9, <1>10, <1>11 DEF Next

\* So it holds at most MaxEvents.
LEMMA WindowBound ==
  ASSUME Inv, Window, kind = "memory"
  PROVE  Cardinality(stored) <= MaxEvents
<1> DEFINE n == Len(log)
           least == IF n < MaxEvents THEN 1 ELSE n - MaxEvents + 1
<1>1. n \in Nat /\ DOMAIN log = 1..n /\ MaxEvents \in Nat \ {0}
  BY SomeEvents DEF Inv, LogOK
<1>2. stored = {id \in 1..n : id > n - MaxEvents}
  BY <1>1 DEF Window
<1> HIDE DEF n
<1>3. stored = least..n /\ least \in Int /\ n \in Int
  BY <1>1, <1>2
<1>4. (IF least > n THEN 0 ELSE n - least + 1) <= MaxEvents
  BY <1>1
<1> HIDE DEF least
<1>5. Cardinality(least..n) = IF least > n THEN 0 ELSE n - least + 1
  BY <1>3, FS_Interval, Zenon
<1> QED BY <1>3, <1>4, <1>5

\* A session's time and its replay are gone once it is not live; its record keeps its time.
LEMMA SessionStep ==
  ASSUME Types, Inv, NEW s \in Session, SessionOK(s), [Next]_vars
  PROVE  SessionOK(s)'
<1> USE DEF storeVars, sessionVars
<1>1. /\ now \in Nat /\ SessionTTL \in Nat /\ DOMAIN replay = Session
      /\ session \in [Session -> {"new", "live", "parked", "closed"}]
      /\ deadline \in [Session -> Nat] /\ record \in [Session -> Nat \cup {None}]
  BY InStep, BoundsAreNumbers DEF Types, Inv
<1>2. ASSUME session'[s] = session[s], deadline'[s] = deadline[s], now' >= now, now' \in Nat,
             UNCHANGED kind,
             session[s] # "live" => replay'[s] = replay[s],
             now' < deadline[s] => record'[s] = record[s]
      PROVE  SessionOK(s)'
  BY <1>1, <1>2 DEF SessionOK
<1>3. ASSUME UNCHANGED <<kind, now, session, deadline, record, replay>> PROVE SessionOK(s)'
  BY <1>1, <1>2, <1>3
<1>4. CASE Tick
  <2>1. now' = now + 1 /\ UNCHANGED <<kind, session, deadline, replay>>
    BY <1>4 DEF Tick
  <2>2. now' < deadline[s] /\ kind # "memory" => record[s] = deadline[s]
    BY <1>1, <2>1 DEF SessionOK
  <2>3. now' < deadline[s] /\ kind # "memory" => record'[s] = record[s]
    BY <1>1, <1>4, <2>1, <2>2, NoneIsNew DEF Tick, UnexpiredRecords
  <2> QED BY <1>1, <2>1, <2>2, <2>3 DEF SessionOK
<1>5. ASSUME NEW t \in Session, StoreInMemory(t) \/ XAdd(t) \/ Insert(t) PROVE SessionOK(s)'
  BY <1>3, <1>5 DEF StoreInMemory, XAdd, Insert
<1>6. ASSUME NEW id \in writing, PExpire(id) \/ Commit(id) \/ StoreFails(id)
      PROVE  SessionOK(s)'
  BY <1>3, <1>6 DEF PExpire, Commit, StoreFails
<1>7. ASSUME PruneExpired PROVE SessionOK(s)'
  BY <1>3, <1>7 DEF PruneExpired
<1>8. ASSUME PruneRecords PROVE SessionOK(s)'
  <2>1. UNCHANGED <<kind, now, session, deadline, replay>>
    BY <1>8 DEF PruneRecords
  <2>2. record'[s] = record[s] \/ (record[s] # None /\ record[s] <= now)
    BY <1>8 DEF PruneRecords, UnexpiredRecords
  <2>3. now < deadline[s] /\ kind # "memory" => record'[s] = record[s]
    BY <1>1, <2>2 DEF SessionOK
  <2> QED BY <1>1, <2>1, <2>3 DEF SessionOK
<1>9. ASSUME NEW t \in Session, CreateSession(t) PROVE SessionOK(s)'
  <2>1. CASE s # t
    BY <1>1, <1>2, <1>9, <2>1 DEF CreateSession
  <2>2. CASE s = t
    BY <1>1, <1>9, <2>2 DEF CreateSession, SessionOK
  <2> QED BY <2>1, <2>2
<1>10. ASSUME NEW t \in Session, CloseSession(t) PROVE SessionOK(s)'
  <2>1. CASE s # t
    BY <1>1, <1>2, <1>10, <2>1 DEF CloseSession
  <2>2. CASE s = t
    BY <1>1, <1>10, <2>2 DEF CloseSession, SessionOK
  <2> QED BY <2>1, <2>2
<1>11. ASSUME NEW t \in Session, ResumeSession(t) PROVE SessionOK(s)'
  <2>1. CASE s # t
    BY <1>1, <1>2, <1>11, <2>1 DEF ResumeSession
  <2>2. CASE s = t
    <3>1. session'[s] = "live" /\ deadline'[s] = record[s] /\ UNCHANGED <<kind, now, record>>
      BY <1>1, <1>11, <2>2 DEF ResumeSession, GetRecord
    <3> QED BY <3>1 DEF SessionOK
  <2> QED BY <2>1, <2>2
<1>12. CASE Restart
  <2>1. UNCHANGED <<kind, now>> /\ deadline'[s] = 0 /\ replay'[s] = NoReplay
    BY <1>12 DEF Restart
  <2> QED BY <1>1, <2>1 DEF SessionOK
<1>13. ASSUME NEW t \in Session, Disconnect(t) PROVE SessionOK(s)'
  <2>1. UNCHANGED <<kind, now, session, deadline, record>>
    BY <1>13 DEF Disconnect
  <2>2. replay'[s] = replay[s] \/ replay'[s] = NoReplay
    BY <1>1, <1>13 DEF Disconnect
  <2> QED BY <2>1, <2>2 DEF SessionOK
<1>14. ASSUME NEW t \in Session, NEW cursor \in DOMAIN log \cup {None}, AskReplay(t, cursor)
       PROVE  SessionOK(s)'
  <2>1. UNCHANGED <<kind, now, session, deadline, record>> /\ session[t] = "live"
    BY <1>14 DEF AskReplay
  <2>2. s # t => replay'[s] = replay[s]
    BY <1>1, <1>14 DEF AskReplay
  <2> QED BY <2>1, <2>2 DEF SessionOK
<1>15. ASSUME NEW t \in Session,
              ScopeCheck(t) \/ FindCursor(t) \/ ReadEvents(t) \/ SendNext(t) \/ EndReplay(t)
       PROVE  SessionOK(s)'
  <2>1. UNCHANGED <<kind, now, session, deadline, record>> /\ replay[t].status # "none"
    BY <1>15 DEF ScopeCheck, FindCursor, ReadEvents, SendNext, EndReplay
  <2>2. s # t => replay'[s] = replay[s]
    BY <1>1, <1>15 DEF ScopeCheck, FindCursor, ReadEvents, SendNext, EndReplay, SetStatus
  <2>3. NoReplay.status = "none"
    BY DEF NoReplay
  <2>4. s = t => session[s] = "live"
    BY <2>1, <2>3 DEF SessionOK
  <2> QED BY <2>1, <2>2, <2>4 DEF SessionOK
<1>16. CASE UNCHANGED vars
  BY <1>3, <1>16 DEF vars
<1> QED BY <1>4, <1>5, <1>6, <1>7, <1>8, <1>9, <1>10, <1>11, <1>12, <1>13, <1>14, <1>15, <1>16
        DEF Next

---------------------------------------------------------------------------
(***************************************************************************)
(* What a replay owes.                                                     *)
(***************************************************************************)
\* An acknowledged event that is retained can be read, while its session's time is not up.
LEMMA RetainedReadable ==
  ASSUME ReplayInv, NEW s \in Session, now < deadline[s],
         NEW id \in acked, log[id].owner = s, Retained(id)
  PROVE  id \in Readable
<1>1. SessionOK(s) /\ HistoryOK(s) /\ id \in DOMAIN log /\ deadline[s] \in Nat /\ now \in Nat
  BY DEF ReplayInv, HistoryInv, Types
<1>2. CASE kind = "memory"
  BY <1>1, <1>2 DEF ReplayInv, Window, Retained, Readable
<1>3. CASE kind # "memory"
  <2>1. record[s] # None /\ Fresh(id)
    BY <1>1, <1>3, NoneIsNew DEF SessionOK, Retained
  <2> QED BY <1>1, <2>1 DEF HistoryOK, Readable
<1> QED BY <1>2, <1>3

\* The store goes on: more events, later, none of the old ones changed.
Grows ==
  /\ kind' = kind /\ now' >= now
  /\ Len(log') >= Len(log) /\ acked \subseteq acked'
  /\ \A id \in DOMAIN log : id \in DOMAIN log' /\ log'[id] = log[id]

\* What is retained later was retained before.
LEMMA RetainedBefore ==
  ASSUME ReplayInv, Grows, now' \in Int, Len(log') \in Int, NEW id \in DOMAIN log, Retained(id)'
  PROVE  Retained(id)
<1>1. /\ now \in Int /\ log[id].at \in Int /\ TTL \in Int /\ MaxEvents \in Int
      /\ Len(log) \in Int /\ id \in Int
  BY EventAt, InStep, SomeEvents DEF ReplayInv, HistoryInv, LogOK
<1>2. log'[id] = log[id] /\ kind' = kind /\ now' >= now /\ Len(log') >= Len(log)
  BY DEF Grows
<1>3. CASE kind = "memory"
  BY <1>1, <1>2, <1>3 DEF Retained
<1>4. CASE kind # "memory"
  BY <1>1, <1>2, <1>4 DEF Retained, Fresh
<1> QED BY <1>3, <1>4

\* What the invariants of one replay need of it, and of what it owes.
LEMMA OwedBefore ==
  ASSUME ReplayInv, Grows, now' \in Int, Len(log') \in Int, NEW s \in Session,
         replay'[s].due = replay[s].due, replay'[s].cursor = replay[s].cursor
  PROVE  DueOK(s)' /\ Owed(s)' \subseteq Owed(s) /\ (CursorOwed(s)' => CursorOwed(s))
<1>1. DueOK(s) /\ acked \subseteq DOMAIN log
  BY DEF ReplayInv, HistoryInv
<1>2. DueOK(s)'
  BY <1>1 DEF DueOK, Grows
<1>3. ASSUME NEW id \in Owed(s)' PROVE id \in Owed(s)
  <2>1. id \in replay[s].due /\ id # replay[s].cursor /\ Retained(id)'
    BY <1>3 DEF Owed
  <2>2. id \in DOMAIN log
    BY <1>1, <2>1 DEF DueOK
  <2> QED BY <2>1, <2>2, RetainedBefore DEF Owed
<1>4. ASSUME CursorOwed(s)' PROVE CursorOwed(s)
  <2>1. PICK c : c = replay[s].cursor
    OBVIOUS
  <2>2. c \in replay[s].due /\ c \in DOMAIN log
    BY <1>1, <1>4, <2>1 DEF DueOK, CursorOwed
  <2>3. Retained(c)'
    BY <1>4, <2>1 DEF CursorOwed, Retained, Fresh
  <2>4. Retained(c)
    BY <2>2, <2>3, RetainedBefore
  <2> QED BY <2>1, <2>2, <2>4 DEF CursorOwed
<1> QED BY <1>2, <1>3, <1>4

\* A replay that does not move keeps its promise while the store goes on.
LEMMA SkipStays ==
  ASSUME ReplayInv, Grows, now' \in Int, Len(log') \in Int, NEW s \in Session,
         replay'[s] = replay[s], deadline'[s] = deadline[s]
  PROVE  DueOK(s)' /\ SkipOK(s)'
<1>1. /\ DueOK(s)' /\ Owed(s)' \subseteq Owed(s) /\ Sent(s)' = Sent(s)
      /\ CursorOwed(s)' => CursorOwed(s)
  BY OwedBefore DEF Sent
<1>2. SUFFICES ASSUME now' < deadline'[s]
               PROVE  RefusedOK(s)' /\ SendingOK(s)' /\ DoneOK(s)'
  BY <1>1 DEF SkipOK
<1>3. RefusedOK(s) /\ SendingOK(s) /\ DoneOK(s)
  <2>1. now < deadline[s]
    BY <1>2 DEF Grows, ReplayInv, Types
  <2> QED BY <2>1 DEF ReplayInv, SkipOK
<1> QED BY <1>1, <1>3 DEF RefusedOK, SendingOK, DoneOK, Grows

\* No replay, no promise.
LEMMA SkipNone ==
  ASSUME NEW s \in Session, replay[s] = NoReplay
  PROVE  DueOK(s) /\ SkipOK(s)
<1>1. replay[s].status = "none" /\ replay[s].due = {}
  BY DEF NoReplay
<1> QED BY <1>1 DEF DueOK, SkipOK, RefusedOK, SendingOK, DoneOK

\* A cursor is refused only when it is not owed.
LEMMA SkipRefused ==
  ASSUME ReplayInv, NEW s \in Session, now < deadline[s],
         StreamIdFor(replay[s].cursor) # s
  PROVE  ~CursorOwed(s)
<1> SUFFICES ASSUME replay[s].cursor \in replay[s].due, Retained(replay[s].cursor) PROVE FALSE
  BY DEF CursorOwed
<1>1. replay[s].cursor \in acked /\ log[replay[s].cursor].owner = s
  BY DEF ReplayInv, DueOK
<1>2. replay[s].cursor \in Readable
  BY <1>1, RetainedReadable
<1> QED BY <1>1, <1>2 DEF StreamIdFor

\* What is owed is after the cursor in its stream.
LEMMA OwedAfter ==
  ASSUME ReplayInv, NEW s \in Session, now < deadline[s],
         replay[s].cursor \in DOMAIN log, log[replay[s].cursor].owner = s
  PROVE  Owed(s) \subseteq After(replay[s].cursor)
<1>1. ASSUME NEW id \in Owed(s) PROVE id \in After(replay[s].cursor)
  <2>1. /\ id \in acked /\ log[id].owner = s /\ id >= replay[s].cursor
        /\ id # replay[s].cursor /\ Retained(id)
    BY <1>1 DEF Owed, ReplayInv, DueOK
  <2>2. id \in Readable
    BY <2>1, RetainedReadable
  <2>3. id > replay[s].cursor
    BY <2>1 DEF ReplayInv, HistoryInv, LogOK
  <2> QED BY <2>1, <2>2, <2>3 DEF After
<1> QED BY <1>1

\* A replay's own step leaves the store and the clock alone.
Still == UNCHANGED <<kind, now, log, stored, acked, deadline>>

LEMMA StillGrows ==
  ASSUME ReplayInv, Still
  PROVE  Grows /\ now' \in Int /\ Len(log') \in Int
<1>1. now \in Int /\ Len(log) \in Int
  BY DEF ReplayInv, HistoryInv, LogOK
<1> QED BY <1>1 DEF Still, Grows

\* A replay goes on to a status: refused only with a cursor that is not owed, done only
\* when nothing is.
LEMMA SkipStatus ==
  ASSUME ReplayInv, Still, NEW s \in Session, NEW status, SetStatus(s, status),
         status \in {"checked", "found", "refused", "done"},
         status = "refused" /\ now < deadline[s] => ~CursorOwed(s),
         status = "done" /\ now < deadline[s] => Owed(s) \subseteq Sent(s)
  PROVE  DueOK(s)' /\ SkipOK(s)'
<1>1. DOMAIN replay = Session /\ DOMAIN replay[s] = {"status", "cursor", "batch", "sent", "due"}
  BY DEF ReplayInv, Inv, ReplayOK
<1>2. /\ replay'[s].status = status /\ replay'[s].cursor = replay[s].cursor
      /\ replay'[s].due = replay[s].due /\ replay'[s].sent = replay[s].sent
  BY <1>1 DEF SetStatus
<1>3. /\ DueOK(s)' /\ Owed(s)' \subseteq Owed(s) /\ Sent(s)' = Sent(s)
      /\ CursorOwed(s)' => CursorOwed(s)
  BY <1>2, StillGrows, OwedBefore DEF Sent
<1>4. now' < deadline'[s] => now < deadline[s]
  BY DEF Still
<1> QED BY <1>2, <1>3, <1>4 DEF SkipOK, RefusedOK, SendingOK, DoneOK

\* The store reads what there is to send: all that is owed is in the batch.
LEMMA SkipRead ==
  ASSUME ReplayInv, Still, NEW s \in Session, ReadEvents(s)
  PROVE  DueOK(s)' /\ SkipOK(s)'
<1>1. DOMAIN replay = Session /\ DOMAIN replay[s] = {"status", "cursor", "batch", "sent", "due"}
  BY DEF ReplayInv, Inv, ReplayOK
<1>2. CASE SetStatus(s, "refused")
  <2>1. CASE kind # "postgres" /\ StreamIdFor(replay[s].cursor) = None
    <3>1. StreamIdFor(replay[s].cursor) # s
      BY <2>1, NoneIsNew
    <3> QED BY <1>2, <3>1, SkipRefused, SkipStatus
  <2>2. CASE ~(kind # "postgres" /\ StreamIdFor(replay[s].cursor) = None)
    <3>1. replay'[s].status = "sending"
      BY <1>1, <2>2 DEF ReadEvents
    <3>2. replay'[s].status = "refused"
      BY <1>1, <1>2 DEF SetStatus
    <3> QED BY <3>1, <3>2
  <2> QED BY <2>1, <2>2
<1>3. CASE ~SetStatus(s, "refused")
  <2> DEFINE batch == IF kind = "memory" THEN {} ELSE After(replay[s].cursor)
  <2>1. /\ replay[s].status \in {"checked", "found"}
        /\ replay' = [replay EXCEPT ![s].status = "sending", ![s].batch = batch]
    BY <1>3 DEF ReadEvents
  <2>2. kind # "memory" => batch = After(replay[s].cursor)
    OBVIOUS
  <2> HIDE DEF batch
  <2>3. /\ replay'[s].status = "sending" /\ replay'[s].cursor = replay[s].cursor
        /\ replay'[s].due = replay[s].due /\ replay'[s].sent = replay[s].sent
        /\ replay'[s].batch = batch
    BY <1>1, <2>1
  <2>4. /\ replay[s].sent = <<>> /\ replay[s].cursor \in DOMAIN log
        /\ log[replay[s].cursor].owner = s
    BY <2>1 DEF ReplayInv, Inv, ReplayOK
  <2>5. DueOK(s)' /\ Owed(s)' \subseteq Owed(s)
    BY <2>3, StillGrows, OwedBefore
  <2>6. Sent(s)' = {}
    BY <2>3, <2>4 DEF Sent
  <2>7. ASSUME now' < deadline'[s] PROVE SendingOK(s)'
    <3>1. Owed(s) \subseteq After(replay[s].cursor)
      BY <2>4, <2>7, OwedAfter DEF Still
    <3>2. kind # "memory" => \A id \in Owed(s)' : id \in replay'[s].batch
      BY <2>2, <2>3, <2>5, <3>1
    <3> QED BY <2>6, <3>2 DEF SendingOK, Still
  <2> QED BY <2>3, <2>5, <2>7 DEF SkipOK, RefusedOK, DoneOK
<1> QED BY <1>2, <1>3

\* What is owed and not sent is among what remains to be sent.
LEMMA OwedRemains ==
  ASSUME ReplayInv, NEW s \in Session, now < deadline[s], replay[s].status = "sending"
  PROVE  \A id \in Owed(s) : id \in Sent(s) \/ id \in Remaining(s)
<1>1. SendingOK(s) /\ replay[s].cursor \in DOMAIN log /\ log[replay[s].cursor].owner = s
  BY DEF ReplayInv, SkipOK, Inv, ReplayOK
<1>2. Owed(s) \subseteq After(replay[s].cursor)
  BY <1>1, OwedAfter
<1> QED BY <1>1, <1>2 DEF SendingOK, Sent, Remaining

\* An event goes out, the first of what remains.
LEMMA SkipSend ==
  ASSUME ReplayInv, Still, NEW s \in Session, SendNext(s)
  PROVE  DueOK(s)' /\ SkipOK(s)'
<1>1. DOMAIN replay = Session /\ DOMAIN replay[s] = {"status", "cursor", "batch", "sent", "due"}
  BY DEF ReplayInv, Inv, ReplayOK
<1>2. PICK id \in Remaining(s) :
        /\ \A other \in Remaining(s) : id <= other
        /\ replay' = [replay EXCEPT ![s].sent = Append(@, id)]
  BY DEF SendNext
<1>3. replay[s].status = "sending"
  BY DEF SendNext
<1>4. /\ replay'[s].status = "sending" /\ replay'[s].cursor = replay[s].cursor
      /\ replay'[s].due = replay[s].due /\ replay'[s].batch = replay[s].batch
      /\ replay'[s].sent = Append(replay[s].sent, id)
  BY <1>1, <1>2, <1>3
<1>5. DueOK(s)' /\ Owed(s)' \subseteq Owed(s)
  BY <1>4, StillGrows, OwedBefore
<1>6. Sent(s)' = Sent(s) \cup {id}
  <2>1. /\ DOMAIN replay'[s].sent = DOMAIN replay[s].sent \cup {Len(replay[s].sent) + 1}
        /\ replay'[s].sent[Len(replay[s].sent) + 1] = id
        /\ \A i \in DOMAIN replay[s].sent : replay'[s].sent[i] = replay[s].sent[i]
        /\ Len(replay[s].sent) + 1 \notin DOMAIN replay[s].sent
    <3>1. replay[s].sent \in Seq(DOMAIN log)
      BY <1>3 DEF ReplayInv, Inv, ReplayOK
    <3>2. id \in DOMAIN log
      BY <1>2, <1>3 DEF Remaining, After, Readable, ReplayInv, Inv, LogOK, ReplayOK
    <3> QED BY <1>4, <3>1, <3>2
  <2> QED BY <2>1 DEF Sent
<1>7. ASSUME now' < deadline'[s] PROVE SendingOK(s)'
  <2>1. now < deadline[s]
    BY <1>7 DEF Still
  <2>2. \A other \in Owed(s) : other \in Sent(s) \/ other \in Remaining(s)
    BY <1>3, <2>1, OwedRemains
  <2>3. SendingOK(s)
    BY <2>1 DEF ReplayInv, SkipOK
  <2>4. ASSUME NEW other \in Owed(s)', other \notin Sent(s)'
        PROVE  (kind' # "memory" => other \in replay'[s].batch) /\ \A x \in Sent(s)' : other > x
    <3>1. other \in Owed(s) /\ other \notin Sent(s) /\ other # id
      BY <1>5, <1>6, <2>4
    <3>2. (kind # "memory" => other \in replay[s].batch) /\ \A x \in Sent(s) : other > x
      BY <1>3, <2>3, <3>1 DEF SendingOK
    <3>3. other \in DOMAIN log /\ id \in DOMAIN log
      BY <1>2, <1>3, <3>1 DEF Owed, DueOK, Remaining, After, Readable, ReplayInv, HistoryInv,
                              Inv, LogOK, ReplayOK
    <3>4. other > id
      <4>1. other \in Int /\ id \in Int /\ id <= other
        BY <1>2, <2>2, <3>1, <3>3 DEF ReplayInv, HistoryInv, LogOK
      <4> QED BY <3>1, <4>1
    <3> QED BY <1>4, <1>6, <3>2, <3>4 DEF Still
  <2> QED BY <2>4 DEF SendingOK
<1> QED BY <1>4, <1>5, <1>7 DEF SkipOK, RefusedOK, DoneOK

\* A replay ends when nothing remains.
LEMMA SkipEnd ==
  ASSUME ReplayInv, Still, NEW s \in Session, EndReplay(s)
  PROVE  DueOK(s)' /\ SkipOK(s)'
<1>1. SetStatus(s, "done") /\ replay[s].status = "sending" /\ Remaining(s) = {}
  BY DEF EndReplay
<1>2. now < deadline[s] => Owed(s) \subseteq Sent(s)
  BY <1>1, OwedRemains
<1> QED BY <1>1, <1>2, SkipStatus

\* A client asks: what it is owed from now on are the events acknowledged so far.
LEMMA SkipAsk ==
  ASSUME ReplayInv, Still, NEW s \in Session, NEW cursor \in DOMAIN log \cup {None},
         AskReplay(s, cursor)
  PROVE  DueOK(s)' /\ SkipOK(s)'
<1> DEFINE due == IF cursor = None THEN {}
                  ELSE {id \in acked : log[id].owner = s /\ id >= cursor}
<1>1. DOMAIN replay = Session
  BY DEF ReplayInv, Inv
<1>2. /\ replay'[s].status = "asked" /\ replay'[s].cursor = cursor /\ replay'[s].due = due
  BY <1>1 DEF AskReplay, NoReplay
<1>3. DueOK(s)'
  BY <1>2 DEF DueOK, Still
<1>4. SkipOK(s)'
  BY <1>2 DEF SkipOK, RefusedOK, SendingOK, DoneOK
<1> QED BY <1>3, <1>4

---------------------------------------------------------------------------
(***************************************************************************)
(* The invariant.                                                          *)
(***************************************************************************)
\* A step of a session's replay, and no step of any other.
LEMMA SkipMoves ==
  ASSUME ReplayInv, NEW s \in Session,
         \/ ScopeCheck(s) \/ FindCursor(s) \/ ReadEvents(s) \/ SendNext(s) \/ EndReplay(s)
         \/ \E cursor \in DOMAIN log \cup {None} : AskReplay(s, cursor)
  PROVE  \A t \in Session : DueOK(t)' /\ SkipOK(t)'
<1>1. Still
  BY DEF ScopeCheck, FindCursor, ReadEvents, SendNext, EndReplay, AskReplay, Still, storeVars,
         sessionVars
<1>2. \A t \in Session \ {s} : replay'[t] = replay[t]
  BY DEF ScopeCheck, FindCursor, ReadEvents, SendNext, EndReplay, AskReplay, SetStatus,
         ReplayInv, Inv
<1>3. \A t \in Session \ {s} : DueOK(t)' /\ SkipOK(t)'
  BY <1>1, <1>2, StillGrows, SkipStays DEF Still
<1>4. CASE ScopeCheck(s)
  <2>1. CASE StreamIdFor(replay[s].cursor) = s
    <3>1. SetStatus(s, "checked")
      BY <1>4, <2>1 DEF ScopeCheck
    <3>2. DueOK(s)' /\ SkipOK(s)'
      BY <1>1, <3>1, SkipStatus
    <3> QED BY <1>3, <3>2
  <2>2. CASE StreamIdFor(replay[s].cursor) # s
    <3>1. SetStatus(s, "refused")
      BY <1>4, <2>2 DEF ScopeCheck
    <3>2. now < deadline[s] => ~CursorOwed(s)
      BY <2>2, SkipRefused
    <3>3. DueOK(s)' /\ SkipOK(s)'
      BY <1>1, <3>1, <3>2, SkipStatus
    <3> QED BY <1>3, <3>3
  <2> QED BY <2>1, <2>2
<1>5. CASE FindCursor(s)
  <2>1. CASE StreamIdFor(replay[s].cursor) # None
    <3>1. SetStatus(s, "found")
      BY <1>5, <2>1 DEF FindCursor
    <3>2. DueOK(s)' /\ SkipOK(s)'
      BY <1>1, <3>1, SkipStatus
    <3> QED BY <1>3, <3>2
  <2>2. CASE StreamIdFor(replay[s].cursor) = None
    <3>1. SetStatus(s, "refused")
      BY <1>5, <2>2 DEF FindCursor
    <3>2. StreamIdFor(replay[s].cursor) # s
      BY <2>2, NoneIsNew
    <3>3. now < deadline[s] => ~CursorOwed(s)
      BY <3>2, SkipRefused
    <3>4. DueOK(s)' /\ SkipOK(s)'
      BY <1>1, <3>1, <3>3, SkipStatus
    <3> QED BY <1>3, <3>4
  <2> QED BY <2>1, <2>2
<1>6. CASE ReadEvents(s)
  BY <1>1, <1>3, <1>6, SkipRead
<1>7. CASE SendNext(s)
  BY <1>1, <1>3, <1>7, SkipSend
<1>8. CASE EndReplay(s)
  BY <1>1, <1>3, <1>8, SkipEnd
<1>9. CASE \E cursor \in DOMAIN log \cup {None} : AskReplay(s, cursor)
  BY <1>1, <1>3, <1>9, SkipAsk
<1> QED BY <1>4, <1>5, <1>6, <1>7, <1>8, <1>9

\* The store, the clock or another session moves.
LEMMA SkipStep ==
  ASSUME ReplayInv, HistoryInv', [Next]_vars, NEW s \in Session
  PROVE  DueOK(s)' /\ SkipOK(s)'
<1> USE DEF storeVars, sessionVars
<1>1. /\ now \in Int /\ now' \in Int /\ Len(log) \in Nat /\ Len(log') \in Nat
      /\ log \in Seq(Event) /\ DOMAIN log = 1..Len(log)
      /\ DOMAIN replay = Session /\ SessionOK(s)
  <2>1. log \in Seq(Event) /\ now \in Int /\ DOMAIN replay = Session /\ SessionOK(s)
    BY DEF ReplayInv, HistoryInv, LogOK, Inv
  <2>2. log' \in Seq(Event) /\ now' \in Int
    BY DEF HistoryInv, LogOK
  <2> QED BY <2>1, <2>2
<1>2. ASSUME UNCHANGED <<kind, log, replay, deadline>>, now' >= now, acked \subseteq acked'
      PROVE  DueOK(s)' /\ SkipOK(s)'
  <2>1. Grows
    BY <1>1, <1>2 DEF Grows
  <2> QED BY <1>1, <1>2, <2>1, SkipStays
<1>3. ASSUME replay'[s] = NoReplay PROVE DueOK(s)' /\ SkipOK(s)'
  <2>1. replay'[s].status = "none" /\ replay'[s].due = {}
    BY <1>3 DEF NoReplay
  <2> QED BY <2>1 DEF DueOK, SkipOK, RefusedOK, SendingOK, DoneOK
<1>4. ASSUME UNCHANGED <<kind, now, log, acked>>, replay'[s] = replay[s],
             deadline'[s] = deadline[s]
      PROVE  DueOK(s)' /\ SkipOK(s)'
  <2>1. Grows
    BY <1>1, <1>4 DEF Grows
  <2> QED BY <1>1, <1>4, <2>1, SkipStays
<1>5. CASE Tick
  BY <1>1, <1>2, <1>5 DEF Tick
<1>6. ASSUME NEW t \in Session, StoreInMemory(t) \/ XAdd(t) \/ Insert(t)
      PROVE  DueOK(s)' /\ SkipOK(s)'
  <2>1. /\ log' = Append(log, [owner |-> t, at |-> now]) /\ acked \subseteq acked'
        /\ UNCHANGED <<kind, now, replay, deadline>>
    BY <1>6 DEF StoreInMemory, XAdd, Insert, Logged
  <2>2. [owner |-> t, at |-> now] \in Event
    BY <1>1 DEF Event
  <2>3. Len(log') >= Len(log) /\ \A id \in DOMAIN log : id \in DOMAIN log' /\ log'[id] = log[id]
    BY <1>1, <2>1, <2>2
  <2>4. Grows
    BY <1>1, <2>1, <2>3 DEF Grows
  <2> QED BY <1>1, <2>1, <2>4, SkipStays
<1>7. ASSUME NEW id \in writing, PExpire(id) \/ Commit(id) \/ StoreFails(id)
      PROVE  DueOK(s)' /\ SkipOK(s)'
  BY <1>1, <1>2, <1>7 DEF PExpire, Commit, StoreFails
<1>8. ASSUME PruneExpired \/ PruneRecords PROVE DueOK(s)' /\ SkipOK(s)'
  BY <1>1, <1>2, <1>8 DEF PruneExpired, PruneRecords
<1>9. ASSUME NEW t \in Session, CreateSession(t) \/ ResumeSession(t)
      PROVE  DueOK(s)' /\ SkipOK(s)'
  <2>1. UNCHANGED <<kind, now, log, acked, replay>> /\ session[t] # "live"
    BY <1>9 DEF CreateSession, ResumeSession
  <2>2. CASE s = t
    BY <1>1, <1>3, <2>1, <2>2 DEF SessionOK
  <2>3. CASE s # t
    <3>1. deadline'[s] = deadline[s]
      BY <1>9, <2>3 DEF CreateSession, ResumeSession, ReplayInv, Types
    <3> QED BY <1>4, <2>1, <3>1
  <2> QED BY <2>2, <2>3
<1>10. ASSUME NEW t \in Session, CloseSession(t) \/ Disconnect(t)
       PROVE  DueOK(s)' /\ SkipOK(s)'
  <2>1. UNCHANGED <<kind, now, log, acked>> /\ replay' = [replay EXCEPT ![t] = NoReplay]
    BY <1>10 DEF CloseSession, Disconnect
  <2>2. CASE s = t
    BY <1>1, <1>3, <2>1, <2>2
  <2>3. CASE s # t
    <3>1. deadline'[s] = deadline[s] /\ replay'[s] = replay[s]
      BY <1>1, <1>10, <2>1, <2>3 DEF CloseSession, Disconnect, ReplayInv, Types
    <3> QED BY <1>4, <2>1, <3>1
  <2> QED BY <2>2, <2>3
<1>11. CASE Restart
  BY <1>3, <1>11 DEF Restart
<1>12. ASSUME NEW t \in Session,
              \/ ScopeCheck(t) \/ FindCursor(t) \/ ReadEvents(t) \/ SendNext(t) \/ EndReplay(t)
              \/ \E cursor \in DOMAIN log \cup {None} : AskReplay(t, cursor)
       PROVE  DueOK(s)' /\ SkipOK(s)'
  BY <1>12, SkipMoves
<1>13. CASE UNCHANGED vars
  BY <1>1, <1>2, <1>13 DEF vars
<1> QED BY <1>5, <1>6, <1>7, <1>8, <1>9, <1>10, <1>11, <1>12, <1>13 DEF Next

\* The invariant of the stores and their replays, for any of the three stores, any TTLs
\* that are in step, any cap and any clock.
THEOREM ReplayInvHolds == Spec => []ReplayInv
<1>1. Init => ReplayInv
  <2> SUFFICES ASSUME Init PROVE ReplayInv
    OBVIOUS
  <2>1. Inv /\ HistoryInv /\ Types
    BY Inductive, HistoryInductive, TypesInit
  <2>2. Window
    BY DEF Init, Window
  <2>3. ASSUME NEW s \in Session PROVE SessionOK(s) /\ DueOK(s) /\ SkipOK(s)
    <3>1. replay[s] = NoReplay /\ deadline[s] = 0 /\ now = 0
      BY DEF Init
    <3> QED BY <3>1, SkipNone DEF SessionOK
  <2> QED BY <2>1, <2>2, <2>3 DEF ReplayInv
<1>2. ReplayInv /\ [Next]_vars => ReplayInv'
  <2> SUFFICES ASSUME ReplayInv, [Next]_vars PROVE ReplayInv'
    OBVIOUS
  <2>1. Inv /\ HistoryInv /\ Types /\ Window /\ \A s \in Session : SessionOK(s)
    BY DEF ReplayInv
  <2>2. Inv' /\ HistoryInv'
    BY <2>1, Inductive, HistoryInductive
  <2>3. Types' /\ Window'
    BY <2>1, TypesStep, WindowStep
  <2>4. ASSUME NEW s \in Session PROVE SessionOK(s)' /\ DueOK(s)' /\ SkipOK(s)'
    BY <2>1, <2>2, SessionStep, SkipStep
  <2> QED BY <2>2, <2>3, <2>4 DEF ReplayInv
<1> QED BY <1>1, <1>2, PTL DEF Spec

\* The stores' state has its type: only ids that were handed out are in it, and the
\* in-memory map never holds more than maxEvents (createInMemoryEventStore).
THEOREM TypeCorrect == Spec => []TypeOK
<1>1. ASSUME ReplayInv PROVE TypeOK
  <2>1. Types /\ LogOK /\ acked \subseteq DOMAIN log
    BY <1>1 DEF ReplayInv, HistoryInv
  <2>2. kind = "memory" => Cardinality(stored) <= MaxEvents
    BY <1>1, WindowBound DEF ReplayInv
  <2> QED BY <2>1, <2>2 DEF TypeOK, Types, LogOK
<1> QED BY <1>1, ReplayInvHolds, PTL

\* A replay that ends has sent every event that was acknowledged to its session before it
\* started and is still retained, and no cursor of that kind is refused, however stores,
\* evictions, prunes, expiries and restarts fall between its steps (replayEventsAfter of
\* the three stores, scopeEventStore).
THEOREM NoneSkippedHolds == Spec => []NoneSkipped
<1>1. ASSUME ReplayInv PROVE NoneSkipped
  <2>1. ASSUME NEW s \in Session, now < deadline[s]
        PROVE  /\ replay[s].status = "refused" =>
                    ~(replay[s].cursor \in replay[s].due /\ Retained(replay[s].cursor))
               /\ replay[s].status = "done" =>
                    \A id \in replay[s].due \ {replay[s].cursor} :
                      Retained(id) =>
                        \E i \in DOMAIN replay[s].sent : replay[s].sent[i] = id
    <3>1. RefusedOK(s) /\ DoneOK(s)
      BY <1>1, <2>1 DEF ReplayInv, SkipOK
    <3> QED BY <3>1 DEF RefusedOK, CursorOwed, DoneOK, Owed, Sent
  <2> QED BY <2>1 DEF NoneSkipped
<1> QED BY <1>1, ReplayInvHolds, PTL

=============================================================================
