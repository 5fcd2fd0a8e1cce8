---------------------------- MODULE EventStores ----------------------------
(***************************************************************************)
(* The event stores behind SSE replay and the session registries beside    *)
(* them: the in-memory store (packages/core/src/eventStore.ts), Redis      *)
(* (packages/store-redis/src/index.ts) and Postgres                        *)
(* (packages/store-postgres/src/index.ts), each behind scopeEventStore.    *)
(* One of them is in use; the actions of all three share one state.        *)
(*                                                                         *)
(* Every operation of a client library or a database is a step of its own: *)
(* others run between two of them, a process may restart, time may pass.   *)
(* An event's id stands for its place in the store's order; what the ids   *)
(* look like matters only in that a malformed cursor is refused.           *)
(***************************************************************************)
EXTENDS Integers, Sequences, FiniteSets

CONSTANTS
  Session,
  Kind,            \* the stores to look at: "memory", "redis", "postgres"
  MaxEvents,       \* createInMemoryEventStore's cap
  TTL,             \* ttlMs, how long an event stays replayable
  SessionTTL,      \* sessionTtlMs
  None,            \* `undefined`
  MaxNow, MaxId,   \* bounds, per store: the clock, the events stored
  MaxReplays       \* bound: the replays at a time; a replay only reads

\* "Keep the two in step": both default to 30 minutes.
ASSUME InStep == TTL \in Nat /\ SessionTTL \in Nat /\ TTL >= SessionTTL
ASSUME SomeEvents == MaxEvents \in Nat \ {0}
ASSUME NoneIsNew == None \notin Session \cup Nat
ASSUME BoundsAreNumbers == \A k \in Kind : MaxNow[k] \in Nat /\ MaxId[k] \in Nat

VARIABLES
  kind,
  now,
  \* the store
  log,             \* every event handed to the store: log[id] = [owner, at]
  stored,          \* the ids of the events in the store
  writing,         \* those of the storeEvent calls that await Redis or Postgres
  expiry,          \* redis: when the key of a session's stream expires; None: never
  \* sessions
  session,         \* "new", "live", "parked" (its process is gone), "closed"
  deadline,        \* while it is live: when it ends, fixed when it was created
  record,          \* the registry's record of it, its expiresAt; None: no record
  \* replay
  replay,          \* per session: the replay its client asked for
  acked            \* the ids storeEvent returned

storeVars == <<log, stored, writing, expiry, acked>>
sessionVars == <<session, deadline, record>>
vars == <<kind, now, storeVars, sessionVars, replay>>

NoReplay == [status |-> "none", cursor |-> None, batch |-> {}, sent |-> <<>>, due |-> {}]

Init ==
  /\ kind \in Kind
  /\ now = 0
  /\ log = <<>>
  /\ stored = {} /\ writing = {}
  /\ expiry = [s \in Session |-> None]
  /\ session = [s \in Session |-> "new"]
  /\ deadline = [s \in Session |-> 0]
  /\ record = [s \in Session |-> None]
  /\ replay = [s \in Session |-> NoReplay]
  /\ acked = {}

\* The record past its deadline is dropped: by Redis when the time comes, from Postgres
\* when it is pruned.
UnexpiredRecords(time) ==
  [s \in Session |-> IF record[s] # None /\ record[s] <= time THEN None ELSE record[s]]

\* Redis drops a key when its time comes.
Tick ==
  /\ now < MaxNow[kind]
  /\ \A s \in Session : session[s] = "live" => now < deadline[s]
  /\ now' = now + 1
  /\ LET expired == {s \in Session : expiry[s] = now + 1} IN
     /\ stored' = {id \in stored : log[id].owner \notin expired}
     /\ expiry' = [s \in Session |-> IF s \in expired THEN None ELSE expiry[s]]
  /\ record' = IF kind = "redis" THEN UnexpiredRecords(now + 1) ELSE record
  /\ UNCHANGED <<kind, log, writing, acked, session, deadline, replay>>

---------------------------------------------------------------------------
(***************************************************************************)
(* storeEvent.                                                             *)
(***************************************************************************)
NewId == Len(log) + 1
Logged(s) == log' = Append(log, [owner |-> s, at |-> now])

MayStore(s) == session[s] = "live" /\ NewId <= MaxId[kind]

\* Defect: one event too many is kept.
Capped_OffByOne(events) ==
  IF Cardinality(events) > MaxEvents + 1
  THEN {id \in events : \E older \in events : older < id} ELSE events

\* FIFO: the first key of the map goes once there are more than maxEvents.
Capped(events) ==
  IF Cardinality(events) > MaxEvents
  THEN {id \in events : \E older \in events : older < id} ELSE events

StoreInMemory(s) ==
  /\ kind = "memory" /\ MayStore(s)
  /\ Logged(s)
  /\ stored' = Capped(stored \cup {NewId})
  /\ acked' = acked \cup {NewId}
  /\ UNCHANGED <<kind, now, writing, expiry, sessionVars, replay>>

\* xAdd, which also creates a key that has gone.
XAdd(s) ==
  /\ kind = "redis" /\ MayStore(s)
  /\ Logged(s)
  /\ stored' = stored \cup {NewId}
  /\ writing' = writing \cup {NewId}
  /\ UNCHANGED <<kind, now, expiry, acked, sessionVars, replay>>

\* pExpire, for the whole stream; without effect on a key that has gone.
PExpire(id) ==
  /\ kind = "redis" /\ id \in writing
  /\ expiry' = IF \E other \in stored : log[other].owner = log[id].owner
               THEN [expiry EXCEPT ![log[id].owner] = now + TTL] ELSE expiry
  /\ writing' = writing \ {id}
  /\ acked' = acked \cup {id}
  /\ UNCHANGED <<kind, now, log, stored, sessionVars, replay>>

\* INSERT: the sequence hands out the id, created_at is when it begins.
Insert(s) ==
  /\ kind = "postgres" /\ MayStore(s)
  /\ Logged(s)
  /\ writing' = writing \cup {NewId}
  /\ UNCHANGED <<kind, now, stored, expiry, acked, sessionVars, replay>>

\* The row can be read, and storeEvent returns.
Commit(id) ==
  /\ kind = "postgres" /\ id \in writing
  /\ stored' = stored \cup {id}
  /\ writing' = writing \ {id}
  /\ acked' = acked \cup {id}
  /\ UNCHANGED <<kind, now, log, expiry, sessionVars, replay>>

\* pExpire or INSERT fails and storeEvent rejects.  What xAdd stored stays.
StoreFails(id) ==
  /\ id \in writing
  /\ writing' = writing \ {id}
  /\ UNCHANGED <<kind, now, log, stored, expiry, acked, sessionVars, replay>>

\* created_at > cutoff.
Fresh(id) == now < log[id].at + TTL

\* On the host's schedule or every pruneEveryWrites writes: at any time.
PruneExpired ==
  /\ kind = "postgres" /\ \E id \in stored : ~Fresh(id)
  /\ stored' = {id \in stored : Fresh(id)}
  /\ UNCHANGED <<kind, now, log, writing, expiry, acked, sessionVars, replay>>

(***************************************************************************)
(* The session registry.                                                   *)
(***************************************************************************)
\* A session comes up once set has stored its record, PXAT or expires_at its deadline.
CreateSession(s) ==
  /\ session[s] = "new"
  /\ session' = [session EXCEPT ![s] = "live"]
  /\ deadline' = [deadline EXCEPT ![s] = now + SessionTTL]
  /\ record' = [record EXCEPT ![s] = IF kind = "memory" THEN None ELSE now + SessionTTL]
  /\ UNCHANGED <<kind, now, storeVars, replay>>

\* Defect: a record is returned until it is pruned.
GetRecord_NoDeadline(s) == record[s]

\* get: a record past its deadline is none.
GetRecord(s) == IF record[s] # None /\ record[s] > now THEN record[s] ELSE None

PruneRecords ==
  /\ kind = "postgres" /\ record # UnexpiredRecords(now)
  /\ record' = UnexpiredRecords(now)
  /\ UNCHANGED <<kind, now, storeVars, session, deadline, replay>>

\* By DELETE or because its time is up: the record goes, unless delete fails, and the
\* streams end.
CloseSession(s) ==
  /\ session[s] = "live"
  /\ session' = [session EXCEPT ![s] = "closed"]
  /\ deadline' = [deadline EXCEPT ![s] = 0]
  /\ record' \in {record, [record EXCEPT ![s] = None]}
  /\ replay' = [replay EXCEPT ![s] = NoReplay]
  /\ UNCHANGED <<kind, now, storeVars>>

\* The process restarts.  In memory nothing is left, and its sessions are unknown.
Restart ==
  /\ writing' = {}
  /\ replay' = [s \in Session |-> NoReplay]
  /\ deadline' = [s \in Session |-> 0]
  /\ IF kind = "memory"
     THEN /\ log' = <<>> /\ stored' = {} /\ acked' = {}
          /\ session' = [s \in Session |-> IF session[s] = "live" THEN "closed" ELSE session[s]]
     ELSE /\ UNCHANGED <<log, stored, acked>>
          /\ session' = [s \in Session |-> IF session[s] = "live" THEN "parked" ELSE session[s]]
  /\ UNCHANGED <<kind, now, expiry, record>>

\* The client comes back to another process, which knows the session by its record.
ResumeSession(s) ==
  /\ session[s] = "parked" /\ GetRecord(s) # None
  /\ session' = [session EXCEPT ![s] = "live"]
  /\ deadline' = [deadline EXCEPT ![s] = GetRecord(s)]
  /\ UNCHANGED <<kind, now, storeVars, record, replay>>

---------------------------------------------------------------------------
(***************************************************************************)
(* replayEventsAfter.                                                      *)
(***************************************************************************)
Readable == {id \in stored : kind = "postgres" => Fresh(id)}

\* getStreamIdForEventId: the session whose stream an event is of, None for an unknown,
\* evicted, expired or malformed id.
StreamIdFor(id) == IF id \in Readable THEN log[id].owner ELSE None

\* The events of a cursor's stream that come after it.
After(cursor) ==
  {id \in Readable : log[id].owner = log[cursor].owner /\ id > cursor}

SetStatus(s, status) == replay' = [replay EXCEPT ![s].status = status]

\* A client asks with whatever it holds for an event id, None one that never was.
AskReplay(s, cursor) ==
  /\ session[s] = "live" /\ replay[s].status = "none"
  /\ Cardinality({t \in Session : replay[t].status # "none"}) < MaxReplays
  /\ replay' = [replay EXCEPT ![s] =
       [NoReplay EXCEPT !.status = "asked", !.cursor = cursor,
                        !.due = IF cursor = None THEN {}
                                ELSE {id \in acked : log[id].owner = s /\ id >= cursor}]]
  /\ UNCHANGED <<kind, now, storeVars, sessionVars>>

\* Defect: the cursor is not checked against the session.
ScopeCheck_AnyOwner(s) ==
  /\ replay[s].status = "asked"
  /\ SetStatus(s, IF StreamIdFor(replay[s].cursor) # None THEN "checked" ELSE "refused")
  /\ UNCHANGED <<kind, now, storeVars, sessionVars>>

\* scopeEventStore: the cursor must be of this session.
ScopeCheck(s) ==
  /\ replay[s].status = "asked"
  /\ SetStatus(s, IF StreamIdFor(replay[s].cursor) = s THEN "checked" ELSE "refused")
  /\ UNCHANGED <<kind, now, storeVars, sessionVars>>

\* Postgres looks the cursor up once more before it selects.
FindCursor(s) ==
  /\ kind = "postgres" /\ replay[s].status = "checked"
  /\ SetStatus(s, IF StreamIdFor(replay[s].cursor) # None THEN "found" ELSE "refused")
  /\ UNCHANGED <<kind, now, storeVars, sessionVars>>

\* The store's own replay begins: Redis and Postgres read all there is to send, of the
\* stream the cursor names; the in-memory store goes through the map as it is.
ReadEvents(s) ==
  LET id == replay[s].cursor
      found == StreamIdFor(id)
  IN /\ replay[s].status = (IF kind = "postgres" THEN "found" ELSE "checked")
     /\ IF kind # "postgres" /\ found = None
        THEN SetStatus(s, "refused")
        ELSE replay' = [replay EXCEPT ![s].status = "sending",
                                      ![s].batch = IF kind = "memory" THEN {}
                                                   ELSE After(id)]
     /\ UNCHANGED <<kind, now, storeVars, sessionVars>>

\* Defect: the map is iterated by position, which an eviction shifts.
Remaining_ByPosition(s) ==
  LET r == replay[s] IN
  IF kind = "memory"
  THEN {id \in After(r.cursor) :
          Cardinality({other \in After(r.cursor) : other < id}) >= Len(r.sent)}
  ELSE {id \in r.batch : \A i \in DOMAIN r.sent : id > r.sent[i]}

\* What is still to be sent.  A Map's iterator goes on to entries added meanwhile and
\* leaves out those deleted.
Remaining(s) ==
  LET r == replay[s] IN
  {id \in IF kind = "memory" THEN After(r.cursor) ELSE r.batch :
     \A i \in DOMAIN r.sent : id > r.sent[i]}

SendNext(s) ==
  /\ replay[s].status = "sending"
  /\ \E id \in Remaining(s) :
       /\ \A other \in Remaining(s) : id <= other
       /\ replay' = [replay EXCEPT ![s].sent = Append(@, id)]
  /\ UNCHANGED <<kind, now, storeVars, sessionVars>>

EndReplay(s) ==
  /\ replay[s].status = "sending" /\ Remaining(s) = {}
  /\ SetStatus(s, "done")
  /\ UNCHANGED <<kind, now, storeVars, sessionVars>>

\* The connection ends, before or after the replay did; the client may ask again.
Disconnect(s) ==
  /\ replay[s].status # "none"
  /\ replay' = [replay EXCEPT ![s] = NoReplay]
  /\ UNCHANGED <<kind, now, storeVars, sessionVars>>

Next ==
  \/ Tick
  \/ \E s \in Session : StoreInMemory(s) \/ XAdd(s) \/ Insert(s)
  \/ \E id \in writing : PExpire(id) \/ Commit(id) \/ StoreFails(id)
  \/ PruneExpired
  \/ \E s \in Session : CreateSession(s) \/ CloseSession(s) \/ ResumeSession(s)
  \/ PruneRecords
  \/ Restart
  \/ \E s \in Session :
       \/ \E cursor \in DOMAIN log \cup {None} : AskReplay(s, cursor)
       \/ ScopeCheck(s) \/ FindCursor(s) \/ ReadEvents(s)
       \/ SendNext(s) \/ EndReplay(s) \/ Disconnect(s)

Spec == Init /\ [][Next]_vars

---------------------------------------------------------------------------
(***************************************************************************)
(* Properties.                                                             *)
(***************************************************************************)
TypeOK ==
  /\ kind \in Kind /\ now \in 0..MaxNow[kind]
  /\ log \in Seq([owner : Session, at : 0..MaxNow[kind]]) /\ Len(log) <= MaxId[kind]
  /\ stored \subseteq DOMAIN log /\ writing \subseteq DOMAIN log
  /\ kind = "memory" => Cardinality(stored) <= MaxEvents
  /\ expiry \in [Session -> Nat \cup {None}]
  /\ session \in [Session -> {"new", "live", "parked", "closed"}]
  /\ deadline \in [Session -> Nat]
  /\ record \in [Session -> Nat \cup {None}]
  /\ \A s \in Session :
       replay[s].status \in {"none", "asked", "checked", "found", "sending", "done", "refused"}
  /\ acked \subseteq DOMAIN log

\* A replay sends the session's own events, in order, each once, after the cursor: every
\* store behind scopeEventStore is a ReplayLog.
Log == INSTANCE ReplayLog WITH
  owners <- [id \in DOMAIN log |-> log[id].owner],
  replay <- [s \in Session |->
               IF replay[s].status = "sending"
               THEN [after |-> replay[s].cursor, sent |-> replay[s].sent]
               ELSE [after |-> 0, sent |-> <<>>]]

ImplementsLog == Log!Spec

\* What each store says it keeps: the last maxEvents of all, or what is younger than the
\* TTL.
Retained(id) == IF kind = "memory" THEN id > Len(log) - MaxEvents ELSE Fresh(id)

\* However stores, evictions, prunes and expiries fall between its steps, a replay of a
\* session whose time is not up has sent every event that was acknowledged before it
\* started and is still retained when it ends; and no cursor of that kind is refused.
NoneSkipped ==
  \A s \in Session :
    LET r == replay[s] IN
    now < deadline[s] =>
      /\ r.status = "refused" => ~(r.cursor \in r.due /\ Retained(r.cursor))
      /\ r.status = "done" =>
           \A id \in r.due \ {r.cursor} :
             Retained(id) => \E i \in DOMAIN r.sent : r.sent[i] = id

\* While the registry knows a session, every event acknowledged to it can be replayed:
\* "history therefore outlives the session it belongs to" (store-redis, store-postgres,
\* ttlMs).
HistoryOutlivesSession ==
  \A s \in Session :
    GetRecord(s) # None => \A id \in acked : log[id].owner = s => id \in Readable

=============================================================================
