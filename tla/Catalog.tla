------------------------------ MODULE Catalog ------------------------------
(***************************************************************************)
(* The catalog a proxy shows and how it stays current (packages/core:      *)
(* core.ts, mesh.ts).  Proxy servers that share backends join the          *)
(* list-changed bus of each backend and leave it when they close; a list   *)
(* request drains every backend page by page, isolates those that fail,    *)
(* lays the local tools over the result and filters what is hidden.        *)
(*                                                                         *)
(* One surface (tools, prompts or resources) is looked at; the servers     *)
(* are created with the same options.  A page has one entry, an entry is   *)
(* its name or URI.                                                        *)
(***************************************************************************)
EXTENDS Integers, Sequences, FiniteSets, SequencesExt, MeshNames

CONSTANTS
  Server,
  Hooked,          \* those on which a consumer sets onclose after their creation
  Lister,          \* those whose clients list; the others only hold a subscription
  Backend,
  Configuration,   \* the options, and what the backends are like; its maxChanges is a
                   \* bound, how often their catalogs change
  MaxPages,        \* MAX_PAGES_PER_BACKEND
  Character        \* those of keys and names

ASSUME SomeServers == Hooked \subseteq Server /\ Lister \subseteq Server
ASSUME SomePages == MaxPages \in Nat \ {0}
ASSUME KnownBackends ==
  \A c \in Configuration : c.entries \in Seq(Backend) /\ c.maxChanges \in Nat
ASSUME NoneIsNew == None \notin [bus : Nat, active : BOOLEAN]

\* What reads the backends has them under different keys: they are those of a record, or
\* there is one.
ASSUME KnownNames ==
  /\ {"_", "/", Scheme} \subseteq Character
  /\ \A c \in Configuration :
       /\ c.keys \in [Backend -> Seq(Character)]
       /\ \A i, j \in DOMAIN c.entries : i # j =>
            c.entries[i] # c.entries[j] /\ c.keys[c.entries[i]] # c.keys[c.entries[j]]
       /\ ~c.mesh => Len(c.entries) = 1
       /\ c.local \in Seq(Seq(Character))
       /\ \A served \in c.catalogs : served.pages \in Seq(Seq(Character))
  /\ None \notin [key : Seq(Character), name : Seq(Character)]
  /\ \A S \in SUBSET Backend :
       None \notin [S -> [status : {"reading", "done", "failed"}, page : Nat,
                           items : Seq(Seq(Character))]]

VARIABLES
  config,
  \* upstream
  catalog,         \* backend -> what it serves: [pages, endless]
  notice,          \* backend -> a list-changed notification is on its way
  changes,
  \* the buses
  bus,             \* listChangedBuses: backend -> the number of its bus, or 0
  servers,         \* backend -> the servers of each bus it has had
  member,          \* server -> backend -> the bus it joined and whether it may leave
  status,          \* "new", "open", "closed"
  closings,        \* how often onclose was called
  \* the clients
  stale,           \* it is to list, for the first time or since a notification
  progress,        \* the listing under way: backend -> [status, page, items]
  shown,           \* the last listing: [entries, degraded]
  moved            \* for the properties: backends that changed since it began

upstreamVars == <<catalog, notice, changes>>
busVars == <<bus, servers, member, status, closings>>
listVars == <<stale, progress, shown, moved>>
vars == <<config, upstreamVars, busVars, listVars>>

---------------------------------------------------------------------------
(***************************************************************************)
(* Construction.                                                           *)
(***************************************************************************)
\* Defect: every key is accepted.
AcceptedOptions_AnyKey(c) ==
  \A i, j \in DOMAIN c.local : i # j => c.local[i] # c.local[j]

\* normalizeBackends, buildLocalToolMap: createProxyServer throws for other options.
AcceptedOptions(c) ==
  /\ c.mesh => /\ c.entries # <<>>
               /\ \A i \in DOMAIN c.entries : AcceptedKey(c.keys[c.entries[i]])
  /\ \A i, j \in DOMAIN c.local : i # j => c.local[i] # c.local[j]

Entries == ToSet(config.entries)

\* surfaceBackends: those that advertise the surface.
ServingSet == {b \in Entries : config.surface \in config.serves[b]}
Keys == {config.keys[b] : b \in ServingSet}
Locals == ToSet(config.local)

Expose(b, name) ==
  IF ~config.mesh THEN name
  ELSE IF config.surface = "resources" THEN NamespaceUri(config.keys[b], name)
  ELSE NamespaceName(config.keys[b], name)

\* A server subscribes to the backends that notify of anything: it advertises the union
\* of what they do (createProxyCapabilities), so none is left out.
Subscribes(b) == config.notifies[b] # {}

Init ==
  /\ config \in {c \in Configuration : AcceptedOptions(c)}
  /\ catalog \in [Backend -> config.catalogs]
  /\ notice = [b \in Backend |-> FALSE]
  /\ changes = 0
  /\ bus = [b \in Backend |-> 0]
  /\ servers = [b \in Backend |-> <<>>]
  /\ member = [s \in Server |-> [b \in Backend |-> None]]
  /\ status = [s \in Server |-> "new"]
  /\ closings = [s \in Server |-> 0]
  /\ stale = [s \in Server |-> s \in Lister]
  /\ progress = [s \in Server |-> None]
  /\ shown = [s \in Server |-> None]
  /\ moved = [s \in Server |-> {}]

(***************************************************************************)
(* registerListChangedForwarders.                                          *)
(***************************************************************************)
\* The bus whose servers the backend's notification handler knows: a new bus sets the
\* handler, which replaces that of the bus before.
Handler(b) == Len(servers[b])
Listening(b) == IF Handler(b) = 0 THEN {} ELSE servers[b][Handler(b)]

\* createProxyServer: join the bus of every backend, creating the missing ones.
CreateServer(s) ==
  LET joining == {b \in Entries : Subscribes(b)}
      number(b) == IF bus[b] = 0 THEN Len(servers[b]) + 1 ELSE bus[b]
  IN /\ status[s] = "new"
     /\ status' = [status EXCEPT ![s] = "open"]
     /\ bus' = [b \in Backend |-> IF b \in joining THEN number(b) ELSE bus[b]]
     /\ servers' = [b \in Backend |->
          IF b \notin joining THEN servers[b]
          ELSE IF bus[b] = 0 THEN Append(servers[b], {s})
          ELSE [servers[b] EXCEPT ![bus[b]] = @ \cup {s}]]
     /\ member' = [member EXCEPT ![s] = [b \in Backend |->
          IF b \in joining THEN [bus |-> number(b), active |-> TRUE] ELSE None]]
     /\ UNCHANGED <<config, upstreamVars, closings, listVars>>

\* Server s leaves the buses of `leaving`; a bus it leaves empty is forgotten.
Leave(s, leaving) ==
  LET left(b) == [servers[b] EXCEPT ![member[s][b].bus] = @ \ {s}] IN
  /\ servers' = [b \in Backend |-> IF b \in leaving THEN left(b) ELSE servers[b]]
  /\ bus' = [b \in Backend |->
               IF b \in leaving /\ left(b)[member[s][b].bus] = {} THEN 0 ELSE bus[b]]
  /\ member' = [member EXCEPT ![s] = [b \in Backend |->
       IF b \in leaving THEN [member[s][b] EXCEPT !.active = FALSE] ELSE member[s][b]]]

\* Defect: a leave function may run twice.
LeaveBuses_Twice(s) == Leave(s, {b \in Backend : member[s][b] # None})

\* Defect: the consumer's onclose takes the place of the accessor's.
LeaveBuses_Clobbered(s) ==
  Leave(s, {b \in Backend : member[s][b] # None /\ member[s][b].active /\ s \notin Hooked})

LeaveBuses(s) == Leave(s, {b \in Backend : member[s][b] # None /\ member[s][b].active})

\* onclose, which the transport and close() may both call.
CloseServer(s) ==
  /\ status[s] # "new" /\ closings[s] < 2
  /\ status' = [status EXCEPT ![s] = "closed"]
  /\ closings' = [closings EXCEPT ![s] = @ + 1]
  /\ LeaveBuses(s)
  /\ stale' = [stale EXCEPT ![s] = FALSE]
  /\ progress' = [progress EXCEPT ![s] = None]
  /\ shown' = [shown EXCEPT ![s] = None]
  /\ moved' = [moved EXCEPT ![s] = {}]
  /\ UNCHANGED <<config, upstreamVars>>

(***************************************************************************)
(* Upstream.                                                               *)
(***************************************************************************)
UpstreamChanges(b) ==
  /\ b \in Entries /\ changes < config.maxChanges
  /\ changes' = changes + 1
  /\ \E c \in config.catalogs \ {catalog[b]} : catalog' = [catalog EXCEPT ![b] = c]
  /\ notice' = [notice EXCEPT ![b] = config.surface \in config.notifies[b]]
  /\ moved' = [s \in Server |-> IF progress[s] # None \/ shown[s] # None
                                THEN moved[s] \cup {b} ELSE moved[s]]
  /\ UNCHANGED <<config, busVars, stale, progress, shown>>

\* Defect: one server is told after the other, and the first that fails ends it.
FanOut_FirstFails(b) == {s \in Listening(b) : Listening(b) = {s}}

FanOut(b) == Listening(b)

\* The notification arrives; the fan-out tells every server on the bus.
Notify(b) ==
  /\ notice[b]
  /\ notice' = [notice EXCEPT ![b] = FALSE]
  /\ stale' = [s \in Server |-> \/ stale[s]
                                \/ s \in FanOut(b) \cap Lister /\ status[s] = "open"]
  /\ UNCHANGED <<config, catalog, changes, busVars, progress, shown, moved>>

(***************************************************************************)
(* A list request: listAcrossMesh, or a client that follows the cursors of *)
(* the one backend.                                                        *)
(***************************************************************************)
StartList(s) ==
  /\ status[s] = "open" /\ stale[s] /\ progress[s] = None
  /\ stale' = [stale EXCEPT ![s] = FALSE]
  /\ progress' = [progress EXCEPT ![s] =
       [b \in ServingSet |-> [status |-> "reading", page |-> 0, items |-> <<>>]]]
  /\ moved' = [moved EXCEPT ![s] = {}]
  /\ UNCHANGED <<config, upstreamVars, busVars, shown>>

\* Defect: one page too many is drained.
GivesUpAfter_OffByOne(page) == config.mesh /\ page > MaxPages

GivesUpAfter(page) == config.mesh /\ page = MaxPages

\* A page with the entry at the cursor, none when the catalog has become shorter.
FetchPage(s, b) ==
  /\ progress[s] # None /\ progress[s][b].status = "reading"
  /\ LET p == progress[s][b]
         page == p.page + 1
         more == catalog[b].endless \/ page < Len(catalog[b].pages)
     IN progress' = [progress EXCEPT ![s][b] =
          [status |-> IF ~more THEN "done"
                      ELSE IF GivesUpAfter(page) THEN "failed" ELSE "reading",
           page |-> page,
           items |-> p.items \o IF page \in DOMAIN catalog[b].pages
                               THEN <<catalog[b].pages[page]>> ELSE <<>>]]
  /\ UNCHANGED <<config, upstreamVars, busVars, stale, shown, moved>>

BackendFails(s, b) ==
  /\ progress[s] # None /\ progress[s][b].status = "reading"
  /\ progress' = [progress EXCEPT ![s][b].status = "failed"]
  /\ UNCHANGED <<config, upstreamVars, busVars, stale, shown, moved>>

\* Defect: a backend that failed part-way contributes what was collected.
Contributes_Partly(p) == p.items

\* A backend that failed contributes nothing.
Contributes(p) == IF p.status = "done" THEN p.items ELSE <<>>

Exposed(b, items) == [i \in DOMAIN items |-> Expose(b, items[i])]

\* Backend after backend, in the order of the options.
Upstream(s) ==
  FlattenSeq([i \in DOMAIN config.entries |->
    LET b == config.entries[i]
    IN IF b \in ServingSet THEN Exposed(b, Contributes(progress[s][b])) ELSE <<>>])

\* Those that are not in S, in order.
Without(s, S) == FlattenSeq([i \in DOMAIN s |-> IF s[i] \in S THEN <<>> ELSE <<s[i]>>])

\* The tools/list handler's overlay; the other surfaces have no local entries.
Overlaid(upstream) == Without(Without(upstream, Locals) \o config.local, config.hidden)

\* All have settled.  The 1:1 proxy's one backend fails the request instead.
FinishList(s) ==
  /\ progress[s] # None
  /\ \A b \in ServingSet : progress[s][b].status # "reading"
  /\ \E upstream \in {Upstream(s)} :
       shown' = [shown EXCEPT ![s] =
         [entries |-> Overlaid(upstream),
          degraded |-> {b \in ServingSet : progress[s][b].status = "failed"}]]
  /\ progress' = [progress EXCEPT ![s] = None]
  /\ UNCHANGED <<config, upstreamVars, busVars, stale, moved>>

Listing(s) ==
  \/ StartList(s)
  \/ \E b \in ServingSet : FetchPage(s, b) \/ BackendFails(s, b)
  \/ FinishList(s)

Next ==
  \/ \E s \in Server : CreateServer(s) \/ CloseServer(s)
  \/ \E b \in Backend : UpstreamChanges(b) \/ Notify(b)
  \/ \E s \in Lister : Listing(s)

\* The connection to a backend delivers, a backend answers or fails, and a client that is
\* told to list does.
Fairness ==
  /\ \A b \in Backend : WF_vars(Notify(b))
  /\ \A s \in Lister : WF_vars(Listing(s))

Spec == Init /\ [][Next]_vars /\ Fairness

---------------------------------------------------------------------------
(***************************************************************************)
(* Properties.                                                             *)
(***************************************************************************)
TypeOK ==
  /\ config \in Configuration
  /\ catalog \in [Backend -> config.catalogs]
  /\ notice \in [Backend -> BOOLEAN] /\ changes \in 0..config.maxChanges
  /\ \A b \in Backend : /\ bus[b] \in 0..Len(servers[b])
                        /\ \A i \in DOMAIN servers[b] : servers[b][i] \subseteq Server
  /\ status \in [Server -> {"new", "open", "closed"}]
  /\ closings \in [Server -> 0..2]
  /\ stale \in [Server -> BOOLEAN]
  /\ \A s \in Server :
       /\ moved[s] \subseteq Backend
       /\ progress[s] # None =>
            \A b \in ServingSet :
              /\ progress[s][b].status \in {"reading", "done", "failed"}
              /\ config.mesh => progress[s][b].page \in 0..MaxPages

\* Whoever comes and goes, and however often onclose is called, a backend's notification
\* reaches exactly the open servers: none is cut off from its fan-out, no closed one is
\* kept in it (registerListChangedForwarders).
FanOutExact ==
  \A b \in Entries :
    Subscribes(b) => Listening(b) = {s \in Server : status[s] = "open"}

\* Where a listed name leads when it is called.
LeadsTo(name) ==
  IF ~config.mesh THEN [key |-> config.keys[config.entries[1]], name |-> name]
  ELSE IF config.surface = "resources" THEN RouteResourceUri(name, Keys)
  ELSE RouteNamespaced(name, Keys)

\* It leads to backend b and is no local tool's.
IsOf(b, name) ==
  /\ name \notin Locals
  /\ LeadsTo(name) # None /\ LeadsTo(name).key = config.keys[b]

\* The upstream names that entries lead to, those of backend b, in their order.
NamesOf(b, entries) ==
  FlattenSeq([i \in DOMAIN entries |->
    IF IsOf(b, entries[i]) THEN <<LeadsTo(entries[i]).name>> ELSE <<>>])

ShownOf(listing, b) == NamesOf(b, listing.entries)

\* What of backend b neither a local tool nor the filter covers.
Covered(b) == {name \in ToSet(catalog[b].pages) : Expose(b, name) \in Locals \cup config.hidden}
Visible(b) == Without(catalog[b].pages, Covered(b))

\* Every name a client is shown can be called: it is a local tool's, there once, or leads
\* to a backend that serves the surface; a hidden one is not there (namespaceName,
\* routeNamespaced, the overlay and its filter).
ListedRoutes ==
  \A s \in Server : shown[s] # None =>
    LET entries == shown[s].entries IN
    \A i \in DOMAIN entries :
      /\ entries[i] \notin config.hidden
      /\ IF entries[i] \in Locals
         THEN \A j \in DOMAIN entries : entries[j] = entries[i] => i = j
         ELSE LeadsTo(entries[i]) # None

\* A listing has of each backend all it serves, in order and under names that lead back,
\* or nothing at all and a report; unless the backend changed meanwhile (listAcrossMesh).
ListingComplete ==
  \A s \in Server : shown[s] # None /\ progress[s] = None =>
    \A b \in ServingSet :
      IF b \in shown[s].degraded THEN ShownOf(shown[s], b) = <<>>
      ELSE b \notin moved[s] => ShownOf(shown[s], b) = Visible(b)

Current(s) ==
  /\ shown[s] # None
  /\ \A b \in ServingSet :
       config.surface \in config.notifies[b] =>
         b \in shown[s].degraded \/ ShownOf(shown[s], b) = Visible(b)

\* Once the upstream catalogs stay as they are, every open client comes to show what the
\* notifying backends serve, those aside that failed its last listing.
CatalogConverges == \A s \in Lister : <>[](status[s] = "open" => Current(s))

=============================================================================
