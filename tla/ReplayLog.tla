----------------------------- MODULE ReplayLog -----------------------------
(***************************************************************************)
(* What an event store promises a reconnecting client: a replay starts at  *)
(* an event of the client's own session, and sends events of that session  *)
(* only, each at most once, in the order they were stored, all of them     *)
(* later than the one it started at.  Which of them a store still has is   *)
(* its own affair (EventStores.NoneSkipped).                               *)
(***************************************************************************)
EXTENDS Integers, Sequences

CONSTANT Session

VARIABLES
  owners,          \* the session each event belongs to, by event id
  replay           \* per session: the event it started at, 0 when none is under way;
                   \* what it has sent

vars == <<owners, replay>>

Idle == [after |-> 0, sent |-> <<>>]

Init ==
  /\ owners = <<>>
  /\ replay = [s \in Session |-> Idle]

Store(s) ==
  /\ owners' = Append(owners, s)
  /\ UNCHANGED replay

\* A process that keeps its events in memory forgets them, its replays and its sessions.
Forget ==
  /\ owners' = <<>>
  /\ replay' = [s \in Session |-> Idle]

Begin(s, id) ==
  /\ replay[s] = Idle
  /\ id \in DOMAIN owners /\ owners[id] = s
  /\ replay' = [replay EXCEPT ![s] = [after |-> id, sent |-> <<>>]]
  /\ UNCHANGED owners

Send(s, id) ==
  /\ replay[s] # Idle
  /\ id \in DOMAIN owners /\ owners[id] = s
  /\ id > replay[s].after
  /\ \A i \in DOMAIN replay[s].sent : id > replay[s].sent[i]
  /\ replay' = [replay EXCEPT ![s].sent = Append(@, id)]
  /\ UNCHANGED owners

\* A restart ends several at once.
End(S) ==
  /\ replay' = [s \in Session |-> IF s \in S THEN Idle ELSE replay[s]]
  /\ UNCHANGED owners

Next ==
  \/ \E s \in Session : Store(s) \/ \E id \in DOMAIN owners : Begin(s, id) \/ Send(s, id)
  \/ \E S \in SUBSET Session : End(S)
  \/ Forget

Spec == Init /\ [][Next]_vars

=============================================================================
