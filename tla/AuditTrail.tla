---------------------------- MODULE AuditTrail ----------------------------
(***************************************************************************)
(* What createAuditMiddleware promises the host of a proxy                 *)
(* (packages/audit/src/types.ts, AuditMiddlewareHandle), without its       *)
(* queues, promises and timers.  A session has a trail of calls.  Closing  *)
(* it fixes how much of the trail the manifest covers: all that is there.  *)
(* From then on the trail only grows by calls that were excused, that is,  *)
(* reported as left out when the close gave up waiting for them.  A        *)
(* manifest that covers something may be accepted by the host, once.       *)
(***************************************************************************)
EXTENDS Naturals, Sequences

CONSTANTS Session, Call, None

VARIABLES
  trail,     \* session -> the calls recorded, in order
  covered,   \* session -> how many the manifest covers, None before the close
  excused,   \* calls reported as left out of a manifest
  accepted   \* sessions whose manifest the host accepted

vars == <<trail, covered, excused, accepted>>

Init ==
  /\ trail = [s \in Session |-> <<>>]
  /\ covered = [s \in Session |-> None]
  /\ excused = {}
  /\ accepted = {}

\* A call is recorded once, and after the close only if it was excused.
Record(s, c) ==
  /\ \A t \in Session : \A i \in 1 .. Len(trail[t]) : trail[t][i] # c
  /\ covered[s] = None \/ c \in excused
  /\ trail' = [trail EXCEPT ![s] = Append(@, c)]
  /\ UNCHANGED <<covered, excused, accepted>>

Close(s) ==
  /\ covered[s] = None
  /\ covered' = [covered EXCEPT ![s] = Len(trail[s])]
  /\ excused' \in {excused \cup late : late \in SUBSET Call}
  /\ UNCHANGED <<trail, accepted>>

Accept(s) ==
  /\ covered[s] \notin {None, 0} /\ s \notin accepted
  /\ accepted' = accepted \cup {s}
  /\ UNCHANGED <<trail, covered, excused>>

Next ==
  \E s \in Session : (\E c \in Call : Record(s, c)) \/ Close(s) \/ Accept(s)

Spec == Init /\ [][Next]_vars

=============================================================================
