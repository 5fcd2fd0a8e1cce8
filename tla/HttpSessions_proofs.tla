------------------------ MODULE HttpSessions_proofs ------------------------
(***************************************************************************)
(* Theorems about HttpSessions, for any number of attempts and processes,  *)
(* any limit and any options.                                              *)
(***************************************************************************)
EXTENDS HttpSessions, FiniteSetTheorems, TLAPS

(***************************************************************************)
(* The inductive invariant, in parts.                                      *)
(***************************************************************************)
Initializing == {"identity", "initialize", "set"}
Looking == {"lookup", "found", "missing"}
Resuming == Looking \cup {"replay"}

\* An attempt has a process and an id from its start until its process dies; one that has
\* not started has left no trace.
Placed ==
  \A a \in Attempt :
    /\ stage[a] \in InProgress => inst[a] # None
    /\ inst[a] # None => id[a] # None
    /\ inst[a] = None => ~proxyServer[a] /\ teardown[a] \in {"none", "gone"}
    /\ stage[a] = "idle" => inst[a] = None /\ a \notin issued

\* An id that is being initialized is unknown to every client.
Fresh == \A a \in Attempt : stage[a] \in Initializing => id[a] = a /\ a \notin issued

\* An id that is being resumed has one resume on its process, and no session there.
Alone ==
  \A a \in Attempt : stage[a] \in Resuming =>
    /\ id[a] \in issued
    /\ resuming[inst[a]][id[a]] = a
    /\ sessions[inst[a]][id[a]] = None

\* What is in the map is a session admitted by an attempt of this process for this id,
\* whose end has not begun.
Held ==
  \A p \in Instance, s \in Attempt : sessions[p][s] # None =>
    /\ s \in issued
    /\ inst[sessions[p][s]] = p /\ id[sessions[p][s]] = s
    /\ stage[sessions[p][s]] \in {"admitted", "done"}
    /\ teardown[sessions[p][s]] = "none"

\* Only an admitted session is torn down, and its hook is called as its teardown gets there.
Hooked ==
  \A a \in Attempt :
    /\ stage[a] \notin {"admitted", "done"} => teardown[a] = "none"
    /\ teardown[a] \in {"none", "registry"} => hooks[a] = 0
    /\ hooks[a] <= 1

\* No proxy server is there before it is built.
Unbuilt == \A a \in Attempt : stage[a] \in {"identity"} \cup Looking => ~proxyServer[a]

\* The attempts past their check of the limit, and the sessions, are within the limit.
Committed(p) ==
  {a \in Attempt : inst[a] = p /\ stage[a] \in Initializing \cup {"replay"}}

Room == \A p \in Instance : Cardinality(Live(p)) + Cardinality(Committed(p)) <= MaxSessions

IInv ==
  /\ TypeOK
  /\ Placed /\ Fresh /\ Alone /\ Held /\ Hooked
  /\ Unbuilt /\ NoLeakedServer
  /\ SlotsConserved /\ Room

---------------------------------------------------------------------------
(***************************************************************************)
(* The kinds of steps.                                                     *)
(***************************************************************************)
\* An attempt goes on without admitting its session or giving back its slot.
Moves(a, st) ==
  /\ \/ stage[a] = "identity" /\ st = "initialize"
     \/ stage[a] = "initialize" /\ st = "set"
     \/ stage[a] = "lookup" /\ st \in {"found", "missing"}
     \/ MayResume(a) /\ st = "replay"
  /\ stage' = [stage EXCEPT ![a] = st]
  /\ proxyServer' = IF st \in {"initialize", "replay"}
                    THEN [proxyServer EXCEPT ![a] = TRUE] ELSE proxyServer
  /\ UNCHANGED <<inst, id, endVars, sessions, pendingSessions, resuming, shutVars,
                 registry, issued, expired>>

Admits(a) ==
  /\ stage[a] \in {"initialize", "set", "replay"}
  /\ Admit(a)
  /\ registry' \in {registry, registry \cup {id[a]}}
  /\ UNCHANGED <<inst, id, proxyServer, endVars, pendingSessions, resuming, shutVars,
                 expired>>

Finishes(a) ==
  /\ stage[a] \in InProgress
  /\ Finish(a)
  /\ registry' \in {registry, registry \cup {id[a]}}
  /\ UNCHANGED <<inst, id, endVars, sessions, shutVars, issued, expired>>

\* Sessions of S leave the map of process p; a DELETE also closes the proxy server.
Ends(p, S, keepRecord) ==
  /\ \A a \in S : \E s \in Attempt : sessions[p][s] = a /\ a # None
  /\ Destroy(p, S, keepRecord)
  /\ \/ UNCHANGED <<proxyServer, shutVars>>
     \/ UNCHANGED shutVars /\ \E a \in S : proxyServer' = [proxyServer EXCEPT ![a] = FALSE]
     \/ /\ closing' = [closing EXCEPT ![p] = "closing"]
        /\ awaited' = [awaited EXCEPT ![p] = S]
        /\ UNCHANGED proxyServer
  /\ UNCHANGED <<stage, inst, id, pendingSessions, resuming, registry, issued, expired>>

\* A step that touches neither attempts nor sessions.
Elsewhere ==
  /\ \/ UNCHANGED <<shutVars, expired>>
     \/ UNCHANGED shutVars /\ \E s \in Attempt : expired' = expired \cup {s}
     \/ /\ UNCHANGED <<awaited, expired>>
        /\ \E p \in Instance : closing' = [closing EXCEPT ![p] = "closed"]
  /\ UNCHANGED <<attemptVars, endVars, sessions, pendingSessions, resuming, registry,
                 issued>>

Kinds ==
  \/ \E a \in Attempt, p \in Instance : StartInitialize(a, p)
  \/ \E a, s \in Attempt, p \in Instance : StartResume(a, p, s)
  \/ \E a \in Attempt : \E st \in InProgress : Moves(a, st)
  \/ \E a \in Attempt : Admits(a) \/ Finishes(a) \/ TeardownStep(a)
  \/ \E p \in Instance, S \in SUBSET Attempt, keep \in BOOLEAN : Ends(p, S, keep)
  \/ \E p \in Instance : Restart(p)
  \/ Elsewhere

\* Every step is one of these kinds.
LEMMA StepKinds ==
  ASSUME TypeOK, Placed, [Next]_vars
  PROVE  Kinds
<1>1. ASSUME NEW a \in Attempt, AttemptStep(a) PROVE Kinds
  <2>1. CASE \/ IdentityRejected(a) \/ InitializeRefused(a) \/ RegistrySetRejected(a)
            \/ RegistryReadRejected(a) \/ ResumeRefused(a) \/ ReplayRefused(a) \/ Answered(a)
    <3>1. Finishes(a)
      BY <2>1 DEF Finishes, InProgress, IdentityRejected, InitializeRefused,
                  RegistrySetRejected, RegistryReadRejected, ResumeRefused,
                  ReplayRefused, Answered, endVars
    <3> QED BY <3>1 DEF Kinds
  <2>2. CASE IdentityResolved(a) \/ RegistryRead(a) \/ Replay(a)
    <3>1. \E st \in InProgress : Moves(a, st)
      BY <2>2 DEF Moves, InProgress, IdentityResolved, RegistryRead, Replay
    <3> QED BY <3>1 DEF Kinds
  <2>3. CASE RegistrySet(a) \/ Resumed(a)
    <3>1. Admits(a)
      BY <2>3 DEF Admits, RegistrySet, Resumed
    <3> QED BY <3>1 DEF Kinds
  <2>4. CASE InitializeAccepted(a)
    <3>1. CASE Shared
      <4>1. Moves(a, "set")
        BY <2>4, <3>1 DEF Moves, InitializeAccepted
      <4> QED BY <4>1 DEF Kinds, InProgress
    <3>2. CASE ~Shared
      <4>1. Admits(a)
        BY <2>4, <3>2 DEF Admits, InitializeAccepted
      <4> QED BY <4>1 DEF Kinds
    <3> QED BY <3>1, <3>2
  <2> QED BY <1>1, <2>1, <2>2, <2>3, <2>4 DEF AttemptStep
<1>2. ASSUME NEW a \in Attempt, ClientDelete(a) \/ TtlFires(a) PROVE Kinds
  <2>1. inst[a] \in Instance /\ id[a] \in Attempt /\ a # None
    BY <1>2, NoneIsNew DEF ClientDelete, TtlFires, Placed, TypeOK
  <2>2. Ends(inst[a], {a}, FALSE)
    BY <1>2, <2>1 DEF Ends, ClientDelete, TtlFires, shutVars, attemptVars
  <2> QED BY <2>1, <2>2 DEF Kinds
<1>3. ASSUME NEW p \in Instance, Shutdown(p) PROVE Kinds
  <2>1. PICK S : S = {sessions[p][s] : s \in Live(p)}
    OBVIOUS
  <2>2. S \in SUBSET Attempt
    BY <2>1 DEF Live, TypeOK
  <2>3. \A a \in S : \E s \in Attempt : sessions[p][s] = a /\ a # None
    BY <2>1 DEF Live
  <2>4. Ends(p, S, TRUE)
    BY <1>3, <2>1, <2>3 DEF Shutdown, Ends, attemptVars
  <2> QED BY <2>2, <2>4 DEF Kinds
<1>4. ASSUME \/ \E a \in Attempt : DeadlinePasses(a)
             \/ \E p \in Instance : CloseCallback(p) \/ CloseAgain(p)
             \/ UNCHANGED vars
      PROVE  Kinds
  BY <1>4 DEF Kinds, Elsewhere, DeadlinePasses, CloseCallback, CloseAgain, vars, shutVars,
              attemptVars, endVars
<1>5. ASSUME NEW a \in Attempt, NEW p \in Instance, StartInitialize(a, p) PROVE Kinds
  BY <1>5 DEF Kinds
<1>6. ASSUME NEW a \in Attempt, NEW s \in Attempt, NEW p \in Instance, StartResume(a, p, s)
      PROVE  Kinds
  BY <1>6 DEF Kinds
<1>7. ASSUME NEW a \in Attempt, TeardownStep(a) PROVE Kinds
  BY <1>7 DEF Kinds
<1>8. ASSUME NEW p \in Instance, Restart(p) PROVE Kinds
  BY <1>8 DEF Kinds
<1> QED BY <1>1, <1>2, <1>3, <1>4, <1>5, <1>6, <1>7, <1>8 DEF Next

---------------------------------------------------------------------------
(***************************************************************************)
(* The parts of the invariant, one lemma each.                             *)
(***************************************************************************)
\* Sets of attempts can be counted.
LEMMA Countable ==
  ASSUME NEW S, S \subseteq Attempt
  PROVE  IsFiniteSet(S) /\ Cardinality(S) \in Nat
BY AttemptsFinite, FS_Subset, FS_CardinalityType

\* An attempt in progress is on a process and has a slot there.
LEMMA HasSlot ==
  ASSUME TypeOK, Placed, SlotsConserved, NEW a \in Attempt, stage[a] \in InProgress
  PROVE  /\ inst[a] \in Instance /\ id[a] \in Attempt
         /\ pendingSessions[inst[a]] \in Nat \ {0}
<1>1. inst[a] \in Instance /\ id[a] \in Attempt
  BY DEF TypeOK, Placed
<1>2. a \in Pending(inst[a])
  BY DEF Pending
<1>3. Pending(inst[a]) \subseteq Attempt
  BY DEF Pending
<1>4. Cardinality(Pending(inst[a])) # 0
  BY <1>2, <1>3, Countable, FS_EmptySet
<1> QED BY <1>1, <1>3, <1>4, Countable DEF SlotsConserved

LEMMA TypeStep ==
  ASSUME TypeOK, Placed, SlotsConserved, [Next]_vars
  PROVE  TypeOK'
<1> USE DEF TypeOK, Stage, InProgress
<1>1. ASSUME NEW a \in Attempt, NEW p \in Instance, StartInitialize(a, p) PROVE TypeOK'
  BY <1>1 DEF StartInitialize, endVars, shutVars
<1>2. ASSUME NEW a \in Attempt, NEW s \in Attempt, NEW p \in Instance, StartResume(a, p, s)
      PROVE  TypeOK'
  BY <1>2 DEF StartResume, endVars, shutVars
<1>3. ASSUME NEW a \in Attempt, NEW st \in InProgress, Moves(a, st) PROVE TypeOK'
  BY <1>3 DEF Moves, endVars, shutVars
<1>4. ASSUME NEW a \in Attempt, Admits(a) PROVE TypeOK'
  <2>1. inst[a] \in Instance /\ id[a] \in Attempt
    BY <1>4, HasSlot DEF Admits
  <2> QED BY <1>4, <2>1 DEF Admits, Admit, endVars, shutVars
<1>5. ASSUME NEW a \in Attempt, Finishes(a) PROVE TypeOK'
  <2>1. inst[a] \in Instance /\ id[a] \in Attempt /\ pendingSessions[inst[a]] - 1 \in Nat
    BY <1>5, HasSlot DEF Finishes
  <2>2. resuming' \in [Instance -> [Attempt -> Attempt \cup {None}]]
    BY <1>5, <2>1 DEF Finishes, Finish
  <2>3. pendingSessions' \in [Instance -> Nat]
    BY <1>5, <2>1 DEF Finishes, Finish
  <2> QED BY <1>5, <2>1, <2>2, <2>3 DEF Finishes, Finish, endVars, shutVars
<1>6. ASSUME NEW a \in Attempt, TeardownStep(a) PROVE TypeOK'
  <2>1. CASE RegistryDeleted(a)
    <3>1. hooks' \in [Attempt -> Nat] /\ registry' \subseteq Attempt
      BY <2>1 DEF RegistryDeleted
    <3> QED BY <2>1, <3>1 DEF RegistryDeleted, attemptVars, shutVars
  <2>2. CASE HookSettled(a)
    BY <2>2 DEF HookSettled, shutVars
  <2> QED BY <1>6, <2>1, <2>2 DEF TeardownStep
<1>7. ASSUME NEW p \in Instance, NEW S \in SUBSET Attempt, NEW keep \in BOOLEAN, Ends(p, S, keep)
      PROVE  TypeOK'
  <2>1. sessions' \in [Instance -> [Attempt -> Attempt \cup {None}]]
    BY <1>7 DEF Ends, Destroy
  <2>2. /\ teardown' \in [Attempt -> {"none", "registry", "hook", "gone"}]
        /\ hooks' \in [Attempt -> Nat]
    BY <1>7 DEF Ends, Destroy
  <2> QED BY <1>7, <2>1, <2>2 DEF Ends, shutVars
<1>8. ASSUME NEW p \in Instance, Restart(p) PROVE TypeOK'
  BY <1>8 DEF Restart
<1>9. CASE Elsewhere
  BY <1>9 DEF Elsewhere, attemptVars, endVars, shutVars
<1> HIDE DEF TypeOK, Stage, InProgress
<1> QED BY <1>1, <1>2, <1>3, <1>4, <1>5, <1>6, <1>7, <1>8, <1>9, StepKinds DEF Kinds

\* Placed speaks of what an attempt has and of the ids that were given out.
LEMMA PlacedStep ==
  ASSUME TypeOK, Placed, Fresh, Alone, Held, SlotsConserved, [Next]_vars
  PROVE  Placed'
<1> USE DEF TypeOK, Placed, InProgress
<1>1. ASSUME NEW a \in Attempt, NEW p \in Instance, StartInitialize(a, p) PROVE Placed'
  BY <1>1, NoneIsNew DEF StartInitialize, endVars
<1>2. ASSUME NEW a \in Attempt, NEW s \in Attempt, NEW p \in Instance, StartResume(a, p, s)
      PROVE  Placed'
  BY <1>2, NoneIsNew DEF StartResume, endVars
<1>3. ASSUME NEW a \in Attempt, NEW st \in InProgress, Moves(a, st) PROVE Placed'
  BY <1>3 DEF Moves, MayResume, endVars
<1>4. ASSUME NEW a \in Attempt, Admits(a) PROVE Placed'
  <2>1. id[a] = a \/ id[a] \in issued
    BY <1>4 DEF Admits, Fresh, Alone, Initializing, Resuming
  <2> QED BY <1>4, <2>1 DEF Admits, Admit, endVars
<1>5. ASSUME NEW a \in Attempt, Finishes(a) PROVE Placed'
  BY <1>5 DEF Finishes, Finish, endVars
<1>6. ASSUME NEW a \in Attempt, TeardownStep(a) PROVE Placed'
  BY <1>6 DEF TeardownStep, RegistryDeleted, HookSettled, attemptVars
<1>7. ASSUME NEW p \in Instance, NEW S \in SUBSET Attempt, NEW keep \in BOOLEAN, Ends(p, S, keep)
      PROVE  Placed'
  <2>1. \A a \in S : inst[a] = p
    BY <1>7 DEF Ends, Held
  <2> QED BY <1>7, <2>1, NoneIsNew DEF Ends, Destroy
<1>8. ASSUME NEW p \in Instance, Restart(p) PROVE Placed'
  BY <1>8 DEF Restart
<1>9. CASE Elsewhere
  BY <1>9 DEF Elsewhere, attemptVars, endVars
<1> QED BY <1>1, <1>2, <1>3, <1>4, <1>5, <1>6, <1>7, <1>8, <1>9, StepKinds DEF Kinds

\* An id is given out when its session is admitted, which for a new one is the end of its
\* initialize.
LEMMA FreshStep ==
  ASSUME TypeOK, Placed, Fresh, Alone, [Next]_vars
  PROVE  Fresh'
<1> USE DEF TypeOK, Fresh, Initializing
<1>1. ASSUME NEW a \in Attempt, NEW p \in Instance, StartInitialize(a, p) PROVE Fresh'
  BY <1>1 DEF StartInitialize, Placed
<1>2. ASSUME NEW a \in Attempt, NEW s \in Attempt, NEW p \in Instance, StartResume(a, p, s)
      PROVE  Fresh'
  BY <1>2 DEF StartResume
<1>3. ASSUME NEW a \in Attempt, NEW st \in InProgress, Moves(a, st) PROVE Fresh'
  BY <1>3 DEF Moves, MayResume
<1>4. ASSUME NEW a \in Attempt, Admits(a) PROVE Fresh'
  <2>1. id[a] = a \/ id[a] \in issued
    BY <1>4 DEF Admits, Alone, Resuming
  <2> QED BY <1>4, <2>1 DEF Admits, Admit
<1>5. ASSUME NEW a \in Attempt, Finishes(a) PROVE Fresh'
  BY <1>5 DEF Finishes, Finish
<1>6. ASSUME NEW a \in Attempt, TeardownStep(a) PROVE Fresh'
  BY <1>6 DEF TeardownStep, RegistryDeleted, HookSettled, attemptVars
<1>7. ASSUME NEW p \in Instance, NEW S \in SUBSET Attempt, NEW keep \in BOOLEAN, Ends(p, S, keep)
      PROVE  Fresh'
  BY <1>7 DEF Ends
<1>8. ASSUME NEW p \in Instance, Restart(p) PROVE Fresh'
  BY <1>8 DEF Restart
<1>9. CASE Elsewhere
  BY <1>9 DEF Elsewhere, attemptVars
<1> HIDE DEF TypeOK, Fresh
<1> QED BY <1>1, <1>2, <1>3, <1>4, <1>5, <1>6, <1>7, <1>8, <1>9, StepKinds DEF Kinds

\* Two attempts that may admit a session under the same id on the same process are one
\* attempt: a resume shares `resuming`, an initialize has an id nobody knows.
LEMMA OneAtATime ==
  ASSUME TypeOK, Fresh, Alone, NEW a \in Attempt, NEW b \in Attempt,
         stage[a] \in Initializing \cup Resuming, stage[b] \in Resuming,
         inst[a] = inst[b], id[a] = id[b]
  PROVE  a = b
BY DEF Fresh, Alone, Initializing, Resuming, Looking

LEMMA AloneStep ==
  ASSUME TypeOK, Placed, Fresh, Alone, SlotsConserved, [Next]_vars
  PROVE  Alone'
<1> USE DEF TypeOK
<1>1. ASSUME NEW a \in Attempt, NEW p \in Instance, StartInitialize(a, p) PROVE Alone'
  BY <1>1 DEF StartInitialize, Alone, Resuming, Looking
<1>2. ASSUME NEW a \in Attempt, NEW s \in Attempt, NEW p \in Instance, StartResume(a, p, s)
      PROVE  Alone'
  <2>1. \A b \in Attempt : stage[b] \in Resuming => inst[b] \in Instance /\ id[b] \in Attempt
    BY HasSlot DEF Resuming, Looking, InProgress
  <2>2. \A b \in Attempt \ {a} : stage[b] \in Resuming =>
          resuming'[inst[b]][id[b]] = resuming[inst[b]][id[b]]
    BY <1>2, <2>1, NoneIsNew DEF StartResume, Alone
  <2>3. resuming'[p][s] = a
    BY <1>2 DEF StartResume
  <2> QED BY <1>2, <2>2, <2>3 DEF StartResume, Alone
<1>3. ASSUME NEW a \in Attempt, NEW st \in InProgress, Moves(a, st) PROVE Alone'
  BY <1>3 DEF Moves, MayResume, Alone, Resuming, Looking
<1>4. ASSUME NEW a \in Attempt, Admits(a) PROVE Alone'
  <2>1. inst[a] \in Instance /\ id[a] \in Attempt
    BY <1>4, HasSlot DEF Admits, InProgress
  <2> SUFFICES ASSUME NEW b \in Attempt, stage'[b] \in Resuming
               PROVE  /\ id[b] \in issued
                      /\ resuming[inst[b]][id[b]] = b
                      /\ sessions'[inst[b]][id[b]] = None
    BY <1>4 DEF Admits, Admit, Alone
  <2>2. b # a /\ stage[b] \in Resuming
    BY <1>4 DEF Admits, Admit, Resuming, Looking
  <2>3. inst[b] \in Instance /\ id[b] \in Attempt
    BY <2>2, HasSlot DEF Resuming, Looking, InProgress
  <2>4. ~(inst[a] = inst[b] /\ id[a] = id[b])
    BY <1>4, <2>2, OneAtATime DEF Admits, Initializing, Resuming
  <2>5. sessions'[inst[b]][id[b]] = sessions[inst[b]][id[b]]
    BY <1>4, <2>1, <2>3, <2>4 DEF Admits, Admit
  <2> QED BY <2>2, <2>5 DEF Alone
<1>5. ASSUME NEW a \in Attempt, Finishes(a) PROVE Alone'
  <2>1. inst[a] \in Instance /\ id[a] \in Attempt
    BY <1>5, HasSlot DEF Finishes
  <2> SUFFICES ASSUME NEW b \in Attempt, stage'[b] \in Resuming
               PROVE  resuming'[inst[b]][id[b]] = b /\ stage[b] \in Resuming
    BY <1>5 DEF Finishes, Alone
  <2>2. b # a /\ stage[b] \in Resuming
    BY <1>5 DEF Finishes, Finish, Resuming, Looking
  <2>3. inst[b] \in Instance /\ id[b] \in Attempt
    BY <2>2, HasSlot DEF Resuming, Looking, InProgress
  <2> QED BY <1>5, <2>1, <2>2, <2>3 DEF Finishes, Finish, Alone
<1>6. ASSUME NEW a \in Attempt, TeardownStep(a) PROVE Alone'
  BY <1>6 DEF TeardownStep, RegistryDeleted, HookSettled, attemptVars, Alone
<1>7. ASSUME NEW p \in Instance, NEW S \in SUBSET Attempt, NEW keep \in BOOLEAN, Ends(p, S, keep)
      PROVE  Alone'
  <2>1. \A q \in Instance, s \in Attempt : sessions[q][s] = None => sessions'[q][s] = None
    BY <1>7 DEF Ends, Destroy
  <2>2. \A b \in Attempt : stage[b] \in Resuming => inst[b] \in Instance /\ id[b] \in Attempt
    BY HasSlot DEF Resuming, Looking, InProgress
  <2> QED BY <1>7, <2>1, <2>2 DEF Ends, Alone
<1>8. ASSUME NEW p \in Instance, Restart(p) PROVE Alone'
  BY <1>8, HasSlot DEF Restart, Alone, Resuming, Looking, InProgress
<1>9. CASE Elsewhere
  BY <1>9 DEF Elsewhere, attemptVars, Alone
<1> HIDE DEF TypeOK
<1> QED BY <1>1, <1>2, <1>3, <1>4, <1>5, <1>6, <1>7, <1>8, <1>9, StepKinds DEF Kinds

\* When a session is admitted its place in the map is free.
LEMMA PlaceIsFree ==
  ASSUME TypeOK, Placed, Fresh, Alone, Held, SlotsConserved, NEW a \in Attempt,
         stage[a] \in {"initialize", "set", "replay"}
  PROVE  /\ inst[a] \in Instance /\ id[a] \in Attempt
         /\ sessions[inst[a]][id[a]] = None
<1>1. inst[a] \in Instance /\ id[a] \in Attempt
  BY HasSlot DEF InProgress
<1> QED BY <1>1 DEF Fresh, Alone, Held, Initializing, Resuming

LEMMA HeldStep ==
  ASSUME TypeOK, Placed, Fresh, Alone, Held, Hooked, SlotsConserved, [Next]_vars
  PROVE  Held'
<1> USE DEF TypeOK, Held
<1>1. ASSUME NEW a \in Attempt, NEW p \in Instance, StartInitialize(a, p) PROVE Held'
  BY <1>1 DEF StartInitialize, endVars
<1>2. ASSUME NEW a \in Attempt, NEW s \in Attempt, NEW p \in Instance, StartResume(a, p, s)
      PROVE  Held'
  BY <1>2 DEF StartResume, endVars
<1>3. ASSUME NEW a \in Attempt, NEW st \in InProgress, Moves(a, st) PROVE Held'
  BY <1>3 DEF Moves, MayResume, endVars
<1>4. ASSUME NEW a \in Attempt, Admits(a) PROVE Held'
  <2>1. inst[a] \in Instance /\ id[a] \in Attempt
    BY <1>4, PlaceIsFree DEF Admits
  <2>2. teardown[a] = "none"
    BY <1>4 DEF Admits, Hooked
  <2> SUFFICES ASSUME NEW p \in Instance, NEW s \in Attempt, sessions'[p][s] # None
               PROVE  /\ s \in issued'
                      /\ inst[sessions'[p][s]] = p /\ id[sessions'[p][s]] = s
                      /\ stage'[sessions'[p][s]] \in {"admitted", "done"}
                      /\ teardown[sessions'[p][s]] = "none"
    BY <1>4 DEF Admits, endVars
  <2>3. CASE p = inst[a] /\ s = id[a]
    BY <1>4, <2>1, <2>2, <2>3 DEF Admits, Admit
  <2>4. CASE ~(p = inst[a] /\ s = id[a])
    BY <1>4, <2>1, <2>4 DEF Admits, Admit
  <2> QED BY <2>3, <2>4
<1>5. ASSUME NEW a \in Attempt, Finishes(a) PROVE Held'
  BY <1>5 DEF Finishes, Finish, endVars
<1>6. ASSUME NEW a \in Attempt, TeardownStep(a) PROVE Held'
  BY <1>6 DEF TeardownStep, RegistryDeleted, HookSettled, attemptVars
<1>7. ASSUME NEW p \in Instance, NEW S \in SUBSET Attempt, NEW keep \in BOOLEAN, Ends(p, S, keep)
      PROVE  Held'
  <2>1. \A q \in Instance, s \in Attempt :
          sessions'[q][s] # None => sessions'[q][s] = sessions[q][s]
    BY <1>7 DEF Ends, Destroy
  <2>2. \A q \in Instance, s \in Attempt : sessions'[q][s] # None => sessions[q][s] \notin S
    <3>1. \A a \in S : inst[a] = p
      BY <1>7 DEF Ends
    <3> QED BY <1>7, <2>1, <3>1 DEF Ends, Destroy
  <2>3. \A a \in Attempt \ S : teardown'[a] = teardown[a]
    BY <1>7 DEF Ends, Destroy
  <2>4. UNCHANGED <<inst, id, stage, issued>>
    BY <1>7 DEF Ends
  <2> QED BY <2>1, <2>2, <2>3, <2>4
<1>8. ASSUME NEW p \in Instance, Restart(p) PROVE Held'
  BY <1>8 DEF Restart
<1>9. CASE Elsewhere
  BY <1>9 DEF Elsewhere, attemptVars, endVars
<1> HIDE DEF TypeOK, Held
<1> QED BY <1>1, <1>2, <1>3, <1>4, <1>5, <1>6, <1>7, <1>8, <1>9, StepKinds DEF Kinds

LEMMA HookedStep ==
  ASSUME TypeOK, Placed, Held, Hooked, [Next]_vars
  PROVE  Hooked'
<1> USE DEF TypeOK, Hooked
<1>1. ASSUME NEW a \in Attempt, NEW p \in Instance, StartInitialize(a, p) PROVE Hooked'
  BY <1>1 DEF StartInitialize, endVars
<1>2. ASSUME NEW a \in Attempt, NEW s \in Attempt, NEW p \in Instance, StartResume(a, p, s)
      PROVE  Hooked'
  BY <1>2 DEF StartResume, endVars
<1>3. ASSUME NEW a \in Attempt, NEW st \in InProgress, Moves(a, st) PROVE Hooked'
  BY <1>3 DEF Moves, MayResume, endVars
<1>4. ASSUME NEW a \in Attempt, Admits(a) PROVE Hooked'
  BY <1>4 DEF Admits, Admit, endVars
<1>5. ASSUME NEW a \in Attempt, Finishes(a) PROVE Hooked'
  BY <1>5 DEF Finishes, Finish, endVars
<1>6. ASSUME NEW a \in Attempt, TeardownStep(a) PROVE Hooked'
  BY <1>6 DEF TeardownStep, RegistryDeleted, HookSettled, attemptVars
<1>7. ASSUME NEW p \in Instance, NEW S \in SUBSET Attempt, NEW keep \in BOOLEAN, Ends(p, S, keep)
      PROVE  Hooked'
  <2>1. \A a \in S : stage[a] \in {"admitted", "done"} /\ hooks[a] = 0
    BY <1>7 DEF Ends, Held
  <2> QED BY <1>7, <2>1 DEF Ends, Destroy
<1>8. ASSUME NEW p \in Instance, Restart(p) PROVE Hooked'
  BY <1>8 DEF Restart
<1>9. CASE Elsewhere
  BY <1>9 DEF Elsewhere, attemptVars, endVars
<1> HIDE DEF TypeOK, Hooked
<1> QED BY <1>1, <1>2, <1>3, <1>4, <1>5, <1>6, <1>7, <1>8, <1>9, StepKinds DEF Kinds

LEMMA UnbuiltStep ==
  ASSUME TypeOK, Placed, Unbuilt, [Next]_vars
  PROVE  Unbuilt'
<1> USE DEF TypeOK, Unbuilt, Looking
<1>1. ASSUME NEW a \in Attempt, NEW p \in Instance, StartInitialize(a, p) PROVE Unbuilt'
  BY <1>1 DEF StartInitialize, Placed
<1>2. ASSUME NEW a \in Attempt, NEW s \in Attempt, NEW p \in Instance, StartResume(a, p, s)
      PROVE  Unbuilt'
  BY <1>2 DEF StartResume, Placed
<1>3. ASSUME NEW a \in Attempt, NEW st \in InProgress, Moves(a, st) PROVE Unbuilt'
  BY <1>3 DEF Moves, MayResume
<1>4. ASSUME NEW a \in Attempt, Admits(a) PROVE Unbuilt'
  BY <1>4 DEF Admits, Admit
<1>5. ASSUME NEW a \in Attempt, Finishes(a) PROVE Unbuilt'
  BY <1>5 DEF Finishes, Finish
<1>6. ASSUME NEW a \in Attempt, TeardownStep(a) PROVE Unbuilt'
  BY <1>6 DEF TeardownStep, RegistryDeleted, HookSettled, attemptVars
<1>7. ASSUME NEW p \in Instance, NEW S \in SUBSET Attempt, NEW keep \in BOOLEAN, Ends(p, S, keep)
      PROVE  Unbuilt'
  BY <1>7 DEF Ends
<1>8. ASSUME NEW p \in Instance, Restart(p) PROVE Unbuilt'
  BY <1>8 DEF Restart
<1>9. CASE Elsewhere
  BY <1>9 DEF Elsewhere, attemptVars
<1> HIDE DEF TypeOK, Unbuilt
<1> QED BY <1>1, <1>2, <1>3, <1>4, <1>5, <1>6, <1>7, <1>8, <1>9, StepKinds DEF Kinds

\* A proxy server is wanted until it is closed: `finally` closes the one whose session did
\* not come up, and a teardown closes the others.
LEMMA NoLeakStep ==
  ASSUME TypeOK, Placed, Fresh, Alone, Held, Unbuilt, NoLeakedServer, SlotsConserved,
         [Next]_vars
  PROVE  NoLeakedServer'
<1> USE DEF TypeOK, NoLeakedServer
<1>1. ASSUME NEW a \in Attempt, NEW p \in Instance, StartInitialize(a, p) PROVE NoLeakedServer'
  BY <1>1 DEF StartInitialize, Placed, endVars
<1>2. ASSUME NEW a \in Attempt, NEW s \in Attempt, NEW p \in Instance, StartResume(a, p, s)
      PROVE  NoLeakedServer'
  BY <1>2 DEF StartResume, Placed, endVars
<1>3. ASSUME NEW a \in Attempt, NEW st \in InProgress, Moves(a, st) PROVE NoLeakedServer'
  BY <1>3 DEF Moves, MayResume, Unbuilt, Looking, endVars
<1>4. ASSUME NEW a \in Attempt, Admits(a) PROVE NoLeakedServer'
  <2>1. /\ inst[a] \in Instance /\ id[a] \in Attempt
        /\ sessions[inst[a]][id[a]] = None
    BY <1>4, PlaceIsFree DEF Admits
  <2>2. sessions'[inst[a]][id[a]] = a
    BY <1>4, <2>1 DEF Admits, Admit
  <2>3. \A b \in Attempt : inst[b] \in Instance /\ id[b] \in Attempt
                           /\ sessions[inst[b]][id[b]] = b => sessions'[inst[b]][id[b]] = b
    BY <1>4, <2>1, NoneIsNew DEF Admits, Admit
  <2>4. \A b \in Attempt : proxyServer[b] => inst[b] \in Instance /\ id[b] \in Attempt
    BY DEF Placed
  <2> QED BY <1>4, <2>2, <2>3, <2>4 DEF Admits, Admit, endVars
<1>5. ASSUME NEW a \in Attempt, Finishes(a) PROVE NoLeakedServer'
  <2>1. /\ \A b \in Attempt \ {a} : stage'[b] = stage[b] /\ proxyServer'[b] = proxyServer[b]
        /\ UNCHANGED <<inst, id, teardown, sessions>>
        /\ proxyServer'[a] => proxyServer[a] /\ sessions[inst[a]][id[a]] # None
    BY <1>5 DEF Finishes, Finish, endVars
  <2>2. CASE proxyServer'[a]
    <3>1. stage[a] \notin {"initialize", "set", "replay"}
      BY <2>1, <2>2, PlaceIsFree
    <3> QED BY <2>1, <2>2, <3>1
  <2> QED BY <2>1, <2>2
<1>6. ASSUME NEW a \in Attempt, TeardownStep(a) PROVE NoLeakedServer'
  BY <1>6 DEF TeardownStep, RegistryDeleted, HookSettled, attemptVars
<1>7. ASSUME NEW p \in Instance, NEW S \in SUBSET Attempt, NEW keep \in BOOLEAN, Ends(p, S, keep)
      PROVE  NoLeakedServer'
  <2>1. \A b \in Attempt : inst[b] \in Instance /\ id[b] \in Attempt /\ b \notin S
                           /\ sessions[inst[b]][id[b]] = b => sessions'[inst[b]][id[b]] = b
    BY <1>7 DEF Ends, Destroy
  <2>2. \A b \in Attempt : proxyServer[b] => inst[b] \in Instance /\ id[b] \in Attempt
    BY DEF Placed
  <2>3. \A b \in S : teardown'[b] \in {"registry", "hook"}
    BY <1>7 DEF Ends, Destroy
  <2>4. \A b \in Attempt \ S : teardown'[b] = teardown[b]
    BY <1>7 DEF Ends, Destroy
  <2>5. \A b \in Attempt : proxyServer'[b] => proxyServer[b]
    BY <1>7 DEF Ends
  <2>6. UNCHANGED <<stage, inst, id>>
    BY <1>7 DEF Ends
  <2> QED BY <2>1, <2>2, <2>3, <2>4, <2>5, <2>6
<1>8. ASSUME NEW p \in Instance, Restart(p) PROVE NoLeakedServer'
  <2> SUFFICES ASSUME NEW b \in Attempt, proxyServer'[b]
               PROVE  \/ stage'[b] \in {"initialize", "set", "replay"}
                      \/ sessions'[inst'[b]][id'[b]] = b
                      \/ teardown'[b] \in {"registry", "hook"}
    OBVIOUS
  <2>1. inst[b] # p /\ proxyServer[b]
    BY <1>8 DEF Restart
  <2>2. inst[b] \in Instance
    BY <2>1 DEF Placed
  <2> QED BY <1>8, <2>1, <2>2 DEF Restart
<1>9. CASE Elsewhere
  BY <1>9 DEF Elsewhere, attemptVars, endVars
<1> HIDE DEF TypeOK, NoLeakedServer
<1> QED BY <1>1, <1>2, <1>3, <1>4, <1>5, <1>6, <1>7, <1>8, <1>9, StepKinds DEF Kinds

---------------------------------------------------------------------------
(***************************************************************************)
(* The counts.                                                             *)
(***************************************************************************)
LEMMA SlotsStep ==
  ASSUME TypeOK, Placed, SlotsConserved, [Next]_vars
  PROVE  SlotsConserved'
<1> USE DEF TypeOK
<1>1. ASSUME NEW a \in Attempt, NEW p \in Instance, NEW st \in InProgress,
             stage[a] = "idle", stage' = [stage EXCEPT ![a] = st],
             inst' = [inst EXCEPT ![a] = p],
             pendingSessions' = [pendingSessions EXCEPT ![p] = @ + 1]
      PROVE  SlotsConserved'
  <2>1. a \notin Pending(p) /\ Pending(p)' = Pending(p) \cup {a}
    BY <1>1 DEF Pending, InProgress
  <2>2. \A q \in Instance \ {p} : Pending(q)' = Pending(q)
    BY <1>1, NoneIsNew DEF Pending, InProgress, Placed
  <2>3. Cardinality(Pending(p)') = Cardinality(Pending(p)) + 1
    BY <2>1, Countable, FS_AddElement DEF Pending
  <2> QED BY <1>1, <2>2, <2>3 DEF SlotsConserved
<1>2. ASSUME NEW a \in Attempt, NEW st \in InProgress, stage[a] \in InProgress,
             stage' = [stage EXCEPT ![a] = st], UNCHANGED <<inst, pendingSessions>>
      PROVE  SlotsConserved'
  <2>1. \A q \in Instance : Pending(q)' = Pending(q)
    BY <1>2 DEF Pending
  <2> QED BY <1>2, <2>1 DEF SlotsConserved
<1>3. ASSUME NEW a \in Attempt, Finishes(a) PROVE SlotsConserved'
  <2>1. PICK p \in Instance : p = inst[a]
    BY <1>3, HasSlot DEF Finishes
  <2>2. a \in Pending(p) /\ Pending(p)' = Pending(p) \ {a}
    BY <1>3, <2>1 DEF Finishes, Finish, Pending, InProgress
  <2>3. \A q \in Instance \ {p} : Pending(q)' = Pending(q)
    BY <1>3, <2>1 DEF Finishes, Finish, Pending, InProgress
  <2>4. Cardinality(Pending(p)') = Cardinality(Pending(p)) - 1
    <3>1. IsFiniteSet(Pending(p))
      BY Countable DEF Pending
    <3> HIDE DEF TypeOK
    <3> QED BY <2>2, <3>1, FS_RemoveElement
  <2>5. pendingSessions' = [pendingSessions EXCEPT ![p] = @ - 1]
    BY <1>3, <2>1 DEF Finishes, Finish
  <2> QED BY <2>3, <2>4, <2>5 DEF SlotsConserved
<1>4. ASSUME NEW p \in Instance, Restart(p) PROVE SlotsConserved'
  <2>1. Pending(p)' = {}
    BY <1>4, NoneIsNew DEF Restart, Pending, InProgress
  <2>2. \A q \in Instance \ {p} : Pending(q)' = Pending(q)
    BY <1>4, NoneIsNew DEF Restart, Pending, InProgress
  <2> QED BY <1>4, <2>1, <2>2, FS_EmptySet DEF Restart, SlotsConserved
<1>5. ASSUME UNCHANGED <<stage, inst, pendingSessions>> PROVE SlotsConserved'
  BY <1>5 DEF SlotsConserved, Pending
<1>6. ASSUME NEW a \in Attempt, NEW p \in Instance, StartInitialize(a, p) PROVE SlotsConserved'
  BY <1>1, <1>6 DEF StartInitialize, InProgress
<1>7. ASSUME NEW a \in Attempt, NEW s \in Attempt, NEW p \in Instance, StartResume(a, p, s)
      PROVE  SlotsConserved'
  BY <1>1, <1>7 DEF StartResume, InProgress
<1>8. ASSUME NEW a \in Attempt, NEW st \in InProgress, Moves(a, st) PROVE SlotsConserved'
  BY <1>2, <1>8 DEF Moves, MayResume, InProgress
<1>9. ASSUME NEW a \in Attempt, Admits(a) PROVE SlotsConserved'
  BY <1>2, <1>9 DEF Admits, Admit, InProgress
<1>10. ASSUME \/ \E a \in Attempt : TeardownStep(a)
              \/ \E p \in Instance, S \in SUBSET Attempt, keep \in BOOLEAN : Ends(p, S, keep)
              \/ Elsewhere
       PROVE  SlotsConserved'
  BY <1>5, <1>10 DEF TeardownStep, RegistryDeleted, HookSettled, attemptVars, Ends, Elsewhere
<1> HIDE DEF TypeOK
<1> QED BY <1>3, <1>4, <1>6, <1>7, <1>8, <1>9, <1>10, StepKinds DEF Kinds

\* Who passed the check of the limit has a slot.
LEMMA CommittedPending ==
  ASSUME NEW p \in Instance
  PROVE  /\ Committed(p) \subseteq Pending(p)
         /\ Live(p) \subseteq Attempt /\ Committed(p) \subseteq Attempt /\ Pending(p) \subseteq Attempt
         /\ Cardinality(Live(p)) \in Nat /\ Cardinality(Committed(p)) \in Nat
         /\ Cardinality(Pending(p)) \in Nat
         /\ Cardinality(Committed(p)) <= Cardinality(Pending(p))
<1>1. Committed(p) \subseteq Pending(p)
  BY DEF Committed, Pending, Initializing, InProgress
<1>2. Live(p) \subseteq Attempt /\ Committed(p) \subseteq Attempt /\ Pending(p) \subseteq Attempt
  BY DEF Live, Committed, Pending
<1>3. Cardinality(Committed(p)) <= Cardinality(Pending(p))
  BY <1>1, <1>2, Countable, FS_Subset
<1> QED BY <1>1, <1>2, <1>3, Countable

\* The limit is checked against the sessions and all slots taken; what is let in is counted
\* until its session is in the map or it gave up.
LEMMA RoomStep ==
  ASSUME TypeOK, Placed, Fresh, Alone, Held, SlotsConserved, Room, [Next]_vars
  PROVE  Room'
<1>1. ASSUME UNCHANGED sessions, \A p \in Instance : Committed(p)' \subseteq Committed(p)
      PROVE  Room'
  <2>1. \A p \in Instance : Live(p)' = Live(p)
    BY <1>1 DEF Live
  <2>2. \A p \in Instance : Cardinality(Committed(p)') <= Cardinality(Committed(p))
    BY <1>1, CommittedPending, Countable, FS_Subset
  <2>3. \A p \in Instance : Cardinality(Committed(p)') \in Nat
    BY <1>1, CommittedPending, Countable
  <2> QED BY <2>1, <2>2, <2>3, LimitIsNat, CommittedPending DEF Room
<1>2. ASSUME NEW a \in Attempt, NEW p \in Instance, UNCHANGED sessions,
             Committed(p)' \subseteq Committed(p) \cup {a},
             \A q \in Instance \ {p} : Committed(q)' = Committed(q),
             \/ Cardinality(Live(p)) + Cardinality(Pending(p)) < MaxSessions
             \/ a \in Pending(p) /\ Cardinality(Live(p)) + Cardinality(Pending(p)) <= MaxSessions
      PROVE  Room'
  <2>1. \A q \in Instance : Live(q)' = Live(q)
    BY <1>2 DEF Live
  <2>2. CASE a \in Pending(p) /\ Cardinality(Live(p)) + Cardinality(Pending(p)) <= MaxSessions
    <3>1. Committed(p)' \subseteq Pending(p)
      BY <1>2, <2>2, CommittedPending
    <3>2. Cardinality(Committed(p)') <= Cardinality(Pending(p)) /\ Cardinality(Committed(p)') \in Nat
      BY <3>1, CommittedPending, Countable, FS_Subset
    <3>3. Cardinality(Live(p)') + Cardinality(Committed(p)') <= MaxSessions
      BY <2>1, <2>2, <3>2, LimitIsNat, CommittedPending
    <3> QED BY <1>2, <2>1, <3>3 DEF Room
  <2>3. CASE Cardinality(Live(p)) + Cardinality(Pending(p)) < MaxSessions
    <3>1. PICK S : S = Pending(p) \cup {a}
      OBVIOUS
    <3>2. IsFiniteSet(S) /\ S \subseteq Attempt
      BY <3>1, CommittedPending, Countable
    <3>3. Cardinality(S) \in Nat /\ Cardinality(S) <= Cardinality(Pending(p)) + 1
      BY <3>1, <3>2, CommittedPending, Countable, FS_AddElement
    <3>4. Committed(p)' \subseteq S
      BY <1>2, <3>1, CommittedPending
    <3>5. Cardinality(Committed(p)') <= Cardinality(S) /\ Cardinality(Committed(p)') \in Nat
      BY <3>2, <3>4, Countable, FS_Subset
    <3>6. Cardinality(Live(p)') + Cardinality(Committed(p)') <= MaxSessions
      BY <2>1, <2>3, <3>3, <3>5, LimitIsNat, CommittedPending
    <3> QED BY <1>2, <2>1, <3>6 DEF Room
  <2> QED BY <1>2, <2>2, <2>3
<1>3. ASSUME NEW a \in Attempt, NEW p \in Instance, StartInitialize(a, p) PROVE Room'
  <2>1. /\ Committed(p)' \subseteq Committed(p) \cup {a}
        /\ \A q \in Instance \ {p} : Committed(q)' = Committed(q)
    BY <1>3, NoneIsNew DEF StartInitialize, Committed, Initializing, Placed, TypeOK
  <2>2. Cardinality(Live(p)) + Cardinality(Pending(p)) < MaxSessions
    BY <1>3 DEF StartInitialize, SlotsConserved
  <2> QED BY <1>2, <1>3, <2>1, <2>2 DEF StartInitialize
<1>4. ASSUME NEW a \in Attempt, NEW s \in Attempt, NEW p \in Instance, StartResume(a, p, s)
      PROVE  Room'
  <2>1. \A q \in Instance : Committed(q)' \subseteq Committed(q)
    BY <1>4 DEF StartResume, Committed, Initializing, TypeOK
  <2> QED BY <1>1, <1>4, <2>1 DEF StartResume
<1>5. ASSUME NEW a \in Attempt, NEW st \in InProgress, Moves(a, st) PROVE Room'
  <2>1. CASE st # "replay"
    <3>1. \A q \in Instance : Committed(q)' \subseteq Committed(q)
      BY <1>5, <2>1 DEF Moves, Committed, Initializing, TypeOK
    <3> QED BY <1>1, <1>5, <3>1 DEF Moves
  <2>2. CASE st = "replay"
    <3>1. MayResume(a) /\ stage[a] \in InProgress
      BY <1>5, <2>2 DEF Moves, MayResume, InProgress
    <3>2. PICK p \in Instance : p = inst[a]
      BY <3>1, HasSlot
    <3>3. a \in Pending(p) /\ Cardinality(Live(p)) + Cardinality(Pending(p)) <= MaxSessions
      BY <3>1, <3>2 DEF MayResume, Pending, SlotsConserved
    <3>4. /\ Committed(p)' \subseteq Committed(p) \cup {a}
          /\ \A q \in Instance \ {p} : Committed(q)' = Committed(q)
      BY <1>5, <3>2 DEF Moves, Committed, Initializing, TypeOK
    <3>5. UNCHANGED sessions
      BY <1>5 DEF Moves
    <3> QED BY <1>2, <3>3, <3>4, <3>5
  <2> QED BY <2>1, <2>2
<1>6. ASSUME NEW a \in Attempt, Admits(a) PROVE Room'
  <2>1. PICK p \in Instance, s \in Attempt : p = inst[a] /\ s = id[a] /\ sessions[p][s] = None
    BY <1>6, PlaceIsFree DEF Admits
  <2>2. /\ Live(p)' = Live(p) \cup {s} /\ s \notin Live(p)
        /\ \A q \in Instance \ {p} : Live(q)' = Live(q)
    BY <1>6, <2>1, NoneIsNew DEF Admits, Admit, Live, TypeOK
  <2>3. /\ Committed(p)' = Committed(p) \ {a} /\ a \in Committed(p)
        /\ \A q \in Instance \ {p} : Committed(q)' = Committed(q)
    BY <1>6, <2>1 DEF Admits, Admit, Committed, Initializing, TypeOK
  <2>4. IsFiniteSet(Live(p)) /\ IsFiniteSet(Committed(p))
    BY CommittedPending, Countable
  <2>5. Cardinality(Live(p)') = Cardinality(Live(p)) + 1
    BY <2>2, <2>4, FS_AddElement
  <2>6. Cardinality(Committed(p)') = Cardinality(Committed(p)) - 1
    BY <2>3, <2>4, FS_RemoveElement
  <2>7. Cardinality(Live(p)') + Cardinality(Committed(p)') <= MaxSessions
    BY <2>5, <2>6, CommittedPending, LimitIsNat DEF Room
  <2> QED BY <2>2, <2>3, <2>7 DEF Room
<1>7. ASSUME NEW a \in Attempt, Finishes(a) PROVE Room'
  <2>1. \A q \in Instance : Committed(q)' \subseteq Committed(q)
    BY <1>7 DEF Finishes, Finish, Committed, Initializing, TypeOK
  <2> QED BY <1>1, <1>7, <2>1 DEF Finishes
<1>8. ASSUME UNCHANGED <<stage, inst>>, \A q \in Instance : Live(q)' \subseteq Live(q)
      PROVE  Room'
  <2>1. \A q \in Instance : Committed(q)' = Committed(q)
    BY <1>8 DEF Committed
  <2>2. \A q \in Instance :
          Cardinality(Live(q)') <= Cardinality(Live(q)) /\ Cardinality(Live(q)') \in Nat
    BY <1>8, CommittedPending, Countable, FS_Subset
  <2> QED BY <2>1, <2>2, LimitIsNat, CommittedPending DEF Room
<1>9. ASSUME NEW p \in Instance, NEW S \in SUBSET Attempt, NEW keep \in BOOLEAN, Ends(p, S, keep)
      PROVE  Room'
  <2>1. \A q \in Instance : Live(q)' \subseteq Live(q)
    BY <1>9 DEF Ends, Destroy, Live, TypeOK
  <2> QED BY <1>8, <1>9, <2>1 DEF Ends
<1>10. ASSUME NEW p \in Instance, Restart(p) PROVE Room'
  <2>1. Live(p)' = {} /\ Committed(p)' = {}
    BY <1>10, NoneIsNew DEF Restart, Live, Committed, Initializing, TypeOK
  <2>2. \A q \in Instance \ {p} : Live(q)' = Live(q) /\ Committed(q)' = Committed(q)
    BY <1>10, NoneIsNew DEF Restart, Live, Committed, Initializing, TypeOK
  <2> QED BY <2>1, <2>2, FS_EmptySet, LimitIsNat DEF Room
<1>11. ASSUME Elsewhere \/ \E a \in Attempt : TeardownStep(a) PROVE Room'
  <2>1. \A q \in Instance : Committed(q)' = Committed(q)
    BY <1>11 DEF Elsewhere, TeardownStep, RegistryDeleted, HookSettled, attemptVars, Committed
  <2> QED BY <1>1, <1>11, <2>1 DEF Elsewhere, TeardownStep, RegistryDeleted, HookSettled
<1> QED BY <1>3, <1>4, <1>5, <1>6, <1>7, <1>9, <1>10, <1>11, StepKinds DEF Kinds

---------------------------------------------------------------------------
(***************************************************************************)
(* The theorems.                                                           *)
(***************************************************************************)
LEMMA IInvInit == Init => IInv
<1> SUFFICES ASSUME Init PROVE IInv
  OBVIOUS
<1> USE DEF Init
<1>1. TypeOK
  BY DEF TypeOK, Stage
<1>2. Placed /\ Fresh /\ Alone /\ Held /\ Hooked
  BY DEF Placed, Fresh, Alone, Held, Hooked, Initializing, Resuming, Looking, InProgress
<1>3. Unbuilt /\ NoLeakedServer
  BY DEF Unbuilt, NoLeakedServer
<1>4. \A p \in Instance : Live(p) = {} /\ Pending(p) = {} /\ Committed(p) = {}
  BY DEF Live, Pending, Committed, Initializing, InProgress
<1>5. SlotsConserved /\ Room
  <2>1. Cardinality({}) = 0
    BY FS_EmptySet
  <2>2. \A p \in Instance : pendingSessions[p] = 0
    OBVIOUS
  <2> HIDE DEF Init
  <2>3. SlotsConserved
    BY <1>4, <2>1, <2>2 DEF SlotsConserved
  <2>4. Room
    BY <1>4, <2>1, LimitIsNat DEF Room
  <2> QED BY <2>3, <2>4
<1> QED BY <1>1, <1>2, <1>3, <1>5 DEF IInv

LEMMA IInvStep == IInv /\ [Next]_vars => IInv'
<1> SUFFICES ASSUME IInv, [Next]_vars PROVE IInv'
  OBVIOUS
<1> USE DEF IInv
<1>1. TypeOK' /\ Placed' /\ Fresh' /\ Alone' /\ Held'
  BY TypeStep, PlacedStep, FreshStep, AloneStep, HeldStep
<1>2. Hooked' /\ Unbuilt' /\ NoLeakedServer' /\ SlotsConserved' /\ Room'
  BY HookedStep, UnbuiltStep, NoLeakStep, SlotsStep, RoomStep
<1> QED BY <1>1, <1>2

\* The invariant holds, for any attempts, processes and options.
THEOREM IInvHolds == Spec => []IInv
BY IInvInit, IInvStep, PTL DEF Spec

\* Every variable of the session life cycle keeps its type (startHttpProxy).
THEOREM TypeCorrect == Spec => []TypeOK
BY IInvHolds, PTL DEF IInv

\* pendingSessions counts the attempts under way, on every way out of an initialize or a
\* resume, failures and restarts included (core.ts, the `finally` blocks).
THEOREM SlotsConservedHolds == Spec => []SlotsConserved
BY IInvHolds, PTL DEF IInv

\* However many initializes and resumes are under way, no process holds more sessions than
\* maxSessions (core.ts, the checks before identity resolution and after the lookup).
THEOREM SessionLimitHolds == Spec => []SessionLimit
<1>1. IInv => SessionLimit
  BY CommittedPending, LimitIsNat DEF IInv, Room, SessionLimit
<1> QED BY <1>1, IInvHolds, PTL

\* No connected proxy server is left behind (core.ts, the `finally` blocks, destroySession).
THEOREM NoLeakedServerHolds == Spec => []NoLeakedServer
BY IInvHolds, PTL DEF IInv

\* onSessionClosed is called at most once for a session and not while it is live, when
\* DELETE, TTL and shutdown meet (destroySession).
THEOREM OneHookPerSessionHolds == Spec => []OneHookPerSession
<1>1. IInv => OneHookPerSession
  <2> SUFFICES ASSUME IInv, NEW a \in Attempt
               PROVE  /\ hooks[a] <= 1
                      /\ inst[a] # None /\ sessions[inst[a]][id[a]] = a => hooks[a] = 0
    BY DEF OneHookPerSession
  <2>1. hooks[a] <= 1
    BY DEF IInv, Hooked
  <2>2. ASSUME inst[a] # None, sessions[inst[a]][id[a]] = a PROVE hooks[a] = 0
    <3>1. inst[a] \in Instance /\ id[a] \in Attempt /\ a # None
      BY <2>2, NoneIsNew DEF IInv, TypeOK, Placed
    <3>2. teardown[a] = "none"
      BY <2>2, <3>1 DEF IInv, Held
    <3> QED BY <3>2 DEF IInv, Hooked
  <2> QED BY <2>1, <2>2
<1> QED BY <1>1, IInvHolds, PTL

\* No step puts a session in the place of a live one, on any process (admitSession).
THEOREM NeverReplacedHolds == Spec => NeverReplaced
<1> DEFINE Kept == \A p \in Instance, s \in Attempt :
                     sessions[p][s] # None => sessions'[p][s] \in {sessions[p][s], None}
<1>1. ASSUME IInv, [Next]_vars PROVE Kept
  <2> USE DEF IInv
  <2>1. ASSUME NEW a \in Attempt, Admits(a) PROVE Kept
    <3>1. /\ inst[a] \in Instance /\ id[a] \in Attempt
          /\ sessions[inst[a]][id[a]] = None
      BY <1>1, <2>1, PlaceIsFree DEF Admits
    <3> QED BY <1>1, <2>1, <3>1 DEF TypeOK, Admits, Admit
  <2>2. ASSUME NEW p \in Instance, NEW S \in SUBSET Attempt, NEW keep \in BOOLEAN,
               Ends(p, S, keep)
        PROVE  Kept
    BY <1>1, <2>2 DEF TypeOK, Ends, Destroy
  <2>3. ASSUME NEW p \in Instance, Restart(p) PROVE Kept
    BY <1>1, <2>3 DEF TypeOK, Restart
  <2>4. ASSUME UNCHANGED sessions PROVE Kept
    BY <2>4
  <2>5. ASSUME \/ \E a \in Attempt, p \in Instance : StartInitialize(a, p)
               \/ \E a, s \in Attempt, p \in Instance : StartResume(a, p, s)
               \/ \E a \in Attempt : \E st \in InProgress : Moves(a, st)
               \/ \E a \in Attempt : Finishes(a) \/ TeardownStep(a)
               \/ Elsewhere
        PROVE  UNCHANGED sessions
    BY <2>5 DEF StartInitialize, StartResume, Moves, Finishes, TeardownStep, RegistryDeleted,
                HookSettled, Elsewhere
  <2> HIDE DEF IInv, Kept
  <2> QED BY <1>1, <2>1, <2>2, <2>3, <2>4, <2>5, StepKinds DEF Kinds, IInv
<1>2. ASSUME IInv, [Next]_vars PROVE [Kept]_vars
  BY <1>1, <1>2
<1> QED BY <1>2, IInvHolds, PTL DEF Spec, NeverReplaced

=============================================================================
