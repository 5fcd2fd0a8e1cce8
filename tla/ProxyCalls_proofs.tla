------------------------- MODULE ProxyCalls_proofs -------------------------
(***************************************************************************)
(* Theorems about ProxyCalls, for any calls, sessions, configurations and  *)
(* pipelines.                                                              *)
(***************************************************************************)
EXTENDS ProxyCalls, FiniteSetTheorems, TLAPS

(***************************************************************************)
(* The inductive invariant, in parts.                                      *)
(***************************************************************************)
\* A frame that is at work between two awaits or waits for anything but next.
Active == {"running", "asking", "true", "false", "truthy", "calling", "local"}
Status == Active \cup {"idle", "awaiting", "done"}

\* The last position dispatched is the deepest one: below it everything is idle, only it
\* may be at work, and who waits for next is above it.
Frames ==
  /\ index \in [Call -> Int] /\ frame \in [Call -> [Position -> Status]]
  /\ \A c \in Call :
       /\ index[c] >= -1
       /\ \A j \in Position :
            /\ j > index[c] => frame[c][j] = "idle"
            /\ frame[c][j] \in Active => index[c] = j
            /\ frame[c][j] = "awaiting" => index[c] > j

\* What is kept per call is kept for every call.
Domains ==
  /\ DOMAIN req = Call /\ DOMAIN pipeline = Call /\ DOMAIN policy = Call
  /\ DOMAIN sent = Call /\ DOMAIN telemetry = Call /\ DOMAIN audited = Call
  /\ DOMAIN result = Call /\ \A c \in Call : DOMAIN result[c] = Position
  /\ settled \in [Call -> BOOLEAN]

\* The pipeline is chosen when the handler starts, for the request that came in.
Chosen ==
  \A c \in Call :
    IF index[c] = -1 THEN pipeline[c] = None
    ELSE pipeline[c] = PipelineFor(req[c]) /\ req[c] # None

\* What went upstream was sent from the end of the pipeline, which has left its first
\* state for good.
SentOnce ==
  \A c \in Call :
    \/ sent[c] = <<>>
    \/ /\ Len(sent[c]) = 1
       /\ \E j \in Position : /\ index[c] = j /\ Middleware(c, j) = "terminal"
                             /\ frame[c][j] \in {"calling", "done"}

\* A policy gate that was passed allowed the call, unless a later one refused it, which
\* then is the deepest position for good.
PolicyPassed ==
  \A c \in Call, j \in Position :
    j < index[c] /\ Middleware(c, j) = "policy" =>
      \/ Counted(c)
      \/ \E k \in Position : /\ index[c] = k /\ Middleware(c, k) = "policy"
                            /\ frame[c][k] = "done"

\* A consent gate that was passed saw a yes in the host's record.
ConsentPassed ==
  \A c \in Call, j \in Position :
    /\ frame[c][j] = "true" => c \in sawConsent
    /\ j < index[c] /\ Middleware(c, j) = "consent" => c \in sawConsent

---------------------------------------------------------------------------
(***************************************************************************)
(* How a step moves the frames of a call.                                  *)
(***************************************************************************)
Marks(c, i, status) ==
  /\ status \in Active
  /\ frame[c][i] \in Active
  /\ frame' = [frame EXCEPT ![c][i] = status]
  /\ UNCHANGED index

Ends(c, i) ==
  /\ frame[c][i] # "idle"
  /\ frame' = [frame EXCEPT ![c][i] = "done"]
  /\ UNCHANGED index

Descends(c, i) ==
  /\ frame[c][i] # "idle"
  /\ i + 1 > index[c]
  /\ index' = [index EXCEPT ![c] = i + 1]
  /\ frame' = [frame EXCEPT ![c][i] = IF @ = "done" THEN "done" ELSE "awaiting",
                            ![c][i + 1] = "running"]

\* compose (middleware.ts:45-57): next either goes down by one position or rejects.
LEMMA CallNextMoves ==
  ASSUME Frames, NEW c \in Call, NEW i \in Position, frame[c][i] # "idle", CallNext(c, i)
  PROVE  Descends(c, i) \/ Ends(c, i)
<1>1. CASE AlreadyDispatched(c, i + 1)
  BY <1>1 DEF CallNext, End, Ends
<1>2. CASE ~AlreadyDispatched(c, i + 1)
  BY <1>2, DepthAssumption DEF CallNext, AlreadyDispatched, Descends, Frames, Position
<1> QED BY <1>1, <1>2

\* What a descent makes of each frame.
LEMMA DescendsTo ==
  ASSUME Frames, NEW c \in Call, NEW i \in Position, Descends(c, i)
  PROVE  /\ index[c] = i
         /\ index' \in [Call -> Int] /\ index'[c] = i + 1
         /\ \A d \in Call \ {c} : index'[d] = index[d] /\ frame'[d] = frame[d]
         /\ frame' \in [Call -> [Position -> Status]]
         /\ frame'[c][i] \in {"done", "awaiting"}
         /\ frame[c][i] = "done" => frame'[c][i] = "done"
         /\ i + 1 \in Position => frame'[c][i + 1] = "running"
         /\ \A j \in Position \ {i, i + 1} : frame'[c][j] = frame[c][j]
<1>1. i \in Int /\ index[c] \in Int
  BY DepthAssumption DEF Frames, Position
<1>2. ~(i > index[c])
  BY DEF Frames, Descends
<1>3. index[c] = i
  BY <1>1, <1>2 DEF Descends
<1> DEFINE up == IF frame[c][i] = "done" THEN "done" ELSE "awaiting"
           g == [frame[c] EXCEPT ![i] = up]
           h == [g EXCEPT ![i + 1] = "running"]
<1>4. frame' = [frame EXCEPT ![c] = h]
  BY DEF Descends, Frames
<1>5. frame[c] \in [Position -> Status] /\ up \in Status
  BY DEF Frames, Status
<1> HIDE DEF up
<1>6. g \in [Position -> Status]
  BY <1>5
<1>7. h \in [Position -> Status]
  BY <1>6 DEF Status, Active
<1>8. frame'[c] = h /\ frame' \in [Call -> [Position -> Status]]
  BY <1>4, <1>7 DEF Frames
<1>9. h[i] = up /\ (i + 1 \in Position => h[i + 1] = "running")
  BY <1>1, <1>5, <1>6
<1>10. \A j \in Position \ {i, i + 1} : h[j] = frame[c][j]
  BY <1>5, <1>6
<1>11. \A d \in Call \ {c} : frame'[d] = frame[d]
  BY <1>4 DEF Frames
<1>12. /\ index' \in [Call -> Int] /\ index'[c] = i + 1
       /\ \A d \in Call \ {c} : index'[d] = index[d]
  BY <1>1 DEF Descends, Frames
<1> QED BY <1>3, <1>8, <1>9, <1>10, <1>11, <1>12 DEF up

\* The frame invariant under each kind of move.
LEMMA FramesMarks ==
  ASSUME Frames, NEW c \in Call, NEW i \in Position, NEW status, Marks(c, i, status)
  PROVE  Frames'
<1>1. index' = index /\ frame' \in [Call -> [Position -> Status]] /\ status # "idle"
  BY DEF Marks, Frames, Status, Active
<1>2. \A d \in Call, j \in Position :
        frame'[d][j] = IF d = c /\ j = i THEN status ELSE frame[d][j]
  BY DEF Marks, Frames
<1>3. index[c] = i
  BY DEF Marks, Frames
<1>4. status # "awaiting"
  BY DEF Active, Marks
<1> QED BY <1>1, <1>2, <1>3, <1>4 DEF Frames, Position

\* The same for a middleware that ends.
LEMMA FramesEnds ==
  ASSUME Frames, NEW c \in Call, NEW i \in Position, Ends(c, i)
  PROVE  Frames'
<1>1. index' = index /\ frame' \in [Call -> [Position -> Status]]
  BY DEF Ends, Frames, Status
<1>2. \A d \in Call, j \in Position :
        frame'[d][j] = IF d = c /\ j = i THEN "done" ELSE frame[d][j]
  BY DEF Ends, Frames
<1>3. ~(i > index[c])
  BY DEF Ends, Frames
<1>4. "done" \notin Active /\ "done" # "awaiting"
  BY DEF Active
<1> QED BY <1>1, <1>2, <1>3, <1>4 DEF Frames

\* The same for one that calls next.
LEMMA FramesDescends ==
  ASSUME Frames, NEW c \in Call, NEW i \in Position, Descends(c, i)
  PROVE  Frames'
<1>1. i \in Int /\ Position \subseteq Int
  BY DepthAssumption DEF Position
<1>2. ASSUME NEW d \in Call \ {c} PROVE
        /\ index'[d] >= -1
        /\ \A j \in Position :
             /\ j > index'[d] => frame'[d][j] = "idle"
             /\ frame'[d][j] \in Active => index'[d] = j
             /\ frame'[d][j] = "awaiting" => index'[d] > j
  BY <1>2, DescendsTo DEF Frames
<1>3. ASSUME NEW j \in Position PROVE
        /\ j > index'[c] => frame'[c][j] = "idle"
        /\ frame'[c][j] \in Active => index'[c] = j
        /\ frame'[c][j] = "awaiting" => index'[c] > j
  <2>1. CASE j = i
    BY <1>1, <2>1, DescendsTo DEF Active
  <2>2. CASE j = i + 1
    BY <1>1, <2>2, DescendsTo DEF Active
  <2>3. CASE j \notin {i, i + 1}
    BY <1>1, <2>3, DescendsTo DEF Frames
  <2> QED BY <2>1, <2>2, <2>3
<1>4. index'[c] >= -1
  BY <1>1, DescendsTo DEF Position
<1> QED BY <1>2, <1>3, <1>4, DescendsTo DEF Frames

\* What the policy engine decides (policy/src/index.ts:293-354) is an allow or a denial
\* with a reason.
LEMMA EvaluateDecides ==
  ASSUME NEW p, NEW name, NEW identity
  PROVE  LET d == Evaluate(p, name, identity) IN
         \/ d.decision = "allow"
         \/ d.decision = "deny" /\ d.reason \in RejectionReason
BY DEF Evaluate, Deny, Allow, RejectionReason

\* Every action of a middleware or of the terminal handler is one move of its frame.  It
\* passes a policy gate only with an allow, a consent gate only on a yes, and what is at
\* the end of the pipeline starts once and never calls next.
LEMMA StepMoves ==
  ASSUME Frames, Domains, NEW c \in Call, NEW i \in Position,
         GateStep(c, i) \/ ObserverStep(c, i) \/ TerminalStep(c, i)
  PROVE  /\ UNCHANGED <<config, requestVars, sessionVars, released>>
         /\ sawConsent \subseteq sawConsent'
         /\ \/ \E status : /\ Marks(c, i, status)
                           /\ status = "true" => c \in sawConsent'
                           /\ Middleware(c, i) = "terminal" => frame[c][i] = "running"
            \/ Ends(c, i)
            \/ /\ Descends(c, i)
               /\ Middleware(c, i) # "terminal"
               /\ Middleware(c, i) = "consent" => frame[c][i] = "true"
               /\ Middleware(c, i) = "policy" => Counted(c)'
<1> USE DEF At, requestVars, sessionVars, sharedVars, budgetVars, hostVars, Active
<1>1. CASE PolicyGate(c, i)
  <2>1. frame[c][i] # "idle"
    BY <1>1 DEF PolicyGate
  <2> DEFINE d == Evaluate(config.policy, req[c].name, req[c].identity)
  <2>2. d.decision = "allow" \/ d.decision = "deny"
    BY EvaluateDecides
  <2> HIDE DEF d
  <2>3. CASE \E e : Refuse(c, i, e)
    BY <1>1, <2>1, <2>3 DEF PolicyGate, Refuse, End, Ends
  <2>4. CASE d.decision # "deny" /\ policy' = [policy EXCEPT ![c] = d] /\ CallNext(c, i)
    <3>1. Counted(c)'
      BY <2>2, <2>4 DEF Counted, Domains
    <3>2. Descends(c, i) \/ Ends(c, i)
      BY <2>1, <2>4, CallNextMoves
    <3>3. Middleware(c, i) \notin {"consent", "terminal"}
      BY <1>1 DEF PolicyGate
    <3> QED BY <1>1, <3>1, <3>2, <3>3 DEF PolicyGate
  <2> QED BY <1>1, <2>3, <2>4 DEF PolicyGate, d
<1>2. CASE ConsentAsked(c, i)
  <2>1. Ends(c, i) \/ Marks(c, i, "asking")
    BY <1>2 DEF ConsentAsked, End, Ends, Marks
  <2> QED BY <1>2, <2>1 DEF ConsentAsked
<1>3. ASSUME NEW answer \in {"true", "false", "truthy"}, ConsentResolved(c, i, answer)
      PROVE  /\ Marks(c, i, answer)
             /\ answer = "true" => c \in sawConsent'
             /\ Middleware(c, i) # "terminal"
             /\ UNCHANGED <<config, requestVars, sessionVars, released>>
             /\ sawConsent \subseteq sawConsent'
  BY <1>3 DEF ConsentResolved, Marks
<1>4. ASSUME NEW answer \in {"true", "false", "truthy"}, ConsentGate(c, i, answer)
      PROVE  /\ Ends(c, i) \/ (Descends(c, i) /\ frame[c][i] = "true")
             /\ Middleware(c, i) \notin {"policy", "terminal"}
             /\ UNCHANGED <<config, requestVars, sharedVars>>
  <2>1. frame[c][i] # "idle" /\ frame[c][i] = answer /\ Middleware(c, i) = "consent"
    BY <1>4 DEF ConsentGate
  <2>2. CASE answer = "true"
    BY <1>4, <2>1, <2>2, CallNextMoves DEF ConsentGate
  <2>3. CASE answer # "true"
    BY <1>4, <2>1, <2>3 DEF ConsentGate, End, Ends
  <2> QED BY <1>4, <2>1, <2>2, <2>3 DEF ConsentGate
<1>5. CASE ConsentUnavailable(c, i)
  BY <1>5 DEF ConsentUnavailable, End, Ends
<1>6. CASE GateReturns(c, i)
  BY <1>6 DEF GateReturns, PassOn, End, Ends
<1>7. CASE AuditEnters(c, i)
  <2>1. frame[c][i] # "idle" /\ Middleware(c, i) = "audit"
    BY <1>7 DEF AuditEnters
  <2> QED BY <1>7, <2>1, CallNextMoves DEF AuditEnters
<1>8. CASE AuditReturns(c, i)
  BY <1>8 DEF AuditReturns, PassOn, End, Ends
<1>9. CASE HostCallsNext(c, i)
  <2>1. frame[c][i] # "idle" /\ Middleware(c, i) = "host"
    BY <1>9 DEF HostCallsNext
  <2> QED BY <1>9, <2>1, CallNextMoves DEF HostCallsNext
<1>10. ASSUME NEW r, HostAnswers(c, i, r)
       PROVE  Ends(c, i) /\ UNCHANGED <<config, requestVars, sharedVars>>
  BY <1>10 DEF HostAnswers, End, Ends
<1>11. CASE HostReturns(c, i)
  BY <1>11 DEF HostReturns, PassOn, End, Ends
<1>12. CASE Refused(c, i)
  BY <1>12 DEF Refused, End, Ends
<1>13. CASE Forward(c, i)
  <2>1. Marks(c, i, "calling")
    BY <1>13 DEF Forward, Marks
  <2> QED BY <1>13, <2>1 DEF Forward
<1>14. CASE RunLocal(c, i)
  <2>1. Marks(c, i, "local")
    BY <1>14 DEF RunLocal, Marks
  <2> QED BY <1>14, <2>1 DEF RunLocal
<1>15. ASSUME NEW r, Answers(c, i, r)
       PROVE  Ends(c, i) /\ UNCHANGED <<config, requestVars, sharedVars>>
  BY <1>15 DEF Answers, End, Ends
<1>16. CASE GateStep(c, i)
  BY <1>1, <1>2, <1>3, <1>4, <1>5, <1>6, <1>16 DEF GateStep
<1>17. CASE ObserverStep(c, i)
  BY <1>7, <1>8, <1>9, <1>10, <1>11, <1>17 DEF ObserverStep
<1>18. CASE TerminalStep(c, i)
  BY <1>12, <1>13, <1>14, <1>15, <1>18 DEF TerminalStep
<1> QED BY <1>16, <1>17, <1>18

\* A step of the whole system, by what it means for the frames.
LEMMA NextMoves ==
  ASSUME Frames, Domains, [Next]_vars
  PROVE  \/ \E c \in Call, i \in Position :
              GateStep(c, i) \/ ObserverStep(c, i) \/ TerminalStep(c, i)
         \/ \E c \in Call : Handle(c)
         \/ \E c \in Call : \E r, p : Ask(c, r, p)
         \/ \E c \in Call : Settle(c)
         \/ \E pair : ConsentWithdrawn(pair)
         \/ \E s \in Session : SessionEnds(s)
         \/ UNCHANGED vars
<1>1. ASSUME NEW c \in Call, NEW r \in config.requests, ClientAsks(c, r)
      PROVE  \E p : Ask(c, r, p)
  BY <1>1 DEF ClientAsks
<1>2. ASSUME NEW c \in Call, NEW r \in config.requests, NEW p \in Call, AgentAsks(c, p, r)
      PROVE  \E q : Ask(c, q, p)
  BY <1>2 DEF AgentAsks
<1> QED BY <1>1, <1>2 DEF Next

\* No step loses a call's entry.
LEMMA DomainsStep ==
  ASSUME Frames, Domains, [Next]_vars
  PROVE  Domains'
<1> USE DEF Domains, vars, callVars, requestVars, reportVars
<1>1. ASSUME NEW c \in Call, NEW i \in Position, NEW r, End(c, i, r)
      PROVE  DOMAIN result' = Call /\ \A d \in Call : DOMAIN result'[d] = Position
  BY <1>1 DEF End
<1>2. ASSUME NEW c \in Call, NEW i \in Position, CallNext(c, i)
      PROVE  DOMAIN result' = Call /\ \A d \in Call : DOMAIN result'[d] = Position
  BY <1>1, <1>2 DEF CallNext
<1>3. ASSUME NEW c \in Call, NEW i \in Position, GateStep(c, i)
      PROVE  Domains'
  <2>1. CASE PolicyGate(c, i)
    <3>1. \/ \E d : Refuse(c, i, d)
          \/ CallNext(c, i) /\ \E d : policy' = [policy EXCEPT ![c] = d]
      BY <2>1 DEF PolicyGate
    <3>2. DOMAIN result' = Call /\ \A d \in Call : DOMAIN result'[d] = Position
      BY <1>1, <1>2, <3>1 DEF Refuse
    <3>3. DOMAIN policy' = Call
      BY <3>1 DEF Refuse
    <3> QED BY <2>1, <3>2, <3>3 DEF PolicyGate
  <2>2. CASE ConsentAsked(c, i) \/ ConsentUnavailable(c, i)
    BY <1>1, <2>2 DEF ConsentAsked, ConsentUnavailable
  <2>3. ASSUME NEW answer, ConsentResolved(c, i, answer) PROVE Domains'
    BY <2>3 DEF ConsentResolved
  <2>4. ASSUME NEW answer, ConsentGate(c, i, answer) PROVE Domains'
    BY <1>1, <1>2, <2>4 DEF ConsentGate
  <2>5. CASE GateReturns(c, i)
    BY <1>1, <2>5 DEF GateReturns, PassOn
  <2> QED BY <1>3, <2>1, <2>2, <2>3, <2>4, <2>5 DEF GateStep
<1>4. ASSUME NEW c \in Call, NEW i \in Position, ObserverStep(c, i)
      PROVE  Domains'
  <2>1. CASE AuditEnters(c, i) \/ HostCallsNext(c, i)
    BY <1>2, <2>1 DEF AuditEnters, HostCallsNext
  <2>2. CASE AuditReturns(c, i)
    BY <1>1, <2>2 DEF AuditReturns, PassOn
  <2>3. CASE HostReturns(c, i)
    BY <1>1, <2>3 DEF HostReturns, PassOn
  <2>4. ASSUME NEW r, HostAnswers(c, i, r) PROVE Domains'
    BY <1>1, <2>4 DEF HostAnswers
  <2> QED BY <1>4, <2>1, <2>2, <2>3, <2>4 DEF ObserverStep
<1>5. ASSUME NEW c \in Call, NEW i \in Position, TerminalStep(c, i)
      PROVE  Domains'
  <2>1. CASE Refused(c, i)
    BY <1>1, <2>1 DEF Refused
  <2>2. CASE Forward(c, i) \/ RunLocal(c, i)
    BY <2>2 DEF Forward, RunLocal
  <2>3. ASSUME NEW r, Answers(c, i, r) PROVE Domains'
    BY <1>1, <2>3 DEF Answers
  <2> QED BY <1>5, <2>1, <2>2, <2>3 DEF TerminalStep
<1>6. ASSUME NEW c \in Call, Handle(c) PROVE Domains'
  BY <1>6 DEF Handle
<1>7. ASSUME NEW c \in Call, NEW r, NEW p, Ask(c, r, p) PROVE Domains'
  BY <1>7 DEF Ask
<1>8. ASSUME NEW c \in Call, Settle(c) PROVE Domains'
  BY <1>8 DEF Settle
<1>9. ASSUME NEW pair, ConsentWithdrawn(pair) PROVE Domains'
  BY <1>9 DEF ConsentWithdrawn
<1>10. ASSUME NEW s \in Session, SessionEnds(s) PROVE Domains'
  BY <1>10 DEF SessionEnds
<1>11. CASE UNCHANGED vars
  BY <1>11
<1> QED BY <1>3, <1>4, <1>5, <1>6, <1>7, <1>8, <1>9, <1>10, <1>11, NextMoves

\* The frame invariant is kept by every step.
LEMMA FramesStep ==
  ASSUME Frames, Domains, [Next]_vars
  PROVE  Frames'
<1>1. ASSUME NEW c \in Call, NEW i \in Position,
             GateStep(c, i) \/ ObserverStep(c, i) \/ TerminalStep(c, i)
      PROVE  Frames'
  BY <1>1, StepMoves, FramesMarks, FramesEnds, FramesDescends
<1>2. ASSUME NEW c \in Call, Handle(c) PROVE Frames'
  <2>1. 0 \in Position /\ Position \subseteq Nat
    BY DepthAssumption DEF Position
  <2>2. CASE UNCHANGED <<index, frame>>
    BY <2>2 DEF Frames
  <2>3. CASE /\ index' = [index EXCEPT ![c] = 0]
             /\ frame' = [frame EXCEPT ![c][0] = "running"]
    <3>1. index[c] = -1
      BY <1>2 DEF Handle
    <3>2. \A j \in Position : frame[c][j] = "idle"
      BY <2>1, <3>1 DEF Frames
    <3>3. /\ index' \in [Call -> Int] /\ frame' \in [Call -> [Position -> Status]]
          /\ \A d \in Call, j \in Position :
               /\ index'[d] = IF d = c THEN 0 ELSE index[d]
               /\ frame'[d][j] = IF d = c /\ j = 0 THEN "running" ELSE frame[d][j]
      BY <2>1, <2>3 DEF Frames, Status, Active
    <3>4. "running" # "awaiting" /\ "idle" \notin Active
      BY DEF Active
    <3> QED BY <2>1, <3>2, <3>3, <3>4 DEF Frames
  <2> QED BY <1>2, <2>2, <2>3 DEF Handle
<1>3. ASSUME UNCHANGED <<index, frame>> PROVE Frames'
  BY <1>3 DEF Frames
<1>4. ASSUME NEW c \in Call, NEW r, NEW p, Ask(c, r, p) PROVE Frames'
  BY <1>3, <1>4 DEF Ask
<1>5. ASSUME NEW c \in Call, Settle(c) PROVE Frames'
  BY <1>3, <1>5 DEF Settle
<1>6. ASSUME NEW pair, ConsentWithdrawn(pair) PROVE Frames'
  BY <1>3, <1>6 DEF ConsentWithdrawn, callVars
<1>7. ASSUME NEW s \in Session, SessionEnds(s) PROVE Frames'
  BY <1>3, <1>7 DEF SessionEnds, callVars
<1>8. CASE UNCHANGED vars
  BY <1>3, <1>8 DEF vars, callVars
<1> QED BY <1>1, <1>2, <1>4, <1>5, <1>6, <1>7, <1>8, NextMoves

\* A middleware writes only what belongs to its own call, and of that the policy decision
\* only at a policy gate and what went upstream only at the end of the pipeline.
LEMMA StepWrites ==
  ASSUME Frames, Domains, NEW c \in Call, NEW i \in Position,
         GateStep(c, i) \/ ObserverStep(c, i) \/ TerminalStep(c, i)
  PROVE  /\ UNCHANGED telemetry /\ UNCHANGED settled
         /\ \A d \in Call \ {c} : policy'[d] = policy[d] /\ sent'[d] = sent[d]
         /\ sent' = sent \/ Forward(c, i)
         /\ (policy' = policy /\ callCounts' = callCounts) \/ PolicyGate(c, i)
<1> USE DEF requestVars, reportVars, sharedVars, budgetVars, Domains
<1>1. CASE PolicyGate(c, i)
  BY <1>1 DEF PolicyGate, Refuse
<1>2. CASE ConsentAsked(c, i) \/ ConsentUnavailable(c, i) \/ GateReturns(c, i)
  BY <1>2 DEF ConsentAsked, ConsentUnavailable, GateReturns
<1>3. ASSUME NEW answer, ConsentResolved(c, i, answer) \/ ConsentGate(c, i, answer)
      PROVE  UNCHANGED <<telemetry, settled, policy, sent, callCounts>>
  BY <1>3 DEF ConsentResolved, ConsentGate
<1>4. CASE AuditEnters(c, i) \/ AuditReturns(c, i) \/ HostCallsNext(c, i) \/ HostReturns(c, i)
  BY <1>4 DEF AuditEnters, AuditReturns, HostCallsNext, HostReturns
<1>5. ASSUME NEW r, HostAnswers(c, i, r) PROVE UNCHANGED <<telemetry, settled, policy, sent, callCounts>>
  BY <1>5 DEF HostAnswers
<1>6. CASE Refused(c, i) \/ RunLocal(c, i)
  BY <1>6 DEF Refused, RunLocal
<1>7. CASE Forward(c, i)
  BY <1>7 DEF Forward
<1>8. ASSUME NEW r, Answers(c, i, r) PROVE UNCHANGED <<telemetry, settled, policy, sent, callCounts>>
  BY <1>8 DEF Answers
<1>9. CASE GateStep(c, i)
  BY <1>1, <1>2, <1>3, <1>9 DEF GateStep
<1>10. CASE ObserverStep(c, i)
  BY <1>4, <1>5, <1>10 DEF ObserverStep
<1>11. CASE TerminalStep(c, i)
  BY <1>6, <1>7, <1>8, <1>11 DEF TerminalStep
<1> QED BY <1>9, <1>10, <1>11

---------------------------------------------------------------------------
(***************************************************************************)
(* The pipeline.                                                           *)
(***************************************************************************)
\* The options are those the proxy was built with, and were accepted.
ConfigOK == config \in Configuration /\ Accepted(config.policy)

\* No step changes the options.
LEMMA ConfigStep ==
  ASSUME Frames, Domains, [Next]_vars
  PROVE  UNCHANGED config
<1>1. ASSUME NEW c \in Call, NEW i \in Position,
             GateStep(c, i) \/ ObserverStep(c, i) \/ TerminalStep(c, i)
      PROVE  UNCHANGED config
  BY <1>1, StepMoves
<1>2. ASSUME NEW c \in Call, Handle(c) \/ Settle(c) PROVE UNCHANGED config
  BY <1>2 DEF Handle, Settle
<1>3. ASSUME NEW c \in Call, NEW r, NEW p, Ask(c, r, p) PROVE UNCHANGED config
  BY <1>3 DEF Ask
<1>4. ASSUME NEW pair, ConsentWithdrawn(pair) PROVE UNCHANGED config
  BY <1>4 DEF ConsentWithdrawn
<1>5. ASSUME NEW s \in Session, SessionEnds(s) PROVE UNCHANGED config
  BY <1>5 DEF SessionEnds
<1> QED BY <1>1, <1>2, <1>3, <1>4, <1>5, NextMoves DEF vars

\* The pipeline of a request depends on the request and the options alone.
LEMMA PipelineForSame ==
  ASSUME UNCHANGED config, NEW c, req'[c] = req[c]
  PROVE  PipelineFor(req[c])' = PipelineFor(req[c])
BY DEF PipelineFor, IsHidden, IsLocal, Pipe, Observers, IsPassThroughObserver

\* A call has a pipeline from its handler's start on, and keeps it.
LEMMA ChosenStep ==
  ASSUME Frames, Domains, Chosen, [Next]_vars
  PROVE  /\ Chosen'
         /\ \A c \in Call : index[c] # -1 =>
              /\ req'[c] = req[c] /\ pipeline'[c] = pipeline[c]
              /\ \A j \in Position : Middleware(c, j)' = Middleware(c, j)
<1> DEFINE Kept == \A c \in Call : index[c] # -1 =>
                     req'[c] = req[c] /\ pipeline'[c] = pipeline[c]
<1>1. UNCHANGED config
  BY ConfigStep
<1>2. ASSUME NEW c \in Call, NEW i \in Position,
             GateStep(c, i) \/ ObserverStep(c, i) \/ TerminalStep(c, i)
      PROVE  Chosen' /\ Kept
  <2>1. req' = req /\ pipeline' = pipeline
    BY <1>2, StepMoves DEF requestVars
  <2>2. \A d \in Call : index[d] = -1 <=> index'[d] = -1
    <3>1. CASE UNCHANGED index
      BY <3>1
    <3>2. CASE Descends(c, i)
      BY <3>2, DescendsTo, DepthAssumption DEF Position
    <3> QED BY <1>2, <3>1, <3>2, StepMoves DEF Marks, Ends
  <2>3. \A d \in Call : PipelineFor(req[d])' = PipelineFor(req[d])
    BY <1>1, <2>1, PipelineForSame
  <2> QED BY <2>1, <2>2, <2>3 DEF Chosen
<1>3. ASSUME NEW c \in Call, Handle(c) PROVE Chosen' /\ Kept
  <2>1. req' = req /\ req[c] # None /\ index[c] = -1
    BY <1>3 DEF Handle
  <2>2. \A d \in Call : PipelineFor(req[d])' = PipelineFor(req[d])
    BY <1>1, <2>1, PipelineForSame
  <2>3. CASE UNCHANGED <<pipeline, index, frame>>
    BY <2>1, <2>2, <2>3 DEF Chosen
  <2>4. CASE /\ pipeline' = [pipeline EXCEPT ![c] = PipelineFor(req[c])]
             /\ index' = [index EXCEPT ![c] = 0]
    <3>1. pipeline'[c] = PipelineFor(req[c]) /\ index'[c] = 0
      BY <2>4 DEF Domains, Frames
    <3>2. \A d \in Call \ {c} : pipeline'[d] = pipeline[d] /\ index'[d] = index[d]
      BY <2>4 DEF Domains, Frames
    <3> QED BY <2>1, <2>2, <3>1, <3>2 DEF Chosen
  <2> QED BY <1>3, <2>3, <2>4 DEF Handle
<1>4. ASSUME NEW c \in Call, NEW r, NEW p, Ask(c, r, p) PROVE Chosen' /\ Kept
  <2>1. /\ pipeline' = pipeline /\ index' = index /\ req[c] = None
        /\ \A d \in Call \ {c} : req'[d] = req[d]
    BY <1>4 DEF Ask, Domains
  <2>2. index[c] = -1
    BY <2>1 DEF Chosen
  <2>3. \A d \in Call \ {c} : PipelineFor(req[d])' = PipelineFor(req[d])
    BY <1>1, <2>1, PipelineForSame
  <2> QED BY <2>1, <2>2, <2>3 DEF Chosen
<1>5. ASSUME UNCHANGED <<req, pipeline, index>> PROVE Chosen' /\ Kept
  <2>1. \A d \in Call : PipelineFor(req[d])' = PipelineFor(req[d])
    BY <1>1, <1>5, PipelineForSame
  <2> QED BY <1>5, <2>1 DEF Chosen
<1>6. ASSUME NEW c \in Call, Settle(c) PROVE Chosen' /\ Kept
  BY <1>5, <1>6 DEF Settle, requestVars
<1>7. ASSUME NEW pair, ConsentWithdrawn(pair) PROVE Chosen' /\ Kept
  BY <1>5, <1>7 DEF ConsentWithdrawn, callVars, requestVars
<1>8. ASSUME NEW s \in Session, SessionEnds(s) PROVE Chosen' /\ Kept
  BY <1>5, <1>8 DEF SessionEnds, callVars, requestVars
<1>9. ASSUME UNCHANGED vars PROVE Chosen' /\ Kept
  BY <1>5, <1>9 DEF vars, callVars, requestVars
<1>10. Chosen' /\ Kept
  BY <1>2, <1>3, <1>4, <1>6, <1>7, <1>8, <1>9, NextMoves
<1> QED BY <1>10 DEF Middleware, Terminal

\* A step that is not one of a middleware leaves the frames alone, but for a handler that
\* starts.
LEMMA OtherSteps ==
  ASSUME Frames, Domains, [Next]_vars
  PROVE  \/ \E c \in Call, i \in Position :
              GateStep(c, i) \/ ObserverStep(c, i) \/ TerminalStep(c, i)
         \/ /\ UNCHANGED policy /\ UNCHANGED sent /\ UNCHANGED sawConsent
            /\ \A c \in Call :
                 \/ index'[c] = index[c] /\ frame'[c] = frame[c]
                 \/ /\ index[c] = -1 /\ index'[c] = 0
                    /\ \A j \in Position : frame'[c][j] = IF j = 0 THEN "running" ELSE "idle"
<1> DEFINE Rest == /\ UNCHANGED policy /\ UNCHANGED sent /\ UNCHANGED sawConsent
                   /\ \A c \in Call :
                        \/ index'[c] = index[c] /\ frame'[c] = frame[c]
                        \/ /\ index[c] = -1 /\ index'[c] = 0
                           /\ \A j \in Position :
                                frame'[c][j] = IF j = 0 THEN "running" ELSE "idle"
<1> USE DEF vars, callVars, sharedVars, hostVars
<1>1. ASSUME NEW c \in Call, Handle(c) PROVE Rest
  <2>1. UNCHANGED policy /\ UNCHANGED sent /\ UNCHANGED sawConsent /\ index[c] = -1
    BY <1>1 DEF Handle
  <2>2. 0 \in Position /\ \A j \in Position : frame[c][j] = "idle"
    BY <2>1, DepthAssumption DEF Frames, Position
  <2>3. CASE UNCHANGED <<index, frame>>
    BY <2>1, <2>3
  <2>4. CASE /\ index' = [index EXCEPT ![c] = 0]
             /\ frame' = [frame EXCEPT ![c][0] = "running"]
    <3>1. index'[c] = 0 /\ \A d \in Call \ {c} : index'[d] = index[d] /\ frame'[d] = frame[d]
      BY <2>4 DEF Frames
    <3>2. \A j \in Position : frame'[c][j] = IF j = 0 THEN "running" ELSE "idle"
      BY <2>2, <2>4 DEF Frames
    <3> QED BY <2>1, <3>1, <3>2
  <2> QED BY <1>1, <2>3, <2>4 DEF Handle
<1>2. ASSUME NEW c \in Call, NEW r, NEW p, Ask(c, r, p) PROVE Rest
  BY <1>2 DEF Ask
<1>3. ASSUME NEW c \in Call, Settle(c) PROVE Rest
  BY <1>3 DEF Settle
<1>4. ASSUME NEW pair, ConsentWithdrawn(pair) PROVE Rest
  BY <1>4 DEF ConsentWithdrawn
<1>5. ASSUME NEW s \in Session, SessionEnds(s) PROVE Rest
  BY <1>5 DEF SessionEnds
<1>6. ASSUME UNCHANGED vars PROVE Rest
  BY <1>6
<1> QED BY <1>1, <1>2, <1>3, <1>4, <1>5, <1>6, NextMoves

\* A step of one call leaves the frames of the others alone.
LEMMA OwnFrames ==
  ASSUME Frames, Domains, NEW c \in Call, NEW i \in Position,
         GateStep(c, i) \/ ObserverStep(c, i) \/ TerminalStep(c, i)
  PROVE  \A d \in Call \ {c} : index'[d] = index[d] /\ frame'[d] = frame[d]
<1>1. CASE Descends(c, i)
  BY <1>1, DescendsTo
<1>2. CASE Ends(c, i) \/ \E status : Marks(c, i, status)
  BY <1>2 DEF Ends, Marks, Frames
<1> QED BY <1>1, <1>2, StepMoves

---------------------------------------------------------------------------
(***************************************************************************)
(* What goes upstream.                                                     *)
(***************************************************************************)
\* compose, and the terminal handlers of the proxy: one request per call.
LEMMA SentOnceStep ==
  ASSUME Frames, Domains, Chosen, SentOnce, [Next]_vars
  PROVE  SentOnce'
<1> DEFINE Once(c) == \/ sent[c] = <<>>
                      \/ /\ Len(sent[c]) = 1
                         /\ \E j \in Position : /\ index[c] = j /\ Middleware(c, j) = "terminal"
                                               /\ frame[c][j] \in {"calling", "done"}
<1>1. \A c \in Call : index[c] # -1 => \A j \in Position : Middleware(c, j)' = Middleware(c, j)
  BY ChosenStep
<1>2. Position \subseteq Nat
  BY DepthAssumption DEF Position
<1>3. ASSUME NEW d \in Call, sent'[d] = sent[d], index'[d] = index[d], frame'[d] = frame[d]
      PROVE  Once(d)'
  BY <1>1, <1>2, <1>3 DEF SentOnce
<1>4. ASSUME NEW c \in Call, NEW i \in Position,
             GateStep(c, i) \/ ObserverStep(c, i) \/ TerminalStep(c, i)
      PROVE  \A d \in Call : Once(d)'
  <2>2. ASSUME NEW d \in Call \ {c} PROVE Once(d)'
    BY <1>3, <1>4, OwnFrames, StepWrites
  <2>3. CASE Forward(c, i)
    <3>1. /\ frame[c][i] = "running" /\ Middleware(c, i) = "terminal"
          /\ frame' = [frame EXCEPT ![c][i] = "calling"] /\ index' = index
          /\ \E m : sent' = [sent EXCEPT ![c] = Append(@, m)]
      BY <2>3 DEF Forward, At
    <3>2. index[c] = i
      BY <3>1 DEF Frames, Active
    <3>3. sent[c] = <<>>
      BY <3>1, <3>2 DEF SentOnce
    <3>4. Len(sent'[c]) = 1
      BY <3>1, <3>3 DEF Domains
    <3>5. frame'[c][i] = "calling" /\ index'[c] = i
      BY <3>1, <3>2 DEF Frames
    <3>6. Middleware(c, i)' = "terminal"
      BY <1>1, <1>2, <3>1, <3>2
    <3>7. Once(c)'
      BY <3>4, <3>5, <3>6
    <3> QED BY <2>2, <3>7
  <2>4. CASE sent' = sent
    <3>1. SUFFICES ASSUME sent[c] # <<>> PROVE Once(c)'
      BY <2>2, <2>4
    <3>2. PICK j \in Position : /\ index[c] = j /\ Middleware(c, j) = "terminal"
                               /\ frame[c][j] \in {"calling", "done"}
      BY <3>1 DEF SentOnce
    <3>3. Middleware(c, j)' = "terminal"
      BY <1>1, <1>2, <3>2
    <3>5. CASE Descends(c, i) /\ Middleware(c, i) # "terminal"
      BY <3>2, <3>5, DescendsTo
    <3>6. CASE Ends(c, i)
      BY <2>4, <3>1, <3>2, <3>3, <3>6 DEF Ends, Frames, SentOnce
    <3>7. ASSUME NEW status, Marks(c, i, status),
                 Middleware(c, i) = "terminal" => frame[c][i] = "running"
          PROVE  FALSE
      <4>1. index[c] = i /\ frame[c][i] # "done"
        BY <3>7 DEF Marks, Frames, Active
      <4> QED BY <3>2, <3>7, <4>1
    <3> QED BY <1>4, <3>5, <3>6, <3>7, StepMoves
  <2> QED BY <1>4, <2>3, <2>4, StepWrites
<1>5. CASE UNCHANGED sent /\ \A c \in Call : \/ index'[c] = index[c] /\ frame'[c] = frame[c]
                                             \/ index[c] = -1
  <2>1. ASSUME NEW d \in Call, index[d] = -1 PROVE sent[d] = <<>>
    BY <1>2, <2>1 DEF SentOnce
  <2>2. ASSUME NEW d \in Call PROVE Once(d)'
    BY <1>3, <1>5, <2>1
  <2> QED BY <2>2 DEF SentOnce
<1>6. \A d \in Call : Once(d)'
  BY <1>4, <1>5, OtherSteps DEF SentOnce
<1> QED BY <1>6 DEF SentOnce

---------------------------------------------------------------------------
(***************************************************************************)
(* The gates.                                                              *)
(***************************************************************************)
\* A policy gate counts the call, or refuses it and is the deepest position for good.
LEMMA PolicyGateMoves ==
  ASSUME Frames, Domains, NEW c \in Call, NEW i \in Position, PolicyGate(c, i)
  PROVE  /\ index[c] = i /\ Middleware(c, i) = "policy"
         /\ Counted(c)' \/ Ends(c, i)
<1>1. frame[c][i] = "running" /\ Middleware(c, i) = "policy"
  BY DEF PolicyGate, At
<1>2. index[c] = i
  BY <1>1 DEF Frames, Active
<1> DEFINE d == Evaluate(config.policy, req[c].name, req[c].identity)
<1>3. d.decision = "allow" \/ d.decision = "deny"
  BY EvaluateDecides
<1> HIDE DEF d
<1>4. (\E e : Refuse(c, i, e)) \/ (d.decision # "deny" /\ policy' = [policy EXCEPT ![c] = d])
  BY DEF PolicyGate, d
<1>5. ASSUME NEW e, Refuse(c, i, e) PROVE Ends(c, i)
  BY <1>1, <1>5 DEF Refuse, End, Ends
<1> QED BY <1>1, <1>2, <1>3, <1>4, <1>5 DEF Counted, Domains

\* createPolicyMiddleware (policy/src/index.ts): no await between the verdict and next.
LEMMA PolicyPassedStep ==
  ASSUME Frames, Domains, Chosen, PolicyPassed, [Next]_vars
  PROVE  PolicyPassed'
<1> DEFINE Barred(c) == \E k \in Position : /\ index[c] = k /\ Middleware(c, k) = "policy"
                                           /\ frame[c][k] = "done"
           Passed(c) == \A j \in Position :
                          j < index[c] /\ Middleware(c, j) = "policy" => Counted(c) \/ Barred(c)
<1>1. \A c \in Call : index[c] # -1 => \A j \in Position : Middleware(c, j)' = Middleware(c, j)
  BY ChosenStep
<1>2. Position \subseteq Nat
  BY DepthAssumption DEF Position
<1>3. \A c \in Call : Passed(c)
  BY DEF PolicyPassed
<1>4. ASSUME NEW d \in Call, policy'[d] = policy[d], index'[d] = index[d], frame'[d] = frame[d]
      PROVE  Passed(d)'
  <2>1. SUFFICES ASSUME NEW j \in Position, j < index[d], Middleware(d, j)' = "policy"
                 PROVE  Counted(d)' \/ Barred(d)'
    BY <1>4
  <2>2. index[d] # -1
    BY <1>2, <2>1
  <2>3. Counted(d) \/ Barred(d)
    BY <1>1, <1>3, <2>1, <2>2
  <2>4. CASE Barred(d)
    BY <1>1, <1>4, <2>2, <2>4
  <2>5. CASE Counted(d)
    BY <1>4, <2>5 DEF Counted
  <2> QED BY <2>3, <2>4, <2>5
<1>5. ASSUME NEW c \in Call, NEW i \in Position,
             GateStep(c, i) \/ ObserverStep(c, i) \/ TerminalStep(c, i)
      PROVE  Passed(c)'
  <2>1. CASE PolicyGate(c, i) /\ Ends(c, i)
    <3>1. index'[c] = i /\ frame'[c][i] = "done"
      BY <2>1, PolicyGateMoves DEF Ends, Frames
    <3>2. Middleware(c, i)' = "policy"
      BY <1>1, <1>2, <2>1, PolicyGateMoves
    <3> QED BY <3>1, <3>2
  <2>2. CASE PolicyGate(c, i) /\ Counted(c)'
    BY <2>2
  <2>3. CASE policy' = policy
    <3>1. Counted(c)' <=> Counted(c)
      BY <2>3 DEF Counted
    <3>2. CASE Counted(c)
      BY <3>1, <3>2
    <3>3. CASE ~Counted(c) /\ Descends(c, i) /\ (Middleware(c, i) = "policy" => Counted(c)')
      <4>1. index[c] = i /\ index'[c] = i + 1 /\ Middleware(c, i) # "policy"
        BY <3>1, <3>3, DescendsTo
      <4>2. ~Barred(c)
        BY <4>1
      <4>3. SUFFICES ASSUME NEW j \in Position, j < i + 1, Middleware(c, j)' = "policy"
                     PROVE  FALSE
        BY <4>1
      <4>4. Middleware(c, j) = "policy"
        BY <1>1, <1>2, <4>1, <4>3
      <4>5. j < index[c]
        BY <1>2, <4>1, <4>3, <4>4
      <4> QED BY <1>3, <3>3, <4>2, <4>4, <4>5
    <3>4. CASE ~Counted(c) /\ Ends(c, i)
      <4>1. index'[c] = index[c] /\ \A k \in Position : frame[c][k] = "done" => frame'[c][k] = "done"
        BY <3>4 DEF Ends, Frames
      <4> QED BY <1>1, <1>2, <1>3, <3>1, <3>4, <4>1
    <3>5. ASSUME ~Counted(c), NEW status, Marks(c, i, status) PROVE Passed(c)'
      <4>1. index'[c] = index[c] /\ index[c] = i /\ frame[c][i] # "done"
        BY <3>5 DEF Marks, Frames, Active
      <4>2. ~Barred(c)
        BY <4>1
      <4> QED BY <1>1, <1>2, <1>3, <3>1, <3>5, <4>1, <4>2
    <3> QED BY <1>5, <3>2, <3>3, <3>4, <3>5, StepMoves
  <2> QED BY <1>5, <2>1, <2>2, <2>3, PolicyGateMoves, StepWrites
<1>6. ASSUME NEW c \in Call, NEW i \in Position,
             GateStep(c, i) \/ ObserverStep(c, i) \/ TerminalStep(c, i)
      PROVE  \A d \in Call : Passed(d)'
  BY <1>4, <1>5, <1>6, OwnFrames, StepWrites
<1>7. ASSUME UNCHANGED policy,
             \A c \in Call : \/ index'[c] = index[c] /\ frame'[c] = frame[c]
                            \/ index'[c] = 0
      PROVE  \A d \in Call : Passed(d)'
  <2> SUFFICES ASSUME NEW d \in Call PROVE Passed(d)'
    OBVIOUS
  <2>1. CASE index'[d] = index[d] /\ frame'[d] = frame[d]
    <3>1. policy'[d] = policy[d]
      BY <1>7
    <3> QED BY <1>4, <2>1, <3>1
  <2>2. CASE index'[d] = 0
    <3> HIDE DEF Barred
    <3> QED BY <1>2, <2>2
  <2> QED BY <1>7, <2>1, <2>2
<1>8. \A d \in Call : Passed(d)'
  BY <1>6, <1>7, OtherSteps
<1> QED BY <1>8 DEF PolicyPassed

\* createConsentMiddleware (consent/src/index.ts): next is called on `true` alone.
LEMMA ConsentPassedStep ==
  ASSUME Frames, Domains, Chosen, ConsentPassed, [Next]_vars
  PROVE  ConsentPassed'
<1> DEFINE Passed(c) == \A j \in Position :
                          /\ frame[c][j] = "true" => c \in sawConsent
                          /\ j < index[c] /\ Middleware(c, j) = "consent" => c \in sawConsent
<1>1. \A c \in Call : index[c] # -1 => \A j \in Position : Middleware(c, j)' = Middleware(c, j)
  BY ChosenStep
<1>2. Position \subseteq Nat
  BY DepthAssumption DEF Position
<1>3. ASSUME NEW d \in Call, sawConsent \subseteq sawConsent',
             index'[d] = index[d], frame'[d] = frame[d]
      PROVE  Passed(d)'
  BY <1>1, <1>2, <1>3 DEF ConsentPassed
<1>4. ASSUME NEW c \in Call, NEW i \in Position,
             GateStep(c, i) \/ ObserverStep(c, i) \/ TerminalStep(c, i)
      PROVE  Passed(c)'
  <2>1. sawConsent \subseteq sawConsent'
    BY <1>4, StepMoves
  <2>2. CASE Descends(c, i) /\ (Middleware(c, i) = "consent" => frame[c][i] = "true")
    <3>1. index[c] = i /\ index'[c] = i + 1
      BY <2>2, DescendsTo
    <3>2. \A j \in Position : frame'[c][j] = "true" => frame[c][j] = "true"
      BY <2>2, DescendsTo
    <3>3. ASSUME NEW j \in Position, j < i + 1, Middleware(c, j)' = "consent"
          PROVE  c \in sawConsent
      <4>1. Middleware(c, j) = "consent"
        BY <1>1, <1>2, <3>1, <3>3
      <4>2. CASE j = i
        BY <2>2, <4>1, <4>2 DEF ConsentPassed
      <4>3. CASE j # i
        BY <1>2, <3>1, <3>3, <4>1, <4>3 DEF ConsentPassed
      <4> QED BY <4>2, <4>3
    <3> QED BY <2>1, <3>1, <3>2, <3>3 DEF ConsentPassed
  <2>3. CASE Ends(c, i)
    <3>1. index'[c] = index[c] /\ \A j \in Position : frame'[c][j] = "true" => frame[c][j] = "true"
      BY <2>3 DEF Ends, Frames
    <3> QED BY <1>1, <1>2, <2>1, <3>1 DEF ConsentPassed
  <2>4. ASSUME NEW status, Marks(c, i, status), status = "true" => c \in sawConsent'
        PROVE  Passed(c)'
    <3>1. /\ index'[c] = index[c]
          /\ \A j \in Position : frame'[c][j] = IF j = i THEN status ELSE frame[c][j]
      BY <2>4 DEF Marks, Frames
    <3> QED BY <1>1, <1>2, <2>1, <2>4, <3>1 DEF ConsentPassed
  <2> QED BY <1>4, <2>2, <2>3, <2>4, StepMoves
<1>5. ASSUME NEW c \in Call, NEW i \in Position,
             GateStep(c, i) \/ ObserverStep(c, i) \/ TerminalStep(c, i)
      PROVE  \A d \in Call : Passed(d)'
  BY <1>3, <1>4, <1>5, OwnFrames, StepMoves
<1>6. ASSUME UNCHANGED sawConsent,
             \A c \in Call :
               \/ index'[c] = index[c] /\ frame'[c] = frame[c]
               \/ /\ index'[c] = 0
                  /\ \A j \in Position : frame'[c][j] = IF j = 0 THEN "running" ELSE "idle"
      PROVE  \A d \in Call : Passed(d)'
  BY <1>2, <1>3, <1>6
<1>7. \A d \in Call : Passed(d)'
  BY <1>5, <1>6, OtherSteps
<1> QED BY <1>7 DEF ConsentPassed

\* A request is of one of the three kinds and belongs to a session the proxy opened, or to
\* none.
RequestsOK ==
  /\ live \subseteq Session
  /\ \A c \in Call : req[c] # None =>
       req[c].kind \in {"tool", "prompt", "resource"} /\ req[c].session \in Session \cup {None}

\* Every request is one of the configuration's, or an agent's version of one.
LEMMA RequestsStep ==
  ASSUME ConfigOK, Frames, Domains, RequestsOK, [Next]_vars
  PROVE  RequestsOK'
<1>1. ASSUME NEW c \in Call, NEW r, NEW p, Ask(c, r, p),
             r.kind \in {"tool", "prompt", "resource"}
      PROVE  RequestsOK'
  <2>1. live' = live /\ req'[c] = r /\ \A d \in Call \ {c} : req'[d] = req[d]
    BY <1>1 DEF Ask, sharedVars, sessionVars, Domains
  <2>2. r.session \in Session \cup {None}
    BY <1>1 DEF Ask, RequestsOK
  <2> QED BY <1>1, <2>1, <2>2 DEF RequestsOK
<1>2. ASSUME NEW c \in Call, NEW r \in config.requests, ClientAsks(c, r) PROVE RequestsOK'
  BY <1>1, <1>2, ConfigurationAssumption DEF ClientAsks, ConfigOK
<1>3. ASSUME NEW c \in Call, NEW r \in config.requests, NEW p \in Call, AgentAsks(c, p, r)
      PROVE  RequestsOK'
  <2>1. /\ DOMAIN r = {"kind", "name", "identity", "session", "payload"}
        /\ r.kind \in {"tool", "prompt", "resource"}
    BY ConfigurationAssumption DEF ConfigOK
  <2> DEFINE q == [r EXCEPT !.identity = AgentOf[sent[p][1].key],
                            !.payload = sent[p][1].payload]
  <2>2. Ask(c, q, p)
    BY <1>3 DEF AgentAsks
  <2>3. q.kind = r.kind
    BY <2>1
  <2> HIDE DEF q
  <2> QED BY <1>1, <2>1, <2>2, <2>3
<1>4. ASSUME req' = req, live' \subseteq live PROVE RequestsOK'
  BY <1>4 DEF RequestsOK
<1>5. ASSUME NEW c \in Call, NEW i \in Position,
             GateStep(c, i) \/ ObserverStep(c, i) \/ TerminalStep(c, i)
      PROVE  RequestsOK'
  BY <1>4, <1>5, StepMoves DEF requestVars, sessionVars
<1>6. ASSUME NEW c \in Call, Handle(c) \/ Settle(c) PROVE RequestsOK'
  BY <1>4, <1>6 DEF Handle, Settle, requestVars, sharedVars, sessionVars
<1>7. ASSUME NEW pair, ConsentWithdrawn(pair) PROVE RequestsOK'
  BY <1>4, <1>7 DEF ConsentWithdrawn, callVars, requestVars, sessionVars
<1>8. ASSUME NEW t \in Session, SessionEnds(t) PROVE RequestsOK'
  BY <1>4, <1>8 DEF SessionEnds, callVars, requestVars
<1>9. ASSUME UNCHANGED vars PROVE RequestsOK'
  BY <1>4, <1>9 DEF vars, callVars, requestVars, sharedVars, sessionVars
<1> QED BY <1>2, <1>3, <1>5, <1>6, <1>7, <1>8, <1>9 DEF Next

\* pipe (middleware.ts:30-35) turns the middleware around and loses none.
LEMMA PipeTurns ==
  ASSUME NEW mws \in Seq(MiddlewareName)
  PROVE  /\ Pipe(mws) \in Seq(MiddlewareName) /\ Len(Pipe(mws)) = Len(mws)
         /\ \A i \in 1..Len(mws) : /\ Len(mws) + 1 - i \in 1..Len(mws)
                                   /\ Pipe(mws)[i] = mws[Len(mws) + 1 - i]
BY DEF Pipe

\* Whatever the options put around a request is in its pipeline, unless it is passed
\* through.
LEMMA InForceIsThere ==
  ASSUME ConfigOK, NEW r, r.kind \in {"tool", "prompt", "resource"},
         NEW mw \in InForce(r)
  PROVE  \E j \in Position : j < Len(PipelineFor(r)) /\ PipelineFor(r)[j + 1] = mw
<1> DEFINE mws == CASE r.kind = "tool" -> config.toolMiddleware
                    [] r.kind = "prompt" -> config.promptMiddleware
                    [] r.kind = "resource" -> config.resourceMiddleware
<1>1. mws \in Seq(MiddlewareName) /\ Len(mws) <= Depth
  BY ConfigurationAssumption DEF ConfigOK
<1>2. mw \in {mws[i] : i \in DOMAIN mws} /\ PipelineFor(r) = Pipe(mws)
  BY DEF InForce, PipelineFor, IsHidden, IsLocal
<1> HIDE DEF mws
<1>3. PICK i \in 1..Len(mws) : mw = mws[i]
  BY <1>1, <1>2
<1>4. Len(mws) - i \in Position /\ Len(mws) - i < Len(mws) /\ Len(mws) + 1 - i \in 1..Len(mws)
  BY <1>1, DepthAssumption DEF Position
<1>5. Len(mws) + 1 - (Len(mws) + 1 - i) = i /\ (Len(mws) - i) + 1 = Len(mws) + 1 - i
  BY <1>1
<1>6. Pipe(mws)[(Len(mws) - i) + 1] = mw /\ Len(Pipe(mws)) = Len(mws)
  BY <1>1, <1>3, <1>4, <1>5, PipeTurns
<1> QED BY <1>2, <1>4, <1>6

---------------------------------------------------------------------------
(***************************************************************************)
(* The inductive invariant and the theorems.                               *)
(***************************************************************************)
\* Why a call that got somewhere was let through.
PassageInv ==
  /\ ConfigOK /\ Frames /\ Domains /\ RequestsOK /\ Chosen
  /\ SentOnce /\ PolicyPassed /\ ConsentPassed

\* It holds when the proxy starts.
LEMMA PassageInit == Init => PassageInv
<1> SUFFICES ASSUME Init PROVE PassageInv
  OBVIOUS
<1> USE DEF Init
<1>1. ConfigOK /\ Domains /\ RequestsOK /\ Chosen /\ SentOnce
  BY DEF ConfigOK, Domains, RequestsOK, Chosen, SentOnce
<1>2. Frames
  BY DepthAssumption DEF Frames, Status, Active, Position
<1>3. PolicyPassed /\ ConsentPassed
  BY DepthAssumption DEF PolicyPassed, ConsentPassed, Position
<1> QED BY <1>1, <1>2, <1>3 DEF PassageInv

\* Every step keeps it.
LEMMA PassageNext == PassageInv /\ [Next]_vars => PassageInv'
<1> SUFFICES ASSUME PassageInv, [Next]_vars PROVE PassageInv'
  OBVIOUS
<1> USE DEF PassageInv
<1>1. ConfigOK'
  BY ConfigStep DEF ConfigOK, Accepted
<1>2. Frames' /\ Domains' /\ RequestsOK' /\ Chosen'
  BY FramesStep, DomainsStep, RequestsStep, ChosenStep
<1>3. SentOnce' /\ PolicyPassed' /\ ConsentPassed'
  BY SentOnceStep, PolicyPassedStep, ConsentPassedStep
<1> QED BY <1>1, <1>2, <1>3

\* A request goes upstream at most once, whatever a middleware does with next, for any
\* number of calls and any pipelines (middleware.ts:38-59).
THEOREM UpstreamOnceHolds == Spec => []UpstreamOnce
<1>1. PassageInv => UpstreamOnce
  <2> SUFFICES ASSUME SentOnce, NEW c \in Call PROVE Len(sent[c]) <= 1
    BY DEF PassageInv, UpstreamOnce
  <2>1. CASE sent[c] = <<>>
    <3>1. Len(<<>>) = 0
      OBVIOUS
    <3> QED BY <2>1, <3>1
  <2>2. CASE Len(sent[c]) = 1
    BY <2>2
  <2> QED BY <2>1, <2>2 DEF SentOnce
<1> QED BY <1>1, PassageInit, PassageNext, PTL DEF Spec

\* A call at the end of its pipeline has passed every position before it.
LEMMA PassageGoverns == PassageInv => Governed
<1> SUFFICES ASSUME PassageInv, NEW c \in Call, Reached(c)
             PROVE  /\ "policy" \in InForce(req[c]) => Counted(c)
                    /\ "consent" \in InForce(req[c]) => c \in sawConsent
  BY DEF Governed
<1> USE DEF PassageInv
<1>1. index[c] # -1 /\ req[c] # None /\ pipeline[c] = PipelineFor(req[c])
  BY DEF Chosen, Reached
<1>2. index[c] = Len(pipeline[c])
  BY DEF Reached, Terminal
<1>3. ASSUME NEW mw \in InForce(req[c])
      PROVE  \E j \in Position : j < index[c] /\ Middleware(c, j) = mw
  BY <1>1, <1>2, InForceIsThere DEF RequestsOK, Middleware, Terminal
<1>4. ~\E k \in Position : index[c] = k /\ Middleware(c, k) = "policy"
  BY <1>2, DepthAssumption DEF Middleware, Terminal, Position
<1>5. ASSUME "policy" \in InForce(req[c]) PROVE Counted(c)
  BY <1>3, <1>4, <1>5 DEF PolicyPassed
<1>6. ASSUME "consent" \in InForce(req[c]) PROVE c \in sawConsent
  BY <1>3, <1>6 DEF ConsentPassed
<1> QED BY <1>5, <1>6

\* Nothing reaches the end of its pipeline before every gate the options put there agreed
\* to this very call (core.ts, policy/src/index.ts, consent/src/index.ts).
THEOREM GovernedHolds == Spec => []Governed
BY PassageGoverns, PassageInit, PassageNext, PTL DEF Spec

---------------------------------------------------------------------------
(***************************************************************************)
(* A middleware is in a pipeline once.                                     *)
(***************************************************************************)
\* Turning the middleware around keeps them apart.
LEMMA PipeOnce ==
  ASSUME NEW mws \in Seq(MiddlewareName), NEW name, AtMostOnce(mws, name)
  PROVE  AtMostOnce(Pipe(mws), name)
<1> SUFFICES ASSUME NEW i \in 1..Len(mws), NEW j \in 1..Len(mws),
                    Pipe(mws)[i] = name, Pipe(mws)[j] = name
             PROVE  i = j
  BY DEF AtMostOnce, Pipe
<1> DEFINE k == Len(mws) + 1 - i
           l == Len(mws) + 1 - j
<1>1. k \in DOMAIN mws /\ l \in DOMAIN mws /\ mws[k] = name /\ mws[l] = name
  BY PipeTurns
<1>2. k = l
  BY <1>1 DEF AtMostOnce
<1> QED BY <1>2

\* The observers of a pipeline with one audit are that one.
LEMMA ObserversOnce ==
  ASSUME NEW mws \in Seq(MiddlewareName), AtMostOnce(mws, "audit")
  PROVE  /\ Observers(mws) \in Seq(MiddlewareName) /\ Len(Observers(mws)) <= Len(mws)
         /\ \A name : AtMostOnce(Observers(mws), name)
<1> DEFINE marked == {j \in DOMAIN mws : IsPassThroughObserver(mws[j])}
<1>1. CASE marked = {}
  <2>1. Cardinality(marked) = 0
    BY <1>1, FS_EmptySet
  <2>2. Observers(mws) = [k \in 1..0 |-> "audit"]
    BY <2>1 DEF Observers
  <2>3. [k \in 1..0 |-> "audit"] \in Seq(MiddlewareName) /\ Len([k \in 1..0 |-> "audit"]) = 0
    OBVIOUS
  <2>4. \A name : AtMostOnce([k \in 1..0 |-> "audit"], name)
    BY DEF AtMostOnce
  <2> QED BY <2>2, <2>3, <2>4
<1>2. ASSUME NEW i \in DOMAIN mws, marked = {i}
      PROVE  /\ Observers(mws) \in Seq(MiddlewareName) /\ Len(Observers(mws)) <= Len(mws)
             /\ \A name : AtMostOnce(Observers(mws), name)
  <2>1. Cardinality(marked) = 1
    BY <1>2, FS_Singleton
  <2>2. Observers(mws) = [k \in 1..1 |-> "audit"]
    BY <2>1 DEF Observers
  <2>3. Len(mws) >= 1
    BY <1>2
  <2>4. [k \in 1..1 |-> "audit"] \in Seq(MiddlewareName) /\ Len([k \in 1..1 |-> "audit"]) = 1
    BY DEF MiddlewareName
  <2>5. \A name : AtMostOnce([k \in 1..1 |-> "audit"], name)
    BY DEF AtMostOnce
  <2> QED BY <2>2, <2>3, <2>4, <2>5
<1>3. \A i, j \in marked : i = j
  BY DEF AtMostOnce, IsPassThroughObserver
<1> QED BY <1>1, <1>2, <1>3

\* A pipeline has the configured middleware, no more than Depth of them, and its policy
\* and its audit once.
LEMMA PipelineForOK ==
  ASSUME ConfigOK, NEW r, r.kind \in {"tool", "prompt", "resource"}
  PROVE  LET p == PipelineFor(r) IN
         /\ p \in Seq(MiddlewareName) /\ Len(p) <= Depth
         /\ AtMostOnce(p, "policy") /\ AtMostOnce(p, "audit")
<1> DEFINE Good(p) == /\ p \in Seq(MiddlewareName) /\ Len(p) <= Depth
                      /\ AtMostOnce(p, "policy") /\ AtMostOnce(p, "audit")
<1>1. \A mws \in {config.toolMiddleware, config.promptMiddleware, config.resourceMiddleware} :
        Good(mws)
  BY ConfigurationAssumption DEF ConfigOK
<1>2. ASSUME NEW mws, Good(mws) PROVE Good(Pipe(mws))
  BY <1>2, PipeTurns, PipeOnce
<1>3. ASSUME NEW mws, Good(mws) PROVE Good(Observers(mws))
  BY <1>3, ObserversOnce, DepthAssumption
<1>4. Good(<<>>)
  <2>1. <<>> \in Seq(MiddlewareName) /\ Len(<<>>) = 0
    OBVIOUS
  <2> QED BY <2>1, DepthAssumption DEF AtMostOnce
<1> HIDE DEF Good
<1>5. CASE r.kind = "tool"
  <2>1. PipelineFor(r) \in {Pipe(config.toolMiddleware), Pipe(Observers(config.toolMiddleware))}
    BY <1>5 DEF PipelineFor
  <2> QED BY <1>1, <1>2, <1>3, <2>1 DEF Good
<1>6. CASE r.kind = "prompt"
  <2>1. PipelineFor(r) = Pipe(config.promptMiddleware)
    BY <1>6 DEF PipelineFor
  <2> QED BY <1>1, <1>2, <2>1 DEF Good
<1>7. CASE r.kind = "resource"
  <2>1. PipelineFor(r) \in {<<>>, Pipe(config.resourceMiddleware)}
    BY <1>7 DEF PipelineFor
  <2> QED BY <1>1, <1>2, <1>4, <2>1 DEF Good
<1> QED BY <1>5, <1>6, <1>7

\* So a position holds the only policy and the only audit of its pipeline.
LEMMA OnePosition ==
  ASSUME PassageInv, NEW c \in Call, index[c] # -1,
         NEW mw \in {"policy", "audit"}, NEW i \in Position, NEW j \in Position,
         Middleware(c, i) = mw, Middleware(c, j) = mw
  PROVE  i = j
<1>1. /\ pipeline[c] \in Seq(MiddlewareName) /\ AtMostOnce(pipeline[c], mw)
  BY PipelineForOK DEF PassageInv, Chosen, RequestsOK
<1>2. i < Len(pipeline[c]) /\ j < Len(pipeline[c])
  BY DEF Middleware, Terminal
<1>3. i + 1 \in DOMAIN pipeline[c] /\ j + 1 \in DOMAIN pipeline[c]
  BY <1>1, <1>2, DepthAssumption DEF Position
<1>4. i + 1 = j + 1
  BY <1>1, <1>2, <1>3 DEF Middleware, Terminal, AtMostOnce
<1> QED BY <1>4, DepthAssumption DEF Position

---------------------------------------------------------------------------
(***************************************************************************)
(* What is reported.                                                       *)
(***************************************************************************)
\* A tool call that was answered has one event, of what its pipeline returned; a call that
\* was not has none.
Told ==
  \A c \in Call :
    /\ req[c] = None => ~settled[c]
    /\ telemetry[c] = IF settled[c] /\ req[c].kind = "tool"
                      THEN <<Outcome(result[c][0])>> ELSE <<>>
    /\ settled[c] /\ req[c].kind = "tool" => frame[c][0] = "done"

\* An audit middleware that ended recorded what it returned.
Observed ==
  \A c \in Call, j \in Position :
    Middleware(c, j) = "audit" /\ frame[c][j] = "done" =>
      audited[c] = AuditOutcome(req[c].kind, result[c][j])

\* A middleware writes its own result, once, and the record is the audit middleware's,
\* which does not end otherwise.
LEMMA StepResults ==
  ASSUME PassageInv, NEW c \in Call, NEW i \in Position,
         GateStep(c, i) \/ ObserverStep(c, i) \/ TerminalStep(c, i)
  PROVE  /\ \A d \in Call \ {c} : result'[d] = result[d] /\ audited'[d] = audited[d]
         /\ \A j \in Position :
              frame[c][j] = "done" => frame'[c][j] = "done" /\ result'[c][j] = result[c][j]
         /\ \A j \in Position \ {i} : frame'[c][j] = "done" => frame[c][j] = "done"
         /\ \/ AuditReturns(c, i)
            \/ audited' = audited /\ (Middleware(c, i) = "audit" => frame'[c][i] # "done")
<1> USE DEF PassageInv
<1> DEFINE Own == /\ \A d \in Call \ {c} : result'[d] = result[d]
                  /\ \A j \in Position :
                       frame[c][j] = "done" => frame'[c][j] = "done" /\ result'[c][j] = result[c][j]
                  /\ \A j \in Position \ {i} : frame'[c][j] = "done" => frame[c][j] = "done"
<1>1. ASSUME NEW r, frame[c][i] # "done", End(c, i, r) PROVE Own
  BY <1>1 DEF End, Frames, Domains
<1>2. ASSUME frame[c][i] # "idle", CallNext(c, i),
             frame[c][i] = "done" => index[c] = i
      PROVE  /\ Own
             /\ frame[c][i] = "running" => frame'[c][i] # "done"
  <2>1. CASE AlreadyDispatched(c, i + 1)
    <3>1. i + 1 <= index[c]
      BY <2>1 DEF AlreadyDispatched
    <3>2. i # index[c]
      BY <3>1, DepthAssumption DEF Position, Frames
    <3>3. frame[c][i] # "running" /\ frame[c][i] # "done"
      BY <1>2, <3>2 DEF Frames, Active
    <3> QED BY <1>1, <1>2, <2>1, <3>3 DEF CallNext
  <2>2. CASE ~AlreadyDispatched(c, i + 1)
    <3>1. result' = result
      BY <1>2, <2>2 DEF CallNext
    <3>2. Descends(c, i)
      BY <1>2, <2>2, DepthAssumption DEF CallNext, AlreadyDispatched, Descends, Frames, Position
    <3>3. i + 1 \in Position => frame[c][i + 1] = "idle" /\ frame'[c][i + 1] = "running"
      BY <3>2, DescendsTo, DepthAssumption DEF Frames, Position
    <3>4. \A j \in Position \ {i, i + 1} : frame'[c][j] = frame[c][j]
      BY <3>2, DescendsTo
    <3>5. frame[c][i] = "done" => frame'[c][i] = "done"
      BY <3>2, DescendsTo
    <3>6. i + 1 # i
      BY DepthAssumption DEF Position
    <3>7. frame[c][i] = "running" => frame'[c][i] # "done"
      <4>1. frame' = [frame EXCEPT ![c][i] = IF @ = "done" THEN "done" ELSE "awaiting",
                                   ![c][i + 1] = "running"]
        BY <3>2 DEF Descends
      <4>2. frame[c] \in [Position -> Status]
        BY DEF Frames
      <4>3. frame[c][i] = "running" => frame'[c][i] = "awaiting"
        BY <3>6, <4>1, <4>2 DEF Frames
      <4> QED BY <4>3
    <3> QED BY <3>1, <3>3, <3>4, <3>5, <3>7
  <2> QED BY <2>1, <2>2
<1>3. ASSUME NEW status, status # "done", frame[c][i] # "done",
             frame' = [frame EXCEPT ![c][i] = status], result' = result
      PROVE  Own
  BY <1>3 DEF Frames
<1> HIDE DEF Own
<1>4. CASE PolicyGate(c, i)
  <2>1. frame[c][i] = "running" /\ Middleware(c, i) # "audit" /\ audited' = audited
    BY <1>4 DEF PolicyGate, At, reportVars
  <2>2. CallNext(c, i) \/ \E d : Refuse(c, i, d)
    BY <1>4 DEF PolicyGate
  <2>3. Own
    BY <1>1, <1>2, <2>1, <2>2 DEF Refuse
  <2> QED BY <2>1, <2>3 DEF Own
<1>5. CASE ConsentAsked(c, i)
  <2>1. frame[c][i] = "running" /\ Middleware(c, i) # "audit" /\ audited' = audited
    BY <1>5 DEF ConsentAsked, At, reportVars
  <2>2. Own
    BY <1>1, <1>3, <1>5, <2>1 DEF ConsentAsked
  <2> QED BY <2>1, <2>2 DEF Own
<1>6. ASSUME NEW answer \in {"true", "false", "truthy"}, ConsentResolved(c, i, answer)
      PROVE  Own /\ audited' = audited /\ Middleware(c, i) # "audit"
  <2>1. /\ frame[c][i] = "asking" /\ Middleware(c, i) # "audit" /\ audited' = audited
        /\ frame' = [frame EXCEPT ![c][i] = answer] /\ result' = result
    BY <1>6 DEF ConsentResolved, At, reportVars
  <2> QED BY <1>3, <2>1
<1>7. ASSUME NEW answer \in {"true", "false", "truthy"}, ConsentGate(c, i, answer)
      PROVE  Own /\ audited' = audited /\ Middleware(c, i) # "audit"
  <2>1. /\ frame[c][i] \notin {"done", "idle"} /\ Middleware(c, i) # "audit" /\ audited' = audited
        /\ CallNext(c, i) \/ End(c, i, "CONSENT_MISSING")
    BY <1>7 DEF ConsentGate, At, reportVars
  <2> QED BY <1>1, <1>2, <2>1
<1>8. CASE ConsentUnavailable(c, i) \/ GateReturns(c, i)
  <2>1. /\ frame[c][i] # "done" /\ Middleware(c, i) # "audit" /\ audited' = audited
        /\ \E r : End(c, i, r)
    BY <1>8 DEF ConsentUnavailable, GateReturns, PassOn, At, reportVars
  <2> QED BY <1>1, <2>1 DEF Own
<1>9. CASE AuditEnters(c, i)
  <2>1. frame[c][i] = "running" /\ audited' = audited /\ CallNext(c, i)
    BY <1>9 DEF AuditEnters, At, reportVars
  <2> QED BY <1>2, <2>1 DEF Own
<1>10. CASE AuditReturns(c, i)
  <2>1. frame[c][i] = "awaiting" /\ End(c, i, result[c][i + 1])
    BY <1>10 DEF AuditReturns, PassOn, At
  <2>2. \A d \in Call \ {c} : audited'[d] = audited[d]
    BY <1>10 DEF AuditReturns, Domains
  <2> QED BY <1>1, <1>10, <2>1, <2>2 DEF Own
<1>11. CASE HostCallsNext(c, i)
  <2>1. /\ frame[c][i] # "idle" /\ Middleware(c, i) # "audit" /\ audited' = audited
        /\ CallNext(c, i) /\ (frame[c][i] = "done" => index[c] = i)
    BY <1>11 DEF HostCallsNext, At, reportVars
  <2> QED BY <1>2, <2>1 DEF Own
<1>12. ASSUME NEW r, HostAnswers(c, i, r) \/ HostReturns(c, i)
       PROVE  Own /\ audited' = audited /\ Middleware(c, i) # "audit"
  <2>1. /\ frame[c][i] # "done" /\ Middleware(c, i) # "audit" /\ audited' = audited
        /\ \E q : End(c, i, q)
    BY <1>12 DEF HostAnswers, HostReturns, PassOn, At, reportVars
  <2> QED BY <1>1, <2>1
<1>13. CASE Forward(c, i) \/ RunLocal(c, i)
  <2>1. /\ frame[c][i] = "running" /\ Middleware(c, i) # "audit" /\ audited' = audited
        /\ result' = result
        /\ \E status \in {"calling", "local"} : frame' = [frame EXCEPT ![c][i] = status]
    BY <1>13 DEF Forward, RunLocal, At, reportVars
  <2> QED BY <1>3, <2>1 DEF Own
<1>14. ASSUME NEW r, Answers(c, i, r) \/ Refused(c, i)
       PROVE  Own /\ audited' = audited /\ Middleware(c, i) # "audit"
  <2>1. /\ frame[c][i] # "done" /\ Middleware(c, i) # "audit" /\ audited' = audited
        /\ \E q : End(c, i, q)
    BY <1>14 DEF Answers, Refused, At, reportVars
  <2> QED BY <1>1, <2>1
<1>15. CASE GateStep(c, i)
  BY <1>4, <1>5, <1>6, <1>7, <1>8, <1>15 DEF GateStep, Own
<1>16. CASE ObserverStep(c, i)
  BY <1>9, <1>10, <1>11, <1>12, <1>16 DEF ObserverStep, Own
<1>17. CASE TerminalStep(c, i)
  BY <1>13, <1>14, <1>17 DEF TerminalStep, Own
<1> QED BY <1>15, <1>16, <1>17

\* emitTelemetry: once, when the handler returns or throws.
LEMMA ToldStep ==
  ASSUME PassageInv, Told, [Next]_vars
  PROVE  Told'
<1> USE DEF PassageInv
<1> DEFINE Telling(c) ==
             /\ req[c] = None => ~settled[c]
             /\ telemetry[c] = IF settled[c] /\ req[c].kind = "tool"
                               THEN <<Outcome(result[c][0])>> ELSE <<>>
             /\ settled[c] /\ req[c].kind = "tool" => frame[c][0] = "done"
<1>1. \A c \in Call : Telling(c)
  BY DEF Told
<1>2. 0 \in Position
  BY DepthAssumption DEF Position
<1>3. ASSUME NEW d \in Call, req'[d] = req[d], settled'[d] = settled[d],
             telemetry'[d] = telemetry[d],
             frame[d][0] = "done" => frame'[d][0] = "done" /\ result'[d][0] = result[d][0]
      PROVE  Telling(d)'
  <2>1. Telling(d)
    BY <1>1
  <2>2. CASE settled[d] /\ req[d].kind = "tool"
    BY <1>3, <2>1, <2>2 DEF Outcome
  <2>3. CASE ~(settled[d] /\ req[d].kind = "tool")
    BY <1>3, <2>1, <2>3
  <2> QED BY <2>2, <2>3
<1>4. ASSUME NEW c \in Call, NEW i \in Position,
             GateStep(c, i) \/ ObserverStep(c, i) \/ TerminalStep(c, i)
      PROVE  \A d \in Call : Telling(d)'
  <2>1. req' = req /\ settled' = settled /\ telemetry' = telemetry
    BY <1>4, StepMoves, StepWrites DEF requestVars
  <2>2. \A d \in Call :
          frame[d][0] = "done" => frame'[d][0] = "done" /\ result'[d][0] = result[d][0]
    BY <1>2, <1>4, StepResults, OwnFrames
  <2> QED BY <1>3, <2>1, <2>2
<1>5. ASSUME NEW c \in Call, Handle(c) PROVE \A d \in Call : Telling(d)'
  <2>1. /\ req' = req /\ telemetry' = telemetry /\ result' = result
        /\ req[c] # None /\ ~settled[c] /\ index[c] = -1
    BY <1>5 DEF Handle
  <2>2. \A d \in Call \ {c} : settled'[d] = settled[d] /\ frame'[d] = frame[d]
    BY <1>5 DEF Handle, Frames, Domains
  <2>3. ASSUME NEW d \in Call \ {c} PROVE Telling(d)'
    BY <1>3, <2>1, <2>2
  <2>4. telemetry[c] = <<>>
    BY <1>1, <2>1
  <2>5. settled'[c] => req[c].kind = "resource"
    BY <1>5, <2>1 DEF Handle, Domains
  <2>6. Telling(c)'
    BY <2>1, <2>4, <2>5
  <2> QED BY <2>3, <2>6
<1>6. ASSUME NEW c \in Call, NEW r, NEW p, Ask(c, r, p) PROVE \A d \in Call : Telling(d)'
  <2>1. /\ telemetry' = telemetry /\ result' = result /\ settled' = settled /\ frame' = frame
        /\ req[c] = None /\ \A d \in Call \ {c} : req'[d] = req[d]
    BY <1>6 DEF Ask, reportVars, Domains
  <2>2. ~settled'[c] /\ telemetry'[c] = <<>>
    BY <1>1, <2>1
  <2> QED BY <1>3, <2>1, <2>2
<1>7. ASSUME NEW c \in Call, Settle(c) PROVE \A d \in Call : Telling(d)'
  <2>1. /\ req' = req /\ result' = result /\ frame' = frame
        /\ req[c] # None /\ ~settled[c] /\ frame[c][0] = "done"
        /\ settled' = [settled EXCEPT ![c] = TRUE]
        /\ telemetry' = IF req[c].kind = "tool"
                        THEN [telemetry EXCEPT ![c] = Append(@, Outcome(result[c][0]))]
                        ELSE telemetry
    BY <1>7 DEF Settle, requestVars
  <2>2. ASSUME NEW d \in Call \ {c} PROVE Telling(d)'
    BY <1>3, <2>1 DEF Domains
  <2>3. telemetry[c] = <<>>
    BY <1>1, <2>1
  <2>4. settled'[c]
    BY <2>1 DEF Domains
  <2>5. ASSUME req[c].kind = "tool" PROVE Telling(c)'
    <3>1. telemetry'[c] = <<Outcome(result[c][0])>>
      BY <2>1, <2>3, <2>5 DEF Domains
    <3> QED BY <2>1, <2>4, <2>5, <3>1 DEF Outcome
  <2>6. ASSUME req[c].kind # "tool" PROVE Telling(c)'
    BY <2>1, <2>3, <2>6
  <2>7. Telling(c)'
    BY <2>5, <2>6
  <2> QED BY <2>2, <2>7
<1>8. ASSUME UNCHANGED <<req, settled, telemetry, frame, result>>
      PROVE  \A d \in Call : Telling(d)'
  BY <1>3, <1>8
<1>9. ASSUME NEW pair, ConsentWithdrawn(pair) PROVE \A d \in Call : Telling(d)'
  BY <1>8, <1>9 DEF ConsentWithdrawn, callVars, requestVars, reportVars
<1>10. ASSUME NEW s \in Session, SessionEnds(s) PROVE \A d \in Call : Telling(d)'
  BY <1>8, <1>10 DEF SessionEnds, callVars, requestVars, reportVars
<1>11. ASSUME UNCHANGED vars PROVE \A d \in Call : Telling(d)'
  BY <1>8, <1>11 DEF vars, callVars, requestVars, reportVars
<1>12. \A d \in Call : Telling(d)'
  BY <1>4, <1>5, <1>6, <1>7, <1>9, <1>10, <1>11, NextMoves
<1> QED BY <1>12 DEF Told

\* observe (audit/src/middleware.ts): the record is of what next returned or threw, which
\* is what the middleware returns or throws.
LEMMA ObservedStep ==
  ASSUME PassageInv, Observed, [Next]_vars
  PROVE  Observed'
<1> USE DEF PassageInv
<1> DEFINE Seen(c, j) == Middleware(c, j) = "audit" /\ frame[c][j] = "done" =>
                           audited[c] = AuditOutcome(req[c].kind, result[c][j])
<1>1. \A c \in Call, j \in Position : Seen(c, j)
  BY DEF Observed
<1>2. \A c \in Call : index[c] # -1 =>
        req'[c] = req[c] /\ \A j \in Position : Middleware(c, j)' = Middleware(c, j)
  BY ChosenStep
<1>3. \A c \in Call, j \in Position : frame[c][j] # "idle" => index[c] # -1
  BY DepthAssumption DEF Frames, Position
<1>4. ASSUME NEW d \in Call, NEW j \in Position, audited'[d] = audited[d],
             frame'[d][j] = "done" => frame[d][j] = "done" /\ result'[d][j] = result[d][j]
      PROVE  Seen(d, j)'
  <2>1. SUFFICES ASSUME Middleware(d, j)' = "audit", frame'[d][j] = "done"
                 PROVE  audited'[d] = AuditOutcome(req[d].kind, result[d][j])'
    OBVIOUS
  <2>2. frame[d][j] = "done" /\ result'[d][j] = result[d][j]
    BY <1>4, <2>1
  <2>3. req'[d] = req[d] /\ Middleware(d, j) = "audit"
    BY <1>2, <1>3, <2>1, <2>2
  <2> QED BY <1>1, <1>4, <2>2, <2>3 DEF AuditOutcome, Report
<1>5. ASSUME NEW c \in Call, NEW i \in Position,
             GateStep(c, i) \/ ObserverStep(c, i) \/ TerminalStep(c, i)
      PROVE  \A d \in Call, j \in Position : Seen(d, j)'
  <2>1. ASSUME NEW d \in Call \ {c}, NEW j \in Position PROVE Seen(d, j)'
    BY <1>4, <1>5, StepResults, OwnFrames
  <2>2. CASE AuditReturns(c, i)
    <3>1. /\ frame[c][i] = "awaiting" /\ Middleware(c, i) = "audit"
          /\ result' = [result EXCEPT ![c][i] = result[c][i + 1]]
          /\ audited' = [audited EXCEPT ![c] = AuditOutcome(req[c].kind, result[c][i + 1])]
      BY <2>2 DEF AuditReturns, PassOn, End, At
    <3>2. index[c] # -1
      BY <1>3, <3>1
    <3>3. Seen(c, i)'
      BY <1>2, <3>1, <3>2 DEF Domains, AuditOutcome, Report
    <3>4. ASSUME NEW j \in Position, j # i PROVE Seen(c, j)'
      BY <1>2, <3>1, <3>2, <3>4, OnePosition
    <3> QED BY <2>1, <3>3, <3>4
  <2>3. CASE audited' = audited /\ (Middleware(c, i) = "audit" => frame'[c][i] # "done")
    <3>1. ASSUME NEW j \in Position, j # i PROVE Seen(c, j)'
      BY <1>4, <1>5, <2>3, <3>1, StepResults
    <3>2. CASE frame[c][i] # "idle"
      <4>1. Seen(c, i)'
        BY <1>2, <1>3, <2>3, <3>2
      <4> QED BY <2>1, <3>1, <4>1
    <3>3. CASE frame[c][i] = "idle"
      <4>1. ~Ends(c, i) /\ ~Descends(c, i) /\ \A status : ~Marks(c, i, status)
        BY <3>3 DEF Ends, Descends, Marks, Active
      <4> QED BY <1>5, <4>1, StepMoves
    <3> QED BY <3>2, <3>3
  <2> QED BY <1>5, <2>2, <2>3, StepResults
<1>6. ASSUME audited' = audited, result' = result,
             \A d \in Call, j \in Position : frame'[d][j] = "done" => frame[d][j] = "done"
      PROVE  \A d \in Call, j \in Position : Seen(d, j)'
  BY <1>4, <1>6
<1>7. ASSUME NEW c \in Call, Handle(c) PROVE \A d \in Call, j \in Position : Seen(d, j)'
  <2>1. audited' = audited /\ result' = result
    BY <1>7 DEF Handle
  <2>2. \A d \in Call, j \in Position : frame'[d][j] = "done" => frame[d][j] = "done"
    BY <1>7 DEF Handle, Frames
  <2> QED BY <1>6, <2>1, <2>2
<1>8. ASSUME NEW c \in Call, NEW r, NEW p, Ask(c, r, p)
      PROVE  \A d \in Call, j \in Position : Seen(d, j)'
  BY <1>6, <1>8 DEF Ask, reportVars
<1>9. ASSUME NEW c \in Call, Settle(c) PROVE \A d \in Call, j \in Position : Seen(d, j)'
  BY <1>6, <1>9 DEF Settle
<1>10. ASSUME NEW pair, ConsentWithdrawn(pair)
       PROVE  \A d \in Call, j \in Position : Seen(d, j)'
  BY <1>6, <1>10 DEF ConsentWithdrawn, callVars, reportVars
<1>11. ASSUME NEW s \in Session, SessionEnds(s)
       PROVE  \A d \in Call, j \in Position : Seen(d, j)'
  BY <1>6, <1>11 DEF SessionEnds, callVars, reportVars
<1>12. ASSUME UNCHANGED vars PROVE \A d \in Call, j \in Position : Seen(d, j)'
  BY <1>6, <1>12 DEF vars, callVars, reportVars
<1>13. \A d \in Call, j \in Position : Seen(d, j)'
  BY <1>5, <1>7, <1>8, <1>9, <1>10, <1>11, <1>12, NextMoves
<1> QED BY <1>13 DEF Observed

\* Telemetry has one event for every tool call that was answered, and an outermost audit
\* tells the same outcome and reason (core.ts emitTelemetry, middleware.ts observe).
THEOREM ReportsAgreeHolds == Spec => []ReportsAgree
<1> DEFINE Inv == PassageInv /\ Told /\ Observed
<1>1. Init => Inv
  <2>1. ASSUME Init PROVE Told /\ Observed
    BY <2>1, DepthAssumption DEF Init, Told, Observed, Position
  <2> QED BY <2>1, PassageInit
<1>2. Inv /\ [Next]_vars => Inv'
  BY PassageNext, ToldStep, ObservedStep
<1>3. Inv => ReportsAgree
  <2> SUFFICES ASSUME Inv, NEW c \in Call, req[c] # None, req[c].kind = "tool"
               PROVE  /\ Len(telemetry[c]) = IF settled[c] THEN 1 ELSE 0
                      /\ settled[c] /\ Middleware(c, 0) = "audit" =>
                           audited[c] = telemetry[c][1]
    BY DEF ReportsAgree
  <2>1. CASE settled[c]
    <3>1. telemetry[c] = <<Outcome(result[c][0])>> /\ frame[c][0] = "done"
      BY <2>1 DEF Told
    <3>2. Len(telemetry[c]) = 1 /\ telemetry[c][1] = Outcome(result[c][0])
      BY <3>1
    <3>3. Middleware(c, 0) = "audit" => audited[c] = AuditOutcome("tool", result[c][0])
      BY <3>1, DepthAssumption DEF Observed, Position
    <3>4. AuditOutcome("tool", result[c][0]) = Outcome(result[c][0])
      BY DEF AuditOutcome, Outcome, Report
    <3> QED BY <2>1, <3>2, <3>3, <3>4
  <2>2. CASE ~settled[c]
    <3>1. telemetry[c] = <<>>
      BY <2>2 DEF Told
    <3> QED BY <2>2, <3>1
  <2> QED BY <2>1, <2>2
<1> QED BY <1>1, <1>2, <1>3, PTL DEF Spec

---------------------------------------------------------------------------
(***************************************************************************)
(* The budget.                                                             *)
(***************************************************************************)
\* A decision is that of a policy gate the call has passed or ended at.
Decided ==
  \A c \in Call : policy[c].decision # None =>
    \E j \in Position : /\ Middleware(c, j) = "policy"
                        /\ j < index[c] \/ (j = index[c] /\ frame[c][j] = "done")

CountedIn(s) ==
  {c \in Call : req[c] # None /\ req[c].session = s /\ Counted(c) /\ c \notin released}

\* spendBudget's map against the calls the gate let through.
Ledger ==
  /\ callCounts \in [Session -> Nat \cup {None}]
  /\ released \subseteq {c \in Call : Counted(c)}
  /\ \A s \in Session :
       IF config.policy.budget = None THEN callCounts[s] = None
       ELSE Used(s) <= config.policy.budget /\ Used(s) = Cardinality(CountedIn(s))

\* A call of a session that has ended was counted before, or was under way.
Ended ==
  /\ straddling \subseteq Call
  /\ \A c \in Call : req[c] # None /\ req[c].session \in Session \ live =>
       c \in released \cup straddling

BudgetInv == PassageInv /\ Decided /\ Ledger /\ Ended

\* A call that has no pipeline yet is not decided; nor is one at its policy gate.
LEMMA Undecided ==
  ASSUME PassageInv, Decided, NEW c \in Call
  PROVE  /\ index[c] = -1 => policy[c].decision = None
         /\ \A i \in Position : PolicyGate(c, i) => policy[c].decision = None
<1> USE DEF PassageInv
<1>1. Position \subseteq Nat
  BY DepthAssumption DEF Position
<1>2. index[c] = -1 => policy[c].decision = None
  BY <1>1 DEF Decided
<1>3. ASSUME NEW i \in Position, PolicyGate(c, i), policy[c].decision # None PROVE FALSE
  <2>1. frame[c][i] = "running" /\ index[c] = i /\ Middleware(c, i) = "policy"
    BY <1>3, PolicyGateMoves DEF PolicyGate, At
  <2>2. PICK j \in Position : /\ Middleware(c, j) = "policy"
                              /\ j < index[c] \/ (j = index[c] /\ frame[c][j] = "done")
    BY <1>3 DEF Decided
  <2>3. i = j
    BY <1>1, <2>1, <2>2, OnePosition DEF PassageInv
  <2> QED BY <1>1, <2>1, <2>2, <2>3
<1> QED BY <1>2, <1>3

\* There is one policy gate, and what it decided stands.
LEMMA DecidedStep ==
  ASSUME PassageInv, Decided, [Next]_vars
  PROVE  /\ Decided'
         /\ \A c \in Call : Counted(c) => Counted(c)'
<1> USE DEF PassageInv
<1> DEFINE Dec(c) == policy[c].decision # None =>
                       \E j \in Position :
                         /\ Middleware(c, j) = "policy"
                         /\ j < index[c] \/ (j = index[c] /\ frame[c][j] = "done")
<1>1. Position \subseteq Nat
  BY DepthAssumption DEF Position
<1>2. \A c \in Call : index[c] # -1 => \A j \in Position : Middleware(c, j)' = Middleware(c, j)
  BY ChosenStep
<1>3. ASSUME NEW d \in Call, policy'[d] = policy[d], index'[d] = index[d], frame'[d] = frame[d]
      PROVE  Dec(d)' /\ (Counted(d) => Counted(d)')
  BY <1>1, <1>2, <1>3 DEF Decided, Counted
<1>4. ASSUME NEW c \in Call, NEW i \in Position,
             GateStep(c, i) \/ ObserverStep(c, i) \/ TerminalStep(c, i)
      PROVE  Dec(c)' /\ (Counted(c) => Counted(c)')
  <2>1. CASE PolicyGate(c, i)
    <3>1. index[c] = i /\ Middleware(c, i) = "policy" /\ Middleware(c, i)' = "policy"
      BY <1>1, <1>2, <2>1, PolicyGateMoves
    <3>2. index'[c] > i \/ (index'[c] = i /\ frame'[c][i] = "done")
      <4>1. CASE Descends(c, i)
        BY <1>1, <4>1, DescendsTo
      <4>2. CASE Ends(c, i)
        BY <3>1, <4>2 DEF Ends, Frames
      <4>3. ASSUME NEW e, Refuse(c, i, e) PROVE Ends(c, i)
        BY <2>1, <4>3 DEF Refuse, End, Ends, PolicyGate, At
      <4>4. ASSUME CallNext(c, i) PROVE Descends(c, i) \/ Ends(c, i)
        BY <2>1, <4>4, CallNextMoves DEF PolicyGate, At
      <4> QED BY <2>1, <4>1, <4>2, <4>3, <4>4 DEF PolicyGate
    <3>3. ~Counted(c)
      BY <2>1, Undecided, NoneAssumption DEF Counted
    <3> QED BY <1>1, <3>1, <3>2, <3>3 DEF Frames
  <2>2. CASE policy' = policy
    <3>1. index'[c] >= index[c]
      BY <1>1, <1>4, StepMoves, DescendsTo DEF Marks, Ends, Frames
    <3>2. \A j \in Position : frame[c][j] = "done" => frame'[c][j] = "done"
      BY <1>4, StepResults
    <3>3. index'[c] \in Int
      BY FramesStep DEF Frames
    <3>4. Counted(c) => Counted(c)'
      BY <2>2 DEF Counted
    <3>5. SUFFICES ASSUME policy[c].decision # None
                   PROVE  \E j \in Position :
                            /\ Middleware(c, j)' = "policy"
                            /\ j < index'[c] \/ (j = index'[c] /\ frame'[c][j] = "done")
      BY <2>2, <3>4
    <3>6. PICK j \in Position : /\ Middleware(c, j) = "policy"
                                /\ j < index[c] \/ (j = index[c] /\ frame[c][j] = "done")
      BY <3>5 DEF Decided
    <3>7. Middleware(c, j)' = "policy"
      BY <1>1, <1>2, <3>6
    <3>8. j < index'[c] \/ (j = index'[c] /\ frame'[c][j] = "done")
      BY <1>1, <3>1, <3>2, <3>3, <3>6 DEF Frames
    <3> QED BY <3>7, <3>8
  <2> QED BY <1>4, <2>1, <2>2, StepWrites
<1>5. ASSUME NEW c \in Call, NEW i \in Position,
             GateStep(c, i) \/ ObserverStep(c, i) \/ TerminalStep(c, i)
      PROVE  \A d \in Call : Dec(d)' /\ (Counted(d) => Counted(d)')
  BY <1>3, <1>4, <1>5, OwnFrames, StepWrites
<1>6. ASSUME UNCHANGED policy,
             \A c \in Call : \/ index'[c] = index[c] /\ frame'[c] = frame[c]
                            \/ index[c] = -1
      PROVE  \A d \in Call : Dec(d)' /\ (Counted(d) => Counted(d)')
  <2>1. ASSUME NEW d \in Call, index[d] = -1 PROVE policy[d].decision = None
    BY <2>1, Undecided
  <2>2. ASSUME NEW d \in Call, index[d] = -1 PROVE Dec(d)' /\ (Counted(d) => Counted(d)')
    BY <1>6, <2>1, <2>2 DEF Counted
  <2> QED BY <1>3, <1>6, <2>2
<1>7. \A d \in Call : Dec(d)' /\ (Counted(d) => Counted(d)')
  BY <1>5, <1>6, OtherSteps
<1> QED BY <1>7 DEF Decided

\* The calls that count towards a session are finitely many.
LEMMA CountedFinite ==
  ASSUME NEW s PROVE IsFiniteSet(CountedIn(s)) /\ Cardinality(CountedIn(s)) \in Nat
BY CallAssumption, FS_Subset, FS_CardinalityType DEF CountedIn

\* The counter and the calls stay together when nothing of the two changes.
LEMMA LedgerSame ==
  ASSUME Ledger, UNCHANGED <<config, callCounts, released>>,
         \A c \in Call : /\ Counted(c)' <=> Counted(c)
                         /\ Counted(c) => req'[c] = req[c]
  PROVE  Ledger'
<1>1. \A s \in Session : CountedIn(s)' = CountedIn(s)
  BY DEF CountedIn
<1> QED BY <1>1 DEF Ledger, Used

\* spendBudget (policy/src/index.ts:378-395): the gate counts a call as it lets it through.
LEMMA LedgerGate ==
  ASSUME PassageInv, Decided, Ledger, NEW c \in Call, NEW i \in Position, PolicyGate(c, i)
  PROVE  Ledger'
<1> USE DEF PassageInv
<1> DEFINE d == Evaluate(config.policy, req[c].name, req[c].identity)
<1>1. /\ UNCHANGED <<config, req, released>>
      /\ index[c] = i /\ ~Counted(c)
  BY PolicyGateMoves, Undecided, NoneAssumption
  DEF PolicyGate, requestVars, Counted
<1>2. index[c] # -1
  BY <1>1, DepthAssumption DEF Position
<1>3. req[c] # None /\ req[c].session \in Session \cup {None}
  BY <1>2 DEF Chosen, RequestsOK
<1>4. \A e \in Call \ {c} : Counted(e)' <=> Counted(e)
  BY StepWrites DEF Counted, GateStep
<1>5. d.decision = "allow" \/ d.decision = "deny"
  BY EvaluateDecides
<1> HIDE DEF d
<1>6. \/ \E e : Refuse(c, i, e) /\ e.decision = "deny"
      \/ /\ d.decision = "allow" /\ policy' = [policy EXCEPT ![c] = d]
         /\ ~(Metered(req[c]) /\ Used(req[c].session) >= config.policy.budget)
         /\ callCounts' = IF Metered(req[c])
                          THEN [callCounts EXCEPT ![req[c].session] = Used(req[c].session) + 1]
                          ELSE callCounts
  BY <1>5 DEF PolicyGate, d, Deny
<1>7. CASE \E e : Refuse(c, i, e) /\ e.decision = "deny"
  <2>1. callCounts' = callCounts /\ ~Counted(c)'
    BY <1>7 DEF Refuse, Counted, Domains
  <2> QED BY <1>1, <1>4, <2>1, LedgerSame
<1>8. CASE /\ d.decision = "allow" /\ policy' = [policy EXCEPT ![c] = d]
           /\ ~(Metered(req[c]) /\ Used(req[c].session) >= config.policy.budget)
           /\ callCounts' = IF Metered(req[c])
                            THEN [callCounts EXCEPT ![req[c].session] = Used(req[c].session) + 1]
                            ELSE callCounts
  <2>1. Counted(c)' /\ c \notin released
    BY <1>1, <1>8 DEF Counted, Domains, Ledger
  <2>2. released' \subseteq {e \in Call : Counted(e)'}
    BY <1>1, <1>4, <2>1 DEF Ledger
  <2>3. CASE Metered(req[c])
    <3>1. /\ req[c].session \in Session /\ config.policy.budget # None
          /\ config.policy.budget \in Nat
      BY <1>3, <2>3, ConfigurationAssumption DEF Metered, ConfigOK, Accepted
    <3>2. PICK s \in Session : s = req[c].session
      BY <3>1
    <3>3. Used(s) \in Nat /\ Used(s) + 1 <= config.policy.budget
      BY <1>8, <2>3, <3>1, <3>2 DEF Used, Ledger
    <3>4. callCounts' = [callCounts EXCEPT ![s] = Used(s) + 1]
      BY <1>8, <2>3, <3>2
    <3>5. callCounts' \in [Session -> Nat \cup {None}]
      BY <3>1, <3>3, <3>4 DEF Ledger
    <3>6. Used(s)' = Used(s) + 1
      <4> DEFINE u == Used(s) + 1
      <4>1. u \in Nat /\ u # None
        BY <3>3, NoneAssumption
      <4> HIDE DEF u
      <4>2. callCounts'[s] = u
        BY <3>1, <3>4 DEF Ledger, u
      <4>3. Used(s)' = u
        BY <4>1, <4>2 DEF Used
      <4> QED BY <4>3 DEF u
    <3>7. CountedIn(s)' = CountedIn(s) \cup {c} /\ c \notin CountedIn(s)
      BY <1>1, <1>3, <1>4, <2>1, <3>2 DEF CountedIn
    <3>8. Cardinality(CountedIn(s)') = Cardinality(CountedIn(s)) + 1
      BY <3>7, CountedFinite, FS_AddElement
    <3>9. ASSUME NEW t \in Session, t # s
          PROVE  Used(t)' = Used(t) /\ CountedIn(t)' = CountedIn(t)
      BY <1>1, <1>4, <3>2, <3>4, <3>9 DEF CountedIn, Used, Ledger
    <3>10. Used(s) = Cardinality(CountedIn(s))
      BY <3>1 DEF Ledger
    <3>11. ASSUME NEW t \in Session
           PROVE  /\ Used(t)' <= config.policy.budget
                  /\ Used(t)' = Cardinality(CountedIn(t)')
      BY <3>1, <3>3, <3>6, <3>8, <3>9, <3>10 DEF Ledger
    <3> QED BY <1>1, <2>2, <3>1, <3>5, <3>11 DEF Ledger
  <2>4. CASE ~Metered(req[c])
    <3>1. callCounts' = callCounts
      BY <1>8, <2>4
    <3>2. CASE config.policy.budget = None
      BY <1>1, <2>2, <3>1, <3>2 DEF Ledger
    <3>3. CASE config.policy.budget # None
      <4>1. req[c].session = None
        BY <2>4, <3>3 DEF Metered
      <4>2. ASSUME NEW t \in Session PROVE CountedIn(t)' = CountedIn(t)
        BY <1>1, <1>4, <4>1, NoneAssumption DEF CountedIn
      <4> QED BY <1>1, <2>2, <3>1, <4>2 DEF Ledger, Used
    <3> QED BY <3>2, <3>3
  <2> QED BY <2>3, <2>4
<1> QED BY <1>6, <1>7, <1>8

\* A session that ends takes its counter with it, and nobody else's.
LEMMA LedgerEnds ==
  ASSUME PassageInv, Ledger, NEW s \in Session, SessionEnds(s)
  PROVE  Ledger'
<1> USE DEF PassageInv
<1>1. /\ UNCHANGED <<config, req, policy>>
      /\ callCounts' = [callCounts EXCEPT ![s] = None]
      /\ released' = released \cup
           {c \in Call : req[c] # None /\ req[c].session = s /\ Counted(c)}
  BY DEF SessionEnds, EvictSession, callVars, requestVars
<1>2. callCounts' \in [Session -> Nat \cup {None}] /\ callCounts'[s] = None
  BY <1>1 DEF Ledger
<1>3. released' \subseteq {c \in Call : Counted(c)'}
  BY <1>1 DEF Ledger, Counted
<1>4. CountedIn(s)' = {} /\ Used(s)' = 0
  BY <1>1, <1>2 DEF CountedIn, Counted, Used
<1>5. Cardinality(CountedIn(s)') = 0
  BY <1>4, FS_EmptySet
<1>6. ASSUME NEW t \in Session, t # s
      PROVE  CountedIn(t)' = CountedIn(t) /\ callCounts'[t] = callCounts[t]
  BY <1>1, <1>6 DEF CountedIn, Counted, Ledger
<1>7. config.policy.budget # None => config.policy.budget \in Nat
  BY ConfigurationAssumption DEF ConfigOK, Accepted
<1> QED BY <1>1, <1>2, <1>3, <1>4, <1>5, <1>6, <1>7 DEF Ledger, Used

\* The ledger is kept by every step.
LEMMA LedgerStep ==
  ASSUME PassageInv, Decided, Ledger, [Next]_vars
  PROVE  Ledger'
<1> USE DEF PassageInv
<1>1. ASSUME UNCHANGED <<config, callCounts, released, policy, req>> PROVE Ledger'
  BY <1>1, LedgerSame DEF Counted
<1>2. ASSUME NEW c \in Call, NEW i \in Position,
             GateStep(c, i) \/ ObserverStep(c, i) \/ TerminalStep(c, i)
      PROVE  Ledger'
  BY <1>1, <1>2, LedgerGate, StepMoves, StepWrites DEF requestVars
<1>3. ASSUME NEW c \in Call, Handle(c) \/ Settle(c) PROVE Ledger'
  BY <1>1, <1>3 DEF Handle, Settle, requestVars, sharedVars, budgetVars
<1>4. ASSUME NEW c \in Call, NEW r, NEW p, Ask(c, r, p) PROVE Ledger'
  <2>1. /\ UNCHANGED <<config, callCounts, released, policy>>
        /\ req[c] = None /\ \A d \in Call \ {c} : req'[d] = req[d]
    BY <1>4 DEF Ask, sharedVars, budgetVars, Domains
  <2>2. ~Counted(c)
    BY <2>1, Undecided, NoneAssumption DEF Chosen, Counted
  <2> QED BY <2>1, <2>2, LedgerSame DEF Counted
<1>5. ASSUME NEW pair, ConsentWithdrawn(pair) PROVE Ledger'
  BY <1>1, <1>5 DEF ConsentWithdrawn, callVars, requestVars, budgetVars
<1>6. ASSUME NEW s \in Session, SessionEnds(s) PROVE Ledger'
  BY <1>6, LedgerEnds
<1>7. ASSUME UNCHANGED vars PROVE Ledger'
  BY <1>1, <1>7 DEF vars, callVars, requestVars, sharedVars, budgetVars
<1> QED BY <1>2, <1>3, <1>4, <1>5, <1>6, <1>7, NextMoves

\* No call comes in under a session that has ended.
LEMMA EndedStep ==
  ASSUME PassageInv, Ended, [Next]_vars
  PROVE  Ended'
<1> USE DEF PassageInv
<1>1. ASSUME UNCHANGED <<req, live, released, straddling>> PROVE Ended'
  BY <1>1 DEF Ended
<1>2. ASSUME NEW c \in Call, NEW i \in Position,
             GateStep(c, i) \/ ObserverStep(c, i) \/ TerminalStep(c, i)
      PROVE  Ended'
  BY <1>1, <1>2, StepMoves DEF requestVars, sessionVars
<1>3. ASSUME NEW c \in Call, Handle(c) \/ Settle(c) PROVE Ended'
  BY <1>1, <1>3 DEF Handle, Settle, requestVars, sharedVars, budgetVars, sessionVars
<1>4. ASSUME NEW c \in Call, NEW r, NEW p, Ask(c, r, p) PROVE Ended'
  <2>1. /\ UNCHANGED <<live, released, straddling>> /\ req'[c] = r
        /\ r.session # None => r.session \in live
        /\ \A d \in Call \ {c} : req'[d] = req[d]
    BY <1>4 DEF Ask, sharedVars, budgetVars, sessionVars, Domains
  <2> QED BY <2>1, NoneAssumption DEF Ended
<1>5. ASSUME NEW pair, ConsentWithdrawn(pair) PROVE Ended'
  BY <1>1, <1>5 DEF ConsentWithdrawn, callVars, requestVars, budgetVars, sessionVars
<1>6. ASSUME NEW s \in Session, SessionEnds(s) PROVE Ended'
  BY <1>6 DEF SessionEnds, EvictSession, callVars, requestVars, Ended
<1>7. ASSUME UNCHANGED vars PROVE Ended'
  BY <1>1, <1>7 DEF vars, callVars, requestVars, sharedVars, budgetVars, sessionVars
<1> QED BY <1>2, <1>3, <1>4, <1>5, <1>6, <1>7, NextMoves

\* Together they are inductive.
LEMMA BudgetInductive == (Init => BudgetInv) /\ (BudgetInv /\ [Next]_vars => BudgetInv')
<1>1. ASSUME Init PROVE Decided /\ Ledger /\ Ended
  <2> USE <1>1 DEF Init
  <2>1. Decided /\ Ended
    BY DEF Decided, Ended, NoDecision
  <2>2. \A c \in Call : ~Counted(c)
    BY NoneAssumption DEF Counted, NoDecision
  <2>3. \A s \in Session : CountedIn(s) = {} /\ Used(s) = 0
    BY <2>2 DEF CountedIn, Used
  <2>4. \A s \in Session : Cardinality(CountedIn(s)) = 0
    BY <2>3, FS_EmptySet
  <2>5. config.policy.budget # None => config.policy.budget \in Nat
    BY ConfigurationAssumption DEF Accepted
  <2> QED BY <2>1, <2>3, <2>4, <2>5 DEF Ledger
<1> QED BY <1>1, PassageInit, PassageNext, DecidedStep, LedgerStep, EndedStep DEF BudgetInv

\* The counter of a session is the number of calls the gate let through since it was
\* dropped, within the budget, for any number of concurrent calls (spendBudget).
THEOREM BudgetExactHolds == Spec => []BudgetExact
<1>1. BudgetInv => BudgetExact
  BY DEF BudgetInv, Ledger, CountedIn, BudgetExact
<1> QED BY <1>1, BudgetInductive, PTL DEF Spec

\* What is left of a counter after its session's end is due to calls that were under way
\* (evictSession, wired to onSessionClosed).
THEOREM CountersReleasedHolds == Spec => []CountersReleased
<1>1. BudgetInv => CountersReleased
  <2> SUFFICES ASSUME BudgetInv, NEW s \in Session \ live
               PROVE  Used(s) <= Cardinality({c \in straddling : req[c].session = s /\ Counted(c)})
    BY DEF CountersReleased
  <2> DEFINE late == {c \in straddling : req[c].session = s /\ Counted(c)}
  <2> USE DEF BudgetInv
  <2>1. CountedIn(s) \subseteq late
    BY DEF CountedIn, Ended
  <2>2. IsFiniteSet(late)
    BY CallAssumption, FS_Subset DEF Ended
  <2>3. Cardinality(late) \in Nat /\ Cardinality(CountedIn(s)) <= Cardinality(late)
    BY <2>1, <2>2, FS_Subset, FS_CardinalityType
  <2>4. CASE config.policy.budget = None
    BY <2>3, <2>4 DEF Ledger, Used
  <2>5. CASE config.policy.budget # None
    BY <2>3, <2>5 DEF Ledger
  <2> QED BY <2>4, <2>5
<1> QED BY <1>1, BudgetInductive, PTL DEF Spec

---------------------------------------------------------------------------
(***************************************************************************)
(* Types.                                                                  *)
(***************************************************************************)
\* What TypeOK says beyond the invariants above.
Typed ==
  /\ parent \in [Call -> Call \cup {None}]
  /\ result \in [Call -> [Position -> Result \cup {None}]]
  /\ audited \in [Call -> ToolCallReport \cup {None}]
  /\ consented \subseteq config.consented /\ sawConsent \subseteq Call

\* compose dispatches at most one position more than the pipeline has middleware.
Bounded == \A c \in Call : index[c] # -1 => index[c] <= Len(pipeline[c])

TypeInv == BudgetInv /\ Told /\ Bounded /\ Typed

\* A chosen pipeline has no more than Depth middleware.
LEMMA PipelineLength ==
  ASSUME PassageInv, NEW c \in Call, index[c] # -1
  PROVE  pipeline[c] \in Seq(MiddlewareName) /\ Len(pipeline[c]) \in 0..Depth
BY PipelineForOK, DepthAssumption DEF PassageInv, Chosen, RequestsOK

\* The terminal handler does not call next.
LEMMA BoundedStep ==
  ASSUME PassageInv, Bounded, [Next]_vars
  PROVE  Bounded'
<1> USE DEF PassageInv
<1>1. \A c \in Call : index[c] # -1 => pipeline'[c] = pipeline[c]
  BY ChosenStep
<1>2. ASSUME NEW d \in Call, index'[d] = index[d]
      PROVE  index'[d] # -1 => index'[d] <= Len(pipeline'[d])
  BY <1>1, <1>2 DEF Bounded
<1>3. ASSUME NEW c \in Call, NEW i \in Position,
             GateStep(c, i) \/ ObserverStep(c, i) \/ TerminalStep(c, i)
      PROVE  Bounded'
  <2>1. ASSUME Descends(c, i), Middleware(c, i) # "terminal"
        PROVE  index'[c] <= Len(pipeline'[c])
    <3>1. index[c] = i /\ index'[c] = i + 1 /\ index[c] # -1
      BY <2>1, DescendsTo, DepthAssumption DEF Position
    <3>2. i < Len(pipeline[c])
      BY <2>1 DEF Middleware, Terminal
    <3>3. Len(pipeline[c]) \in Nat
      BY <3>1, PipelineLength, DepthAssumption
    <3> QED BY <1>1, <3>1, <3>2, <3>3, DepthAssumption DEF Position
  <2>2. ASSUME UNCHANGED index PROVE Bounded'
    BY <1>2, <2>2 DEF Bounded
  <2>3. CASE Descends(c, i) /\ Middleware(c, i) # "terminal"
    BY <1>2, <1>3, <2>1, <2>3, OwnFrames DEF Bounded
  <2> QED BY <1>3, <2>2, <2>3, StepMoves DEF Marks, Ends
<1>4. ASSUME NEW c \in Call, Handle(c) PROVE Bounded'
  <2>1. req[c] # None
    BY <1>4 DEF Handle
  <2>2. CASE UNCHANGED <<pipeline, index, frame>>
    BY <1>2, <2>2 DEF Bounded
  <2>3. CASE /\ pipeline' = [pipeline EXCEPT ![c] = PipelineFor(req[c])]
             /\ index' = [index EXCEPT ![c] = 0]
    <3>1. PipelineFor(req[c]) \in Seq(MiddlewareName)
      BY <2>1, PipelineForOK DEF RequestsOK
    <3>2. index'[c] <= Len(pipeline'[c])
      BY <2>3, <3>1 DEF Frames, Domains
    <3>3. \A d \in Call \ {c} : index'[d] = index[d]
      BY <2>3 DEF Frames
    <3> QED BY <1>2, <3>2, <3>3 DEF Bounded
  <2> QED BY <1>4, <2>2, <2>3 DEF Handle
<1>5. ASSUME UNCHANGED index PROVE Bounded'
  BY <1>2, <1>5 DEF Bounded
<1>6. ASSUME NEW c \in Call, NEW r, NEW p, Ask(c, r, p) PROVE Bounded'
  BY <1>5, <1>6 DEF Ask
<1>7. ASSUME NEW c \in Call, Settle(c) PROVE Bounded'
  BY <1>5, <1>7 DEF Settle
<1>8. ASSUME NEW pair, ConsentWithdrawn(pair) PROVE Bounded'
  BY <1>5, <1>8 DEF ConsentWithdrawn, callVars
<1>9. ASSUME NEW s \in Session, SessionEnds(s) PROVE Bounded'
  BY <1>5, <1>9 DEF SessionEnds, callVars
<1>10. ASSUME UNCHANGED vars PROVE Bounded'
  BY <1>5, <1>10 DEF vars, callVars
<1> QED BY <1>3, <1>4, <1>6, <1>7, <1>8, <1>9, <1>10, NextMoves

\* What a middleware leaves behind.
LEMMA TypedMiddleware ==
  ASSUME PassageInv, Bounded, Typed, NEW c \in Call, NEW i \in Position,
         GateStep(c, i) \/ ObserverStep(c, i) \/ TerminalStep(c, i)
  PROVE  Typed'
<1> USE DEF PassageInv
<1> DEFINE ResultOK == result' \in [Call -> [Position -> Result \cup {None}]]
           ReportOK == audited' \in [Call -> ToolCallReport \cup {None}]
           HostOK == consented' = consented /\ sawConsent' \subseteq Call
<1>1. ASSUME NEW r \in Result \cup {None}, End(c, i, r) PROVE ResultOK
  BY <1>1 DEF End, Typed
<1>2. ASSUME CallNext(c, i) PROVE ResultOK
  <2>1. CASE AlreadyDispatched(c, i + 1)
    BY <1>1, <1>2, <2>1 DEF CallNext, Result
  <2>2. CASE ~AlreadyDispatched(c, i + 1)
    BY <1>2, <2>2 DEF CallNext, Typed
  <2> QED BY <2>1, <2>2
<1>3. ASSUME frame[c][i] = "awaiting", PassOn(c, i) PROVE ResultOK
  <2>1. index[c] > i /\ index[c] # -1
    BY <1>3, DepthAssumption DEF Frames, Position
  <2>2. index[c] <= Len(pipeline[c]) /\ Len(pipeline[c]) \in 0..Depth
    BY <2>1, PipelineLength DEF Bounded
  <2>3. i + 1 \in Position
    BY <2>1, <2>2, DepthAssumption DEF Position, Frames
  <2>4. result[c][i + 1] \in Result \cup {None}
    BY <2>3 DEF Typed
  <2> QED BY <1>1, <1>3, <2>4 DEF PassOn
<1>4. ASSUME NEW kind, NEW r PROVE AuditOutcome(kind, r) \in ToolCallReport
  BY DEF AuditOutcome, Report, ToolCallReport
<1>5. audited' = audited => ReportOK
  BY DEF Typed
<1>6. UNCHANGED hostVars => HostOK
  BY DEF hostVars, Typed
<1>7. result' = result => ResultOK
  BY DEF Typed
<1> HIDE DEF ResultOK, ReportOK, HostOK
<1> DEFINE OK == ResultOK /\ ReportOK /\ HostOK
<1> USE DEF At, reportVars, sharedVars
<1>8. ASSUME PolicyGate(c, i) PROVE OK
  <2> DEFINE d == Evaluate(config.policy, req[c].name, req[c].identity)
  <2>1. d.decision = "deny" => d.reason \in RejectionReason
    BY EvaluateDecides
  <2> HIDE DEF d
  <2>2. CallNext(c, i) \/ \E e : Refuse(c, i, e) /\ e.reason \in RejectionReason
    BY <1>8, <2>1 DEF PolicyGate, d, Deny, RejectionReason
  <2>3. ResultOK
    BY <1>1, <1>2, <2>2 DEF Refuse, Result
  <2> QED BY <1>5, <1>6, <1>8, <2>3 DEF PolicyGate
<1>9. ASSUME ConsentAsked(c, i) \/ ConsentUnavailable(c, i) PROVE OK
  <2>1. ResultOK
    BY <1>1, <1>7, <1>9 DEF ConsentAsked, ConsentUnavailable, Result, RejectionReason
  <2> QED BY <1>5, <1>6, <1>9, <2>1 DEF ConsentAsked, ConsentUnavailable
<1>10. ASSUME NEW answer, ConsentResolved(c, i, answer) PROVE OK
  <2>1. HostOK
    BY <1>10 DEF ConsentResolved, HostOK, Typed
  <2> QED BY <1>5, <1>7, <1>10, <2>1 DEF ConsentResolved
<1>11. ASSUME NEW answer, ConsentGate(c, i, answer) PROVE OK
  <2>1. ResultOK
    BY <1>1, <1>2, <1>11 DEF ConsentGate, Result, RejectionReason
  <2> QED BY <1>5, <1>6, <1>11, <2>1 DEF ConsentGate
<1>12. ASSUME GateReturns(c, i) \/ HostReturns(c, i) PROVE OK
  BY <1>3, <1>5, <1>6, <1>12 DEF GateReturns, HostReturns
<1>13. ASSUME AuditEnters(c, i) \/ HostCallsNext(c, i) PROVE OK
  BY <1>2, <1>5, <1>6, <1>13 DEF AuditEnters, HostCallsNext
<1>14. ASSUME AuditReturns(c, i) PROVE OK
  <2>1. ReportOK
    BY <1>4, <1>14 DEF AuditReturns, Typed, ReportOK
  <2> QED BY <1>3, <1>6, <1>14, <2>1 DEF AuditReturns
<1>15. ASSUME NEW r \in {"ok", "none"}, HostAnswers(c, i, r) PROVE OK
  <2>1. ResultOK
    BY <1>1, <1>15 DEF HostAnswers, Result
  <2> QED BY <1>5, <1>6, <1>15, <2>1 DEF HostAnswers
<1>16. ASSUME Refused(c, i) PROVE OK
  <2>1. Refusal(req[c]) \in Result \cup {None}
    BY DEF Refusal, Result, RejectionReason
  <2> QED BY <1>1, <1>5, <1>6, <1>16, <2>1 DEF Refused
<1>17. ASSUME Forward(c, i) \/ RunLocal(c, i) PROVE OK
  BY <1>5, <1>6, <1>7, <1>17 DEF Forward, RunLocal
<1>18. ASSUME NEW r \in Result, Answers(c, i, r) PROVE OK
  BY <1>1, <1>5, <1>6, <1>18 DEF Answers
<1>19. OK
  <2>1. CASE GateStep(c, i)
    BY <1>8, <1>9, <1>10, <1>11, <1>12, <2>1 DEF GateStep
  <2>2. CASE ObserverStep(c, i)
    BY <1>12, <1>13, <1>14, <1>15, <2>2 DEF ObserverStep
  <2>3. CASE TerminalStep(c, i)
    BY <1>16, <1>17, <1>18, <2>3 DEF TerminalStep
  <2> QED BY <2>1, <2>2, <2>3
<1> QED BY <1>19, StepMoves DEF Typed, ResultOK, ReportOK, HostOK, requestVars

\* Every step keeps the types.
LEMMA TypedStep ==
  ASSUME PassageInv, Bounded, Typed, [Next]_vars
  PROVE  Typed'
<1> USE DEF PassageInv, vars, callVars, requestVars, reportVars, sharedVars, hostVars
<1>1. ASSUME NEW c \in Call, NEW i \in Position,
             GateStep(c, i) \/ ObserverStep(c, i) \/ TerminalStep(c, i)
      PROVE  Typed'
  BY <1>1, TypedMiddleware
<1>2. ASSUME NEW c \in Call, Handle(c) \/ Settle(c) PROVE Typed'
  BY <1>2 DEF Handle, Settle, Typed
<1>3. ASSUME NEW c \in Call, NEW r, NEW p \in Call \cup {None}, Ask(c, r, p) PROVE Typed'
  BY <1>3 DEF Ask, Typed
<1>4. ASSUME NEW pair, ConsentWithdrawn(pair) PROVE Typed'
  BY <1>4 DEF ConsentWithdrawn, Typed
<1>5. ASSUME NEW s \in Session, SessionEnds(s) PROVE Typed'
  BY <1>5 DEF SessionEnds, Typed
<1>6. ASSUME UNCHANGED vars PROVE Typed'
  BY <1>6 DEF Typed
<1>7. ASSUME NEW c \in Call, NEW r \in config.requests,
             ClientAsks(c, r) \/ \E p \in Call : AgentAsks(c, p, r)
      PROVE  Typed'
  BY <1>3, <1>7 DEF ClientAsks, AgentAsks
<1> QED BY <1>1, <1>2, <1>4, <1>5, <1>6, <1>7 DEF Next

\* The state has its types, for any number of calls and any pipelines.
THEOREM TypesHold == Spec => []TypeOK
<1>1. Init => TypeInv
  <2>1. ASSUME Init PROVE Told /\ Bounded /\ Typed
    BY <2>1 DEF Init, Told, Bounded, Typed
  <2> QED BY <2>1, BudgetInductive DEF TypeInv
<1>2. TypeInv /\ [Next]_vars => TypeInv'
  BY BudgetInductive, ToldStep, BoundedStep, TypedStep DEF TypeInv, BudgetInv
<1>3. TypeInv => TypeOK
  <2> SUFFICES ASSUME TypeInv PROVE TypeOK
    OBVIOUS
  <2> USE DEF TypeInv, BudgetInv, PassageInv
  <2>1. config \in Configuration /\ settled \in [Call -> BOOLEAN] /\ live \subseteq Session
    BY DEF ConfigOK, Domains, RequestsOK
  <2>2. \A c \in Call : req[c] # None => req[c].kind \in {"tool", "prompt", "resource"}
    BY DEF RequestsOK
  <2>3. index \in [Call -> {-1} \cup Position]
    <3>1. ASSUME NEW c \in Call PROVE index[c] \in {-1} \cup Position
      BY PipelineLength, DepthAssumption DEF Bounded, Frames, Position
    <3> QED BY <3>1 DEF Frames
  <2>4. frame \in [Call -> [Position ->
          {"idle", "running", "asking", "true", "false", "truthy", "awaiting", "calling",
           "local", "done"}]]
    <3>1. Status = {"idle", "running", "asking", "true", "false", "truthy", "awaiting",
                    "calling", "local", "done"}
      BY DEF Status, Active
    <3> QED BY <3>1 DEF Frames
  <2>5. ASSUME NEW c \in Call
        PROVE  {telemetry[c][i] : i \in DOMAIN telemetry[c]} \subseteq ToolCallReport
    <3>1. Outcome(result[c][0]) \in ToolCallReport
      BY DEF Outcome, Report, ToolCallReport
    <3>2. telemetry[c] = <<Outcome(result[c][0])>> \/ telemetry[c] = <<>>
      BY DEF Told
    <3> HIDE DEF ToolCallReport
    <3>3. CASE telemetry[c] = <<Outcome(result[c][0])>>
      BY <3>1, <3>3
    <3>4. CASE telemetry[c] = <<>>
      BY <3>4
    <3> QED BY <3>2, <3>3, <3>4
  <2>6. callCounts \in [Session -> Nat \cup {None}] /\ released \subseteq Call
    BY DEF Ledger
  <2>7. straddling \subseteq Call
    BY DEF Ended
  <2> QED BY <2>1, <2>2, <2>3, <2>4, <2>5, <2>6, <2>7 DEF TypeOK, Typed
<1> QED BY <1>1, <1>2, <1>3, PTL DEF Spec

---------------------------------------------------------------------------
(***************************************************************************)
(* The rules.                                                              *)
(***************************************************************************)
\* The gate lets through what the rules allow.
Allowed ==
  \A c \in Call : Counted(c) =>
    Evaluate(config.policy, req[c].name, req[c].identity).decision = "allow"

\* A field that was accepted stands for what its author meant.
LEMMA AcceptedMeans ==
  ASSUME NEW field, AcceptedField(field), NEW values, MeantFor(field, values)
  PROVE  field.shape = "wildcard" \/ field.names \cap values # {}
BY DEF AcceptedField, MeantFor

\* assertRules and assertSensitivityRules leave no rule that reads as a refusal and does
\* not refuse.
LEMMA AllowedIsMeant ==
  ASSUME NEW p, Accepted(p), NEW name, NEW identity,
         Evaluate(p, name, identity).decision = "allow"
  PROVE  ~MeantToRefuse(p, name, identity)
<1> DEFINE roles == IF identity = None THEN {} ELSE RolesOf[identity]
<1>1. /\ ~\E i \in DOMAIN p.rules : /\ p.rules[i].effect = "deny"
                                    /\ RolesMatch(p.rules[i].roles, roles)
                                    /\ NamesMatch(p.rules[i].tools, name)
      /\ ~\E r \in p.sensitivityRules : /\ RolesMatch(r.roles, roles)
                                        /\ ResolveTier(p.sensitivity, name) \in r.deniedTiers
  BY DEF Evaluate, Deny, Allow
<1> HIDE DEF roles
<1>2. ASSUME NEW i \in DOMAIN p.rules, p.rules[i].effect # "allow",
             MeantFor(p.rules[i].roles, roles), MeantFor(p.rules[i].tools, {name})
      PROVE  FALSE
  <2>1. /\ p.rules[i].effect = "deny"
        /\ AcceptedField(p.rules[i].roles) /\ AcceptedField(p.rules[i].tools)
    BY <1>2 DEF Accepted, AcceptedRule
  <2>2. RolesMatch(p.rules[i].roles, roles) /\ NamesMatch(p.rules[i].tools, name)
    BY <1>2, <2>1, AcceptedMeans DEF RolesMatch, NamesMatch
  <2> QED BY <1>1, <2>1, <2>2
<1>3. ASSUME NEW r \in p.sensitivityRules, MeantFor(r.roles, roles),
             \/ ResolveTier(p.sensitivity, name) \in r.deniedTiers
             \/ r.deniedTiers \ Tiers # {}
      PROVE  FALSE
  <2>1. AcceptedField(r.roles) /\ r.deniedTiers \subseteq Tiers
    BY DEF Accepted, AcceptedTierRule
  <2>2. RolesMatch(r.roles, roles)
    BY <1>3, <2>1, AcceptedMeans DEF RolesMatch
  <2> QED BY <1>1, <1>3, <2>1, <2>2
<1> QED BY <1>2, <1>3 DEF MeantToRefuse, roles

\* What was allowed stays allowed: neither the options nor a request change.
LEMMA AllowedStep ==
  ASSUME PassageInv, Decided, Allowed, [Next]_vars
  PROVE  Allowed'
<1> USE DEF PassageInv
<1> DEFINE Verdict(c) == Evaluate(config.policy, req[c].name, req[c].identity)
           Right(c) == Counted(c) => Verdict(c).decision = "allow"
<1>1. UNCHANGED config
  BY ConfigStep
<1>2. ASSUME NEW d \in Call, req'[d] = req[d] PROVE Verdict(d)' = Verdict(d)
  <2>1. req'[d].name = req[d].name /\ req'[d].identity = req[d].identity
    BY <1>2
  <2>2. config'.policy = config.policy
    BY <1>1
  <2> QED BY <2>1, <2>2 DEF Evaluate, RolesMatch, NamesMatch, ResolveTier, Deny, Allow
<1> HIDE DEF Verdict
<1>3. ASSUME NEW d \in Call, req'[d] = req[d] \/ ~Counted(d), policy'[d] = policy[d]
      PROVE  Right(d)'
  BY <1>2, <1>3 DEF Allowed, Counted, Verdict
<1>4. ASSUME NEW c \in Call, NEW i \in Position,
             GateStep(c, i) \/ ObserverStep(c, i) \/ TerminalStep(c, i)
      PROVE  \A d \in Call : Right(d)'
  <2>1. req' = req
    BY <1>4, StepMoves DEF requestVars
  <2>2. ASSUME NEW d \in Call \ {c} PROVE Right(d)'
    BY <1>3, <1>4, <2>1, StepWrites
  <2>3. CASE policy' = policy
    BY <1>3, <2>1, <2>3
  <2>4. CASE PolicyGate(c, i)
    <3>1. Verdict(c).decision = "allow" \/ Verdict(c).decision = "deny"
      BY EvaluateDecides DEF Verdict
    <3>2. \/ \E e : Refuse(c, i, e) /\ e.decision = "deny"
          \/ policy' = [policy EXCEPT ![c] = Verdict(c)]
      BY <2>4, <3>1 DEF PolicyGate, Verdict, Deny
    <3>3. Counted(c)' => policy' = [policy EXCEPT ![c] = Verdict(c)]
      BY <3>2 DEF Refuse, Counted, Domains
    <3>4. Counted(c)' => Verdict(c).decision = "allow"
      BY <3>3 DEF Counted, Domains
    <3>5. Right(c)'
      BY <1>2, <2>1, <3>4
    <3> QED BY <2>2, <3>5
  <2> QED BY <1>4, <2>3, <2>4, StepWrites
<1>5. ASSUME UNCHANGED <<req, policy>> PROVE \A d \in Call : Right(d)'
  BY <1>3, <1>5
<1>6. ASSUME NEW c \in Call, Handle(c) \/ Settle(c) PROVE \A d \in Call : Right(d)'
  BY <1>5, <1>6 DEF Handle, Settle, requestVars
<1>7. ASSUME NEW c \in Call, NEW r, NEW p, Ask(c, r, p) PROVE \A d \in Call : Right(d)'
  <2>1. policy' = policy /\ req[c] = None /\ \A d \in Call \ {c} : req'[d] = req[d]
    BY <1>7 DEF Ask, Domains
  <2>2. ~Counted(c)
    BY <2>1, Undecided, NoneAssumption DEF Chosen, Counted
  <2> QED BY <1>3, <2>1, <2>2
<1>8. ASSUME NEW pair, ConsentWithdrawn(pair) PROVE \A d \in Call : Right(d)'
  BY <1>5, <1>8 DEF ConsentWithdrawn, callVars, requestVars
<1>9. ASSUME NEW s \in Session, SessionEnds(s) PROVE \A d \in Call : Right(d)'
  BY <1>5, <1>9 DEF SessionEnds, callVars, requestVars
<1>10. ASSUME UNCHANGED vars PROVE \A d \in Call : Right(d)'
  BY <1>5, <1>10 DEF vars, callVars, requestVars
<1>11. \A d \in Call : Right(d)'
  BY <1>4, <1>6, <1>7, <1>8, <1>9, <1>10, NextMoves
<1> QED BY <1>11 DEF Allowed, Verdict

\* A rule that reads as a refusal refuses, for any rules createPolicyMiddleware accepts
\* (assertRules, evaluate).
THEOREM RefusalsHoldAlways == Spec => []RefusalsHold
<1> DEFINE Inv == PassageInv /\ Decided /\ Allowed
<1>1. Init => Inv
  <2>1. ASSUME Init PROVE Allowed
    BY <2>1, NoneAssumption DEF Init, Allowed, Counted, NoDecision
  <2> QED BY <2>1, BudgetInductive DEF BudgetInv
<1>2. Inv /\ [Next]_vars => Inv'
  BY PassageNext, DecidedStep, AllowedStep
<1>3. Inv => RefusalsHold
  <2> SUFFICES ASSUME Inv, NEW c \in Call, Reached(c), "policy" \in InForce(req[c])
               PROVE  ~MeantToRefuse(config.policy, req[c].name, req[c].identity)
    BY DEF RefusalsHold
  <2>1. Governed
    BY PassageGoverns
  <2>2. Counted(c)
    BY <2>1 DEF Governed
  <2> QED BY <2>2, AllowedIsMeant DEF Allowed, PassageInv, ConfigOK
<1> QED BY <1>1, <1>2, <1>3, PTL DEF Spec

---------------------------------------------------------------------------
(***************************************************************************)
(* The delegation chain.                                                   *)
(***************************************************************************)
IsSeq(s) == s \in Seq({s[i] : i \in DOMAIN s})

\* Sequences, whatever they are of.
LEMMA IsSeqOf ==
  ASSUME NEW T, NEW s \in Seq(T)
  PROVE  IsSeq(s)
BY DEF IsSeq

LEMMA Appended ==
  ASSUME NEW s, IsSeq(s), NEW e
  PROVE  LET q == Append(s, e) IN
         /\ IsSeq(q) /\ Len(s) \in Nat /\ DOMAIN s = 1..Len(s)
         /\ DOMAIN q = 1..(Len(s) + 1) /\ q # <<>> /\ q[Len(s) + 1] = e
         /\ \A i \in 1..Len(s) : q[i] = s[i]
<1> DEFINE T == {s[i] : i \in DOMAIN s} \cup {e}
           q == Append(s, e)
<1>1. s \in Seq(T) /\ e \in T
  BY DEF IsSeq
<1> HIDE DEF T
<1>2. /\ q \in Seq(T) /\ Len(s) \in Nat /\ DOMAIN s = 1..Len(s)
      /\ DOMAIN q = 1..(Len(s) + 1) /\ Len(q) = Len(s) + 1 /\ q[Len(s) + 1] = e
      /\ \A i \in 1..Len(s) : q[i] = s[i]
  BY <1>1
<1> HIDE DEF q
<1>3. IsSeq(q) /\ q # <<>>
  BY <1>2, IsSeqOf
<1> QED BY <1>2, <1>3 DEF q

\* A payload that is not refused says whom it names.
PayloadOK(payload) == WellFormed(payload) => IsSeq(payload.chain)

LEMMA Inbound ==
  ASSUME NEW payload, PayloadOK(payload), ~ReadInbound(payload).invalid
  PROVE  /\ ReadInbound(payload).chain = NamedIn(payload)
         /\ IsSeq(NamedIn(payload))
<1>1. CASE payload = NoPayload
  <2>1. ReadInbound(payload).chain = <<>> /\ NamedIn(payload) = <<>>
    BY <1>1 DEF ReadInbound, NamedIn, NoPayload
  <2> QED BY <2>1 DEF IsSeq
<1>2. CASE payload # NoPayload
  <2>1. WellFormed(payload)
    <3>1. CASE ~WellFormed(payload)
      <4>1. ReadInbound(payload) = [chain |-> <<>>, invalid |-> TRUE]
        BY <1>2, <3>1 DEF ReadInbound
      <4>2. ReadInbound(payload).invalid = TRUE
        BY <4>1
      <4> QED BY <4>2
    <3> QED BY <3>1
  <2>2. ReadInbound(payload).chain = NamedIn(payload)
    BY <1>2, <2>1 DEF ReadInbound, NamedIn
  <2> DEFINE wire == payload.chain
             subs == [i \in DOMAIN wire |-> wire[i].sub]
  <2>3. IsSeq(wire) /\ NamedIn(payload) = subs
    BY <2>1 DEF PayloadOK, NamedIn
  <2> HIDE DEF wire
  <2>4. Len(wire) \in Nat /\ DOMAIN wire = 1..Len(wire)
    BY <2>3 DEF IsSeq
  <2>5. subs \in Seq({wire[i].sub : i \in DOMAIN wire})
    BY <2>4
  <2> QED BY <2>2, <2>3, <2>5, IsSeqOf
<1> QED BY <1>1, <1>2

\* What is put on the wire names the chain it was made from.
LEMMA Serialized ==
  ASSUME NEW chain, IsSeq(chain)
  PROVE  NamedIn(Serialize(chain)) = chain /\ PayloadOK(Serialize(chain))
<1> DEFINE wire == [i \in DOMAIN chain |-> [sub |-> chain[i], type |-> "agent"]]
<1>1. Len(chain) \in Nat /\ DOMAIN chain = 1..Len(chain)
  BY DEF IsSeq
<1>2. wire \in Seq({wire[i] : i \in 1..Len(chain)})
  BY <1>1
<1>3. Serialize(chain).chain = wire
  BY DEF Serialize
<1>4. IsSeq(wire)
  BY <1>2, IsSeqOf
<1>5. PayloadOK(Serialize(chain))
  BY <1>3, <1>4 DEF PayloadOK
<1>6. NamedIn(Serialize(chain)) = [i \in 1..Len(chain) |-> chain[i]]
  BY <1>1, <1>3 DEF NamedIn
<1>7. chain = [i \in 1..Len(chain) |-> chain[i]]
  BY <1>1 DEF IsSeq
<1> QED BY <1>5, <1>6, <1>7

\* The equations of Lineage and Origin, for requests q and parents t.
LineageIn(q, t, f, c) ==
  LET before == IF t[c] = None THEN ReadInbound(q[c].payload).chain ELSE f[t[c]]
  IN IF q[c].identity = None THEN before ELSE Append(before, q[c].identity)

OriginIn(t, g, c) == IF t[c] = None THEN c ELSE g[t[c]]

IsLineage(q, t, f) == f = [c \in Call |-> LineageIn(q, t, f, c)]
IsOrigin(t, g) == g = [c \in Call |-> OriginIn(t, g, c)]

\* A call without children may be given another request: the others stand in the same
\* lines as before.
LEMMA Resettled ==
  ASSUME NEW c \in Call, NEW q1, NEW t1, NEW q2, NEW t2,
         \A d \in Call \ {c} : q2[d] = q1[d] /\ t2[d] = t1[d],
         \A d \in Call : t1[d] \in Call \cup {None} /\ t2[d] \in Call \cup {None},
         \A d \in Call : t1[d] = None \/ t1[d] # c,
         \A d \in Call : t2[d] = None \/ t2[d] # c
  PROVE  /\ \A f : IsLineage(q1, t1, f) =>
              IsLineage(q2, t2, [f EXCEPT ![c] = LineageIn(q2, t2, f, c)])
         /\ \A g : IsOrigin(t1, g) => IsOrigin(t2, [g EXCEPT ![c] = OriginIn(t2, g, c)])
<1>1. ASSUME NEW f, IsLineage(q1, t1, f)
      PROVE  IsLineage(q2, t2, [f EXCEPT ![c] = LineageIn(q2, t2, f, c)])
  <2> DEFINE h == [f EXCEPT ![c] = LineageIn(q2, t2, f, c)]
  <2>1. DOMAIN f = Call /\ \A d \in Call : f[d] = LineageIn(q1, t1, f, d)
    BY <1>1 DEF IsLineage
  <2>2. h = [d \in Call |-> h[d]] /\ h[c] = LineageIn(q2, t2, f, c)
        /\ \A d \in Call \ {c} : h[d] = f[d]
    BY <2>1
  <2> HIDE DEF h
  <2>3. ASSUME NEW d \in Call PROVE LineageIn(q2, t2, h, d) = LineageIn(q2, t2, f, d)
    <3>1. t2[d] = None \/ h[t2[d]] = f[t2[d]]
      BY <2>2
    <3> QED BY <3>1 DEF LineageIn
  <2>4. ASSUME NEW d \in Call \ {c} PROVE LineageIn(q2, t2, f, d) = LineageIn(q1, t1, f, d)
    <3>1. q2[d] = q1[d] /\ t2[d] = t1[d]
      OBVIOUS
    <3> QED BY <3>1 DEF LineageIn
  <2>5. \A d \in Call : h[d] = LineageIn(q2, t2, h, d)
    BY <2>1, <2>2, <2>3, <2>4
  <2>6. IsLineage(q2, t2, h)
    BY <2>2, <2>5 DEF IsLineage
  <2> QED BY <2>6 DEF h
<1>2. ASSUME NEW g, IsOrigin(t1, g)
      PROVE  IsOrigin(t2, [g EXCEPT ![c] = OriginIn(t2, g, c)])
  <2> DEFINE h == [g EXCEPT ![c] = OriginIn(t2, g, c)]
  <2>1. DOMAIN g = Call /\ \A d \in Call : g[d] = OriginIn(t1, g, d)
    BY <1>2 DEF IsOrigin
  <2>2. h = [d \in Call |-> h[d]] /\ h[c] = OriginIn(t2, g, c)
        /\ \A d \in Call \ {c} : h[d] = g[d]
    BY <2>1
  <2> HIDE DEF h
  <2>3. \A d \in Call : OriginIn(t2, h, d) = OriginIn(t2, g, d)
    BY <2>2 DEF OriginIn
  <2>4. \A d \in Call \ {c} : OriginIn(t2, g, d) = OriginIn(t1, g, d)
    BY DEF OriginIn
  <2>5. \A d \in Call : h[d] = OriginIn(t2, h, d)
    BY <2>1, <2>2, <2>3, <2>4
  <2>6. IsOrigin(t2, h)
    BY <2>2, <2>5 DEF IsOrigin
  <2> QED BY <2>6 DEF h
<1> QED BY <1>1, <1>2

\* An agent presents what the call it serves was sent; what others present can be read.
Handed ==
  /\ DOMAIN parent = Call
  /\ \A c \in Call :
       /\ parent[c] \in Call \cup {None}
       /\ req[c] # None /\ parent[c] = None => PayloadOK(req[c].payload)
       /\ parent[c] # None => /\ sent[parent[c]] # <<>>
                              /\ req[c].payload = sent[parent[c]][1].payload

\* Repeats stand in the part that was presented.
Fresh(chain, presented) ==
  \A i, j \in DOMAIN chain : i < j /\ chain[i] = chain[j] => j <= Len(presented)

\* What the calls that went upstream have named, by the equations above.
TracedCall(f, g, c) ==
  /\ NamedIn(sent[c][1].payload) = f[c]
  /\ IsSeq(f[c]) /\ PayloadOK(sent[c][1].payload)
  /\ Fresh(f[c], ReadInbound(req[g[c]].payload).chain)

Traced(f, g) ==
  \A c \in Call :
    /\ req[c] # None => g[c] \in Call /\ req[g[c]] # None
    /\ sent[c] # <<>> => TracedCall(f, g, c)

LineInv ==
  /\ Handed
  /\ \E f : IsLineage(req, parent, f)
  /\ \E g : IsOrigin(parent, g)
  /\ \A f, g : IsLineage(req, parent, f) /\ IsOrigin(parent, g) => Traced(f, g)

\* Only a request that came in is sent on.
LEMMA SentWasAsked ==
  ASSUME PassageInv, NEW c \in Call, sent[c] # <<>>
  PROVE  req[c] # None
<1>1. PICK j \in Position : index[c] = j
  BY DEF PassageInv, SentOnce
<1>2. index[c] # -1
  BY <1>1, DepthAssumption DEF Position
<1> QED BY <1>2 DEF PassageInv, Chosen

\* A request comes in, from a client or from an agent.
LEMMA LineAsk ==
  ASSUME PassageInv, LineInv, NEW c \in Call, NEW r, NEW p \in Call \cup {None},
         Ask(c, r, p), PayloadOK(r.payload),
         p # None => sent[p] # <<>> /\ r.payload = sent[p][1].payload
  PROVE  LineInv'
<1> USE DEF LineInv
<1>1. /\ req[c] = None /\ sent' = sent
      /\ req'[c] = r /\ parent'[c] = p /\ DOMAIN parent' = Call
      /\ \A d \in Call \ {c} : req'[d] = req[d] /\ parent'[d] = parent[d]
  BY DEF Ask, Handed, PassageInv, Domains
<1>2. sent[c] = <<>>
  BY <1>1, SentWasAsked
<1>3. \A d \in Call : parent[d] \in Call \cup {None} /\ (parent[d] = None \/ parent[d] # c)
  BY <1>2 DEF Handed
<1>4. \A d \in Call : parent'[d] \in Call \cup {None} /\ (parent'[d] = None \/ parent'[d] # c)
  BY <1>1, <1>2, <1>3
<1>5. Handed'
  BY <1>1, <1>4 DEF Handed
<1>6. (\E f : IsLineage(req', parent', f)) /\ \E g : IsOrigin(parent', g)
  <2>1. PICK f : IsLineage(req, parent, f)
    BY DEF LineInv
  <2>2. PICK g : IsOrigin(parent, g)
    BY DEF LineInv
  <2>3. /\ IsLineage(req', parent', [f EXCEPT ![c] = LineageIn(req', parent', f, c)])
        /\ IsOrigin(parent', [g EXCEPT ![c] = OriginIn(parent', g, c)])
    BY <1>1, <1>3, <1>4, <2>1, <2>2, Resettled
  <2> QED BY <2>3
<1>7. ASSUME NEW f, NEW g, IsLineage(req', parent', f), IsOrigin(parent', g)
      PROVE  Traced(f, g)'
  <2> DEFINE h == [f EXCEPT ![c] = LineageIn(req, parent, f, c)]
             k == [g EXCEPT ![c] = OriginIn(parent, g, c)]
  <2>1. IsLineage(req, parent, h) /\ IsOrigin(parent, k)
    BY <1>1, <1>3, <1>4, <1>7, Resettled
  <2>2. Traced(h, k)
    BY <2>1
  <2>3. /\ \A d \in Call \ {c} : h[d] = f[d] /\ k[d] = g[d]
        /\ g[c] = OriginIn(parent', g, c)
    BY <1>7 DEF IsLineage, IsOrigin
  <2> HIDE DEF h, k
  <2>4. ASSUME NEW d \in Call \ {c}, req[d] # None
        PROVE  g[d] \in Call \ {c} /\ req'[g[d]] = req[g[d]] /\ req[g[d]] # None
    BY <1>1, <2>2, <2>3, <2>4 DEF Traced
  <2>5. ASSUME NEW d \in Call, req'[d] # None
        PROVE  g[d] \in Call /\ req'[g[d]] # None
    <3>1. CASE d # c
      BY <1>1, <2>4, <2>5, <3>1
    <3>2. CASE d = c /\ p = None
      BY <1>1, <2>3, <2>5, <3>2 DEF OriginIn
    <3>3. CASE d = c /\ p # None
      <4>1. p \in Call \ {c} /\ req[p] # None
        BY <1>1, <3>3, SentWasAsked
      <4>2. g[c] = g[p]
        BY <1>1, <2>3, <3>3 DEF OriginIn
      <4> QED BY <2>4, <3>3, <4>1, <4>2
    <3> QED BY <3>1, <3>2, <3>3
  <2>6. ASSUME NEW d \in Call, sent'[d] # <<>> PROVE TracedCall(f, g, d)'
    <3>1. d \in Call \ {c} /\ sent[d] # <<>> /\ sent'[d] = sent[d]
      BY <1>1, <1>2, <2>6
    <3>2. req[d] # None
      BY <3>1, SentWasAsked
    <3>3. TracedCall(h, k, d) /\ h[d] = f[d] /\ k[d] = g[d]
      BY <2>2, <2>3, <3>1 DEF Traced
    <3>4. req'[g[d]] = req[g[d]]
      BY <2>4, <3>1, <3>2
    <3> QED BY <3>1, <3>3, <3>4 DEF TracedCall
  <2> QED BY <2>5, <2>6 DEF Traced
<1> QED BY <1>5, <1>6, <1>7

\* Appending a caller that is not in the chain repeats nothing.
LEMMA FreshAppend ==
  ASSUME NEW s, IsSeq(s), NEW q, Fresh(s, q), NEW e, \A i \in DOMAIN s : s[i] # e
  PROVE  Fresh(Append(s, e), q)
<1> DEFINE t == Append(s, e)
<1>1. /\ Len(s) \in Nat /\ DOMAIN s = 1..Len(s)
      /\ DOMAIN t = 1..(Len(s) + 1) /\ t[Len(s) + 1] = e
      /\ \A i \in 1..Len(s) : t[i] = s[i]
  BY Appended
<1> HIDE DEF t
<1>2. ASSUME NEW i \in DOMAIN t, NEW j \in DOMAIN t, i < j, t[i] = t[j]
      PROVE  j <= Len(q)
  <2>1. i \in 1..Len(s)
    BY <1>1, <1>2
  <2>2. j \in 1..Len(s)
    BY <1>1, <1>2, <2>1
  <2> QED BY <1>1, <1>2, <2>1, <2>2 DEF Fresh
<1> QED BY <1>2 DEF Fresh, t

\* What a proxy sends on (core.ts, outboundDelegationChain): the chain it was handed and
\* its caller, in a form the next hop can read.
LEMMA OutboundNames ==
  ASSUME NEW r, PayloadOK(r.payload), ~DelegationInvalid(r.payload, r.identity)
  PROVE  LET presented == ReadInbound(r.payload).chain
             chain == OutboundChain(presented, r.identity)
         IN /\ presented = NamedIn(r.payload) /\ IsSeq(presented)
            /\ NamedIn(Outbound(r)) = chain /\ IsSeq(chain) /\ PayloadOK(Outbound(r))
            /\ \A q : Fresh(presented, q) => Fresh(chain, q)
<1> DEFINE presented == ReadInbound(r.payload).chain
           chain == OutboundChain(presented, r.identity)
<1>1. ~ReadInbound(r.payload).invalid /\ ~Loops(presented, r.identity)
  BY DEF DelegationInvalid
<1>2. presented = NamedIn(r.payload) /\ IsSeq(presented)
  BY <1>1, Inbound
<1> HIDE DEF presented
<1>3. CASE r.identity = None
  <2>1. chain = presented
    BY <1>3 DEF OutboundChain
  <2>2. CASE chain = <<>>
    <3>1. Outbound(r) = NoPayload \/ Outbound(r) = r.payload
      BY <2>2 DEF Outbound, Attach, presented
    <3>2. NamedIn(NoPayload) = <<>> /\ PayloadOK(NoPayload)
      <4>1. NoPayload.object = FALSE
        BY DEF NoPayload
      <4>2. ~WellFormed(NoPayload)
        BY <4>1 DEF WellFormed
      <4> QED BY <4>2 DEF NamedIn, NoPayload, PayloadOK
    <3>3. NamedIn(Outbound(r)) = chain /\ PayloadOK(Outbound(r))
      BY <1>2, <2>1, <2>2, <3>1, <3>2
    <3> QED BY <1>2, <2>1, <3>3 DEF presented
  <2>3. CASE chain # <<>>
    <3>1. Outbound(r) = Serialize(chain)
      BY <2>3 DEF Outbound, Attach, presented
    <3> QED BY <1>2, <2>1, <3>1, Serialized DEF presented
  <2> QED BY <2>2, <2>3
<1>4. CASE r.identity # None
  <2>1. chain = Append(presented, r.identity)
    BY <1>4 DEF OutboundChain
  <2>2. IsSeq(chain) /\ chain # <<>>
    BY <1>2, <2>1, Appended
  <2>3. Outbound(r) = Serialize(chain)
    BY <2>2 DEF Outbound, Attach, presented
  <2>4. \A i \in DOMAIN presented : presented[i] # r.identity
    BY <1>1, <1>4 DEF Loops
  <2>5. \A q : Fresh(presented, q) => Fresh(chain, q)
    BY <1>2, <2>1, <2>4, FreshAppend
  <2>6. NamedIn(Outbound(r)) = chain /\ PayloadOK(Outbound(r))
    BY <2>2, <2>3, Serialized
  <2> QED BY <1>2, <2>2, <2>5, <2>6 DEF presented
<1> QED BY <1>3, <1>4

\* A call goes upstream.
LEMMA LineForward ==
  ASSUME PassageInv, LineInv, NEW c \in Call, NEW i \in Position, Forward(c, i)
  PROVE  LineInv'
<1> USE DEF LineInv
<1>1. UNCHANGED <<req, parent>> /\ frame[c][i] = "running" /\ index[c] = i
  BY DEF Forward, requestVars, At, PassageInv, Frames, Active
<1>2. sent[c] = <<>>
  BY <1>1 DEF PassageInv, SentOnce
<1>3. req[c] # None
  BY <1>1, DepthAssumption DEF PassageInv, Chosen, Position
<1> DEFINE r == req[c]
           out == [key |-> Routed(r).key, name |-> Routed(r).name, payload |-> Outbound(r)]
<1>4. sent' = [sent EXCEPT ![c] = Append(sent[c], out)]
  BY DEF Forward
<1>5. sent'[c] # <<>> /\ sent'[c][1].payload = Outbound(r)
      /\ \A d \in Call \ {c} : sent'[d] = sent[d]
  BY <1>2, <1>4 DEF PassageInv, Domains
<1>6. ~DelegationInvalid(r.payload, r.identity)
  BY NoneAssumption DEF Forward, Refusal
<1> HIDE DEF r, out
<1>7. Handed'
  <2>1. \A d \in Call : parent[d] = None \/ parent[d] # c
    BY <1>2 DEF Handed
  <2> QED BY <1>1, <1>5, <2>1 DEF Handed
<1>8. ASSUME NEW f, NEW g, IsLineage(req, parent, f), IsOrigin(parent, g)
      PROVE  Traced(f, g)'
  <2>1. Traced(f, g)
    BY <1>8
  <2>2. f[c] = LineageIn(req, parent, f, c) /\ g[c] = OriginIn(parent, g, c)
    BY <1>8 DEF IsLineage, IsOrigin
  <2> DEFINE p == parent[c]
             presented == ReadInbound(r.payload).chain
             first == ReadInbound(req[g[c]].payload).chain
             ReadsOn == /\ PayloadOK(r.payload) /\ Fresh(presented, first)
                        /\ f[c] = OutboundChain(presented, r.identity)
  <2>3. ASSUME p = None PROVE ReadsOn
    <3>1. PayloadOK(r.payload)
      BY <1>3, <2>3 DEF Handed, r
    <3>2. IsSeq(presented)
      BY <1>6, <3>1, OutboundNames
    <3>3. first = presented
      BY <2>2, <2>3 DEF OriginIn, r
    <3>4. Fresh(presented, first)
      <4>1. Len(presented) \in Nat /\ DOMAIN presented = 1..Len(presented)
        BY <3>2 DEF IsSeq
      <4> QED BY <3>3, <4>1 DEF Fresh
    <3>5. f[c] = OutboundChain(presented, r.identity)
      BY <2>2, <2>3 DEF LineageIn, OutboundChain, r
    <3> QED BY <3>1, <3>4, <3>5
  <2>4. ASSUME p # None PROVE ReadsOn
    <3>1. p \in Call /\ sent[p] # <<>> /\ r.payload = sent[p][1].payload
      BY <2>4 DEF Handed, r
    <3>2. TracedCall(f, g, p)
      BY <2>1, <3>1 DEF Traced
    <3>3. PayloadOK(r.payload) /\ NamedIn(r.payload) = f[p]
      BY <3>1, <3>2 DEF TracedCall
    <3>4. presented = f[p]
      BY <1>6, <3>3, OutboundNames
    <3>5. g[c] = g[p]
      BY <2>2, <2>4 DEF OriginIn
    <3>6. Fresh(presented, first)
      BY <3>2, <3>4, <3>5 DEF TracedCall
    <3>7. f[c] = OutboundChain(presented, r.identity)
      BY <2>2, <2>4, <3>4 DEF LineageIn, OutboundChain, r
    <3> QED BY <3>3, <3>6, <3>7
  <2>5. ReadsOn
    BY <2>3, <2>4
  <2> DEFINE chain == OutboundChain(presented, r.identity)
  <2>6. NamedIn(Outbound(r)) = chain /\ IsSeq(chain) /\ PayloadOK(Outbound(r))
        /\ \A q : Fresh(presented, q) => Fresh(chain, q)
    BY <1>6, <2>5, OutboundNames
  <2>7. Fresh(f[c], first)
    BY <2>5, <2>6
  <2>8. TracedCall(f, g, c)'
    BY <1>1, <1>5, <2>5, <2>6, <2>7 DEF TracedCall
  <2>9. ASSUME NEW d \in Call \ {c}, TracedCall(f, g, d) PROVE TracedCall(f, g, d)'
    BY <1>1, <1>5, <2>9 DEF TracedCall
  <2> QED BY <1>1, <1>5, <2>1, <2>8, <2>9 DEF Traced
<1> QED BY <1>1, <1>7, <1>8

\* Every other step leaves requests and what went upstream alone.
LEMMA LineStep ==
  ASSUME PassageInv, LineInv, [Next]_vars
  PROVE  LineInv'
<1>1. ASSUME UNCHANGED <<req, parent, sent>> PROVE LineInv'
  BY <1>1 DEF LineInv, Handed, Traced, TracedCall
<1>2. ASSUME NEW c \in Call, NEW i \in Position,
             GateStep(c, i) \/ ObserverStep(c, i) \/ TerminalStep(c, i)
      PROVE  LineInv'
  <2>1. UNCHANGED <<req, parent>> /\ (sent' = sent \/ Forward(c, i))
    BY <1>2, StepMoves, StepWrites DEF PassageInv, requestVars
  <2> QED BY <1>1, <2>1, LineForward
<1>3. ASSUME NEW c \in Call, Handle(c) \/ Settle(c) PROVE LineInv'
  BY <1>1, <1>3 DEF Handle, Settle, requestVars
<1>4. ASSUME NEW c \in Call, NEW r \in config.requests, ClientAsks(c, r) PROVE LineInv'
  <2>1. PayloadOK(r.payload)
    BY ConfigurationAssumption
       DEF PassageInv, ConfigOK, PayloadOK, WellFormed, IsSeq
  <2> QED BY <1>4, <2>1, LineAsk DEF ClientAsks
<1>5. ASSUME NEW c \in Call, NEW r \in config.requests, NEW p \in Call, AgentAsks(c, p, r)
      PROVE  LineInv'
  <2> DEFINE handed == sent[p][1].payload
             own == [r EXCEPT !.identity = AgentOf[sent[p][1].key], !.payload = handed]
  <2>1. sent[p] # <<>> /\ Ask(c, own, p)
    BY <1>5 DEF AgentAsks
  <2>2. own.payload = handed
    BY ConfigurationAssumption DEF PassageInv, ConfigOK
  <2>3. PayloadOK(handed)
    BY <2>1 DEF LineInv, Traced, TracedCall
  <2> QED BY <2>1, <2>2, <2>3, LineAsk
<1>6. ASSUME NEW pair, ConsentWithdrawn(pair) PROVE LineInv'
  BY <1>1, <1>6 DEF ConsentWithdrawn, callVars, requestVars
<1>7. ASSUME NEW s \in Session, SessionEnds(s) PROVE LineInv'
  BY <1>1, <1>7 DEF SessionEnds, callVars, requestVars
<1>8. ASSUME UNCHANGED vars PROVE LineInv'
  BY <1>1, <1>8 DEF vars, callVars, requestVars
<1> QED BY <1>2, <1>3, <1>4, <1>5, <1>6, <1>7, <1>8 DEF Next

\* At the start every call stands alone.
LEMMA LineInit == Init => LineInv
<1> SUFFICES ASSUME Init PROVE LineInv
  OBVIOUS
<1>1. /\ parent = [c \in Call |-> None] /\ req = [c \in Call |-> None]
      /\ sent = [c \in Call |-> <<>>]
  BY DEF Init
<1>2. IsOrigin(parent, [c \in Call |-> c])
  BY <1>1 DEF IsOrigin, OriginIn
<1>3. IsLineage(req, parent, [c \in Call |-> LineageIn(req, parent, <<>>, c)])
  BY <1>1 DEF IsLineage, LineageIn
<1>4. Handed /\ \A f, g : Traced(f, g)
  BY <1>1 DEF Handed, Traced
<1> QED BY <1>2, <1>3, <1>4 DEF LineInv

\* What goes upstream names every caller along the way in order, and nobody twice but
\* whom the first caller named twice, through any number of proxies and agents
\* (outboundDelegationChain, detectDelegationLoop).
THEOREM DelegationFaithfulHolds == Spec => []DelegationFaithful
<1>1. Init => PassageInv /\ LineInv
  BY PassageInit, LineInit
<1>2. PassageInv /\ LineInv /\ [Next]_vars => (PassageInv /\ LineInv)'
  BY PassageNext, LineStep
<1>3. PassageInv /\ LineInv => DelegationFaithful
  <2> SUFFICES ASSUME PassageInv, LineInv PROVE DelegationFaithful
    OBVIOUS
  <2>1. IsLineage(req, parent, Lineage)
    <3>1. \E f : IsLineage(req, parent, f)
      BY DEF LineInv
    <3> QED BY <3>1 DEF IsLineage, LineageIn, Lineage
  <2>2. IsOrigin(parent, Origin)
    <3>1. \E g : IsOrigin(parent, g)
      BY DEF LineInv
    <3> QED BY <3>1 DEF IsOrigin, OriginIn, Origin
  <2>3. Traced(Lineage, Origin)
    BY <2>1, <2>2 DEF LineInv
  <2> QED BY <2>3 DEF DelegationFaithful, Traced, TracedCall, Fresh, Presented
<1> QED BY <1>1, <1>2, <1>3, PTL DEF Spec

=============================================================================
