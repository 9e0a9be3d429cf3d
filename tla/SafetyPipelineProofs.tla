------------------------ MODULE SafetyPipelineProofs ------------------------
(***************************************************************************)
(* What the safety pipeline guarantees for any number of concurrent checks *)
(* and any messages, whatever the classifier's availability does while     *)
(* they run.  CheckOK says what a check has established about its message  *)
(* by the time it is where it is; nothing the other checks or the probe do *)
(* to _state and _available can undo it.                                   *)
(***************************************************************************)
EXTENDS SafetyPipeline, TLAPS

\* Past stage 3: a match, if there is one, is deferrable, and the input is valid.
PastPrecheck(m) == (m.dir = "input" => m.valid) /\ (m.det # "none" => Deferred(m))

\* An availability that was found missing may be skipped over for this message.
SkipIsAllowed(c) == answer[c] = "skip" => ~FailsClosed(msg[c])

\* What lets a message through.
MayPass(c) ==
  /\ ~msg[c].gated
  /\ \/ answer[c] \in {"clear", "skip"}
     \/ Overridden(msg[c], answer[c])

CheckOK(c) ==
  /\ pc[c] \in Running => PastPrecheck(msg[c]) /\ SkipIsAllowed(c)
  /\ pc[c] = "recheck" => msg[c].det # "none" /\ answer[c] \in {"clear", "skip"}
  /\ Allowed(c) => PastPrecheck(msg[c]) /\ SkipIsAllowed(c) /\ MayPass(c)

IInv == TypeOK /\ \A c \in Checks : CheckOK(c)

------------------------------------------------------------------------------
\* Type correctness.

\* Stages 1 to 3 end in one of the verdicts, or let the check go on.
LEMMA VerdictTypes ==
  ASSUME NEW m
  PROVE  /\ Precheck(m) \in {"none", "validate", "match"}
         /\ AgeGate(m) \in {"allow", "age"}
BY DEF Precheck, AgeGate

\* What _transition_state writes, whoever calls it.
LEMMA TransitionType ==
  ASSUME TypeOK, NEW a \in Actors, Transition(a)
  PROVE  TypeOK'
<1>1. UNCHANGED <<checkVars, loop, probe, healthy, up>>
  BY DEF Transition, Compare, SetState, SetFlag
<1>2. tpc' \in [Actors -> {"none", "compare", "state", "flag"}]
  BY DEF Transition, Compare, SetState, SetFlag, TypeOK
<1>3. cstate' \in {"disabled", "available", "degraded"}
  BY DEF Transition, Compare, SetState, SetFlag, TypeOK, Target
<1>4. avail' \in BOOLEAN
  BY DEF Transition, Compare, SetState, SetFlag, TypeOK
<1> QED BY <1>1, <1>2, <1>3, <1>4 DEF TypeOK, checkVars

\* The steps of one check.
LEMMA CheckType ==
  ASSUME TypeOK, NEW c \in Checks, Begin(c) \/ CheckStep(c)
  PROVE  TypeOK'
<1> DEFINE Own == {"classify", "generate", "decide", "recheck", "done"}
<1>1. CASE Begin(c)
  <2>1. PICK m \in Messages :
          /\ msg' = [msg EXCEPT ![c] = m] /\ answer' = [answer EXCEPT ![c] = "none"]
          /\ \/ Return(c, Precheck(m))
             \/ /\ pc' = [pc EXCEPT ![c] = "classify"]
                /\ verdict' = [verdict EXCEPT ![c] = "none"]
                /\ loop' \in {c, loop}
          /\ UNCHANGED <<cstate, avail, tpc, probe, healthy, up>>
    BY <1>1 DEF Begin
  <2>2. Precheck(m) \in Verdicts
    BY VerdictTypes DEF Verdicts
  <2>3. pc' \in [Checks -> {"idle", "done"} \cup Running]
    BY <2>1 DEF Return, TypeOK, Running
  <2>4. verdict' \in [Checks -> Verdicts]
    BY <2>1, <2>2 DEF Return, TypeOK, Verdicts
  <2>5. loop' \in {Free} \cup Actors
    BY <2>1 DEF Return, TypeOK, Actors
  <2>6. msg' \in [Checks -> Messages] /\ answer' \in [Checks -> Answers]
    BY <2>1 DEF TypeOK, Answers
  <2> QED BY <2>1, <2>3, <2>4, <2>5, <2>6 DEF TypeOK
<1>2. CASE Classify(c) \/ Generate(c) \/ GenerateFails(c) \/ ToRecheck(c)
  <2>1. UNCHANGED <<msg, verdict, loop, cstate, avail, probe, healthy, up>>
    BY <1>2 DEF Classify, Generate, GenerateFails, ToRecheck
  <2>2. pc' \in [Checks -> {"idle", "done"} \cup Running]
    BY <1>2 DEF Classify, Generate, GenerateFails, ToRecheck, TypeOK, Running
  <2>3. answer' \in [Checks -> Answers]
    BY <1>2 DEF Classify, Generate, GenerateFails, ToRecheck, TypeOK, Answers
  <2>4. tpc' \in [Actors -> {"none", "compare", "state", "flag"}]
    BY <1>2 DEF Classify, Generate, GenerateFails, ToRecheck, TypeOK
  <2> QED BY <2>1, <2>2, <2>3, <2>4 DEF TypeOK
<1>3. CASE Recheck(c) \/ Decide(c) \/ Raise(c)
  <2>1. PICK v \in Verdicts : Return(c, v)
    BY <1>3, VerdictTypes DEF Recheck, Decide, Raise, Verdicts
  <2>2. UNCHANGED <<msg, answer, cstate, avail, tpc, probe, healthy, up>>
    BY <1>3 DEF Recheck, Decide, Raise
  <2>3. /\ pc' \in [Checks -> {"idle", "done"} \cup Running]
        /\ verdict' \in [Checks -> Verdicts]
        /\ loop' \in {Free} \cup Actors
    BY <2>1 DEF Return, TypeOK
  <2> QED BY <2>2, <2>3 DEF TypeOK
<1>4. CASE Transition(c)
  BY <1>4, TransitionType DEF Actors
<1> QED BY <1>1, <1>2, <1>3, <1>4 DEF CheckStep

\* The probe, and Ollama itself.
LEMMA OthersType ==
  ASSUME TypeOK, ProbeStep \/ OllamaDown \/ OllamaUp \/ UNCHANGED vars
  PROVE  TypeOK'
<1>1. CASE Transition(Probe)
  BY <1>1, TransitionType DEF Actors
<1>2. CASE ProbeCall \/ ProbeReact \/ ProbeSleep \/ OllamaDown \/ OllamaUp \/ UNCHANGED vars
  <2>1. UNCHANGED <<checkVars, cstate, avail>>
    BY <1>2 DEF ProbeCall, ProbeReact, ProbeSleep, OllamaDown, OllamaUp, vars, checkVars
  <2>2. tpc' \in [Actors -> {"none", "compare", "state", "flag"}]
    BY <1>2 DEF ProbeCall, ProbeReact, ProbeSleep, OllamaDown, OllamaUp, vars, TypeOK
  <2>3. loop' \in {Free} \cup Actors /\ probe' \in {"sleep", "answered", "react"}
    BY <1>2 DEF ProbeCall, ProbeReact, ProbeSleep, OllamaDown, OllamaUp, vars, TypeOK, Actors
  <2>4. healthy' \in BOOLEAN /\ up' \in BOOLEAN
    BY <1>2 DEF ProbeCall, ProbeReact, ProbeSleep, OllamaDown, OllamaUp, vars, TypeOK
  <2> QED BY <2>1, <2>2, <2>3, <2>4 DEF TypeOK, checkVars
<1> QED BY <1>1, <1>2 DEF ProbeStep

------------------------------------------------------------------------------
\* What a check has established.

\* Nothing changes what another check has established.
LEMMA OtherChecks ==
  ASSUME TypeOK, NEW c \in Checks, Begin(c) \/ CheckStep(c), NEW d \in Checks, d # c
  PROVE  /\ pc'[d] = pc[d] /\ msg'[d] = msg[d]
         /\ answer'[d] = answer[d] /\ verdict'[d] = verdict[d]
<1>1. CASE Begin(c)
  BY <1>1 DEF Begin, Return, TypeOK
<1>2. CASE Classify(c) \/ Generate(c) \/ GenerateFails(c) \/ ToRecheck(c)
  BY <1>2 DEF Classify, Generate, GenerateFails, ToRecheck, TypeOK
<1>3. CASE Recheck(c) \/ Decide(c) \/ Raise(c)
  BY <1>3 DEF Recheck, Decide, Raise, Return, TypeOK
<1>4. CASE Transition(c)
  BY <1>4 DEF Transition, Compare, SetState, SetFlag, checkVars
<1> QED BY <1>1, <1>2, <1>3, <1>4 DEF CheckStep

\* A check establishes what CheckOK says as it goes.
LEMMA OwnCheck ==
  ASSUME TypeOK, NEW c \in Checks, CheckOK(c), Begin(c) \/ CheckStep(c)
  PROVE  CheckOK(c)'
<1>1. CASE Begin(c)
  <2>1. PICK m \in Messages :
          /\ msg' = [msg EXCEPT ![c] = m] /\ answer' = [answer EXCEPT ![c] = "none"]
          /\ IF Precheck(m) # "none" THEN Return(c, Precheck(m))
             ELSE /\ pc' = [pc EXCEPT ![c] = "classify"]
                  /\ verdict' = [verdict EXCEPT ![c] = "none"]
    BY <1>1 DEF Begin
  <2>2. msg'[c] = m /\ answer'[c] = "none"
    BY <2>1 DEF TypeOK
  <2>3. CASE Precheck(m) # "none"
    <3>1. pc'[c] = "done" /\ verdict'[c] # "allow"
      BY <2>1, <2>3, VerdictTypes DEF Return, TypeOK
    <3> QED BY <3>1 DEF CheckOK, Running, Allowed
  <2>4. CASE Precheck(m) = "none"
    <3>1. pc'[c] = "classify"
      BY <2>1, <2>4 DEF TypeOK
    <3>2. PastPrecheck(m)
      BY <2>4 DEF Precheck, PastPrecheck
    <3> QED BY <2>2, <3>1, <3>2 DEF CheckOK, Allowed, SkipIsAllowed
  <2> QED BY <2>3, <2>4
<1>2. CASE Classify(c) \/ Generate(c) \/ GenerateFails(c)
  <2>1. /\ pc[c] \in Running /\ pc'[c] \in {"generate", "decide"} /\ msg' = msg
        /\ answer'[c] = "skip" => ~FailsClosed(msg[c]) \/ answer[c] = "skip"
    BY <1>2 DEF Classify, Generate, GenerateFails, TypeOK, Running, Replies
  <2> QED BY <2>1 DEF CheckOK, Running, Allowed, SkipIsAllowed
<1>3. CASE ToRecheck(c)
  <2>1. /\ pc[c] = "decide" /\ pc'[c] = "recheck" /\ msg' = msg /\ answer' = answer
        /\ msg[c].det # "none" /\ answer[c] \in {"clear", "skip"}
    BY <1>3 DEF ToRecheck, TypeOK
  <2> QED BY <2>1 DEF CheckOK, Running, Allowed, SkipIsAllowed
<1>4. CASE Recheck(c) \/ Decide(c) \/ Raise(c)
  <2>1. pc[c] \in Running /\ pc'[c] = "done" /\ msg' = msg /\ answer' = answer
    BY <1>4 DEF Recheck, Decide, Raise, Return, TypeOK, Running
  <2>2. PastPrecheck(msg[c]) /\ SkipIsAllowed(c)
    BY <2>1 DEF CheckOK
  <2>3. verdict'[c] = "allow" => MayPass(c)
    BY <1>4 DEF Recheck, Decide, Raise, Return, TypeOK, CheckOK, AgeGate, MayPass
  <2> QED BY <2>1, <2>2, <2>3 DEF CheckOK, Running, Allowed, SkipIsAllowed, MayPass
<1>5. CASE Transition(c)
  BY <1>5 DEF Transition, Compare, SetState, SetFlag, checkVars, CheckOK, Allowed,
              SkipIsAllowed, MayPass
<1> QED BY <1>1, <1>2, <1>3, <1>4, <1>5 DEF CheckStep

\* Before any check began nothing has been let through.
LEMMA InitIInv == Init => IInv
<1> SUFFICES ASSUME Init PROVE IInv
  OBVIOUS
<1>1. TypeOK
  <2>1. avail \in BOOLEAN /\ up \in BOOLEAN /\ healthy \in BOOLEAN
    BY DEF Init
  <2>2. cstate \in {"disabled", "available", "degraded"}
    BY DEF Init
  <2> QED BY <2>1, <2>2 DEF Init, TypeOK, Answers, Verdicts
<1>2. \A c \in Checks : CheckOK(c)
  BY DEF Init, CheckOK, Running, Allowed
<1> QED BY <1>1, <1>2 DEF IInv

\* Every step of a check, of the probe and of Ollama keeps the invariant.
LEMMA StepIInv == IInv /\ [Next]_vars => IInv'
<1> SUFFICES ASSUME IInv, [Next]_vars PROVE IInv'
  OBVIOUS
<1>1. CASE \E c \in Checks : Begin(c) \/ CheckStep(c)
  <2>1. PICK c \in Checks : Begin(c) \/ CheckStep(c)
    BY <1>1
  <2>2. TypeOK'
    BY <2>1, CheckType DEF IInv
  <2>3. ASSUME NEW d \in Checks PROVE CheckOK(d)'
    <3>1. CASE d = c
      BY <2>1, <3>1, OwnCheck DEF IInv
    <3>2. CASE d # c
      BY <2>1, <3>2, OtherChecks DEF IInv, CheckOK, Allowed, SkipIsAllowed, MayPass
    <3> QED BY <3>1, <3>2
  <2> QED BY <2>2, <2>3 DEF IInv
<1>2. CASE ProbeStep \/ OllamaDown \/ OllamaUp \/ UNCHANGED vars
  <2>1. UNCHANGED checkVars
    BY <1>2 DEF ProbeStep, ProbeCall, ProbeReact, ProbeSleep, Transition, Compare, SetState,
                SetFlag, OllamaDown, OllamaUp, vars, checkVars
  <2>2. \A c \in Checks : CheckOK(c)'
    BY <2>1 DEF checkVars, IInv, CheckOK, Allowed, SkipIsAllowed, MayPass
  <2> QED BY <1>2, <2>2, OthersType DEF IInv
<1> QED BY <1>1, <1>2 DEF Next

\* The invariant holds in every state, whatever the availability does.
THEOREM Inductive == Spec => []IInv
BY InitIInv, StepIInv, PTL DEF Spec

\* Type correctness.
THEOREM TypeCorrect == Spec => []TypeOK
<1>1. IInv => TypeOK BY DEF IInv
<1> QED BY <1>1, Inductive, PTL

\* Fail closed (classifier.py:244-254), for every message and any interleaving:
\* where the classifier must not be skipped, nothing passes that it did not clear,
\* the educational override of a student's own topic excepted.
THEOREM FailsClosedAlways == Spec => []FailClosed
<1>1. IInv => FailClosed
  BY DEF IInv, CheckOK, SkipIsAllowed, MayPass, FailClosed
<1> QED BY <1>1, Inductive, PTL

\* A verdict against the text stands, whoever asked and whatever came after.
THEOREM BlocksStand == Spec => []BlockStands
<1>1. IInv => BlockStands
  BY DEF IInv, CheckOK, PastPrecheck, MayPass, Overridden, BlockStands
<1> QED BY <1>1, Inductive, PTL

\* With the classifier required, a deferred match is dropped only if the classifier
\* cleared it (__init__.py:640-642): the second read of the availability, stale or
\* not, cannot turn a skip into a pass.
THEOREM MatchesNeverDropped ==
  ASSUME Required
  PROVE  Spec => []NoDroppedMatch
<1>1. IInv => NoDroppedMatch
  BY DEF IInv, CheckOK, PastPrecheck, SkipIsAllowed, MayPass, Overridden, FailsClosed,
         NoDroppedMatch
<1> QED BY <1>1, Inductive, PTL

=============================================================================
