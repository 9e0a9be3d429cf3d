--------------------------- MODULE SafetyPipeline ---------------------------
(***************************************************************************)
(* The safety pipeline (safety/pipeline/__init__.py) and the semantic      *)
(* classifier it consults (safety/pipeline/classifier.py).                 *)
(*                                                                         *)
(* Checks run concurrently: a streamed reply is checked on a worker thread *)
(* (asyncio.to_thread), every other check on the event loop, where the     *)
(* health probe acts too.  All of them share the classifier's _state and   *)
(* _available, which no lock protects, so every read and every write of    *)
(* them is a step of its own; what a check does with its own text between  *)
(* two such accesses is one step.                                          *)
(*                                                                         *)
(* A message is the record of what the stages find out about it: the       *)
(* patterns, the normalisation and the keyword lists are not modelled.     *)
(***************************************************************************)
EXTENDS Integers, FiniteSets

CONSTANTS
  Checks,    \* check_input / check_output calls that can be in flight at once
  Probe,     \* the health probe's task
  Messages,  \* the messages that may be checked
  Required,  \* SAFETY_CLASSIFIER_REQUIRED
  Flaky      \* whether generate() may fail while Ollama answers the probe

AllMessages ==
  [dir : {"input", "output"},
   where : {"loop", "thread"},  \* on the event loop, or on a worker thread
   valid : BOOLEAN,             \* passes stage 1
   \* stage 3: nothing; a hard match; a self-harm match; a plain MAJOR match of an
   \* educational topic; the plain stem of a slur, a sexual or a self-harm term
   det : {"none", "hard", "self_harm", "topic", "stem"},
   stripped : BOOLEAN,          \* invisible characters were removed
   edu : BOOLEAN,               \* has an educational context
   child : BOOLEAN,             \* the age is known to be under 13
   gated : BOOLEAN]             \* stage 5 would block it

ASSUME MessagesAssumption ==
  /\ Messages \subseteq AllMessages
  /\ \A m \in Messages : m.dir = "input" => m.where = "loop"
ASSUME ProbeAssumption    == Probe \notin Checks
ASSUME RequiredAssumption == Required \in BOOLEAN /\ Flaky \in BOOLEAN

VARIABLES
  pc,       \* where each check is
  msg,      \* the message it checks
  answer,   \* what classify() made of it
  verdict,  \* the check's result: "allow", or the stage that blocked
  loop,     \* who is running on the event loop
  cstate,   \* _state
  avail,    \* _available
  tpc,      \* where each check and the probe is in _transition_state
  probe,    \* where the probe is
  healthy,  \* the probe's last finding
  up        \* Ollama is reachable and has a safety model

vars == <<pc, msg, answer, verdict, loop, cstate, avail, tpc, probe, healthy, up>>
checkVars == <<pc, msg, answer, verdict>>

Actors   == Checks \cup {Probe}
Free     == "free"
Running  == {"classify", "generate", "decide", "recheck"}
\* classify() returns None when the classifier clears the text and when it is
\* skipped; it blocks for a deferrable category, for another hazard or a reply it
\* cannot read, and when it fails or is unavailable and must not be skipped.
Replies  == {"clear", "topic", "hazard"}
Answers  == {"none", "skip", "outage"} \cup Replies
Verdicts == {"none", "allow", "validate", "match", "classifier", "age", "error"}

Init ==
  /\ pc = [c \in Checks |-> "idle"]
  /\ msg \in [Checks -> Messages]
  /\ answer = [c \in Checks |-> "none"]
  /\ verdict = [c \in Checks |-> "none"]
  /\ loop = Free
  /\ up \in BOOLEAN
  /\ cstate \in (IF up THEN {"available"} ELSE {"disabled"})
  /\ avail = (cstate = "available")
  /\ tpc = [a \in Actors |-> "none"]
  /\ probe = "sleep"
  /\ healthy = FALSE

------------------------------------------------------------------------------
\* The stages that look only at the message.

\* A deterministic match the classifier may overrule.
Deferred(m) ==
  /\ ~m.stripped
  /\ m.det = "topic" \/ (m.det = "self_harm" /\ m.dir = "output") \/ (m.det = "stem" /\ m.edu)

\* Stages 1 to 3, before the classifier: what they end the check with, if at all.
Precheck(m) ==
  IF m.dir = "input" /\ ~m.valid THEN "validate"
  ELSE IF m.det # "none" /\ ~Deferred(m) THEN "match" ELSE "none"

\* Mutant: the override looks neither at the category nor at a match.
OverriddenAny(m, a) == m.dir = "input" /\ m.edu

\* The educational override: student input only, a clean pattern match only, and
\* never for an outage or another hazard.
Overridden(m, a) == m.dir = "input" /\ m.det = "none" /\ m.edu /\ a = "topic"

AgeGate(m) == IF m.gated THEN "age" ELSE "allow"

\* The check returns v and leaves the event loop if that is where it ran.
Return(c, v) ==
  /\ pc' = [pc EXCEPT ![c] = "done"]
  /\ verdict' = [verdict EXCEPT ![c] = v]
  /\ loop' = IF loop = c THEN Free ELSE loop

Begin(c) ==
  /\ pc[c] \in {"idle", "done"}
  /\ \E m \in Messages :
       /\ m.where = "loop" => loop = Free
       /\ msg' = [msg EXCEPT ![c] = m]
       /\ answer' = [answer EXCEPT ![c] = "none"]
       /\ IF Precheck(m) # "none"
          THEN Return(c, Precheck(m))
          ELSE /\ pc' = [pc EXCEPT ![c] = "classify"]
               /\ verdict' = [verdict EXCEPT ![c] = "none"]
               /\ loop' = IF m.where = "loop" THEN c ELSE loop
  /\ UNCHANGED <<cstate, avail, tpc, probe, healthy, up>>

------------------------------------------------------------------------------
\* classify(): the availability guard, the call of the model, its failure.

FailsClosed(m) == Required \/ m.child

\* Mutant: an unavailable classifier is skipped for everybody.
ClassifySkips(c) ==
  /\ pc[c] = "classify"
  /\ pc' = [pc EXCEPT ![c] = IF avail THEN "generate" ELSE "decide"]
  /\ answer' = [answer EXCEPT ![c] = IF avail THEN @ ELSE "skip"]
  /\ UNCHANGED <<msg, verdict, loop, cstate, avail, tpc, probe, healthy, up>>

Classify(c) ==
  /\ pc[c] = "classify"
  /\ IF avail
     THEN pc' = [pc EXCEPT ![c] = "generate"] /\ UNCHANGED answer
     ELSE /\ pc' = [pc EXCEPT ![c] = "decide"]
          /\ answer' = [answer EXCEPT ![c] =
                          IF FailsClosed(msg[c]) THEN "outage" ELSE "skip"]
  /\ UNCHANGED <<msg, verdict, loop, cstate, avail, tpc, probe, healthy, up>>

Generate(c) ==
  /\ pc[c] = "generate" /\ up
  /\ \E r \in Replies : answer' = [answer EXCEPT ![c] = r]
  /\ pc' = [pc EXCEPT ![c] = "decide"]
  /\ UNCHANGED <<msg, verdict, loop, cstate, avail, tpc, probe, healthy, up>>

\* generate() fails or raises: _transition_state("degraded"), then a block.
GenerateFails(c) ==
  /\ pc[c] = "generate" /\ (~up \/ Flaky)
  /\ answer' = [answer EXCEPT ![c] = "outage"]
  /\ pc' = [pc EXCEPT ![c] = "decide"]
  /\ tpc' = [tpc EXCEPT ![c] = "compare"]
  /\ UNCHANGED <<msg, verdict, loop, cstate, avail, probe, healthy, up>>

\* Mutant: a recovered classifier gets a state its readers do not know.
TargetMisnamed(a) == IF a = Probe /\ healthy THEN "healthy" ELSE "degraded"

\* _transition_state: the comparison, the assignment of _state, and after it the
\* assignment of _available.
Target(a) == IF a = Probe /\ healthy THEN "available" ELSE "degraded"

Compare(a) ==
  /\ tpc[a] = "compare"
  /\ tpc' = [tpc EXCEPT ![a] = IF cstate = Target(a) THEN "none" ELSE "state"]
  /\ UNCHANGED <<checkVars, loop, cstate, avail, probe, healthy, up>>

SetState(a) ==
  /\ tpc[a] = "state"
  /\ cstate' = Target(a)
  /\ tpc' = [tpc EXCEPT ![a] = "flag"]
  /\ UNCHANGED <<checkVars, loop, avail, probe, healthy, up>>

SetFlag(a) ==
  /\ tpc[a] = "flag"
  /\ avail' = (Target(a) = "available")
  /\ tpc' = [tpc EXCEPT ![a] = "none"]
  /\ UNCHANGED <<checkVars, loop, cstate, probe, healthy, up>>

------------------------------------------------------------------------------
\* What the check makes of the classifier's answer.

\* A deferred match that classify() did not block: was it cleared, or skipped?
ToRecheck(c) ==
  /\ pc[c] = "decide" /\ tpc[c] = "none"
  /\ msg[c].det # "none" /\ answer[c] \in {"clear", "skip"}
  /\ pc' = [pc EXCEPT ![c] = "recheck"]
  /\ UNCHANGED <<msg, answer, verdict, loop, cstate, avail, tpc, probe, healthy, up>>

\* The second read of the availability, after classify() returned.
Recheck(c) ==
  /\ pc[c] = "recheck"
  /\ Return(c, IF avail THEN AgeGate(msg[c]) ELSE "match")
  /\ UNCHANGED <<msg, answer, cstate, avail, tpc, probe, healthy, up>>

\* Every other answer ends the check, stage 5 included.
Decide(c) ==
  /\ pc[c] = "decide" /\ tpc[c] = "none"
  /\ ~(msg[c].det # "none" /\ answer[c] \in {"clear", "skip"})
  /\ Return(c, IF answer[c] \in {"clear", "skip"} \/ Overridden(msg[c], answer[c])
               THEN AgeGate(msg[c]) ELSE "classifier")
  /\ UNCHANGED <<msg, answer, cstate, avail, tpc, probe, healthy, up>>

\* Any exception of the pipeline's own code is a block.
Raise(c) ==
  /\ pc[c] \in {"classify", "decide", "recheck"} /\ tpc[c] = "none"
  /\ Return(c, "error")
  /\ UNCHANGED <<msg, answer, cstate, avail, tpc, probe, healthy, up>>

------------------------------------------------------------------------------
\* run_health_probe: the call on an executor thread, then its use on the loop.

ProbeCall ==
  /\ probe = "sleep"
  /\ healthy' = up
  /\ probe' = "answered"
  /\ UNCHANGED <<checkVars, loop, cstate, avail, tpc, up>>

\* Mutant: a classifier that was never available is not recovered.
OutOfStepDegraded == cstate = (IF healthy THEN "degraded" ELSE "available")

\* What the probe found is not what the state says.
OutOfStep == healthy = (cstate # "available")

\* The loop resumes the probe with an answer that may be stale by now.
ProbeReact ==
  /\ probe = "answered" /\ loop = Free
  /\ IF OutOfStep
     THEN /\ tpc' = [tpc EXCEPT ![Probe] = "compare"]
          /\ loop' = Probe /\ probe' = "react"
     ELSE /\ probe' = "sleep" /\ UNCHANGED <<tpc, loop>>
  /\ UNCHANGED <<checkVars, cstate, avail, healthy, up>>

ProbeSleep ==
  /\ probe = "react" /\ tpc[Probe] = "none"
  /\ probe' = "sleep" /\ loop' = Free
  /\ UNCHANGED <<checkVars, cstate, avail, tpc, healthy, up>>

\* Ollama goes away and comes back.
OllamaDown == up /\ up' = FALSE /\ UNCHANGED <<checkVars, loop, cstate, avail, tpc, probe, healthy>>
OllamaUp   == ~up /\ up' = TRUE /\ UNCHANGED <<checkVars, loop, cstate, avail, tpc, probe, healthy>>

------------------------------------------------------------------------------
Transition(a) == Compare(a) \/ SetState(a) \/ SetFlag(a)

CheckStep(c) ==
  \/ Classify(c) \/ Generate(c) \/ GenerateFails(c)
  \/ ToRecheck(c) \/ Recheck(c) \/ Decide(c) \/ Raise(c)
  \/ Transition(c)

ProbeStep == ProbeCall \/ ProbeReact \/ ProbeSleep \/ Transition(Probe)

Next ==
  \/ \E c \in Checks : Begin(c) \/ CheckStep(c)
  \/ ProbeStep
  \/ OllamaDown \/ OllamaUp

Spec == Init /\ [][Next]_vars

\* Threads and the loop go on with what they have begun, the model's call ends one
\* way or the other, and the loop comes back to the probe.  No check need ever
\* begin, and nothing makes Ollama come back.
FairSpec ==
  /\ Spec
  /\ \A c \in Checks : WF_vars(CheckStep(c))
  /\ WF_vars(ProbeCall) /\ SF_vars(ProbeReact) /\ WF_vars(ProbeSleep)
  /\ WF_vars(Transition(Probe))

------------------------------------------------------------------------------
TypeOK ==
  /\ pc \in [Checks -> {"idle", "done"} \cup Running]
  /\ msg \in [Checks -> Messages]
  /\ answer \in [Checks -> Answers]
  /\ verdict \in [Checks -> Verdicts]
  /\ loop \in {Free} \cup Actors
  /\ cstate \in {"disabled", "available", "degraded"}
  /\ avail \in BOOLEAN
  /\ tpc \in [Actors -> {"none", "compare", "state", "flag"}]
  /\ probe \in {"sleep", "answered", "react"}
  /\ healthy \in BOOLEAN
  /\ up \in BOOLEAN

Allowed(c) == pc[c] = "done" /\ verdict[c] = "allow"

\* "A deferral must never DROP a deterministic match" (__init__.py:527-529,
\* 640-642): a message with a match is let through only if deferring it was
\* legitimate and the classifier itself cleared it, whatever the classifier's
\* availability did meanwhile.
NoDroppedMatch ==
  \A c \in Checks : Allowed(c) /\ msg[c].det # "none" =>
    Deferred(msg[c]) /\ answer[c] = "clear"

\* Fail closed on an unavailable classifier (classifier.py:244-254): where it is
\* required, or the student is under 13, nothing passes that the classifier did not
\* clear, the educational override of a topic excepted, and that one applies to
\* student input only (__init__.py:541-556).
FailClosed ==
  \A c \in Checks : Allowed(c) /\ FailsClosed(msg[c]) =>
    answer[c] = "clear" \/ Overridden(msg[c], answer[c])

\* Whatever the classifier's state, a verdict against the text stands: a hazard or
\* an outage is never let through, and no reply of the tutor is overridden.
BlockStands ==
  \A c \in Checks : Allowed(c) =>
    /\ answer[c] \notin {"hazard", "outage"}
    /\ answer[c] = "topic" => msg[c].dir = "input" /\ msg[c].edu
    /\ ~msg[c].gated /\ (msg[c].dir = "input" => msg[c].valid)

\* The probe recovers the classifier by itself ("auto-recover",
\* classifier.py:202; "Auto-recovery probing every 60s", classifier.py:148): once
\* Ollama stays up, the classifier is available for good.  So it is where checks run on
\* the loop; on threads two transitions can leave its state and its flag apart.
AutoRecovers == <>[]up => <>[]avail

=============================================================================
