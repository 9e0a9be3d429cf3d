--------------------------- MODULE CircuitBreaker ---------------------------
(***************************************************************************)
(* The circuit breaker in front of Ollama (utils/circuit_breaker.py) and   *)
(* the protocol its callers follow (api/routes/ollama_proxy/transport.py,  *)
(* utils/ollama_client.py).                                                *)
(*                                                                         *)
(* Every method of the breaker holds its lock, so each is one step.  A     *)
(* call asks can_execute(), talks to Ollama outside the lock, and reports  *)
(* success or failure afterwards: by then the breaker may be in another    *)
(* state than the one that let the call through.                           *)
(*                                                                         *)
(* Left out: the statistics and metrics, which no transition reads, and    *)
(* circuit_block_reason (guards.py), a read that changes nothing.          *)
(***************************************************************************)
EXTENDS Integers, FiniteSets

CONSTANTS
  Calls,             \* calls to Ollama that can be in flight at once
  FailureThreshold,  \* failure_threshold
  SuccessThreshold,  \* success_threshold
  HalfOpenMax        \* half_open_max_calls

ASSUME ThresholdAssumption ==
  /\ FailureThreshold \in Nat \ {0}
  /\ SuccessThreshold \in Nat \ {0}
  /\ HalfOpenMax \in Nat \ {0}
ASSUME CallsAssumption == IsFiniteSet(Calls)

VARIABLES
  state,      \* _state
  failures,   \* _failure_count
  successes,  \* _success_count
  halfOpen,   \* _half_open_calls
  cooled,     \* recovery_timeout has elapsed since the last failure, or there was none
  calls,      \* where each call is
  lost,       \* history: calls that ended unreported since the breaker became half open
  up          \* a call to Ollama succeeds

vars == <<state, failures, successes, halfOpen, cooled, calls, lost, up>>

States  == {"closed", "open", "half_open"}
Running == {c \in Calls : calls[c] # "idle"}

Init ==
  /\ state = "closed" /\ failures = 0 /\ successes = 0 /\ halfOpen = 0
  /\ cooled = TRUE
  /\ calls = [c \in Calls |-> "idle"]
  /\ lost = 0
  /\ up \in BOOLEAN

------------------------------------------------------------------------------
\* can_execute(), with its three ways to say yes.

LetThrough(c) ==
  /\ calls[c] = "idle"
  /\ calls' = [calls EXCEPT ![c] = "running"]
  /\ UNCHANGED <<failures, cooled, up>>

ExecuteClosed(c) ==
  /\ state = "closed"
  /\ LetThrough(c)
  /\ UNCHANGED <<state, successes, halfOpen, lost>>

\* Mutant: the probe goes out and the circuit stays open.
ExecuteOpenStays(c) ==
  /\ state = "open" /\ cooled
  /\ LetThrough(c)
  /\ UNCHANGED <<state, successes, halfOpen, lost>>

\* Mutant: the slots of the last half-open era stay taken.
ExecuteOpenKeeps(c) ==
  /\ state = "open" /\ cooled
  /\ LetThrough(c)
  /\ state' = "half_open" /\ successes' = 0
  /\ lost' = 0
  /\ UNCHANGED halfOpen

\* The first call after the recovery timeout makes the circuit half open; it is
\* not counted in _half_open_calls.
ExecuteOpen(c) ==
  /\ state = "open" /\ cooled
  /\ LetThrough(c)
  /\ state' = "half_open" /\ successes' = 0 /\ halfOpen' = 0
  /\ lost' = 0

ExecuteHalfOpen(c) ==
  /\ state = "half_open" /\ halfOpen < HalfOpenMax
  /\ LetThrough(c)
  /\ halfOpen' = halfOpen + 1
  /\ UNCHANGED <<state, successes, lost>>

can_execute(c) == ExecuteClosed(c) \/ ExecuteOpen(c) \/ ExecuteHalfOpen(c)

------------------------------------------------------------------------------
\* record_success() and record_failure(), whatever state the report finds.

\* Mutant: the counter is not kept from going below zero.
OneLessUnchecked == halfOpen - 1

OneLess == IF halfOpen > 0 THEN halfOpen - 1 ELSE 0

record_success ==
  \/ /\ state = "half_open"
     /\ halfOpen' = OneLess
     /\ IF successes + 1 >= SuccessThreshold
        THEN state' = "closed" /\ failures' = 0 /\ successes' = 0
        ELSE successes' = successes + 1 /\ UNCHANGED <<state, failures>>
     /\ UNCHANGED cooled
  \/ /\ state = "closed"
     /\ failures' = 0
     /\ UNCHANGED <<state, successes, halfOpen, cooled>>
  \/ /\ state = "open"
     /\ UNCHANGED <<state, failures, successes, halfOpen, cooled>>

record_failure ==
  /\ cooled' = FALSE
  /\ \/ /\ state = "half_open"
        /\ halfOpen' = OneLess
        /\ state' = "open" /\ successes' = 0
        /\ UNCHANGED failures
     \/ /\ state = "closed"
        /\ failures' = failures + 1
        /\ IF failures + 1 >= FailureThreshold
           THEN state' = "open" /\ successes' = 0
           ELSE UNCHANGED <<state, successes>>
        /\ UNCHANGED halfOpen
     \/ /\ state = "open"
        /\ UNCHANGED <<state, failures, successes, halfOpen>>

\* The call's round trip is over.
Ends(c) ==
  /\ calls' = [calls EXCEPT ![c] = "idle"]
  /\ UNCHANGED up

Succeed(c) ==
  /\ c \in Running /\ up
  /\ record_success
  /\ Ends(c)
  /\ UNCHANGED lost

Fail(c) ==
  /\ c \in Running /\ ~up
  /\ record_failure
  /\ Ends(c)
  /\ UNCHANGED lost

\* Ollama answers that the GPU is out of memory: the answer is reported as a
\* success, and the request is sent again without asking can_execute().
OutOfMemory(c) ==
  /\ calls[c] = "running" /\ up
  /\ record_success
  /\ calls' = [calls EXCEPT ![c] = "retry"]
  /\ UNCHANGED <<lost, up>>

\* The task awaiting Ollama is cancelled (asyncio.wait_for around the call in
\* core/pedagogy/guidance_enforcer.py and core/topic_gate.py, a client that
\* disconnects from a stream): no handler reports to the breaker.
Abandon(c) ==
  /\ c \in Running
  /\ Ends(c)
  /\ lost' = IF state = "half_open" THEN lost + 1 ELSE lost
  /\ UNCHANGED <<state, failures, successes, halfOpen, cooled>>

------------------------------------------------------------------------------
\* Manual control.

force_open ==
  /\ state' = "open" /\ successes' = 0 /\ cooled' = FALSE
  /\ UNCHANGED <<failures, halfOpen, calls, lost, up>>

force_close ==
  /\ state' = "closed" /\ failures' = 0 /\ successes' = 0
  /\ UNCHANGED <<halfOpen, cooled, calls, lost, up>>

reset ==
  /\ state' = "closed" /\ failures' = 0 /\ successes' = 0 /\ halfOpen' = 0
  /\ cooled' = TRUE
  /\ UNCHANGED <<calls, lost, up>>

\* The environment: recovery_timeout elapses, Ollama goes down and comes back.
RecoveryTimeout ==
  /\ ~cooled /\ cooled' = TRUE
  /\ UNCHANGED <<state, failures, successes, halfOpen, calls, lost, up>>

OllamaFlips ==
  /\ up' = ~up
  /\ UNCHANGED <<state, failures, successes, halfOpen, cooled, calls, lost>>

------------------------------------------------------------------------------
Manual == force_open \/ force_close \/ reset

Report(c) == Succeed(c) \/ Fail(c)

\* Operators leave the circuit alone and no probe goes unreported.
Quiet == ~Manual /\ lost' <= lost

Next ==
  \/ \E c \in Calls : can_execute(c) \/ Report(c) \/ OutOfMemory(c) \/ Abandon(c)
  \/ Manual
  \/ RecoveryTimeout \/ OllamaFlips

Spec == Init /\ [][Next]_vars

\* Students keep asking, a call that went out comes back (its read timeout is
\* bounded), and time passes.
FairSpec ==
  /\ Spec
  /\ WF_vars(\E c \in Calls : can_execute(c))
  /\ \A c \in Calls : WF_vars(Report(c) \/ Abandon(c))
  /\ WF_vars(RecoveryTimeout)

------------------------------------------------------------------------------
TypeOK ==
  /\ state \in States
  /\ failures \in Nat /\ successes \in Nat
  /\ halfOpen \in 0..HalfOpenMax
  /\ cooled \in BOOLEAN
  /\ calls \in [Calls -> {"idle", "running", "retry"}]
  /\ lost \in Nat
  /\ up \in BOOLEAN

\* Every slot taken of a half-open circuit is held by a call that will give it
\* back, or was lost with an unreported one (circuit_breaker.py:191-200, 231-232, 258):
\* late reports of calls let through in another state free slots early, and
\* nothing else loses one.
SlotsAreHeld ==
  state = "half_open" => halfOpen <= Cardinality(Running) + lost

\* The circuit trips and recovers at its thresholds, never past them: a closed
\* circuit has seen fewer consecutive failures than open it, a half-open one
\* fewer successes than close it, and elsewhere no success is carried over.
WithinThresholds ==
  /\ state = "closed" => failures < FailureThreshold
  /\ state = "half_open" => successes < SuccessThreshold
  /\ state # "half_open" => successes = 0

\* "Requests fail immediately without calling service" (circuit_breaker.py:7):
\* while the circuit is open and its timeout has not passed, no call goes out, and
\* only an operator ends the pause.
OpenFailsFast ==
  [][state = "open" /\ ~cooled =>
       /\ \A c \in Calls : calls[c] = "idle" => calls'[c] = "idle"
       /\ state' = "open" \/ force_close \/ reset]_vars

\* Every slot is taken and nobody is left to report.
Wedged == state = "half_open" /\ halfOpen >= HalfOpenMax /\ Running = {}

\* Once Ollama stays up, operators leave the circuit alone and probes report, the
\* circuit closes for good, unless slots lost before that wedged it.
HealsUnlessWedged ==
  <>[]up /\ <>[][Quiet]_vars => <>[](state = "closed") \/ <>[]Wedged

=============================================================================
