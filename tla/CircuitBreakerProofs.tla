------------------------ MODULE CircuitBreakerProofs ------------------------
(***************************************************************************)
(* The safety properties of the circuit breaker hold for any number of     *)
(* callers and any thresholds.  The invariant is the conjunction of the    *)
(* three that CircuitBreaker states: the type invariant bounds _half_open_ *)
(* calls, and counting its slots needs the set of running calls to be      *)
(* finite, which CallsAssumption gives.                                    *)
(***************************************************************************)
EXTENDS CircuitBreaker, TLAPS, FiniteSetTheorems

IInv == TypeOK /\ WithinThresholds /\ SlotsAreHeld

\* The set of running calls is finite, and so it can be counted.
LEMMA RunningFinite ==
  IsFiniteSet(Running) /\ Cardinality(Running) \in Nat
<1>1. IsFiniteSet(Running)
  BY CallsAssumption, FS_Subset DEF Running
<1> QED BY <1>1, FS_CardinalityType

\* A call that is let through is one more running call.
LEMMA LetThroughCounts ==
  ASSUME TypeOK, NEW c \in Calls, LetThrough(c)
  PROVE  Cardinality(Running') = Cardinality(Running) + 1
<1>1. Running' = Running \cup {c} /\ c \notin Running
  BY DEF TypeOK, LetThrough, Running
<1> QED BY <1>1, RunningFinite, FS_AddElement

\* A call that ends is one running call less.
LEMMA EndsCounts ==
  ASSUME TypeOK, NEW c \in Running, Ends(c)
  PROVE  Cardinality(Running) > 0 /\ Cardinality(Running') = Cardinality(Running) - 1
<1>1. Running' = Running \ {c}
  BY DEF TypeOK, Ends, Running
<1>2. Cardinality(Running \ {c}) \in Nat
  BY RunningFinite, FS_RemoveElement, FS_CardinalityType
<1> QED BY <1>1, <1>2, RunningFinite, FS_RemoveElement

\* A call that is sent again is still running.
LEMMA RetryCounts ==
  ASSUME TypeOK, NEW c \in Calls, OutOfMemory(c)
  PROVE  Running' = Running
BY DEF TypeOK, OutOfMemory, Running

\* A new breaker is closed and has counted nothing.
LEMMA InitIInv == Init => IInv
BY ThresholdAssumption DEF Init, IInv, TypeOK, WithinThresholds, SlotsAreHeld, Running, States

\* Letting a call through: a slot is taken only together with a running call.
LEMMA ExecuteIInv ==
  ASSUME IInv, NEW c \in Calls, can_execute(c)
  PROVE  IInv'
<1> USE ThresholdAssumption
<1>1. TypeOK' BY DEF IInv, TypeOK, can_execute, ExecuteClosed, ExecuteOpen, ExecuteHalfOpen,
                     LetThrough, Running, States
<1>2. WithinThresholds'
  BY DEF IInv, TypeOK, WithinThresholds, can_execute, ExecuteClosed, ExecuteOpen,
         ExecuteHalfOpen, LetThrough, States
<1>3. SlotsAreHeld'
  <2>1. LetThrough(c)
    BY DEF can_execute, ExecuteClosed, ExecuteOpen, ExecuteHalfOpen
  <2>2. Cardinality(Running') = Cardinality(Running) + 1
    BY <2>1, LetThroughCounts DEF IInv
  <2> QED
    BY <2>2, RunningFinite
    DEF IInv, TypeOK, SlotsAreHeld, can_execute, ExecuteClosed, ExecuteOpen, ExecuteHalfOpen
<1> QED BY <1>1, <1>2, <1>3 DEF IInv

\* A report frees at most the slot of the call that makes it.
LEMMA ReportIInv ==
  ASSUME IInv, NEW c \in Calls, Report(c)
  PROVE  IInv'
<1> USE ThresholdAssumption
<1>1. c \in Running /\ Ends(c) /\ lost' = lost /\ (record_success \/ record_failure)
  BY DEF Report, Succeed, Fail
<1>2. TypeOK'
  <2>1. /\ calls' \in [Calls -> {"idle", "running", "retry"}]
        /\ lost' \in Nat /\ up' \in BOOLEAN
    BY <1>1 DEF IInv, TypeOK, Ends, Running
  <2>2. state' \in States /\ failures' \in Nat /\ successes' \in Nat /\ halfOpen' \in 0..HalfOpenMax
    BY <1>1 DEF IInv, TypeOK, record_success, record_failure, OneLess, States
  <2>3. cooled' \in BOOLEAN
    BY <1>1 DEF IInv, TypeOK, record_success, record_failure
  <2> QED BY <2>1, <2>2, <2>3 DEF TypeOK
<1>3. WithinThresholds'
  BY <1>1 DEF IInv, TypeOK, WithinThresholds, record_success, record_failure, States
<1>4. SlotsAreHeld'
  <2>1. Cardinality(Running) > 0 /\ Cardinality(Running') = Cardinality(Running) - 1
    BY <1>1, EndsCounts DEF IInv
  <2>2. state' = "half_open" => state = "half_open" /\ halfOpen' = OneLess
    BY <1>1 DEF record_success, record_failure
  <2> QED
    BY <1>1, <2>1, <2>2, RunningFinite DEF IInv, TypeOK, SlotsAreHeld, OneLess
<1> QED BY <1>2, <1>3, <1>4 DEF IInv

\* The retry after an out-of-memory answer: a success, and a call still out.
LEMMA OutOfMemoryIInv ==
  ASSUME IInv, NEW c \in Calls, OutOfMemory(c)
  PROVE  IInv'
<1> USE ThresholdAssumption
<1>1. TypeOK'
  BY DEF IInv, TypeOK, OutOfMemory, record_success, OneLess, Running, States
<1>2. WithinThresholds'
  BY DEF IInv, TypeOK, WithinThresholds, OutOfMemory, record_success, States
<1>3. SlotsAreHeld'
  <2>1. Running' = Running
    BY RetryCounts DEF IInv
  <2> QED
    BY <2>1, RunningFinite
    DEF IInv, TypeOK, SlotsAreHeld, OutOfMemory, record_success, OneLess
<1> QED BY <1>1, <1>2, <1>3 DEF IInv

\* An abandoned call leaves its slot behind, and is counted in lost.
LEMMA AbandonIInv ==
  ASSUME IInv, NEW c \in Calls, Abandon(c)
  PROVE  IInv'
<1>1. c \in Running /\ Ends(c)
  BY DEF Abandon
<1>2. Cardinality(Running') = Cardinality(Running) - 1
  BY <1>1, EndsCounts DEF IInv
<1>3. TypeOK' /\ WithinThresholds'
  BY <1>1 DEF IInv, TypeOK, WithinThresholds, Abandon, Ends, Running, States
<1>4. SlotsAreHeld'
  BY <1>2, RunningFinite DEF IInv, TypeOK, SlotsAreHeld, Abandon
<1> QED BY <1>3, <1>4 DEF IInv

\* Operators, clocks and Ollama itself leave no slot of a half-open circuit taken.
LEMMA OthersIInv ==
  ASSUME IInv, Manual \/ RecoveryTimeout \/ OllamaFlips \/ UNCHANGED vars
  PROVE  IInv'
<1>1. UNCHANGED Running
  BY DEF Manual, force_open, force_close, reset, RecoveryTimeout, OllamaFlips, vars, Running
<1>2. TypeOK'
  <2>1. cooled' \in BOOLEAN /\ up' \in BOOLEAN
    BY DEF IInv, TypeOK, Manual, force_open, force_close, reset, RecoveryTimeout, OllamaFlips, vars
  <2>2. /\ state' \in States /\ failures' \in Nat /\ successes' \in Nat /\ lost' \in Nat
        /\ halfOpen' \in 0..HalfOpenMax /\ calls' = calls
    BY ThresholdAssumption
    DEF IInv, TypeOK, Manual, force_open, force_close, reset, RecoveryTimeout, OllamaFlips,
        vars, States
  <2> QED BY <1>1, <2>1, <2>2 DEF IInv, TypeOK
<1>3. WithinThresholds'
  BY ThresholdAssumption
  DEF IInv, TypeOK, WithinThresholds, Manual, force_open, force_close, reset, RecoveryTimeout,
      OllamaFlips, vars
<1>4. SlotsAreHeld'
  BY <1>1 DEF IInv, SlotsAreHeld, Manual, force_open, force_close, reset, RecoveryTimeout,
              OllamaFlips, vars
<1> QED BY <1>2, <1>3, <1>4 DEF IInv

\* Every method of the breaker and every step of its callers keeps the invariant.
LEMMA StepIInv == IInv /\ [Next]_vars => IInv'
BY ExecuteIInv, ReportIInv, OutOfMemoryIInv, AbandonIInv, OthersIInv DEF Next

\* The invariant holds in every state of every behaviour of the breaker.
THEOREM Inductive == Spec => []IInv
BY InitIInv, StepIInv, PTL DEF Spec

\* Type correctness: in particular _half_open_calls stays within 0 and
\* half_open_max_calls, whatever reports come late.
THEOREM TypeCorrect == Spec => []TypeOK
<1>1. IInv => TypeOK BY DEF IInv
<1> QED BY <1>1, Inductive, PTL

\* The thresholds are exact (circuit_breaker.py:231-236, 265-269) for every threshold.
THEOREM Thresholds == Spec => []WithinThresholds
<1>1. IInv => WithinThresholds BY DEF IInv
<1> QED BY <1>1, Inductive, PTL

\* Every taken half-open slot has a running call or a lost one behind it.
THEOREM SlotsHeld == Spec => []SlotsAreHeld
<1>1. IInv => SlotsAreHeld BY DEF IInv
<1> QED BY <1>1, Inductive, PTL

\* While the circuit is open and its timeout has not passed no call goes out, and
\* only an operator ends the pause (circuit_breaker.py:7).
THEOREM FailsFast == Spec => OpenFailsFast
<1> DEFINE Pause == state = "open" /\ ~cooled =>
                      /\ \A c \in Calls : calls[c] = "idle" => calls'[c] = "idle"
                      /\ state' = "open" \/ force_close \/ reset
<1>1. IInv /\ [Next]_vars => [Pause]_vars
  <2> SUFFICES ASSUME IInv, Next, state = "open", ~cooled
               PROVE  /\ \A c \in Calls : calls[c] = "idle" => calls'[c] = "idle"
                      /\ state' = "open" \/ force_close \/ reset
    OBVIOUS
  <2>1. CASE \E c \in Calls : can_execute(c)
    BY <2>1 DEF can_execute, ExecuteClosed, ExecuteOpen, ExecuteHalfOpen
  <2>2. CASE \E c \in Calls : Report(c) \/ OutOfMemory(c) \/ Abandon(c)
    <3> PICK c \in Calls : Report(c) \/ OutOfMemory(c) \/ Abandon(c)
      BY <2>2
    <3>1. c \in Running
      BY DEF Report, Succeed, Fail, OutOfMemory, Abandon, Running
    <3>2. \A d \in Calls : calls[d] = "idle" => calls'[d] = "idle"
      BY <3>1 DEF IInv, TypeOK, Report, Succeed, Fail, OutOfMemory, Abandon, Ends, Running
    <3>3. state' = "open"
      BY DEF Report, Succeed, Fail, OutOfMemory, Abandon, record_success, record_failure
    <3> QED BY <3>2, <3>3
  <2>3. CASE Manual \/ RecoveryTimeout \/ OllamaFlips
    BY <2>3 DEF Manual, force_open, force_close, reset, RecoveryTimeout, OllamaFlips
  <2> QED BY <2>1, <2>2, <2>3 DEF Next
<1> QED BY <1>1, Inductive, PTL DEF Spec, OpenFailsFast

=============================================================================
