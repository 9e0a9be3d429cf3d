----------------------------- MODULE Disclosure -----------------------------
(***************************************************************************)
(* A child's disclosure, from the turn to the parent's alert               *)
(* (api/routes/ollama_proxy/chat.py and blocks.py,                         *)
(* safety/disclosure_queue.py, safety/disclosure_response.py).             *)
(*                                                                         *)
(* The route detects a disclosure by regex and records it at once, then    *)
(* hands the turn to the queue of its process, whose workers ask a model   *)
(* for the kind while the tutor writes its reply.  Before serving, the     *)
(* route waits a moment for that verdict, which may replace the reply.     *)
(* One process; between two awaits everything is one step.                 *)
(*                                                                         *)
(* Left out: the adjudicator (off by default), the counters and the        *)
(* logging, and what escalation does with an alert once invoked.           *)
(***************************************************************************)
EXTENDS Naturals, Sequences, FiniteSets

CONSTANTS
  Turns,        \* student turns
  Kinds,        \* disclosure kinds
  Alerting,     \* the kinds recorded as major, so that a parent is alerted
  Rerouted,     \* the kinds with a configured reply of their own
  NumWorkers,   \* worker tasks of the queue
  MaxSize,      \* its maxsize
  WritesFail    \* whether an incident row may fail to be written

ASSUME KindsAssumption   == Alerting \subseteq Kinds /\ Rerouted \subseteq Kinds
ASSUME NoKindAssumption  == "none" \notin Kinds /\ "pending" \notin Kinds
ASSUME WorkersAssumption == NumWorkers \in Nat \ {0}
ASSUME SizeAssumption    == MaxSize \in Nat \ {0}
ASSUME WritesAssumption  == WritesFail \in BOOLEAN
ASSUME FiniteAssumption  == IsFiniteSet(Turns)

VARIABLES
  pc,       \* where each turn's request is
  inline,   \* the kind the regex found in the turn
  block,    \* the severity its input block escalates at, 0 if it was not blocked
  job,      \* the turn's _Job
  verdict,  \* its future: pending, or settled to a kind or to "none"
  queue,    \* the asyncio.Queue
  rows,     \* incident rows written
  failed    \* turns one of whose rows was not written

vars == <<pc, inline, block, job, verdict, queue, rows, failed>>

minor == 1
major == 2
critical == 3
Severities == {minor, major, critical}

Found    == Kinds \cup {"none"}
Verdicts == Found \cup {"pending"}
PCs      == {"idle", "tutor", "wait", "served", "overridden", "blocked", "withheld", "gone"}
Writers  == {"inline", "semantic", "input", "output", "signal"}
Jobs     == {"none", "queued", "running", "done", "shed", "dropped"}
Rows     == [turn : Turns, by : Writers, severity : Severities, alerts : BOOLEAN]

Running == {t \in Turns : job[t] = "running"}

Init ==
  /\ pc = [t \in Turns |-> "idle"]
  /\ inline = [t \in Turns |-> "none"]
  /\ block = [t \in Turns |-> 0]
  /\ job = [t \in Turns |-> "none"]
  /\ verdict = [t \in Turns |-> "none"]
  /\ queue = <<>>
  /\ rows = {}
  /\ failed = {}

------------------------------------------------------------------------------
\* log_incident: major and critical rows alert unless the caller says not to.
Row(t, by, severity, send) ==
  [turn |-> t, by |-> by, severity |-> severity, alerts |-> send /\ severity >= major]

\* Mutant: the row takes the severity of its kind, whatever blocked the turn.
DisclosureRowUnpromoted(t, by, kind, blocked) ==
  Row(t, by, IF kind \in Alerting THEN major ELSE minor, TRUE)

\* _record_disclosure_incident: at least as urgent as the block.
DisclosureRow(t, by, kind, blocked) ==
  LET own == IF kind \in Alerting THEN major ELSE minor
  IN Row(t, by, IF own >= blocked THEN own ELSE blocked, TRUE)

\* Which of the rows R of one turn get written: log_incident may fail for each.
Written(R) == IF WritesFail THEN SUBSET R ELSE {R}

Logs(t, R, ok) ==
  /\ rows' = rows \cup ok
  /\ failed' = IF ok = R THEN failed ELSE failed \cup {t}

------------------------------------------------------------------------------
\* The route, up to the tutor call: the input check has found the turn safe
\* (b = 0) or blocked it at severity b, the regex has found kind k or nothing.
\* send_alert of the safety row is not _disclosure_alerted.
\* Mutant: the outcome of the inline write is not passed on.
AlertedNever(ok) == FALSE

Alerted(ok) == \E r \in ok : r.by = "inline" /\ r.alerts

\* Mutant: the row of a minor kind is left to the worker, the design that
\* disclosure_queue.py:104-110 rejects.
InlineRowsDeferred(t, k, b) ==
  IF k \in Alerting THEN {DisclosureRow(t, "inline", k, b)} ELSE {}

\* Mutant: a turn that was not blocked gets a safety row too.
SafetyRowsAlways(t, b, alerted) == {Row(t, "input", b, ~alerted)}

InlineRows(t, k, b) == IF k = "none" THEN {} ELSE {DisclosureRow(t, "inline", k, b)}
SafetyRows(t, b, alerted) == IF b = 0 THEN {} ELSE {Row(t, "input", b, ~alerted)}

\* DisclosureQueue.submit: never waits; a full queue sheds and settles.
Submit(t) ==
  IF Len(queue) >= MaxSize
  THEN /\ job' = [job EXCEPT ![t] = "shed"]
       /\ verdict' = [verdict EXCEPT ![t] = "none"]
       /\ UNCHANGED queue
  ELSE /\ job' = [job EXCEPT ![t] = "queued"]
       /\ verdict' = [verdict EXCEPT ![t] = "pending"]
       /\ queue' = Append(queue, t)

Arrive(t) ==
  /\ pc[t] = "idle"
  /\ \E k \in Found, b \in {0} \cup Severities :
       \E first \in Written(InlineRows(t, k, b)) :
         LET safety == SafetyRows(t, b, Alerted(first)) IN
         \E second \in Written(safety) :
           /\ inline' = [inline EXCEPT ![t] = k]
           /\ block' = [block EXCEPT ![t] = b]
           /\ pc' = [pc EXCEPT ![t] = IF b = 0 THEN "tutor" ELSE "blocked"]
           /\ Logs(t, InlineRows(t, k, b) \cup safety, first \cup second)
           /\ IF Alerted(first) THEN UNCHANGED <<job, verdict, queue>> ELSE Submit(t)

\* What a vetted reply may have recorded of the tutor's own refusal, on the buffered
\* path and where the regex found nothing: a kind that is not an alerting one.
SignalRows(t) ==
  IF inline[t] = "none" THEN {{}, {Row(t, "signal", minor, TRUE)}} ELSE {{}}

\* The vetted reply.  _await_disclosure_verdict: no wait when no reply is
\* configured, or when the turn was not handed to the queue.
TutorDone(t) ==
  /\ pc[t] = "tutor"
  /\ \E R \in SignalRows(t) : \E ok \in Written(R) : Logs(t, R, ok)
  /\ pc' = [pc EXCEPT ![t] = IF Rerouted = {} \/ job[t] = "none" THEN "served" ELSE "wait"]
  /\ UNCHANGED <<inline, block, job, verdict, queue>>

\* The progressive stream ends: no signal is read from it and no verdict awaited.
StreamDone(t) ==
  /\ pc[t] = "tutor"
  /\ pc' = [pc EXCEPT ![t] = "served"]
  /\ UNCHANGED <<inline, block, job, verdict, queue, rows, failed>>

\* No reply: the tutor or its check fails, which leaves no row, or check_output
\* blocks the reply, on either path, and the block is recorded with send_alert at
\* its default.
Withhold(t) ==
  /\ pc[t] = "tutor"
  /\ \E R \in {{}} \cup {{Row(t, "output", s, TRUE)} : s \in Severities} :
       \E ok \in Written(R) : Logs(t, R, ok)
  /\ pc' = [pc EXCEPT ![t] = "withheld"]
  /\ UNCHANGED <<inline, block, job, verdict, queue>>

\* response_for the verdict, if it came in time.
Serve(t) ==
  /\ pc[t] = "wait" /\ verdict[t] # "pending"
  /\ pc' = [pc EXCEPT ![t] = IF verdict[t] \in Rerouted THEN "overridden" ELSE "served"]
  /\ UNCHANGED <<inline, block, job, verdict, queue, rows, failed>>

\* _DISCLOSURE_VERDICT_WAIT_S elapses; the future stays the worker's.
WaitTimesOut(t) ==
  /\ pc[t] = "wait" /\ verdict[t] = "pending"
  /\ pc' = [pc EXCEPT ![t] = "served"]
  /\ UNCHANGED <<inline, block, job, verdict, queue, rows, failed>>

Disconnect(t) ==
  /\ pc[t] \in {"tutor", "wait"}
  /\ pc' = [pc EXCEPT ![t] = "gone"]
  /\ UNCHANGED <<inline, block, job, verdict, queue, rows, failed>>

------------------------------------------------------------------------------
\* The workers.

Take ==
  /\ queue # <<>> /\ Cardinality(Running) < NumWorkers
  /\ job' = [job EXCEPT ![Head(queue)] = "running"]
  /\ queue' = Tail(queue)
  /\ UNCHANGED <<pc, inline, block, verdict, rows, failed>>

\* _settle: idempotent.
settle(t, k) == verdict' = [verdict EXCEPT ![t] = IF @ = "pending" THEN k ELSE @]

\* Mutant: the kinds of the regex and of the model are mixed up.
UpgradesSwapped(t, k) == inline[t] \in Alerting /\ k # inline[t]

\* An upgrade of what was recorded inline: this row alerts, that one did not.
\* fallback_alerted is always False here: an alerted turn is not enqueued.
Upgrades(t, k) == k \in Alerting /\ k # inline[t]

\* _run_one, once the model has answered kind k: settle, then record what the
\* inline row does not already say.
Classify(t, k) ==
  LET R == IF inline[t] = "none" \/ Upgrades(t, k)
           THEN {DisclosureRow(t, "semantic", k, block[t])} ELSE {} IN
  /\ job[t] = "running"
  /\ settle(t, k)
  /\ \E ok \in Written(R) : Logs(t, R, ok)
  /\ job' = [job EXCEPT ![t] = "done"]
  /\ UNCHANGED <<pc, inline, block, queue>>

\* Mutant: the job ends without _settle, the route left waiting for its future.
NoVerdictUnsettled(t) ==
  /\ job[t] = "running"
  /\ job' = [job EXCEPT ![t] = "done"]
  /\ UNCHANGED <<pc, inline, block, verdict, queue, rows, failed>>

\* No disclosure, no usable answer from the model, or an error in the worker.
NoVerdict(t) ==
  /\ job[t] = "running"
  /\ settle(t, "none")
  /\ job' = [job EXCEPT ![t] = "done"]
  /\ UNCHANGED <<pc, inline, block, queue, rows, failed>>

------------------------------------------------------------------------------
\* A deploy restarts the process: its requests and its queue are gone.
Restart ==
  /\ pc' = [t \in Turns |-> IF pc[t] \in {"tutor", "wait"} THEN "gone" ELSE pc[t]]
  /\ job' = [t \in Turns |-> IF job[t] \in {"queued", "running"} THEN "dropped" ELSE job[t]]
  /\ queue' = <<>>
  /\ UNCHANGED <<inline, block, verdict, rows, failed>>

Worker == Take \/ \E t \in Turns : NoVerdict(t) \/ \E k \in Kinds : Classify(t, k)

Route(t) == TutorDone(t) \/ StreamDone(t) \/ Withhold(t) \/ Serve(t) \/ WaitTimesOut(t)

Next ==
  \/ Worker \/ Restart
  \/ \E t \in Turns : Arrive(t) \/ Route(t) \/ Disconnect(t)

Spec == Init /\ [][Next]_vars

\* The worker tasks run and their model call is bounded by a timeout; the tutor
\* call and the wait end.  Nothing makes a child write or the process restart.
FairSpec == Spec /\ WF_vars(Worker) /\ \A t \in Turns : WF_vars(Route(t))

------------------------------------------------------------------------------
TypeOK ==
  /\ pc \in [Turns -> PCs]
  /\ inline \in [Turns -> Found]
  /\ block \in [Turns -> {0} \cup Severities]
  /\ job \in [Turns -> Jobs]
  /\ verdict \in [Turns -> Verdicts]
  /\ queue \in Seq(Turns) /\ Len(queue) <= MaxSize
  /\ rows \subseteq Rows
  /\ failed \subseteq Turns

RowsOf(t)   == {r \in rows : r.turn = t}
AlertsOf(t) == {r \in RowsOf(t) : r.alerts}

DisclosureAlerts(t) == {r \in AlertsOf(t) : r.by \in {"inline", "semantic"}}

\* Of the disclosure rows of a turn, the regex's and the model's, one at most alerts
\* (disclosure_queue.py:96-104), and an inline alert silences the row of the input
\* block, which would call the child the offender (chat.py:1003-1009).  "One alert per
\* turn" (chat.py:1003) is more than the code keeps: the row of a blocked reply alerts
\* whatever was told before it (chat.py:1152, 1461), and the worker's row alerts beside
\* that of a block of the input or of the reply.
OneDisclosureAlert ==
  \A t \in Turns :
    /\ Cardinality(DisclosureAlerts(t)) <= 1
    /\ (\E r \in AlertsOf(t) : r.by = "inline") => \A r \in AlertsOf(t) : r.by # "input"

\* "The deterministic record is never at the mercy of the queue"
\* (disclosure_queue.py:112): what the regex found, and what the model found, is on
\* record whatever was shed, lost by a restart or outlived by its request, unless
\* the database refused a row of this turn.
EveryFindingRecorded ==
  \A t \in Turns \ failed :
    inline[t] # "none" \/ verdict[t] \in Kinds =>
      \E r \in RowsOf(t) : r.by \in {"inline", "semantic"}

\* A disclosure of an alerting kind, whoever found it, reaches a parent even if
\* the other one said less (disclosure_queue.py:116-121), and a child whose reply
\* was replaced is never left without one.
UpgradeReachesParent ==
  \A t \in Turns \ failed :
    {inline[t], verdict[t]} \cap Alerting # {} => AlertsOf(t) # {}

\* A blocked turn is alerted about as urgently as its block (blocks.py:268-271):
\* suppressing the safety row never downgrades what the parent hears.
UrgencyKept ==
  \A t \in Turns \ failed :
    block[t] >= major => \E r \in AlertsOf(t) : r.severity >= block[t]

\* "It MUST be settled on EVERY path" (disclosure_queue.py:151): the future of a turn
\* handed to the queue is settled, to a kind or to none, unless a restart drops the job.
VerdictSettles ==
  \A t \in Turns : job[t] = "queued" ~> verdict[t] # "pending" \/ job[t] = "dropped"

=============================================================================
