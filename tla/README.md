# A formal model of snflwr.ai's core

snflwr.ai is a tutor for children: a FastAPI service, run as several uvicorn worker
processes on one box, that stands between a student and a local language model
(Ollama). A turn passes a safety pipeline, waits for inference capacity, is sent through
a circuit breaker to Ollama, is checked and edited again on its way back, and is watched
for a child's disclosure that a parent has to learn of; what was said is kept for a
while, and must go when a parent says so. This directory models these mechanisms in TLA+,
checks them with TLC and proves their safety properties with TLAPS.

## 1. The system and what is hard about it

| part | state it keeps | operations | interacts with | what is hard | what makes it correct |
|---|---|---|---|---|---|
| Safety pipeline, `safety/pipeline/` | the classifier's `_state`, `_available` (no lock) | `check_input`, `check_output`, `classify`, `_transition_state`, `run_health_probe` | Ollama; checks on the event loop and on threads | availability changes while a check uses it; two unlocked assignments | a match is never dropped, an outage blocks, the classifier recovers |
| Admission, `core/inference/admission.py` | per worker a semaphore, `_waiting`, `_ready`; a SQLite table for the box; `_DEPTH` per task | `slot()`, `reserve`, `release`, `enabled` | eight workers through the table | crashes, lost rows, timeouts, cancelled tasks, nesting | never over the box's slots, exact waiting count, no wakeup and no permit lost, everybody answered |
| Circuit breaker, `utils/circuit_breaker.py` | state, three counters, time of the last failure | `can_execute`, `record_*`, `force_*`, `reset` | `transport.py`, `ollama_client.py` | reports that come late or never | counters exact, open means silent, recovers |
| Disclosure queue, `safety/disclosure_queue.py`, with the route in `chat.py` and `blocks.py` | a bounded queue, worker tasks, a future per turn, incident rows | detect, record, submit, classify, upgrade, wait, serve | the incident logger, the model, the route | shedding, restarts, late verdicts, lost writes | recorded whatever happens, a parent is told, and told once of the disclosure |
| Chat turn, `api/routes/ollama_proxy/chat.py` | the reply in the making; flags that say who changed it | gates, check, tutor, check, enforce, screen, suffix, reminder, respond; or a hold-back stream | everything above | a dozen stages edit one text, each may fail; two bodies to serve from | only vetted words, the reminder and the resource are in what ships, the ledger knows what shipped |
| Incident logger and monitor, `safety/incident_logger/`, `safety/safety_monitor.py` | incident and alert tables; per worker counts, `alert_sent`, pending alerts | insert, look up the id, alert, mark; monitor, acknowledge | blocks, erasure, retention | each statement commits alone; the id is looked up after the insert; ids are used again | no severe incident is silent, an alert is about its child, told means told |
| History ledger, break reminder, shared state, rate limiter | windows in SQLite files and, for when they fail, in each worker | remember, filter, `due`, `check_rate_limit` | all workers | load and save are separate; files fail; copies grow stale | only served text is replayed; the reminder is on time; limits hold |
| Sessions, conversations, profiles, consent, retention, erasure | database rows of the children | create, import, edit, end, store, consent, revoke, delete, clean up | all workers, task processes | a process lock for a shared table; statements without transactions; sessions named by the client; several ways to a consent; the child chats on | erased means erased; limits; consent before use; what is recent stays |
| Authentication and its session cache | sessions in the database and in a cache | login, validate, logout | every route | a cached session outlives a logout | not modelled |
| Keys, licences, websocket table, connection pool | database rows, tables | split, check, connect, get | storage | limits and fallbacks, arithmetic | not modelled |
| Pedagogy, topic gate, GPU placement, serving plan | little | bounded calls, arithmetic | transport | time limits that cancel calls | (stages of the turn; the cancellation is part of the breaker's model) |
| User interfaces, installers, deployment, docs | none of their own | | | | not modelled |

`PROJECT.json` lists the parts with their files and the hazards with their lines.

## 2. Modules

Each component has a module with its state and one action per atomic step; where TLC
needs sets or views of its own, an `MC` module; and, for all eight, a module of proofs.
Definitions keep the names of the code. An operator introduced by a comment
`\* Mutant:` is a plausible mistake in the definition that follows it; no
specification uses it. It documents what the properties are able to notice.

### SafetyPipeline

A message is the record of what the stages find out about it (direction, valid,
deterministic match and of what sort, invisible characters, educational context, age,
age gate); patterns and prompts are data. `Begin` runs stages 1 to 3, `Classify` the
availability guard of `classify()`, `Generate` and `GenerateFails` the model's call,
`ToRecheck`, `Recheck` and `Decide` what `check_input` and `check_output` do with the
answer, `Raise` their catch-all. A match is of a `topic` (violence, weapons, drugs in plain
text), of `self_harm`, a plain `stem` of another category's term, which only an
educational frame defers, or a hard one. `Compare`, `SetState` and `SetFlag` are the three
accesses of `_transition_state`, `ProbeCall`, `ProbeReact`, `ProbeSleep` the health probe.

Where a check runs matters. In hold-back streaming (`CHAT_STREAMING_ENABLED`, off by
default) `check_output` runs in `asyncio.to_thread` (`chat.py:1131`). All other
checks are called on the event loop (`chat.py:724`, `1432`, `1573`;
`api/routes/chat.py:360`, `617`), where neither another check nor the probe can come in
between. `loop` says who has the loop; a message carries where it is checked.

### Admission

`ArriveFull`, `ArriveQueue`, `ArriveFree` are the entry of `slot()`; `Resume` and
`QueueTimeout` the two ends of waiting for the semaphore; `Gate` the box-wide gate;
`Reserve` the thread that runs `reserve()`, and `Admit`, `Refuse`, `Sleep`, `PollAgain` the
coroutine's loop around it; `EndTurn`, `Release`, `ReleasePermit` the `finally` block, whose
await a cancellation can hit as well (`Abandoned`);
`NestedEnter` and `NestedExit` a nested `slot()`. asyncio's semaphore is modelled as in
Python 3.12, the image's version (`docker/Dockerfile`): a release hands the permit to the
oldest waiter, who resumes later. The environment lets deadlines pass, rows expire,
tasks be cancelled, workers crash and start again, and the database fail. A cancelled
task leaves its thread running (`orphan`), which may still insert a row.

### CircuitBreaker

Each method holds the breaker's lock and is one action. A call is let through by
`can_execute`, and reports (`Succeed`, `Fail`) when it returns, in whatever state the
breaker then is; `OutOfMemory` is the transport's second request, which does not ask
again; `Abandon` is a call whose task is cancelled, which no handler reports. `lost` is a
history variable.

### Disclosure

One process. `Arrive` is the route up to the tutor's call: detect, write the inline row,
block and write the safety row, enqueue. `Withhold` is the check of the tutor's reply that
blocks it, with the row of that block, or a failure that leaves none; `StreamDone` the end of a
live reply, `TutorDone` that of a buffered one, with the row of an escalation signal. `Serve` and
`WaitTimesOut` are `_await_disclosure_verdict` and the router, `Take`, `Classify`, `NoVerdict` a worker,
`Restart` a deploy, `Disconnect` a client that leaves. A row may fail to be written
(`log_incident` answers False); `failed` remembers for which turns, so that properties
can exclude exactly those. A row *alerts* when escalation is invoked for it: delivery
is outside. The adjudicator (off by default) is left out.

### ChatTurn and TurnGate

A student's turn from the gates to the bytes that leave; two turns of one child may run at
once, and share the break reminder. A reply is the set of its pieces: the tutor's words
(the halves of a live reply, a draft, its rewrite, its repair, a raw body) and the proxy's
own (suffix, reminder, override, block, notice). `held` is `upstream_json` before it is
sent, `rewritten` the flags that make the route write the response anew, `sent` what the
child got. `CheckInput`, `Adjudicate`, `TopicGate` are in front of the tutor; `Checkpoint`,
`LastVet`, `Append` the hold-back stream; `VetDraft`, `Enforce`, `Screen`, `Suffix`, `Finish`,
`Respond` the buffered path, one action between two awaits. What a stage finds is chosen:
`SafetyPipeline` and `Disclosure` say how it finds it, `Windows` when a reminder is due.

`TurnGate` is the abstract specification: a turn is asked, cleared, shown, closed, in this
order, its child hears the tutor only after `cleared` and nothing after the end, and every
turn ends. `ChatTurn` implements it (`KeepsTheGate`) under the mapping that reads the
stage off `pc` and `verdict`, and who has heard the tutor off `sent`.

The model keeps four things the code does and a reader might not expect. The repair of
the S9051B screen (off by default) is looked at for phrases but not by `check_output`; an
upstream body that is no JSON is served as it came on the single path; both are the
named exceptions of `VettedOnly`. A reminder already granted is lost when the disclosure
router replaces the reply. The answer appended to a live reply is not in the ledger. A
live reply passes neither enforcer nor screen and gets no suffix. `NotJson` is also the upstream
JSON without a message, whose empty text is vetted in its stead, and `TutorFails` also the call that
fails with an error of its own, which the child sees as an error and not as a reply.

### Incidents

`log_incident` is a chain of statements that commit one by one: `InsertLinked`, or without a
profile `InsertUnlinked`; `Lookup`, which takes the newest row of the profile for its own;
`ReadParent`, `StoreAlert`, `mark_parent_notified`. `Broken` and `AlertBroken` are the two
`except` clauses; `UnlinkedRejected` is an insert whose session is gone, so that the row
without a profile is refused too and the operator is told. The monitor's message is `Monitor` (count, record, decide) and `FlagAll`.
`Purge`, `Erase` and `Restart` come in between. Ids are SQLite's: one above the newest, so
that an erased newest row's id is given out again (`IsNextId`), which is how an alert
may end up with an incident of another child: the exception of `NotifiedIsTold` and
`AlertIsAboutTheChild`.

### Windows

One child's turns over several workers, and time. `CheckShared` and `CheckLocal` are the
limiter's two windows; `Filter` and `record_turn` the ledger; `Load` and `Save` the two halves
of `due()`. Turns in `NoRates` and `NoState` may find the files failing, workers in `Isolated`
could not open them. `admitted`, `served`, `since`, `seen`, `blind` are history variables.
`blind` says when the reminder may be late: a clock was read or written without the
shared file, so that a worker's stale copy may have set it back. A turn that was blocked, and
a live reply too short for a checkpoint, does not ask the clock.

### ChildRecords

The rows of several children, under chat turns of the native route (`Begin` to `NoteMessage`),
the end of a session, the creation of a profile (`CreateProfile`, `MarkAge`), its import from a school's
roster (`ImportProfile`, `ImportStatus`, `ImportLog`), the edit of an age, the consent mail and the
click on it (`RequestConsent`, `ReadToken` to `SpendToken`), retention jobs, and erasures: of one child by
revocation or by an administrator, of several with their account (`Erase(K)`). Foreign keys cascade
(`Cascade`, `Delete`), and refuse a row whose parent row is gone. A worker has one request up to
an await: `at` says which, and only `Gate` to `Reply` waits.

A turn takes the session its client names, whosever it is (`api/routes/chat.py:286-288`), and finds
the conversation by the session alone. So a row is named for the request that wrote it, which says
whose it is: the *author* of a message is the child of its turn, the *holder* of a conversation the
child of the turn that opened it. `crossed` remembers the turns that took another child's session,
and `Mixed` the messages they may have put where the other's erasure decides. `lapsed`,
`unlogged`, `edited` and `unnoted` are the other history variables.

`delete_user_data` (`tasks/background_tasks.py:747`) is not part of the model: nothing
dispatches it and nothing sets the `deletion_requested_at` it asks for, and it could
not get past its first rows. With SQLite it calls `.get` on a `sqlite3.Row` (line 771),
which has none; with PostgreSQL it calls SQLite's `datetime` (line 776).

### How the modules go together

Modules share no variables; they meet where one's result is another's input. What
`SafetyPipeline` promises of a check (fail closed, nothing dropped) is the choice of
`ChatTurn`'s vetting steps; `Disclosure`'s rows that *alert* are `Incidents`' calls; the
reminder that `Windows` finds due is `ChatTurn`'s `owed`; the deliveries `ChatTurn` enters into the
ledger are those `Windows` remembers; the incidents that erasure takes along are in `Incidents`,
the conversations in `ChildRecords`.

## 3. Runs

| run | checks | instance |
|---|---|---|
| `AdmissionBox` | types, the box's capacity, exact waiting count, no lost wakeup, permits add up, every turn answered | 2 workers, 1 slot, queue of 1, 3+1 turns, all faults, one turn that outlives its row, fairness |
| `PipelineStrict` | types, no dropped match, fail closed | 2 concurrent checks and the probe, classifier required, generate may fail |
| `PipelineLoop` | recovery | every message on the event loop, classifier optional, fairness |
| `PipelineDropped` | *violated*: no dropped match | one streamed reply and the probe, classifier optional |
| `BreakerHeals` | types, slots are held, heals unless wedged | 3 callers, thresholds 2 and 2, two half-open calls |
| `DisclosureTurns` | types, one disclosure alert, records, upgrades, urgency, verdicts | 2 turns, 3 kinds, 1 worker, queue of 1, writes may fail, fairness |
| `IncidentsTold` | types, no silent severe incident, alerts about the child, told is told | 2 workers, 2 profiles, 3 calls and 2 messages, ids to 3, one worker restarts, one profile is erased |
| `ChatServed` | types, vetted words only, ledger, reminder, resource, refinement of `TurnGate` | 2 turns, every switch on, fairness |
| `ChatSuffix` | *violated*: a reply that goes out whole carries the suffix | 1 turn, every switch off |
| `WindowsShared` | types, rate limit, reminder, history | 4 turns, 2 at a time, 2 workers, time to 3, files fail in the second turn |
| `RecordsKept` | types, session limits, consent, retention | 1 child, 2 turns, 1 end, 1 click on the consent mail, 2 workers, 2 days |
| `RecordsShared` | total erasure, consent, retention | 2 children with a turn each: one created, whose age is edited, one imported and used by an administrator; 2 workers, 2 days |

**What the violated runs show.** `PROJECT.json` quotes the lines under `findings`.

1. *Dropped match.* A skipped classification is taken for a clearance when the probe
   recovers the classifier before the second read of `available`
   (`safety/pipeline/__init__.py:643`). It needs the threaded path and
   `SAFETY_CLASSIFIER_REQUIRED=false`; with the flag at its default the property is proved.
2. *Lost suffix.* Appending the crisis suffix does not mark the reply as changed
   (`chat.py:1667`), so a single, non-streamed response that no other stage touched is served
   from the tutor's bytes, without it; the ledger remembers it with it. `ResourceReaches`
   shows that every other buffered reply carries it.

**Other disagreements of code and comments**, which the models contain as steps. The
properties name each as an exception, or hold under the condition given here.

- *Stuck classifier.* A check on a thread degrades the classifier while the probe recovers it:
  their assignments interleave, `_state` ends as "available" and `_available` as False, and the
  probe, which compares its finding with `_state` only, never repairs it (`classifier.py:118`,
  `202-214`). `PipelineLoop` shows that without threads, the default, the classifier recovers;
  with the messages of `PipelineDropped`, `AutoRecovers` fails.
- *Framed stems.* `pattern_matcher.py:965` defers a plain stem of any category in an educational
  frame, on a student's input too, while `_is_deferrable` (`__init__.py:456`), `check_output`
  (`__init__.py:624`) and a test (`tests/test_safety_pipeline.py:1834`) say that
  high-stakes categories, and self-harm on input, never are. The comment beside the code means
  it so (`pattern_matcher.py:955-964`): the other three statements are out of date. Deferral
  fails closed, which `PipelineStrict` checks with such a message among its own.
- *Second alert.* The block of a tutor's reply is recorded with `send_alert` at its default
  (`chat.py:1152`, `1461`), whatever was told before, and so is the worker's row on a blocked turn:
  "one alert per turn" (`chat.py:1003`) does not hold. What holds is `OneDisclosureAlert`: at
  most one disclosure row alerts, and an inline one silences the row of the *input* block.
- *Messages that outlive an erasure.* In another child's session a child's messages
  go into the other's conversation (`api/routes/chat.py:288`), and the erasure of their author
  leaves them, although revocation "permanently deletes the child profile and all associated
  data" (`parental_consent.py:405`). `ErasureIsTotal` says what erasure does remove,
  `RecentIsKept` what the other child's erasure takes along.
- *Tutored without consent.* The creation of a profile marks a child of 13 or more as verified
  (`api/routes/profiles.py:275`), and an edit of the age leaves the mark, although the gate says
  that `coppa_verified` is set "never at profile creation" (`coppa_gate.py:3-5`).
  `ConsentOnRecord` names this exception, and the roster import, which sets the status before
  it logs the consent and only reports a log that fails (`admin/profiles.py:181-198`).

A cancelled half-open call keeps its slot and HALF_OPEN has no timeout (`transport.py:226`):
`HealsUnlessWedged` shows that nothing else prevents recovery. `reserve()` answers None
both for "full" and for "not ready", so a polling turn is refused while the table fails
(`admission.py:188`). If the inline write failed, the model's agreement is thrown away
(`disclosure_queue.py:394`), which is why `EveryFindingRecorded` excepts failed writes. The lock of
`create_session` is one process's, so each further worker may add an active session
(`SessionLimits`). A comment of the native route says it caps sessions at
`max_session_hours` (`api/routes/chat.py:657`): nothing calls the functions that would.
`delete_user_data` cannot run to its end (section 2).

**Bounds.** Four turns in admission are the fewest that put a holder, a waiter and a
refused turn on one worker beside a rival on another; a crash or a cancellation can
then hit each. A slot count of 1 makes every permit contended. `MaxDepth` = 1 allows one nested level: a deeper one only counts
further. Two checks and the probe are all the actors a race on two shared variables
needs; `PipelineLoop` has one check since only one can hold the loop. Of the messages,
`OnLoop` is all of them, except that what stage 1 and the age gate find is not varied
independently. Three breaker calls allow two probes beside a late report; thresholds of
2 tell a count from a flag, and two half-open calls let taken slots outlive the probes. Two turns and a queue of one shed, queue and run; three kinds are
an alerting, an alerting and rerouted, and a silent one. Three calls allow two about one child and
one about another, each before, between and after the statements of the others; three ids let one be
given out again. Two turns share one reminder, and more only take turns with it. Four turns fill a
window of two and start another; time to 3 passes every period (window 3, memory
and interval 2, idle 1). Two records turns meet in one session or make two; a day's limit of one is
reached at once, and a retention of 0 days lets two days see both sides of each
cut-off. Two children are the fewest that can share a session, with a turn each: either may open the
conversation and either be erased; the two differ in how they came. `RecordsKept` leaves the
imports and the edits to `RecordsShared`, which leaves it the end of a session and the click on
the mail. That a click under way brings nothing of an erased child back is the theorem's
(`ErasureTotal`). `MaxId`, `MaxNow` and `MaxDay`
are the only artificial bounds beside nesting: elsewhere the state spaces are finite.

**Deadlock** is checked only for the breaker and the disclosure queue, which never stop:
elsewhere all turns may be over with nothing left to do.

**Symmetry and views.** The two checks, and the workers of `Windows` and `ChildRecords` are interchangeable in runs
without liveness. `MCView` drops deadlines and answers of turns
that are over, which no action and no property of a run reads any more.

## 4. Fairness

- *Admission*: `WF(Progress(t))`, `WF(DeadlinePasses(t))`: the event loop runs ready tasks, the
  thread pool runs threads, sqlite calls have a busy timeout, clocks advance. An admitted
  turn is not made to end: a turn may hold its slot as long as it likes, and others are
  then refused at their deadline.
- *Pipeline*: `WF(CheckStep(c))`: a check that began goes on and `generate()` returns (its
  request has a timeout). `SF(ProbeReact)`: the probe needs the loop to be free, which
  it is again and again rather than continuously. Nothing makes Ollama return.
- *Breaker*: calls return (read timeout), students keep asking, time passes. Its liveness
  property assumes in addition that Ollama stays up and operators and
  cancelled probes stop, since otherwise there is nothing to recover to.
- *Disclosure*: worker tasks run, the model's call is bounded by a timeout, the tutor's call
  and the wait end. Nothing restarts the process or makes a child write.
- *ChatTurn*: `WF(Step(t))`: every await of the handler has a timeout of its own. Nothing makes
  a turn begin or a reminder fall due.

`Incidents`, `Windows` and `ChildRecords` state no liveness: a call may end anywhere, by a crash.

## 5. Proofs

Eight modules prove, for every value of the constants that satisfies the named assumptions,
that `Spec` implies the properties below: every invariant the passing runs check, and
every action property of theirs. The assumptions are those of the modules: finite
sets of turns, calls and workers, positive slot, rate and threshold counts and periods, every
turn routed to a worker, disjoint sets of requests, messages of the stated shape.

- **Admission.** `BoxNeverOverfull` (BoxCapacity), `NestedCallsNeverWait`, `TypeCorrect`. BoxCapacity speaks of turns, while `reserve()` counts rows. The invariant
  links them: the table has at most `Slots` rows (`RowsBounded`), and each live holder that does
  not outlive its row has an unexpired one (`HoldersHaveRows`). That needs
  `NotYetAsked`, that a turn not yet past the gate has no stale answer. Type correctness of `pc`
  after a handover needs to know who is at the head of the line (`InLine`), and the
  nesting property that an admitted turn has a positive depth (`HeldIsMarked`).
  `PermitsAlwaysAddUp` (PermitsAddUp), `WaitingAlwaysExact` (WaitingExact) and `NoWakeupLost`
  (NoLostWakeup) rest on a second invariant, `CInv`, of counts. It adds `AllInLine`, the
  converse of `InLine`: whoever is queued is in its worker's line, so that an empty line means
  that a freed permit has nobody to go to. A step moves one turn, and at a handover a second
  one; `OneChanges` says what that does to the size of a set, `Recounted` and
  `CountsKept` turn it into a balance of permits and counter that each action has to
  settle. A turn cancelled behind the semaphore, on its way in or out, is the one step that leaves
  the balance short.
- **Circuit breaker.** `Thresholds`, `SlotsHeld`, `FailsFast`, `TypeCorrect`. The invariant is the
  conjunction of these, since the counter's bound, the running calls and the lost ones
  are only inductive together.
- **Safety pipeline.** `FailsClosedAlways`, `BlocksStand`, `TypeCorrect`, and `MatchesNeverDropped` for a
  required classifier, the assumption without which `PipelineDropped` refutes it. The invariant
  `CheckOK` says for each check where it is, what it may have been answered and how its
  message got there, and nothing of `_available`: that is why it survives any probe.
- **Chat turn.** `Vetted`, `LedgerTrue`, `ReminderShipped`, `ResourceGiven`, `TypeCorrect`, for any number
  of turns and any set of switches. The invariant says stage by stage what a turn may hold, what
  of it was cleared and what it has sent, and that a taken reminder is on its way until the end.
  `TurnGateSafety` is the safety part of the refinement: every step of `ChatTurn` is one of
  `TurnGate`'s or a stutter.
- **Disclosure queue.** `FindingsRecorded` (EveryFindingRecorded), `ParentsReached`
  (UpgradeReachesParent), `BlocksStayUrgent` (UrgencyKept), `AlertedOnce`
  (OneDisclosureAlert), `TypeCorrect`. The properties about records only need that rows are
  never taken away and that a turn that has not arrived has none (`IdleIsFresh`). That there is
  no second alert needs `PendingUnalerted`, that of a turn still with the queue or a worker no
  disclosure row has alerted, and so `QueueHoldsJobs`, that no job is in the queue twice or
  still there once it was taken.
- **Incidents.** `SevereTold`, `AlertsAboutTheChild`, `NotifiedTold`, `TypeCorrect`. The invariant tells the
  story of each call (`Story`, `Heard`): what it has inserted and looked up, and that its row is
  still that of the child unless the child was erased, which holds although ids are
  used again because only erasure or retention frees them and retention spares running calls.
- **Child records.** `ErasureTotal`, `SessionsLimited`, `ConsentRecorded`, `RecentKept`, `TypeCorrect`, for any
  number of children, workers, requests and days. The invariant has ten parts. Erasure needs
  that every insert is refused by a foreign key once the profile is gone (`Gone`, `Made`) and that
  a turn holds a conversation of another child only if it crossed, or if that conversation's opener
  did (`Unmixed`). Consent needs where each click is (`ConsentPending`): past the log, it is on
  record or the child erased. The session limits need, beside the sessions, those about to be
  inserted (`Handled`): a worker that is about to insert has no active session, and there
  is still room for all of them (`Room`). `Dated` says that nothing is dated later than today.
- **Windows.** `LimitNeverExceeded` (LimitHolds), `RemindersOnTime` (ReminderOnTime),
  `HistoryIsExact` (HistoryExact), `TypeCorrect`, for any number of turns and workers.
  The limit: no window, shared or a worker's, ever holds more than `Limit` recent entries
  (`WindowsLimited`), and each recently admitted turn is still in one of them
  (`CountedAdmitted`); turns can then be numbered by window and place (`Numbered`,
  `Classes`), which bounds them. The bound has to be kept for every earlier moment too
  (`LimitKept`), since the entries behind it are dropped later. The ledger: what any store knows was
  served and expires `Ttl` after that (`KnownIsServed`), and the shared one knows all that a turn with
  sound files served (`ServedIsKnown`). The reminder: while no clock was read or written without
  the shared file, the shared clock notes the last reply and does not start later than the
  stretch (`ClockTrue`); `Load` and `Save` being separate is harmless because a stale save
  sets back to an earlier start, never to a later one.

Each proof has a lemma per action or group of actions, and the theorems follow by `PTL`.
`NestedCallsNeverWait`, `BlocksStand`, `Thresholds` and `FailsFast` state properties that no run is spent on.

**Only model-checked**: all liveness (EveryTurnAnswered, AutoRecovers, HealsUnlessWedged,
VerdictSettles, and the fair half of KeepsTheGate), which is out of the prover's reach, as
is ENABLED. No module uses a recursive operator.

## 6. Not modelled, and the plan

Left out for good: text and its classification (patterns, prompts, parsing), which is
data to these protocols; encryption, adapters, e-mail and metrics, which are I/O; user
interfaces, installers and deployment. These are most of the repository's lines.

Left out of what is modelled: Redis behind the limiter, the ledger and the reminder (off by
default); the 120 s cache in front of `get_profile`, beyond that `Begin` takes a profile that
may be gone; deactivation of profiles and edits of anything but the age; the Open WebUI account that
goes with a profile; the entry the monitor adds to its list of pending alerts for each message
(`safety_monitor.py:328-349`), beside the one of the alert that is modelled; `delete_user_data`; the retention of audit log and analytics; the celery jobs' comparison of
timestamps as text, which takes a day of a period for a day.

Next, in this order:

1. Proofs about the meeting points: that the choices `ChatTurn` leaves to its vetting
   steps are those `SafetyPipeline` allows, and that `Disclosure`'s rows are `Incidents`' calls.
2. `SessionCache`: logout and deactivation against a concurrent validation that refills the
   cache.
3. The composition of breaker and classifier: a wedged breaker keeps the classifier
   degraded.
4. The connection pool, and bounded checks of Shamir's sharing and of back-off.

## 7. Running it

    tlc -workers 2 -config AdmissionBox.cfg MCAdmission
    tlc -workers 2 -config ChatServed.cfg ChatTurn
    tlapm AdmissionProofs.tla
