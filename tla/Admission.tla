----------------------------- MODULE Admission -----------------------------
(***************************************************************************)
(* Admission of student turns to the inference engine                      *)
(* (core/inference/admission.py, api/routes/ollama_proxy/admission.py).    *)
(*                                                                         *)
(* Several uvicorn workers share one box.  A turn first takes a permit of  *)
(* its worker's asyncio semaphore, then a row of the SQLite table all the  *)
(* workers share.  A turn is one task; statements of a coroutine between   *)
(* two awaits are one step, a call handed to asyncio.to_thread is a step   *)
(* of its own, and so is the coroutine's reaction to the thread's answer.  *)
(*                                                                         *)
(* Left out: the statistics counters, the wording of the refusals, and     *)
(* max_concurrent <= 0 (the engine schedules itself, nothing is counted).  *)
(***************************************************************************)
EXTENDS Integers, Sequences, FiniteSets, SequencesExt

CONSTANTS
  Workers,     \* the uvicorn processes
  Turns,       \* student turns, each one request
  Home,        \* the worker a turn's request was routed to
  Slots,       \* max_concurrent: slots of the box
  MaxQueue,    \* max_queue: waiting turns per worker, 0 for no limit
  CanOutlive,  \* turns that may run longer than the lifetime of a row
  MaxDepth,    \* bound on nested admitted calls
  Faults       \* which of FaultKinds the environment may produce

FaultKinds == {"crash", "cancel", "dberror"}

ASSUME HomeAssumption     == Home \in [Turns -> Workers]
ASSUME SlotsAssumption      == Slots \in Nat \ {0}
ASSUME MaxQueueAssumption == MaxQueue \in Nat
ASSUME MaxDepthAssumption == MaxDepth \in Nat \ {0}
ASSUME OutliveAssumption  == CanOutlive \subseteq Turns
ASSUME FaultsAssumption   == Faults \subseteq FaultKinds
ASSUME FiniteAssumption   == IsFiniteSet(Turns)

VARIABLES
  pc,       \* where each turn's task is
  answer,   \* what reserve() told the turn: a row, "open" (-1) or nothing
  depth,    \* _DEPTH of the turn's task
  late,     \* turns whose queue_wait_s has elapsed
  queue,    \* each worker's semaphore: tasks not yet handed a permit, oldest first
  permits,  \* each worker's semaphore: its value
  waiting,  \* each worker's _waiting
  ready,    \* each worker's _SharedSlots._ready
  rows,     \* the shared table: the turns that inserted the rows it holds
  expired   \* rows older than _SLOT_TTL_S

vars == <<pc, answer, depth, late, queue, permits, waiting, ready, rows, expired>>

Waiting == {"queued", "granted"}
Gating  == {"reserve", "answered", "poll"}
Ended   == {"refused", "done", "cancelled", "crashed"}
\* A cancelled task does not stop the thread it was awaiting: it still reserves a row
\* ("orphan") or deletes one ("parting") for nobody.
PCs     == {"idle", "held", "release", "released", "orphan", "parting"} \cup Waiting \cup Gating \cup Ended
Answers == {"none", "row", "open"}

Of(w)        == {t \in Turns : Home[t] = w}
At(P)        == {t \in Turns : pc[t] \in P}
Queued(w)    == Of(w) \cap At(Waiting)
\* Turns with a permit of worker w's semaphore, or a permit on its way to them.
Permitted(w) == Of(w) \cap At({"granted", "held", "release", "released"} \cup Gating)

\* asyncio.Semaphore.locked(): no permit, or somebody is in line already.
Locked(w) == permits[w] = 0 \/ Queued(w) # {}

\* Mutant: max_queue + 1 turns may wait.
LineFullOffByOne(w) == MaxQueue > 0 /\ waiting[w] > MaxQueue

\* As many turns of the worker wait as may wait.
LineFull(w) == MaxQueue > 0 /\ waiting[w] >= MaxQueue

\* Mutant: the value goes up and nobody in line is told.
FreedUnseen(w, q, p) ==
  /\ permits' = [permits EXCEPT ![w] = @ + 1]
  /\ queue' = [queue EXCEPT ![w] = q]
  /\ pc' = p

\* Semaphore.release(): the permit goes to the oldest waiter, if there is one.
\* q is the line the permit finds, p the turns whose program counters change.
Freed(w, q, p) ==
  IF q = <<>>
  THEN /\ permits' = [permits EXCEPT ![w] = @ + 1]
       /\ queue' = [queue EXCEPT ![w] = q]
       /\ pc' = p
  ELSE /\ queue' = [queue EXCEPT ![w] = Tail(q)]
       /\ pc' = [p EXCEPT ![Head(q)] = "granted"]
       /\ UNCHANGED permits

Init ==
  /\ pc = [t \in Turns |-> "idle"]
  /\ answer = [t \in Turns |-> "none"]
  /\ depth = [t \in Turns |-> 0]
  /\ late = {}
  /\ queue = [w \in Workers |-> <<>>]
  /\ permits = [w \in Workers |-> Slots]
  /\ waiting = [w \in Workers |-> 0]
  /\ ready \in [Workers -> IF "dberror" \in Faults THEN BOOLEAN ELSE {TRUE}]
  /\ rows = {}
  /\ expired = {}

------------------------------------------------------------------------------
\* The box-wide gate, reached with a permit in hand and no await in between.

\* _SharedSlots.enabled: an unready table is retried, and the retry may fail.
Enabled(w) == IF ready[w] THEN {TRUE} ELSE BOOLEAN

\* slot() after the permit: reserve against the box, or go without a row.
Gate(t) ==
  \E on \in Enabled(Home[t]) :
    /\ ready' = [ready EXCEPT ![Home[t]] = on]
    /\ pc' = [pc EXCEPT ![t] = IF on THEN "reserve" ELSE "held"]
    /\ depth' = [depth EXCEPT ![t] = IF on THEN @ ELSE @ + 1]

\* A call of slot() inside an admitted turn of the same task is free.
IsNested(t) == depth[t] > 0

NestedEnter(t) ==
  /\ pc[t] = "held" /\ IsNested(t) /\ depth[t] <= MaxDepth
  /\ depth' = [depth EXCEPT ![t] = @ + 1]
  /\ UNCHANGED <<pc, answer, late, queue, permits, waiting, ready, rows, expired>>

\* Mutant: the end of a nested call gives back the permit of the whole turn.
NestedExitReleases(t) ==
  /\ pc[t] = "held" /\ depth[t] > 1
  /\ depth' = [depth EXCEPT ![t] = @ - 1]
  /\ Freed(Home[t], queue[Home[t]], pc)
  /\ UNCHANGED <<answer, late, waiting, ready, rows, expired>>

NestedExit(t) ==
  /\ pc[t] = "held" /\ depth[t] > 1
  /\ depth' = [depth EXCEPT ![t] = @ - 1]
  /\ UNCHANGED <<pc, answer, late, queue, permits, waiting, ready, rows, expired>>

\* A new turn, or a call of an admitted turn that is not seen as nested.
Arrives(t) == pc[t] \in {"idle", "held"} /\ ~IsNested(t)

ArriveFull(t) ==
  LET w == Home[t] IN
  /\ Arrives(t) /\ Locked(w) /\ LineFull(w)
  /\ pc' = [pc EXCEPT ![t] = "refused"]
  /\ UNCHANGED <<answer, depth, late, queue, permits, waiting, ready, rows, expired>>

ArriveQueue(t) ==
  LET w == Home[t] IN
  /\ Arrives(t) /\ Locked(w) /\ ~LineFull(w)
  /\ waiting' = [waiting EXCEPT ![w] = @ + 1]
  /\ queue' = [queue EXCEPT ![w] = Append(@, t)]
  /\ pc' = [pc EXCEPT ![t] = "queued"]
  /\ UNCHANGED <<answer, depth, late, permits, ready, rows, expired>>

\* Mutant: the turn goes ahead whether or not the semaphore is taken.
ArriveUnasked(t) ==
  /\ Arrives(t)
  /\ permits' = [permits EXCEPT ![Home[t]] = @ - 1]
  /\ Gate(t)
  /\ UNCHANGED <<answer, late, queue, waiting, rows, expired>>

ArriveFree(t) ==
  LET w == Home[t] IN
  /\ Arrives(t) /\ ~Locked(w)
  /\ permits' = [permits EXCEPT ![w] = @ - 1]
  /\ Gate(t)
  /\ UNCHANGED <<answer, late, queue, waiting, rows, expired>>

\* A turn that was handed a permit resumes.  If the semaphore still has a value
\* (a release found nobody but resumed tasks in line), it wakes the next one.
Resume(t) ==
  LET w == Home[t] IN
  /\ pc[t] = "granted"
  /\ waiting' = [waiting EXCEPT ![w] = @ - 1]
  /\ \E on \in Enabled(w) :
       LET p == [pc EXCEPT ![t] = IF on THEN "reserve" ELSE "held"] IN
       /\ ready' = [ready EXCEPT ![w] = on]
       /\ depth' = [depth EXCEPT ![t] = IF on THEN @ ELSE @ + 1]
       /\ IF permits[w] > 0 /\ queue[w] # <<>>
          THEN /\ permits' = [permits EXCEPT ![w] = @ - 1]
               /\ queue' = [queue EXCEPT ![w] = Tail(@)]
               /\ pc' = [p EXCEPT ![Head(queue[w])] = "granted"]
          ELSE pc' = p /\ UNCHANGED <<permits, queue>>
  /\ UNCHANGED <<answer, late, rows, expired>>

\* The task leaves the semaphore's line without a slot: by its own timeout
\* ("refused") or because it was cancelled.  A permit already on its way goes
\* to the next in line.
LeaveLine(t, end) ==
  LET w == Home[t] IN
  /\ waiting' = [waiting EXCEPT ![w] = @ - 1]
  /\ \/ /\ pc[t] = "queued"
        /\ \E i \in DOMAIN queue[w] :
             /\ queue[w][i] = t
             /\ queue' = [queue EXCEPT ![w] = RemoveAt(@, i)]
        /\ pc' = [pc EXCEPT ![t] = end]
        /\ UNCHANGED permits
     \/ /\ pc[t] = "granted"
        /\ Freed(w, queue[w], [pc EXCEPT ![t] = end])
  /\ UNCHANGED <<answer, depth, late, ready, rows, expired>>

QueueTimeout(t) == t \in late /\ LeaveLine(t, "refused")

------------------------------------------------------------------------------
\* _SharedSlots.reserve, on a thread: the answer, and the table afterwards.

DbFails == "dberror" \in Faults
Fresh   == rows \ expired

\* Mutant: the row is inserted without counting the others.
ReserveUncounted(t) ==
  /\ answer' = [answer EXCEPT ![t] = "row"]
  /\ rows' = Fresh \cup {t}
  /\ expired' = {}

\* One BEGIN IMMEDIATE transaction: reap, count, insert; a full table rolls the
\* reaping back too.
ReserveRow(t) ==
  IF Cardinality(Fresh) >= Slots
  THEN answer' = [answer EXCEPT ![t] = "none"] /\ UNCHANGED <<rows, expired>>
  ELSE /\ answer' = [answer EXCEPT ![t] = "row"]
       /\ rows' = Fresh \cup {t}
       /\ expired' = {}

reserve(t) ==
  \/ /\ ~ready[Home[t]]
     /\ answer' = [answer EXCEPT ![t] = "none"]
     /\ UNCHANGED <<ready, rows, expired>>
  \/ ready[Home[t]] /\ ReserveRow(t) /\ UNCHANGED ready
  \/ /\ ready[Home[t]] /\ DbFails
     /\ answer' = [answer EXCEPT ![t] = "open"]
     /\ ready' = [ready EXCEPT ![Home[t]] = FALSE]
     /\ UNCHANGED <<rows, expired>>

Reserve(t) ==
  /\ pc[t] \in {"reserve", "orphan"}
  /\ reserve(t)
  /\ pc' = [pc EXCEPT ![t] = IF @ = "reserve" THEN "answered" ELSE "cancelled"]
  /\ UNCHANGED <<depth, late, queue, permits, waiting>>

\* The coroutine reads the thread's answer.
Admit(t) ==
  /\ pc[t] = "answered" /\ answer[t] # "none"
  /\ pc' = [pc EXCEPT ![t] = "held"]
  /\ depth' = [depth EXCEPT ![t] = @ + 1]
  /\ UNCHANGED <<answer, late, queue, permits, waiting, ready, rows, expired>>

Refuse(t) ==
  /\ pc[t] = "answered" /\ answer[t] = "none" /\ t \in late
  /\ Freed(Home[t], queue[Home[t]], [pc EXCEPT ![t] = "refused"])
  /\ UNCHANGED <<answer, depth, late, waiting, ready, rows, expired>>

\* Mutant: the deadline of the queue is not looked at between two polls.
SleepRegardless(t) ==
  /\ pc[t] = "answered" /\ answer[t] = "none"
  /\ pc' = [pc EXCEPT ![t] = "poll"]
  /\ UNCHANGED <<answer, depth, late, queue, permits, waiting, ready, rows, expired>>

Sleep(t) ==
  /\ pc[t] = "answered" /\ answer[t] = "none" /\ t \notin late
  /\ pc' = [pc EXCEPT ![t] = "poll"]
  /\ UNCHANGED <<answer, depth, late, queue, permits, waiting, ready, rows, expired>>

PollAgain(t) ==
  /\ pc[t] = "poll"
  /\ pc' = [pc EXCEPT ![t] = "reserve"]
  /\ UNCHANGED <<answer, depth, late, queue, permits, waiting, ready, rows, expired>>

------------------------------------------------------------------------------
\* The end of a turn: the row first, on a thread, then the permit.

EndTurn(t) ==
  /\ pc[t] = "held" /\ depth[t] = 1
  /\ depth' = [depth EXCEPT ![t] = 0]
  /\ IF answer[t] = "none"
     THEN Freed(Home[t], queue[Home[t]], [pc EXCEPT ![t] = "done"])
     ELSE pc' = [pc EXCEPT ![t] = "release"] /\ UNCHANGED <<queue, permits>>
  /\ UNCHANGED <<answer, late, waiting, ready, rows, expired>>

\* _SharedSlots.release, on a thread; a failed DELETE leaves the row to its TTL.
Release(t) ==
  /\ pc[t] \in {"release", "parting"}
  /\ \/ /\ ready[Home[t]] /\ answer[t] = "row"
        /\ rows' = rows \ {t} /\ expired' = expired \ {t}
     \/ /\ ~ready[Home[t]] \/ answer[t] # "row" \/ DbFails
        /\ UNCHANGED <<rows, expired>>
  /\ pc' = [pc EXCEPT ![t] = IF @ = "release" THEN "released" ELSE "cancelled"]
  /\ UNCHANGED <<answer, depth, late, queue, permits, waiting, ready>>

ReleasePermit(t) ==
  /\ pc[t] = "released"
  /\ Freed(Home[t], queue[Home[t]], [pc EXCEPT ![t] = "done"])
  /\ UNCHANGED <<answer, depth, late, waiting, ready, rows, expired>>

------------------------------------------------------------------------------
\* The environment.

DeadlinePasses(t) ==
  /\ t \in At(Waiting \cup Gating) \ late
  /\ late' = late \cup {t}
  /\ UNCHANGED <<pc, answer, depth, queue, permits, waiting, ready, rows, expired>>

\* A row is held by a live turn from its insertion to its deletion.
Live(t) == pc[t] \in {"answered", "held", "release"}

\* _SLOT_TTL_S elapses for a row.
RowExpires(t) ==
  /\ t \in rows \ expired
  /\ Live(t) => t \in CanOutlive
  /\ expired' = expired \cup {t}
  /\ UNCHANGED <<pc, answer, depth, late, queue, permits, waiting, ready, rows>>

\* Where a task cancelled with a permit in hand is left.
Abandoned(x) ==
  IF x = "reserve" THEN "orphan" ELSE IF x = "release" THEN "parting" ELSE "cancelled"

\* The task is cancelled at an await: in the line it steps out of it; behind the
\* permit, on its way in or out, nothing gives the permit back.
Cancel(t) ==
  /\ "cancel" \in Faults
  /\ \/ pc[t] \in Waiting /\ LeaveLine(t, "cancelled")
     \/ /\ pc[t] \in Gating \cup {"release"}
        /\ pc' = [pc EXCEPT ![t] = Abandoned(@)]
        /\ UNCHANGED <<answer, depth, late, queue, permits, waiting, ready, rows, expired>>

\* A worker process dies with its tasks, threads and semaphore, and is started
\* again; the rows it inserted stay in the file.
Crash(w) ==
  /\ "crash" \in Faults
  /\ pc' = [t \in Turns |-> IF Home[t] = w /\ pc[t] \notin Ended \cup {"idle"}
                            THEN "crashed" ELSE pc[t]]
  /\ depth' = [t \in Turns |-> IF Home[t] = w THEN 0 ELSE depth[t]]
  /\ queue' = [queue EXCEPT ![w] = <<>>]
  /\ permits' = [permits EXCEPT ![w] = Slots]
  /\ waiting' = [waiting EXCEPT ![w] = 0]
  /\ \E on \in (IF DbFails THEN BOOLEAN ELSE {TRUE}) : ready' = [ready EXCEPT ![w] = on]
  /\ UNCHANGED <<answer, late, rows, expired>>

------------------------------------------------------------------------------
\* What the event loop and the threads will get round to for one turn.
Progress(t) ==
  \/ Resume(t) \/ QueueTimeout(t)
  \/ Reserve(t) \/ Admit(t) \/ Refuse(t) \/ Sleep(t) \/ PollAgain(t)
  \/ Release(t) \/ ReleasePermit(t)

\* The turn's own course, which the engine decides.
Course(t) == NestedEnter(t) \/ NestedExit(t) \/ EndTurn(t)

Arrive(t) == ArriveFull(t) \/ ArriveQueue(t) \/ ArriveFree(t)

Turn(t) == Arrive(t) \/ Progress(t) \/ Course(t)
           \/ DeadlinePasses(t) \/ RowExpires(t) \/ Cancel(t)

Next == (\E t \in Turns : Turn(t)) \/ (\E w \in Workers : Crash(w))

Spec == Init /\ [][Next]_vars

\* Tasks and threads that can run do run, and clocks advance.  Nothing makes a
\* turn arrive, and an admitted turn may hold its slot for as long as it likes.
FairSpec ==
  Spec /\ \A t \in Turns : WF_vars(Progress(t)) /\ WF_vars(DeadlinePasses(t))

------------------------------------------------------------------------------
TypeOK ==
  /\ pc \in [Turns -> PCs]
  /\ answer \in [Turns -> Answers]
  /\ depth \in [Turns -> Nat]
  /\ late \subseteq Turns
  /\ queue \in [Workers -> Seq(Turns)]
  /\ permits \in [Workers -> Nat]
  /\ waiting \in [Workers -> Int]
  /\ ready \in [Workers -> BOOLEAN]
  /\ rows \subseteq Turns
  /\ expired \subseteq rows

\* Turns that were told they have a row and have not given it back.
RowHolders == {t \in Turns : Live(t) /\ answer[t] = "row"}

\* slots=N for the BOX (admission.py:36-39): however the workers interleave,
\* crash, lose rows or reap them, no more than Slots turns that were admitted with
\* a row run at once, not counting those that outlive the row's lifetime.
BoxCapacity == Cardinality(RowHolders \ CanOutlive) <= Slots

\* Even when the table is unusable each process keeps its own limit
\* (admission.py:41-43): its permits and the turns that hold one always add up.
\* A task cancelled behind the semaphore keeps its permit for good, so then the
\* sum can only shrink: no path gives back a permit it does not have.
PermitsAddUp ==
  \A w \in Workers :
    LET sum == permits[w] + Cardinality(Permitted(w)) IN
    IF "cancel" \in Faults THEN sum <= Slots ELSE sum = Slots

\* _waiting is the number of turns genuinely queued, whichever way they leave
\* (admission.py:295-298), and stays within max_queue.
WaitingExact ==
  \A w \in Workers : /\ waiting[w] = Cardinality(Queued(w))
                     /\ MaxQueue > 0 => waiting[w] <= MaxQueue

\* A free permit is never left beside a queued turn that nobody will wake.
NoLostWakeup ==
  \A w \in Workers : permits[w] > 0 /\ queue[w] # <<>> =>
    \E t \in Of(w) : pc[t] = "granted"

\* Nested calls share the turn's slot "or the turn deadlocks at capacity 1"
\* (tests/test_inference_admission.py:128-129): an admitted turn never queues,
\* polls or is refused again.
NestedNeverWaits ==
  [][\A t \in Turns : pc[t] = "held" => pc'[t] \notin Waiting \cup Gating \cup {"refused"}]_vars

\* Again and again no turn waits at all.  A turn arrives once and an admitted one never
\* waits again (NestedNeverWaits), so every turn that waits is answered: admitted,
\* refused, or its process died.
EveryTurnAnswered == []<>(\A t \in Turns : pc[t] \notin Waiting \cup Gating)

=============================================================================
