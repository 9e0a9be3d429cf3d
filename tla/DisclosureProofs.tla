-------------------------- MODULE DisclosureProofs --------------------------
(***************************************************************************)
(* What holds of a disclosure for any number of turns, kinds and workers,  *)
(* whatever the queue sheds, a restart drops and the database refuses.     *)
(***************************************************************************)
EXTENDS Disclosure, TLAPS, FiniteSetTheorems, SequenceTheorems

\* Nothing is known of a turn that has not arrived.
IdleIsFresh == \A t \in Turns : pc[t] = "idle" => RowsOf(t) = {} /\ job[t] = "none"

\* The queue holds jobs nobody has taken, each of them once.
QueueHoldsJobs ==
  /\ \A i \in 1..Len(queue) : job[queue[i]] = "queued"
  /\ \A i, j \in 1..Len(queue) : queue[i] = queue[j] => i = j

\* Why a second disclosure alert is impossible: of a turn still in the workers'
\* hands no disclosure row has alerted.
PendingUnalerted ==
  \A t \in Turns : job[t] \in {"queued", "running"} => DisclosureAlerts(t) = {}

IInv == /\ TypeOK /\ IdleIsFresh /\ QueueHoldsJobs /\ PendingUnalerted
        /\ OneDisclosureAlert /\ EveryFindingRecorded
        /\ UpgradeReachesParent /\ UrgencyKept

------------------------------------------------------------------------------
\* Rows.

\* A row is what it is made of.
LEMMA RowIs ==
  ASSUME NEW t \in Turns, NEW by \in Writers, NEW s \in Severities, NEW send \in BOOLEAN
  PROVE  /\ Row(t, by, s, send) \in Rows
         /\ Row(t, by, s, send).turn = t /\ Row(t, by, s, send).by = by
BY DEF Row, Rows, Severities, minor, major, critical

\* A disclosure row is at least as urgent as the block, and alerts if its kind does.
LEMMA DisclosureRowIs ==
  ASSUME NEW t \in Turns, NEW by \in {"inline", "semantic"}, NEW k \in Kinds,
         NEW b \in {0} \cup Severities
  PROVE  LET r == DisclosureRow(t, by, k, b) IN
         /\ r \in Rows /\ r.turn = t /\ r.by = by
         /\ r.severity >= b /\ (r.alerts <=> r.severity >= major)
         /\ k \in Alerting => r.alerts
<1>1. PICK s \in Severities :
        /\ DisclosureRow(t, by, k, b) = Row(t, by, s, TRUE)
        /\ s >= b /\ (k \in Alerting => s >= major)
  <2> DEFINE own == IF k \in Alerting THEN major ELSE minor
             s == IF own >= b THEN own ELSE b
  <2>1. own \in Severities /\ (k \in Alerting => own = major)
    BY DEF Severities, minor, major, critical
  <2>2. DisclosureRow(t, by, k, b) = Row(t, by, s, TRUE)
    BY DEF DisclosureRow
  <2> HIDE DEF own
  <2>3. s \in Severities /\ s >= b /\ s >= own
    BY <2>1 DEF Severities, minor, major, critical
  <2>4. k \in Alerting => s >= major
    BY <2>1, <2>3
  <2> QED BY <2>2, <2>3, <2>4
<1> DEFINE r == Row(t, by, s, TRUE)
<1>2. r \in Rows /\ r.turn = t /\ r.by = by /\ r.severity = s
  BY DEF Row, Rows, Writers, Severities, minor, major, critical
<1>3. r.alerts <=> s >= major
  BY DEF Row, Severities, minor, major, critical
<1>4. r = DisclosureRow(t, by, k, b)
  BY <1>1
<1> HIDE DEF r
<1> QED BY <1>1, <1>2, <1>3, <1>4

\* Rows are only added; those of another turn are none of this turn's.
LEMMA RowsAdded ==
  ASSUME NEW t \in Turns, NEW new, rows' = rows \cup new, \A r \in new : r.turn = t
  PROVE  /\ \A u \in Turns \ {t} : /\ RowsOf(u)' = RowsOf(u) /\ AlertsOf(u)' = AlertsOf(u)
                                   /\ DisclosureAlerts(u)' = DisclosureAlerts(u)
         /\ RowsOf(t)' = RowsOf(t) \cup new
         /\ AlertsOf(t)' = AlertsOf(t) \cup {r \in new : r.alerts}
         /\ DisclosureAlerts(t)' = DisclosureAlerts(t) \cup
              {r \in new : r.alerts /\ r.by \in {"inline", "semantic"}}
BY DEF RowsOf, AlertsOf, DisclosureAlerts

\* Nothing written, nothing changed of what a turn has.
LEMMA RowsKept ==
  ASSUME UNCHANGED rows
  PROVE  \A t \in Turns : /\ RowsOf(t)' = RowsOf(t) /\ AlertsOf(t)' = AlertsOf(t)
                          /\ DisclosureAlerts(t)' = DisclosureAlerts(t)
BY DEF RowsOf, AlertsOf, DisclosureAlerts

------------------------------------------------------------------------------
\* Init.
LEMMA InitIInv == Init => IInv
<1> SUFFICES ASSUME Init PROVE IInv
  OBVIOUS
<1>1. TypeOK
  BY SizeAssumption DEF Init, TypeOK, PCs, Found, Jobs, Verdicts
<1>2. \A t \in Turns : RowsOf(t) = {} /\ AlertsOf(t) = {} /\ DisclosureAlerts(t) = {}
  BY DEF Init, RowsOf, AlertsOf, DisclosureAlerts
<1>3. IdleIsFresh /\ QueueHoldsJobs /\ PendingUnalerted
  BY <1>2 DEF Init, IdleIsFresh, QueueHoldsJobs, PendingUnalerted
<1>4. OneDisclosureAlert
  BY <1>2, FS_EmptySet DEF OneDisclosureAlert
<1>5. EveryFindingRecorded
  BY NoKindAssumption DEF Init, EveryFindingRecorded
<1>6. UpgradeReachesParent
  BY NoKindAssumption, KindsAssumption DEF Init, UpgradeReachesParent
<1>7. UrgencyKept
  BY DEF Init, UrgencyKept, major
<1> QED BY <1>1, <1>3, <1>4, <1>5, <1>6, <1>7 DEF IInv

\* What the rows and the findings of the turns say.
Told == /\ OneDisclosureAlert /\ EveryFindingRecorded
        /\ UpgradeReachesParent /\ UrgencyKept

\* A step that finds and writes nothing leaves what is told alone.
LEMMA SilentKeepsTold ==
  ASSUME Told, UNCHANGED <<inline, block, rows, failed>>,
         \A t \in Turns : verdict'[t] = verdict[t] \/ verdict'[t] = "none"
  PROVE  Told'
<1>1. \A t \in Turns : /\ RowsOf(t)' = RowsOf(t) /\ AlertsOf(t)' = AlertsOf(t)
                       /\ DisclosureAlerts(t)' = DisclosureAlerts(t)
  BY RowsKept
<1>2. OneDisclosureAlert' /\ UrgencyKept'
  BY <1>1 DEF Told, OneDisclosureAlert, UrgencyKept
<1>3. EveryFindingRecorded'
  BY <1>1, NoKindAssumption DEF Told, EveryFindingRecorded
<1>4. UpgradeReachesParent'
  BY <1>1, NoKindAssumption, KindsAssumption DEF Told, UpgradeReachesParent
<1> QED BY <1>2, <1>3, <1>4 DEF Told

------------------------------------------------------------------------------
\* Rows of a kind no property counts, written for turn t.
Aside(t, new) == \A r \in new : /\ r \in Rows /\ r.turn = t
                                /\ r.by \in {"signal", "output"}

\* The request of one turn moves on or ends, with a row aside at most.
LEMMA RouteStep ==
  ASSUME NEW t \in Turns, Route(t) \/ Disconnect(t)
  PROVE  /\ \E x \in PCs \ {"idle"} : pc' = [pc EXCEPT ![t] = x]
         /\ \E new : Aside(t, new) /\ rows' = rows \cup new
         /\ failed \subseteq failed' /\ failed' \subseteq failed \cup {t}
         /\ UNCHANGED <<inline, block, job, verdict, queue>>
<1>1. CASE StreamDone(t) \/ Serve(t) \/ WaitTimesOut(t) \/ Disconnect(t)
  <2>1. Aside(t, {}) /\ rows' = rows \cup {}
    BY <1>1 DEF StreamDone, Serve, WaitTimesOut, Disconnect, Aside
  <2>2. \E x \in PCs \ {"idle"} : pc' = [pc EXCEPT ![t] = x]
    BY <1>1 DEF StreamDone, Serve, WaitTimesOut, Disconnect, PCs
  <2> QED BY <1>1, <2>1, <2>2 DEF StreamDone, Serve, WaitTimesOut, Disconnect
<1>2. CASE TutorDone(t)
  <2>1. PICK R \in SignalRows(t) : \E ok \in Written(R) : Logs(t, R, ok)
    BY <1>2 DEF TutorDone
  <2>2. PICK ok \in Written(R) : Logs(t, R, ok)
    BY <2>1
  <2>3. Aside(t, R)
    <3>1. Aside(t, {Row(t, "signal", minor, TRUE)})
      <4>1. "signal" \in Writers /\ minor \in Severities /\ TRUE \in BOOLEAN
        BY DEF Writers, Severities
      <4>2. /\ Row(t, "signal", minor, TRUE) \in Rows
            /\ Row(t, "signal", minor, TRUE).turn = t
            /\ Row(t, "signal", minor, TRUE).by = "signal"
        BY <4>1, RowIs
      <4> QED BY <4>2 DEF Aside
    <3>2. Aside(t, {})
      BY DEF Aside
    <3> QED BY <3>1, <3>2 DEF SignalRows
  <2>4. Aside(t, ok) /\ rows' = rows \cup ok
    BY <2>2, <2>3 DEF Aside, Written, Logs
  <2>5. \E x \in PCs \ {"idle"} : pc' = [pc EXCEPT ![t] = x]
    BY <1>2 DEF TutorDone, PCs
  <2> QED BY <1>2, <2>2, <2>4, <2>5 DEF TutorDone, Logs
<1>3. CASE Withhold(t)
  <2>1. PICK R \in {{}} \cup {{Row(t, "output", s, TRUE)} : s \in Severities} :
          \E ok \in Written(R) : Logs(t, R, ok)
    BY <1>3 DEF Withhold
  <2>2. PICK ok \in Written(R) : Logs(t, R, ok)
    BY <2>1
  <2>3. Aside(t, R)
    <3>1. \A s \in Severities : Aside(t, {Row(t, "output", s, TRUE)})
      <4> TAKE s \in Severities
      <4>1. "output" \in Writers /\ TRUE \in BOOLEAN
        BY DEF Writers
      <4>2. /\ Row(t, "output", s, TRUE) \in Rows
            /\ Row(t, "output", s, TRUE).turn = t /\ Row(t, "output", s, TRUE).by = "output"
        BY <4>1, RowIs
      <4> QED BY <4>2 DEF Aside
    <3>2. Aside(t, {})
      BY DEF Aside
    <3> QED BY <3>1, <3>2
  <2>4. Aside(t, ok) /\ rows' = rows \cup ok
    BY <2>2, <2>3 DEF Aside, Written, Logs
  <2>5. \E x \in PCs \ {"idle"} : pc' = [pc EXCEPT ![t] = x]
    BY <1>3 DEF Withhold, PCs
  <2> QED BY <1>3, <2>2, <2>4, <2>5 DEF Withhold, Logs
<1> QED BY <1>1, <1>2, <1>3 DEF Route

LEMMA RouteIInv ==
  ASSUME IInv, NEW t \in Turns, Route(t) \/ Disconnect(t)
  PROVE  IInv'
<1>1. PICK x \in PCs \ {"idle"} : pc' = [pc EXCEPT ![t] = x]
  BY RouteStep
<1>2. PICK new : Aside(t, new) /\ rows' = rows \cup new
  BY RouteStep
<1>3. /\ failed \subseteq failed' /\ failed' \subseteq failed \cup {t}
      /\ UNCHANGED <<inline, block, job, verdict, queue>>
  BY RouteStep
<1>4. /\ \A u \in Turns \ {t} : RowsOf(u)' = RowsOf(u) /\ AlertsOf(u)' = AlertsOf(u)
      /\ \A u \in Turns : /\ DisclosureAlerts(u)' = DisclosureAlerts(u)
                          /\ RowsOf(u) \subseteq RowsOf(u)' /\ AlertsOf(u) \subseteq AlertsOf(u)'
                          /\ \A r \in AlertsOf(u)' \ AlertsOf(u) : r.by \in {"signal", "output"}
  <2>1. \A r \in new : r.turn = t /\ r.by \in {"signal", "output"}
    BY <1>2 DEF Aside
  <2>2. /\ \A u \in Turns \ {t} : /\ RowsOf(u)' = RowsOf(u) /\ AlertsOf(u)' = AlertsOf(u)
                                  /\ DisclosureAlerts(u)' = DisclosureAlerts(u)
        /\ RowsOf(t)' = RowsOf(t) \cup new
        /\ AlertsOf(t)' = AlertsOf(t) \cup {r \in new : r.alerts}
        /\ DisclosureAlerts(t)' = DisclosureAlerts(t) \cup
              {r \in new : r.alerts /\ r.by \in {"inline", "semantic"}}
    BY <1>2, <2>1, RowsAdded
  <2>3. {r \in new : r.alerts /\ r.by \in {"inline", "semantic"}} = {}
    BY <2>1
  <2> QED BY <2>1, <2>2, <2>3
<1>5. TypeOK'
  BY <1>1, <1>2, <1>3 DEF IInv, TypeOK, Aside
<1>6. IdleIsFresh'
  BY <1>1, <1>3, <1>4 DEF IInv, TypeOK, IdleIsFresh
<1>7. QueueHoldsJobs' /\ PendingUnalerted'
  BY <1>3, <1>4 DEF IInv, QueueHoldsJobs, PendingUnalerted
<1>8. OneDisclosureAlert' /\ UrgencyKept'
  BY <1>3, <1>4 DEF IInv, OneDisclosureAlert, UrgencyKept
<1>9. EveryFindingRecorded' /\ UpgradeReachesParent'
  BY <1>3, <1>4 DEF IInv, EveryFindingRecorded, UpgradeReachesParent
<1> QED BY <1>5, <1>6, <1>7, <1>8, <1>9 DEF IInv

\* A worker takes the oldest job.
LEMMA TakeIInv ==
  ASSUME IInv, Take
  PROVE  IInv'
<1> DEFINE h == Head(queue)
<1>1. /\ queue \in Seq(Turns) /\ queue # <<>>
      /\ job' = [job EXCEPT ![h] = "running"] /\ queue' = Tail(queue)
      /\ UNCHANGED <<pc, inline, block, verdict, rows, failed>>
  BY DEF Take, IInv, TypeOK
<1>2. /\ h \in Turns /\ h = queue[1] /\ 1 \in 1..Len(queue)
      /\ Tail(queue) \in Seq(Turns) /\ Len(Tail(queue)) = Len(queue) - 1
      /\ \A i \in 1..Len(queue) - 1 : Tail(queue)[i] = queue[i + 1]
  BY <1>1, HeadTailProperties
<1> HIDE DEF h
<1>3. job[h] = "queued"
  BY <1>2 DEF IInv, QueueHoldsJobs
<1>4. job'[h] = "running" /\ \A u \in Turns \ {h} : job'[u] = job[u]
  BY <1>1, <1>2 DEF IInv, TypeOK
<1>5. TypeOK'
  <2>1. queue' \in Seq(Turns) /\ Len(queue') <= MaxSize
    BY <1>1, <1>2, SizeAssumption DEF IInv, TypeOK
  <2> QED BY <1>1, <1>2, <2>1 DEF IInv, TypeOK, Jobs
<1>6. \A u \in Turns : /\ RowsOf(u)' = RowsOf(u) /\ AlertsOf(u)' = AlertsOf(u)
                       /\ DisclosureAlerts(u)' = DisclosureAlerts(u)
  BY <1>1, RowsKept
<1>7. IdleIsFresh'
  BY <1>1, <1>3, <1>4, <1>6 DEF IInv, IdleIsFresh
<1>8. QueueHoldsJobs'
  <2>1. \A i \in 1..Len(queue) - 1 :
          /\ i + 1 \in 1..Len(queue) /\ queue[i + 1] \in Turns
          /\ queue[i + 1] # h /\ queue'[i] = queue[i + 1]
    <3> TAKE i \in 1..Len(queue) - 1
    <3>1. i + 1 \in 1..Len(queue) /\ i + 1 # 1
      BY <1>1, <1>2
    <3>2. queue[i + 1] \in Turns
      BY <1>1, <3>1
    <3> QED BY <1>1, <1>2, <3>1, <3>2 DEF IInv, QueueHoldsJobs
  <2>2. Len(queue') = Len(queue) - 1
    BY <1>1, <1>2
  <2>3. \A i \in 1..Len(queue') : job'[queue'[i]] = "queued"
    <3> TAKE i \in 1..Len(queue')
    <3>1. job[queue[i + 1]] = "queued"
      BY <2>1, <2>2 DEF IInv, QueueHoldsJobs
    <3> QED BY <1>4, <2>1, <2>2, <3>1
  <2>4. \A i, j \in 1..Len(queue') : queue'[i] = queue'[j] => i = j
    <3> TAKE i, j \in 1..Len(queue')
    <3>1. queue[i + 1] = queue[j + 1] => i + 1 = j + 1
      BY <2>1, <2>2 DEF IInv, QueueHoldsJobs
    <3> QED BY <1>1, <2>1, <2>2, <3>1
  <2> QED BY <2>3, <2>4 DEF QueueHoldsJobs
<1>9. PendingUnalerted'
  BY <1>1, <1>3, <1>4, <1>6 DEF IInv, PendingUnalerted
<1>10. Told'
  BY <1>1, SilentKeepsTold DEF IInv, Told
<1> QED BY <1>5, <1>7, <1>8, <1>9, <1>10 DEF IInv, Told

\* A job in a worker's hands is not in the queue: ending it leaves the queue alone.
LEMMA DoneKeepsQueue ==
  ASSUME IInv, NEW t \in Turns, job[t] = "running",
         job' = [job EXCEPT ![t] = "done"], UNCHANGED queue
  PROVE  QueueHoldsJobs'
<1>1. \A i \in 1..Len(queue) : queue[i] \in Turns
  BY DEF IInv, TypeOK
<1> QED BY <1>1 DEF IInv, TypeOK, QueueHoldsJobs

\* The model has nothing to say of a turn.
LEMMA NoVerdictIInv ==
  ASSUME IInv, NEW t \in Turns, NoVerdict(t)
  PROVE  IInv'
<1>1. /\ job[t] = "running" /\ job' = [job EXCEPT ![t] = "done"]
      /\ verdict' = [verdict EXCEPT ![t] = IF @ = "pending" THEN "none" ELSE @]
      /\ UNCHANGED <<pc, inline, block, queue, rows, failed>>
  BY DEF NoVerdict, settle
<1>2. TypeOK'
  BY <1>1 DEF IInv, TypeOK, Jobs, Verdicts, Found
<1>3. \A u \in Turns : /\ RowsOf(u)' = RowsOf(u) /\ AlertsOf(u)' = AlertsOf(u)
                       /\ DisclosureAlerts(u)' = DisclosureAlerts(u)
  BY <1>1, RowsKept
<1>4. IdleIsFresh' /\ PendingUnalerted'
  BY <1>1, <1>3 DEF IInv, TypeOK, IdleIsFresh, PendingUnalerted
<1>5. QueueHoldsJobs'
  BY <1>1, DoneKeepsQueue
<1>6. Told'
  BY <1>1, SilentKeepsTold DEF IInv, TypeOK, Told
<1> QED BY <1>2, <1>4, <1>5, <1>6 DEF IInv, Told

\* A restart: the jobs it drops never alert anybody.
LEMMA RestartIInv ==
  ASSUME IInv, Restart
  PROVE  IInv'
<1>1. /\ pc' = [t \in Turns |-> IF pc[t] \in {"tutor", "wait"} THEN "gone" ELSE pc[t]]
      /\ job' = [t \in Turns |-> IF job[t] \in {"queued", "running"} THEN "dropped" ELSE job[t]]
      /\ queue' = <<>> /\ UNCHANGED <<inline, block, verdict, rows, failed>>
  BY DEF Restart
<1>2. TypeOK'
  <2>1. queue' \in Seq(Turns) /\ Len(queue') <= MaxSize
    BY <1>1, SizeAssumption
  <2> QED BY <1>1, <2>1 DEF IInv, TypeOK, PCs, Jobs
<1>3. \A u \in Turns : /\ RowsOf(u)' = RowsOf(u) /\ AlertsOf(u)' = AlertsOf(u)
                       /\ DisclosureAlerts(u)' = DisclosureAlerts(u)
  BY <1>1, RowsKept
<1>4. IdleIsFresh' /\ PendingUnalerted'
  BY <1>1, <1>3 DEF IInv, IdleIsFresh, PendingUnalerted
<1>5. QueueHoldsJobs'
  BY <1>1 DEF QueueHoldsJobs
<1>6. Told'
  BY <1>1, SilentKeepsTold DEF IInv, Told
<1> QED BY <1>2, <1>4, <1>5, <1>6 DEF IInv, Told

------------------------------------------------------------------------------
\* A turn arrives.

\* At most one element is at most one in number.
LEMMA AtMostOne ==
  ASSUME NEW x, NEW A, A \subseteq {x}
  PROVE  Cardinality(A) <= 1
<1>1. IsFiniteSet({x}) /\ Cardinality({x}) = 1
  BY FS_Singleton
<1> QED BY <1>1, FS_Subset

\* The rows of an arriving turn: the inline row and the safety row, each as it should
\* be if it is there, and if it is not the turn has failed.
Arrival(t, k, b, first, second) ==
  /\ pc[t] = "idle" /\ k \in Found /\ b \in {0} \cup Severities
  /\ pc' = [pc EXCEPT ![t] = IF b = 0 THEN "tutor" ELSE "blocked"]
  /\ inline' = [inline EXCEPT ![t] = k] /\ block' = [block EXCEPT ![t] = b]
  /\ rows' = rows \cup (first \cup second)
  /\ \A r \in first \cup second : r \in Rows /\ r.turn = t
  /\ \A r \in first : /\ r.by = "inline" /\ (r.alerts <=> r.severity >= major)
                      /\ r.severity >= b /\ (k \in Alerting => r.alerts)
  /\ \E x : first \subseteq {x}
  /\ \A r \in second : /\ r.by = "input" /\ b # 0 /\ r.severity = b
                       /\ r.alerts <=> ~Alerted(first) /\ b >= major
  /\ failed \subseteq failed' /\ failed' \subseteq failed \cup {t}
  /\ t \notin failed' => (k # "none" => first # {}) /\ (b # 0 => second # {})
  /\ IF Alerted(first) THEN UNCHANGED <<job, verdict, queue>> ELSE Submit(t)

\* What Arrive does once it is known what was found and which rows were written.
Outcome(t, k, b, first, second) ==
  /\ pc' = [pc EXCEPT ![t] = IF b = 0 THEN "tutor" ELSE "blocked"]
  /\ inline' = [inline EXCEPT ![t] = k] /\ block' = [block EXCEPT ![t] = b]
  /\ Logs(t, InlineRows(t, k, b) \cup SafetyRows(t, b, Alerted(first)), first \cup second)
  /\ IF Alerted(first) THEN UNCHANGED <<job, verdict, queue>> ELSE Submit(t)

\* An arrival writes those rows.
LEMMA ArriveIsArrival ==
  ASSUME NEW t \in Turns, Arrive(t)
  PROVE  \E k \in Found, b \in {0} \cup Severities : \E first, second \in SUBSET Rows :
           Arrival(t, k, b, first, second)
<1>1. PICK k \in Found, b \in {0} \cup Severities :
        \E first \in Written(InlineRows(t, k, b)) :
        \E second \in Written(SafetyRows(t, b, Alerted(first))) : Outcome(t, k, b, first, second)
  BY DEF Arrive, Outcome
<1>2. PICK first \in Written(InlineRows(t, k, b)) :
        \E second \in Written(SafetyRows(t, b, Alerted(first))) : Outcome(t, k, b, first, second)
  BY <1>1
<1>3. PICK second \in Written(SafetyRows(t, b, Alerted(first))) : Outcome(t, k, b, first, second)
  BY <1>2
<1> DEFINE d == DisclosureRow(t, "inline", k, b)
           s == Row(t, "input", b, ~Alerted(first))
<1>4. ASSUME k # "none"
      PROVE  /\ d \in Rows /\ d.turn = t /\ d.by = "inline" /\ d.severity >= b
             /\ (d.alerts <=> d.severity >= major) /\ (k \in Alerting => d.alerts)
  BY <1>4, DisclosureRowIs DEF Found
<1>5. ASSUME b # 0
      PROVE  /\ s \in Rows /\ s.turn = t /\ s.by = "input" /\ s.severity = b
             /\ s.alerts <=> ~Alerted(first) /\ b >= major
  <2>1. b \in Severities
    BY <1>5
  <2> QED BY <2>1 DEF Row, Rows, Writers, Severities, minor, major, critical, Alerted
<1> DEFINE I == InlineRows(t, k, b)
           S == SafetyRows(t, b, Alerted(first))
<1>6. I = (IF k = "none" THEN {} ELSE {d}) /\ S = (IF b = 0 THEN {} ELSE {s})
  BY DEF InlineRows, SafetyRows
<1>7. /\ first \subseteq {d} /\ second \subseteq {s}
      /\ (first # {} => k # "none") /\ (second # {} => b # 0)
      /\ \/ failed' = failed /\ (k # "none" => first # {}) /\ (b # 0 => second # {})
         \/ failed' = failed \cup {t}
  <2>1. first \subseteq I /\ second \subseteq S
    BY DEF Written
  <2>2. failed' = IF first \cup second = I \cup S THEN failed ELSE failed \cup {t}
    BY <1>3 DEF Outcome, Logs
  <2> HIDE DEF d, s, I, S
  <2>3. first \cup second = I \cup S => first = I /\ second = S
    BY <1>4, <1>5, <1>6, <2>1
  <2> QED BY <1>6, <2>1, <2>2, <2>3
<1>0. pc[t] = "idle" /\ rows' = rows \cup (first \cup second)
  BY <1>3 DEF Arrive, Outcome, Logs
<1> HIDE DEF d, s, I, S
<1>8. Arrival(t, k, b, first, second)
  <2>1. \A r \in first \cup second : r \in Rows /\ r.turn = t
    BY <1>4, <1>5, <1>7
  <2>2. \A r \in first : /\ r.by = "inline" /\ (r.alerts <=> r.severity >= major)
                         /\ r.severity >= b /\ (k \in Alerting => r.alerts)
    BY <1>4, <1>7
  <2>3. \A r \in second : /\ r.by = "input" /\ b # 0 /\ r.severity = b
                          /\ r.alerts <=> ~Alerted(first) /\ b >= major
    BY <1>5, <1>7
  <2>4. /\ failed \subseteq failed' /\ failed' \subseteq failed \cup {t}
        /\ t \notin failed' => (k # "none" => first # {}) /\ (b # 0 => second # {})
    BY <1>7
  <2> QED BY <1>0, <1>3, <1>7, <2>1, <2>2, <2>3, <2>4 DEF Arrival, Outcome
<1>9. first \in SUBSET Rows /\ second \in SUBSET Rows
  BY <1>4, <1>5, <1>7
<1> QED BY <1>8, <1>9

\* An arriving turn tells what it found at once, unless a row is refused.
LEMMA ArriveIInv ==
  ASSUME IInv, NEW t \in Turns, Arrive(t)
  PROVE  IInv'
<1>1. PICK k \in Found, b \in {0} \cup Severities :
        \E first, second \in SUBSET Rows : Arrival(t, k, b, first, second)
  BY ArriveIsArrival
<1>2. PICK first \in SUBSET Rows, second \in SUBSET Rows : Arrival(t, k, b, first, second)
  BY <1>1
<1>3. /\ RowsOf(t)' = first \cup second
      /\ AlertsOf(t)' = {r \in first \cup second : r.alerts}
      /\ DisclosureAlerts(t)' = {r \in first : r.alerts}
      /\ \A u \in Turns \ {t} : /\ RowsOf(u)' = RowsOf(u) /\ AlertsOf(u)' = AlertsOf(u)
                                /\ DisclosureAlerts(u)' = DisclosureAlerts(u)
  <2>1. RowsOf(t) = {} /\ AlertsOf(t) = {} /\ DisclosureAlerts(t) = {}
    BY <1>2 DEF Arrival, IInv, IdleIsFresh, AlertsOf, DisclosureAlerts
  <2> DEFINE new == first \cup second
  <2>2. rows' = rows \cup new /\ \A r \in new : r.turn = t
    BY <1>2 DEF Arrival
  <2> HIDE DEF new
  <2>3. /\ \A u \in Turns \ {t} : /\ RowsOf(u)' = RowsOf(u) /\ AlertsOf(u)' = AlertsOf(u)
                                  /\ DisclosureAlerts(u)' = DisclosureAlerts(u)
        /\ RowsOf(t)' = RowsOf(t) \cup new
        /\ AlertsOf(t)' = AlertsOf(t) \cup {r \in new : r.alerts}
        /\ DisclosureAlerts(t)' = DisclosureAlerts(t) \cup
             {r \in new : r.alerts /\ r.by \in {"inline", "semantic"}}
    BY <2>2, RowsAdded
  <2>4. {r \in new : r.alerts /\ r.by \in {"inline", "semantic"}} = {r \in first : r.alerts}
    BY <1>2 DEF Arrival, new
  <2> QED BY <2>1, <2>3, <2>4 DEF new
<1>4. /\ pc'[t] # "idle" /\ inline'[t] = k /\ block'[t] = b
      /\ \A u \in Turns \ {t} : /\ pc'[u] = pc[u] /\ inline'[u] = inline[u]
                                /\ block'[u] = block[u]
  BY <1>2 DEF Arrival, IInv, TypeOK
<1>5. PICK j \in {"none", "queued", "shed"}, v \in {"none", "pending"} \cup {verdict[t]} :
        /\ job' = [job EXCEPT ![t] = j] /\ verdict' = [verdict EXCEPT ![t] = v]
        /\ j = "queued" \/ queue' = queue
        /\ j = "queued" => queue' = Append(queue, t) /\ Len(queue) < MaxSize
        /\ Alerted(first) <=> j = "none"
        /\ v \in Kinds => Alerted(first)
  <2>1. job[t] = "none" /\ job \in [Turns -> Jobs] /\ verdict \in [Turns -> Verdicts]
    BY <1>2 DEF Arrival, IInv, TypeOK, IdleIsFresh
  <2>2. CASE Alerted(first)
    <3>1. job' = [job EXCEPT ![t] = "none"] /\ verdict' = [verdict EXCEPT ![t] = verdict[t]]
          /\ queue' = queue
      BY <1>2, <2>1, <2>2 DEF Arrival
    <3> QED BY <2>2, <3>1
  <2>3. CASE ~Alerted(first)
    <3>1. queue \in Seq(Turns) /\ Len(queue) \in Nat /\ MaxSize \in Nat
      BY SizeAssumption DEF IInv, TypeOK
    <3>2. Submit(t)
      BY <1>2, <2>3 DEF Arrival
    <3>3. CASE Len(queue) >= MaxSize
      BY <2>3, <3>2, <3>3, NoKindAssumption DEF Submit
    <3>4. CASE ~(Len(queue) >= MaxSize)
      BY <2>3, <3>1, <3>2, <3>4, NoKindAssumption DEF Submit
    <3> QED BY <3>3, <3>4
  <2> QED BY <2>2, <2>3
<1>6. /\ job'[t] = j /\ verdict'[t] = v
      /\ \A u \in Turns \ {t} : job'[u] = job[u] /\ verdict'[u] = verdict[u]
  BY <1>5 DEF IInv, TypeOK
<1>7. TypeOK'
  <2>1. queue' \in Seq(Turns) /\ Len(queue') <= MaxSize
    <3>1. queue \in Seq(Turns) /\ Len(queue) \in Nat /\ MaxSize \in Nat /\ Len(queue) <= MaxSize
      BY SizeAssumption DEF IInv, TypeOK
    <3>2. CASE queue' = queue
      BY <3>1, <3>2
    <3>3. CASE queue' = Append(queue, t) /\ Len(queue) < MaxSize
      <4>1. Append(queue, t) \in Seq(Turns) /\ Len(Append(queue, t)) = Len(queue) + 1
        BY <3>1
      <4> QED BY <3>1, <3>3, <4>1
    <3> QED BY <1>5, <3>2, <3>3
  <2>2. rows' \subseteq Rows /\ failed' \subseteq Turns
    BY <1>2 DEF Arrival, IInv, TypeOK
  <2>3. job' \in [Turns -> Jobs] /\ verdict' \in [Turns -> Verdicts]
    BY <1>5 DEF IInv, TypeOK, Jobs, Verdicts, Found
  <2> QED BY <1>2, <2>1, <2>2, <2>3 DEF Arrival, IInv, TypeOK, PCs
<1>8. IdleIsFresh'
  BY <1>3, <1>4, <1>6 DEF IInv, IdleIsFresh
<1>9. QueueHoldsJobs'
  <2>0. queue \in Seq(Turns) /\ job[t] = "none"
    BY <1>2 DEF Arrival, IInv, TypeOK, IdleIsFresh
  <2>1. \A i \in 1..Len(queue) : queue[i] \in Turns \ {t} /\ job[queue[i]] = "queued"
    BY <2>0 DEF IInv, QueueHoldsJobs
  <2>2. CASE queue' = queue
    BY <1>6, <2>1, <2>2 DEF IInv, QueueHoldsJobs
  <2>3. CASE queue' = Append(queue, t) /\ j = "queued"
    <3>1. /\ Len(queue') = Len(queue) + 1 /\ queue'[Len(queue) + 1] = t
          /\ \A i \in 1..Len(queue) : queue'[i] = queue[i]
      BY <2>0, <2>3
    <3>2. \A i \in 1..Len(queue') : job'[queue'[i]] = "queued"
      <4> TAKE i \in 1..Len(queue')
      <4>1. CASE i \in 1..Len(queue)
        BY <1>6, <2>1, <3>1, <4>1
      <4>2. CASE i = Len(queue) + 1
        BY <1>6, <2>3, <3>1, <4>2
      <4> QED BY <2>0, <3>1, <4>1, <4>2
    <3>3. \A i, m \in 1..Len(queue') : queue'[i] = queue'[m] => i = m
      BY <2>0, <2>1, <3>1 DEF IInv, QueueHoldsJobs
    <3> QED BY <3>2, <3>3 DEF QueueHoldsJobs
  <2> QED BY <1>5, <2>2, <2>3
<1>10. PendingUnalerted'
  <2>1. ASSUME j = "queued"
        PROVE  DisclosureAlerts(t)' = {}
    <3>1. \A r \in first : ~r.alerts
      BY <1>2, <1>5, <2>1 DEF Arrival, Alerted
    <3> QED BY <1>3, <3>1
  <2>2. job'[t] \in {"queued", "running"} => j = "queued"
    BY <1>6
  <2> QED BY <1>3, <1>6, <2>1, <2>2 DEF IInv, PendingUnalerted
<1>11. OneDisclosureAlert'
  <2>1. Cardinality(DisclosureAlerts(t)') <= 1
    <3>1. PICK x : first \subseteq {x}
      BY <1>2 DEF Arrival
    <3> QED BY <1>3, <3>1, AtMostOne
  <2>2. ASSUME \E r \in AlertsOf(t)' : r.by = "inline"
        PROVE  \A r \in AlertsOf(t)' : r.by # "input"
    <3>1. Alerted(first)
      BY <1>2, <1>3, <2>2 DEF Arrival, Alerted
    <3> QED BY <1>2, <1>3, <3>1 DEF Arrival
  <2> QED BY <1>3, <2>1, <2>2 DEF IInv, OneDisclosureAlert
<1>12. t \notin failed' => (k # "none" => first # {}) /\ (b # 0 => second # {})
  BY <1>2 DEF Arrival
<1>13. \A u \in Turns \ failed' : u \notin failed
  BY <1>2 DEF Arrival
<1>14. EveryFindingRecorded'
  <2>1. ASSUME t \notin failed', k # "none" \/ v \in Kinds
        PROVE  \E r \in RowsOf(t)' : r.by \in {"inline", "semantic"}
    <3>1. first # {}
      BY <1>5, <1>12, <2>1 DEF Alerted
    <3> QED BY <1>2, <1>3, <3>1 DEF Arrival
  <2> QED BY <1>3, <1>4, <1>6, <1>13, <2>1 DEF IInv, EveryFindingRecorded
<1>15. UpgradeReachesParent'
  <2>1. ASSUME t \notin failed', {k, v} \cap Alerting # {}
        PROVE  AlertsOf(t)' # {}
    <3>1. CASE Alerted(first)
      BY <1>3, <3>1 DEF Alerted
    <3>2. CASE ~Alerted(first)
      <4>1. k \in Alerting
        BY <1>5, <2>1, <3>2, KindsAssumption
      <4>2. first # {}
        BY <1>12, <2>1, <4>1, NoKindAssumption, KindsAssumption
      <4> QED BY <1>2, <1>3, <4>1, <4>2 DEF Arrival
    <3> QED BY <3>1, <3>2
  <2> QED BY <1>3, <1>4, <1>6, <1>13, <2>1 DEF IInv, UpgradeReachesParent
<1>16. UrgencyKept'
  <2>1. ASSUME t \notin failed', b >= major
        PROVE  \E r \in AlertsOf(t)' : r.severity >= b
    <3>1. b # 0 /\ second # {}
      BY <1>12, <2>1 DEF major
    <3>2. CASE Alerted(first)
      <4>1. PICK r \in first : r.alerts
        BY <3>2 DEF Alerted
      <4> QED BY <1>2, <1>3, <4>1 DEF Arrival
    <3>3. CASE ~Alerted(first)
      <4>1. PICK r \in second : r.alerts /\ r.severity = b
        BY <1>2, <2>1, <3>1, <3>3 DEF Arrival
      <4>2. b >= b
        BY <4>1 DEF Severities, minor, major, critical
      <4> QED BY <1>3, <4>1, <4>2
    <3> QED BY <3>2, <3>3
  <2> QED BY <1>3, <1>4, <1>13, <2>1 DEF IInv, UrgencyKept
<1> QED BY <1>7, <1>8, <1>9, <1>10, <1>11, <1>14, <1>15, <1>16 DEF IInv

------------------------------------------------------------------------------
\* The model has found kind k: a row is added if the inline one does not say it.
LEMMA ClassifyIInv ==
  ASSUME IInv, NEW t \in Turns, NEW k \in Kinds, Classify(t, k)
  PROVE  IInv'
<1> DEFINE d == DisclosureRow(t, "semantic", k, block[t])
           R == IF inline[t] = "none" \/ Upgrades(t, k) THEN {d} ELSE {}
<1>1. PICK ok \in Written(R) :
        /\ job[t] = "running" /\ job' = [job EXCEPT ![t] = "done"]
        /\ verdict' = [verdict EXCEPT ![t] = IF @ = "pending" THEN k ELSE @]
        /\ Logs(t, R, ok)
        /\ UNCHANGED <<pc, inline, block, queue>>
  BY DEF Classify, settle
<1>2. /\ d \in Rows /\ d.turn = t /\ d.by = "semantic"
      /\ (k \in Alerting => d.alerts)
  <2>1. block[t] \in {0} \cup Severities /\ "semantic" \in {"inline", "semantic"}
    BY DEF IInv, TypeOK
  <2> HIDE DEF d
  <2>2. LET r == DisclosureRow(t, "semantic", k, block[t]) IN
        /\ r \in Rows /\ r.turn = t /\ r.by = "semantic"
        /\ r.severity >= block[t] /\ (r.alerts <=> r.severity >= major)
        /\ k \in Alerting => r.alerts
    BY <2>1, DisclosureRowIs
  <2> QED BY <2>2 DEF d
<1>3. /\ rows' = rows \cup ok /\ ok \subseteq {d}
      /\ failed \subseteq failed' /\ failed' \subseteq failed \cup {t}
      /\ t \notin failed' /\ (inline[t] = "none" \/ Upgrades(t, k)) => ok = {d}
  BY <1>1 DEF Written, Logs
<1> HIDE DEF d, R
<1>4. /\ \A u \in Turns \ {t} : /\ RowsOf(u)' = RowsOf(u) /\ AlertsOf(u)' = AlertsOf(u)
                                /\ DisclosureAlerts(u)' = DisclosureAlerts(u)
      /\ RowsOf(t)' = RowsOf(t) \cup ok
      /\ AlertsOf(t)' = AlertsOf(t) \cup {r \in ok : r.alerts}
      /\ DisclosureAlerts(t)' = DisclosureAlerts(t) \cup
           {r \in ok : r.alerts /\ r.by \in {"inline", "semantic"}}
  BY <1>2, <1>3, RowsAdded
<1>5. PICK v \in {k, verdict[t]} : verdict' = [verdict EXCEPT ![t] = v]
  BY <1>1
<1>6. /\ job'[t] = "done" /\ verdict'[t] = v
      /\ \A u \in Turns \ {t} : job'[u] = job[u] /\ verdict'[u] = verdict[u]
  BY <1>1, <1>5 DEF IInv, TypeOK
<1>7. TypeOK'
  BY <1>1, <1>2, <1>3, <1>5 DEF IInv, TypeOK, Jobs, Verdicts, Found
<1>8. IdleIsFresh'
  BY <1>1, <1>4, <1>6 DEF IInv, IdleIsFresh
<1>9. QueueHoldsJobs'
  BY <1>1, DoneKeepsQueue
<1>10. PendingUnalerted'
  BY <1>1, <1>4, <1>6 DEF IInv, PendingUnalerted
<1>11. OneDisclosureAlert'
  <2>0. DisclosureAlerts(t) = {}
    BY <1>1 DEF IInv, PendingUnalerted
  <2>1. Cardinality(DisclosureAlerts(t)') <= 1
    <3>1. DisclosureAlerts(t)' \subseteq {d}
      BY <1>3, <1>4, <2>0
    <3> QED BY <3>1, AtMostOne
  <2>2. \A r \in AlertsOf(t)' : r.by # "inline"
    BY <1>2, <1>3, <1>4, <2>0 DEF DisclosureAlerts
  <2> QED BY <1>4, <2>1, <2>2 DEF IInv, OneDisclosureAlert
<1>12. \A u \in Turns \ failed' : u \notin failed
  BY <1>3
<1>13. EveryFindingRecorded'
  <2>1. ASSUME t \notin failed', inline[t] # "none" \/ v \in Kinds
        PROVE  \E r \in RowsOf(t)' : r.by \in {"inline", "semantic"}
    <3>1. CASE inline[t] # "none"
      BY <1>4, <1>12, <2>1, <3>1 DEF IInv, EveryFindingRecorded
    <3>2. CASE inline[t] = "none"
      BY <1>2, <1>3, <1>4, <2>1, <3>2
    <3> QED BY <3>1, <3>2
  <2> QED BY <1>1, <1>4, <1>6, <1>12, <2>1 DEF IInv, EveryFindingRecorded
<1>14. UpgradeReachesParent'
  <2>1. ASSUME t \notin failed', {inline[t], v} \cap Alerting # {}
        PROVE  AlertsOf(t)' # {}
    <3>1. CASE {inline[t], verdict[t]} \cap Alerting # {}
      BY <1>4, <1>12, <2>1, <3>1 DEF IInv, UpgradeReachesParent
    <3>2. CASE {inline[t], verdict[t]} \cap Alerting = {}
      <4>1. k \in Alerting /\ k # inline[t]
        BY <1>5, <2>1, <3>2
      <4>2. ok = {d} /\ d.alerts
        BY <1>2, <1>3, <2>1, <4>1 DEF Upgrades
      <4> QED BY <1>4, <4>2
    <3> QED BY <3>1, <3>2
  <2> QED BY <1>1, <1>4, <1>6, <1>12, <2>1 DEF IInv, UpgradeReachesParent
<1>15. UrgencyKept'
  <2>1. \A u \in Turns : AlertsOf(u) \subseteq AlertsOf(u)'
    BY <1>4
  <2> QED BY <1>1, <1>12, <2>1 DEF IInv, UrgencyKept
<1> QED BY <1>7, <1>8, <1>9, <1>10, <1>11, <1>13, <1>14, <1>15 DEF IInv

------------------------------------------------------------------------------
\* Every step: of a request, of a worker, or a restart.
LEMMA NextIInv == IInv /\ [Next]_vars => IInv'
<1> SUFFICES ASSUME IInv, [Next]_vars PROVE IInv'
  OBVIOUS
<1>1. CASE UNCHANGED vars
  <2>1. /\ UNCHANGED <<pc, inline, block, job, verdict, queue, rows, failed>>
        /\ \A t \in Turns : /\ RowsOf(t)' = RowsOf(t) /\ AlertsOf(t)' = AlertsOf(t)
                            /\ DisclosureAlerts(t)' = DisclosureAlerts(t)
    BY <1>1, RowsKept DEF vars
  <2>2. TypeOK' /\ IdleIsFresh' /\ QueueHoldsJobs' /\ PendingUnalerted'
    BY <2>1 DEF IInv, TypeOK, IdleIsFresh, QueueHoldsJobs, PendingUnalerted
  <2>3. Told'
    BY <2>1, SilentKeepsTold DEF IInv, Told
  <2> QED BY <2>2, <2>3 DEF IInv, Told
<1>2. CASE Worker
  BY <1>2, TakeIInv, NoVerdictIInv, ClassifyIInv DEF Worker
<1>3. CASE Restart
  BY <1>3, RestartIInv
<1>4. CASE \E t \in Turns : Arrive(t) \/ Route(t) \/ Disconnect(t)
  BY <1>4, ArriveIInv, RouteIInv
<1> QED BY <1>1, <1>2, <1>3, <1>4 DEF Next

\* The invariant holds in every state.
THEOREM Invariance == Spec => []IInv
BY InitIInv, NextIInv, PTL DEF Spec

\* Type correctness, for any queue size and number of workers: the queue never holds
\* more than its maxsize, every row is of one of the five writers, with a severity.
THEOREM TypeCorrect == Spec => []TypeOK
<1>1. IInv => TypeOK BY DEF IInv
<1> QED BY <1>1, Invariance, PTL

\* "The deterministic record is never at the mercy of the queue"
\* (disclosure_queue.py:112): what was found in a turn is on record, whatever the
\* queue sheds and a restart drops.
THEOREM FindingsRecorded == Spec => []EveryFindingRecorded
<1>1. IInv => EveryFindingRecorded BY DEF IInv
<1> QED BY <1>1, Invariance, PTL

\* A disclosure of an alerting kind reaches a parent, whoever found it
\* (disclosure_queue.py:116-121).
THEOREM ParentsReached == Spec => []UpgradeReachesParent
<1>1. IInv => UpgradeReachesParent BY DEF IInv
<1> QED BY <1>1, Invariance, PTL

\* A blocked turn's alert is never less urgent than its block (blocks.py:268-271).
THEOREM BlocksStayUrgent == Spec => []UrgencyKept
<1>1. IInv => UrgencyKept BY DEF IInv
<1> QED BY <1>1, Invariance, PTL

\* Of the regex's and the model's rows of one turn at most one alerts a parent
\* (disclosure_queue.py:96-104), and none of an input block beside the regex's
\* (chat.py:1003-1009), whatever is shed, dropped, refused or withheld.
THEOREM AlertedOnce == Spec => []OneDisclosureAlert
<1>1. IInv => OneDisclosureAlert BY DEF IInv
<1> QED BY <1>1, Invariance, PTL
=============================================================================
