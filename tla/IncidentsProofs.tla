--------------------------- MODULE IncidentsProofs ---------------------------
(***************************************************************************)
(* What holds of incidents and alerts for any number of workers, profiles, *)
(* calls and messages, and whatever fails.                                 *)
(***************************************************************************)
EXTENDS Incidents, TLAPS

\* What the database still holds of a call on its way.
Story(c) ==
  \* It has not looked its incident up before it says so.
  /\ pc[c] \in {"idle", "unlinked", "lookup"} => found[c] = 0
  \* While its child is there, the row it inserted is in the database,
  /\ pc[c] = "lookup" /\ ProfileOf[c] \in profiles =>
       \E i \in Used : rows[i].by = c /\ rows[i].profile = ProfileOf[c]
  \* and so is the row it has found, which is the child's.
  /\ pc[c] \in {"parent", "store", "mark"} /\ ProfileOf[c] \in profiles =>
       found[c] \in Used /\ rows[found[c]].profile = ProfileOf[c]
  \* About to mark that row, it has stored the alert, linked to it while the child is there.
  /\ pc[c] = "mark" =>
       /\ Alerted(c)
       /\ ProfileOf[c] \in profiles => \E a \in alerts : a.id = found[c]

\* SevereNeverSilent, of one call.
Heard(c) ==
  Severe(c) /\ pc[c] \in Over \ {"crashed"} =>
    \/ Alerted(c) \/ c \in operator
    \/ pc[c] = "lost" /\ ProfileOf[c] \notin profiles
    \/ pc[c] = "untold" /\ (MayFail(c) \/ ProfileOf[c] \notin profiles)

\* The types without the rows' history.
Types ==
  /\ profiles \subseteq Profiles
  /\ Used \subseteq Ids /\ \A i \in Used : rows[i] \in RowSet
  /\ alerts \subseteq [by : Calls, id : Used \cup {0}]
  /\ operator \subseteq Calls
  /\ pc \in [Works -> {"idle"} \cup Active \cup Over \cup Queued]
  /\ found \in [Calls -> Ids \cup {0}]
  /\ count \in [Workers -> [Profiles -> [Severities -> Nat]]]
  /\ sent \subseteq Workers \X Profiles

IInv ==
  /\ Types /\ RowsInserted
  /\ \A c \in Calls : Story(c) /\ Heard(c)
  /\ AlertIsAboutTheChild /\ NotifiedIsTold

PCs == {"idle"} \cup Active \cup Over \cup Queued
AlertSet == [by : Calls, id : Ids \cup {0}]

------------------------------------------------------------------------------
\* What the statements do to the tables.

\* An insert adds one row under an unused id.
LEMMA InsertIs ==
  ASSUME Types, NEW w \in Works, NEW p \in Profiles \cup {"none"}, Insert(w, p)
  PROVE  \E n \in Ids \ Used :
           /\ DOMAIN rows' = Used \cup {n}
           /\ \A i \in Used : rows'[i] = rows[i]
           /\ rows'[n] \in RowSet
           /\ rows'[n].by = w /\ rows'[n].profile = p /\ ~rows'[n].notified
<1>1. PICK n \in Ids : IsNextId(n) /\ rows' = [i \in Used \cup {n} |-> IF i = n THEN Row(w, p) ELSE rows[i]]
  BY DEF Insert
<1>2. n \notin Used
  <2>1. Ids \subseteq Int
    BY MaxIdAssumption DEF Ids
  <2> QED BY <1>1, <2>1 DEF IsNextId
<1>3. SeverityOf[w] \in Severities
  BY WorksAssumption
<1>4. Row(w, p) \in RowSet /\ Row(w, p).by = w /\ Row(w, p).profile = p /\ ~Row(w, p).notified
  BY <1>3 DEF Row, RowSet
<1>5. /\ DOMAIN rows' = Used \cup {n} /\ rows'[n] = Row(w, p)
      /\ \A i \in Used : rows'[i] = rows[i]
  BY <1>1, <1>2
<1> QED BY <1>2, <1>4, <1>5

\* A row that is marked is the same but for its mark.
LEMMA MarkedRow ==
  ASSUME NEW r \in RowSet
  PROVE  /\ [r EXCEPT !.notified = TRUE] \in RowSet
         /\ [r EXCEPT !.notified = TRUE].by = r.by /\ [r EXCEPT !.notified = TRUE].profile = r.profile
BY DEF RowSet

\* Marking the rows I.
Marks(I) == rows' = [i \in Used |-> IF i \in I THEN [rows[i] EXCEPT !.notified = TRUE] ELSE rows[i]]

LEMMA MarksIs ==
  ASSUME Types, NEW I, Marks(I)
  PROVE  /\ DOMAIN rows' = Used
         /\ \A i \in Used : /\ rows'[i] \in RowSet
                            /\ rows'[i].by = rows[i].by /\ rows'[i].profile = rows[i].profile
                            /\ i \notin I => rows'[i] = rows[i]
<1>1. ASSUME NEW i \in Used
      PROVE  /\ rows'[i] \in RowSet
             /\ rows'[i].by = rows[i].by /\ rows'[i].profile = rows[i].profile
             /\ i \notin I => rows'[i] = rows[i]
  <2>1. rows[i] \in RowSet
    BY DEF Types
  <2> DEFINE r == [rows[i] EXCEPT !.notified = TRUE]
  <2>2. r \in RowSet /\ r.by = rows[i].by /\ r.profile = rows[i].profile
    BY <2>1, MarkedRow
  <2>3. rows'[i] = IF i \in I THEN r ELSE rows[i]
    BY DEF Marks
  <2> HIDE DEF r
  <2> QED BY <2>1, <2>2, <2>3
<1>2. DOMAIN rows' = Used
  BY DEF Marks
<1> QED BY <1>1, <1>2

\* An alert whose incident is deleted is the same but for its link.
LEMMA UnlinkedAlert ==
  ASSUME NEW a \in AlertSet, NEW I
  PROVE  LET b == [a EXCEPT !.id = IF @ \in I THEN 0 ELSE @] IN
         /\ b \in AlertSet /\ b.by = a.by /\ b.id = IF a.id \in I THEN 0 ELSE a.id
BY DEF AlertSet

\* A deletion takes rows away and the links to them, nothing else.
LEMMA DeleteIs ==
  ASSUME Types, NEW I, Delete(I)
  PROVE  /\ DOMAIN rows' = Used \ I
         /\ \A i \in Used \ I : rows'[i] = rows[i]
         /\ alerts' \subseteq AlertSet
         /\ \A b \in alerts' : \E a \in alerts : b.by = a.by /\ (b.id = 0 \/ (b.id = a.id /\ a.id \notin I))
         /\ \A a \in alerts : \E b \in alerts' : b.by = a.by /\ (a.id \notin I => b.id = a.id)
<1> DEFINE F(a) == [a EXCEPT !.id = IF @ \in I THEN 0 ELSE @]
<1>1. alerts' = {F(a) : a \in alerts}
  BY DEF Delete
<1>2. alerts \subseteq AlertSet
  BY DEF Types, AlertSet
<1>3. ASSUME NEW a \in alerts
      PROVE  F(a) \in AlertSet /\ F(a).by = a.by /\ F(a).id = IF a.id \in I THEN 0 ELSE a.id
  BY <1>2, UnlinkedAlert
<1> HIDE DEF F
<1>4. DOMAIN rows' = Used \ I /\ \A i \in Used \ I : rows'[i] = rows[i]
  BY DEF Delete
<1> QED BY <1>1, <1>3, <1>4

\* A call or message moves on, the others stay where they are.
LEMMA GotoIs ==
  ASSUME Types, NEW w \in Works, NEW s \in PCs, Goto(w, s)
  PROVE  /\ pc' \in [Works -> PCs] /\ pc'[w] = s
         /\ \A x \in Works : x # w => pc'[x] = pc[x]
BY DEF Types, PCs, Goto

------------------------------------------------------------------------------
\* The types.

\* The rows and the links to them stay in place when rows are added or marked.
LEMMA RowsTyped ==
  ASSUME Types, DOMAIN rows' \subseteq Ids, Used \subseteq DOMAIN rows',
         \A i \in DOMAIN rows' : rows'[i] \in RowSet, alerts' = alerts
  PROVE  /\ Used' \subseteq Ids /\ \A i \in Used' : rows'[i] \in RowSet
         /\ alerts' \subseteq [by : Calls, id : Used' \cup {0}]
BY DEF Types, Used

\* An insert.
LEMMA InsertTyped ==
  ASSUME Types, NEW w \in Works, NEW p \in Profiles \cup {"none"}, Insert(w, p), alerts' = alerts
  PROVE  /\ Used' \subseteq Ids /\ \A i \in Used' : rows'[i] \in RowSet
         /\ alerts' \subseteq [by : Calls, id : Used' \cup {0}]
<1>1. PICK n \in Ids \ Used :
           /\ DOMAIN rows' = Used \cup {n}
           /\ \A i \in Used : rows'[i] = rows[i]
           /\ rows'[n] \in RowSet
  BY InsertIs
<1>2. \A i \in DOMAIN rows' : rows'[i] \in RowSet
  BY <1>1 DEF Types
<1> QED BY <1>1, <1>2, RowsTyped DEF Types

\* Rows are marked.
LEMMA MarksTyped ==
  ASSUME Types, NEW I, Marks(I), alerts' = alerts
  PROVE  /\ Used' \subseteq Ids /\ \A i \in Used' : rows'[i] \in RowSet
         /\ alerts' \subseteq [by : Calls, id : Used' \cup {0}]
BY MarksIs, RowsTyped DEF Types, Used

\* A deletion.
LEMMA DeleteTyped ==
  ASSUME Types, NEW I, Delete(I)
  PROVE  /\ Used' \subseteq Ids /\ \A i \in Used' : rows'[i] \in RowSet
         /\ alerts' \subseteq [by : Calls, id : Used' \cup {0}]
<1>1. DOMAIN rows' = Used \ I /\ \A i \in Used \ I : rows'[i] = rows[i]
  BY DeleteIs
<1>2. ASSUME NEW b \in alerts' PROVE b \in [by : Calls, id : Used' \cup {0}]
  <2>1. b \in AlertSet
    BY DeleteIs
  <2>2. PICK a \in alerts : b.by = a.by /\ (b.id = 0 \/ (b.id = a.id /\ a.id \notin I))
    BY DeleteIs
  <2>3. a.id \in Used \cup {0}
    BY DEF Types
  <2>4. b.id \in Used' \cup {0}
    BY <1>1, <2>2, <2>3 DEF Used
  <2> QED BY <2>1, <2>4 DEF AlertSet
<1> QED BY <1>1, <1>2 DEF Types, Used

\* The rest of the types, of a step that moves w and leaves the monitor and the rows alone.
LEMMA LogTyped ==
  ASSUME Types, NEW c \in Calls, LogStep(c)
  PROVE  Types'
<1> USE DEF Types, Used
<1>1. c \in Works /\ ProfileOf[c] \in Profiles
  BY WorksAssumption DEF Works
<1>2. UNCHANGED <<profiles, monitor>>
  BY DEF LogStep, Broken, InsertLinked, InsertRejected, InsertUnlinked, UnlinkedRejected, Lookup,
         ReadParent, StoreAlert, AlertBroken, mark_parent_notified
<1>3. operator' \subseteq Calls
  BY DEF LogStep, Broken, InsertLinked, InsertRejected, InsertUnlinked, UnlinkedRejected, Lookup,
         ReadParent, StoreAlert, AlertBroken, mark_parent_notified, TellOperator
<1>4. pc' \in [Works -> PCs]
  <2>1. \E s \in PCs : Goto(c, s)
    BY DEF LogStep, Broken, InsertLinked, InsertRejected, InsertUnlinked, UnlinkedRejected, Lookup,
           ReadParent, StoreAlert, AlertBroken, mark_parent_notified, PCs, Active, Over
  <2> QED BY <1>1, <2>1, GotoIs
<1>5. found' \in [Calls -> Ids \cup {0}]
  <2>1. CASE Lookup(c)
    BY <2>1 DEF Lookup, RowsOf
  <2>2. CASE ~Lookup(c)
    BY <2>2 DEF LogStep, Broken, InsertLinked, InsertRejected, InsertUnlinked, UnlinkedRejected,
           ReadParent, StoreAlert, AlertBroken, mark_parent_notified
  <2> QED BY <2>1, <2>2
<1>6. /\ Used' \subseteq Ids /\ \A i \in Used' : rows'[i] \in RowSet
      /\ alerts' \subseteq [by : Calls, id : Used' \cup {0}]
  <2>1. CASE InsertLinked(c)
    BY <1>1, <2>1, InsertTyped DEF InsertLinked
  <2>2. CASE InsertUnlinked(c)
    BY <1>1, <2>2, InsertTyped DEF InsertUnlinked
  <2>3. CASE mark_parent_notified(c)
    <3>1. CASE Marks({found[c]}) /\ alerts' = alerts
      BY <3>1, MarksTyped
    <3>2. CASE UNCHANGED <<rows, alerts>>
      BY <3>2
    <3> QED BY <2>3, <3>1, <3>2 DEF mark_parent_notified, Marks
  <2>4. CASE StoreAlert(c)
    BY <2>4 DEF StoreAlert
  <2>5. CASE UNCHANGED <<rows, alerts>>
    BY <2>5
  <2> QED BY <2>1, <2>2, <2>3, <2>4, <2>5
        DEF LogStep, Broken, InsertRejected, UnlinkedRejected, Lookup, ReadParent, AlertBroken
<1> QED BY <1>2, <1>3, <1>4, <1>5, <1>6 DEF monitor, PCs

\* The monitor's count goes up by one.
LEMMA MonitorTyped ==
  ASSUME Types, NEW m \in Messages, Monitor(m)
  PROVE  Types'
<1> USE DEF Types, Used
<1> DEFINE w == Home[m]
           p == ProfileOf[m]
           k == [count[w][p] EXCEPT ![SeverityOf[m]] = @ + 1]
<1>1. m \in Works /\ w \in Workers /\ p \in Profiles /\ SeverityOf[m] \in Severities
  BY WorksAssumption DEF Works
<1>2. k \in [Severities -> Nat]
  BY <1>1
<1>3. count' = [count EXCEPT ![w][p] = k]
  BY DEF Monitor
<1>4. count' \in [Workers -> [Profiles -> [Severities -> Nat]]]
  <2> HIDE DEF k
  <2> QED BY <1>1, <1>2, <1>3
<1>5. /\ Used' \subseteq Ids /\ \A i \in Used' : rows'[i] \in RowSet
      /\ alerts' \subseteq [by : Calls, id : Used' \cup {0}]
  <2>1. CASE Insert(m, p) /\ alerts' = alerts
    BY <1>1, <2>1, InsertTyped
  <2>2. CASE UNCHANGED <<rows, alerts>>
    BY <2>2
  <2> QED BY <2>1, <2>2 DEF Monitor, Recorded
<1>6. sent' \subseteq Workers \X Profiles
  BY <1>1 DEF Monitor
<1>7. pc' \in [Works -> PCs]
  <2>1. \E s \in PCs : Goto(m, s)
    BY DEF Monitor, PCs, Active, Over
  <2> QED BY <1>1, <2>1, GotoIs
<1> QED BY <1>4, <1>5, <1>6, <1>7 DEF Monitor, PCs

\* The types of the state after any step.
LEMMA TypeStep == Types /\ [Next]_vars => Types'
<1> SUFFICES ASSUME Types, [Next]_vars PROVE Types'
  OBVIOUS
<1> USE DEF Types, Used
<1>1. CASE UNCHANGED vars
  BY <1>1 DEF vars
<1>2. ASSUME NEW c \in Calls, LogStep(c) PROVE Types'
  BY <1>2, LogTyped
<1>3. ASSUME NEW m \in Messages, Monitor(m) PROVE Types'
  BY <1>3, MonitorTyped
<1>4. ASSUME NEW m \in Messages, FlagAll(m) \/ acknowledge_alert(m) PROVE Types'
  <2>1. m \in Works
    BY DEF Works
  <2>2. pc' \in [Works -> PCs]
    <3>1. \E s \in PCs : Goto(m, s)
      BY <1>4 DEF FlagAll, acknowledge_alert, PCs, Queued
    <3> QED BY <2>1, <3>1, GotoIs
  <2>3. /\ Used' \subseteq Ids /\ \A i \in Used' : rows'[i] \in RowSet
        /\ alerts' \subseteq [by : Calls, id : Used' \cup {0}]
    <3>1. CASE Marks({i \in Used : rows[i].profile = ProfileOf[m]}) /\ alerts' = alerts
      BY <3>1, MarksTyped
    <3>2. CASE UNCHANGED <<rows, alerts>>
      BY <3>2
    <3> QED BY <1>4, <3>1, <3>2 DEF FlagAll, acknowledge_alert, Marks
  <2> QED BY <1>4, <2>2, <2>3 DEF FlagAll, acknowledge_alert, PCs, monitor
<1>5. ASSUME NEW w \in Workers, Restart(w) PROVE Types'
  <2>1. count' \in [Workers -> [Profiles -> [Severities -> Nat]]]
    BY <1>5 DEF Restart
  <2>2. pc' \in [Works -> PCs]
    BY <1>5 DEF Restart, PCs, Over, Queued
  <2>3. sent' \subseteq Workers \X Profiles
    BY <1>5 DEF Restart
  <2> QED BY <1>5, <2>1, <2>2, <2>3 DEF Restart, PCs, monitor
<1>6. ASSUME NEW w \in Workers, NEW p \in Profiles, stop_monitoring(w, p) PROVE Types'
  BY <1>6 DEF stop_monitoring
<1>7. ASSUME NEW i \in Ids, Purge(i) PROVE Types'
  BY <1>7, DeleteTyped DEF Purge, monitor
<1>8. ASSUME NEW p \in Profiles, Erase(p) PROVE Types'
  BY <1>8, DeleteTyped DEF Erase, monitor
<1> QED BY <1>1, <1>2, <1>3, <1>4, <1>5, <1>6, <1>7, <1>8 DEF Next

------------------------------------------------------------------------------
\* No row before its insert.

\* A step of w that inserts at most a row of its own, and only then or from the start
\* gets to where it has none.
LEMMA OwnRow ==
  ASSUME Types, RowsInserted, NEW w \in Works, NEW s \in PCs \ {"idle"}, Goto(w, s),
         s = "unlinked" => pc[w] = "idle",
         \A i \in DOMAIN rows' : \/ i \in Used /\ rows'[i].by = rows[i].by
                                 \/ rows'[i].by = w /\ s # "unlinked"
  PROVE  RowsInserted'
<1> SUFFICES ASSUME NEW i \in DOMAIN rows' PROVE pc'[rows'[i].by] \notin {"idle", "unlinked"}
  BY DEF RowsInserted, Used
<1>1. /\ pc'[w] = s
      /\ \A x \in Works : x # w => pc'[x] = pc[x]
  BY GotoIs
<1>2. CASE i \in Used /\ rows'[i].by = rows[i].by
  <2>1. rows[i].by \in Works /\ pc[rows[i].by] \notin {"idle", "unlinked"}
    BY <1>2 DEF Types, RowSet, RowsInserted
  <2>2. CASE rows[i].by = w
    BY <1>1, <1>2, <2>1, <2>2
  <2>3. CASE rows[i].by # w
    BY <1>1, <1>2, <2>1, <2>3
  <2> QED BY <2>2, <2>3
<1>3. CASE rows'[i].by = w /\ s # "unlinked"
  BY <1>1, <1>3
<1> QED BY <1>2, <1>3

\* After an insert of w, after marks and with the rows as they were, every row is w's
\* or one that was there.
LEMMA WhoseRows ==
  ASSUME Types, NEW w \in Works, NEW p \in Profiles \cup {"none"}, NEW I,
         Insert(w, p) \/ Marks(I) \/ UNCHANGED rows
  PROVE  \A i \in DOMAIN rows' : \/ i \in Used /\ rows'[i].by = rows[i].by
                                 \/ rows'[i].by = w /\ Insert(w, p)
<1>1. CASE Insert(w, p)
  <2>1. PICK n \in Ids \ Used :
           /\ DOMAIN rows' = Used \cup {n}
           /\ \A i \in Used : rows'[i] = rows[i]
           /\ rows'[n].by = w
    BY <1>1, InsertIs
  <2> QED BY <1>1, <2>1
<1>2. CASE Marks(I)
  <2>1. DOMAIN rows' = Used /\ \A i \in Used : rows'[i].by = rows[i].by
    BY <1>2, MarksIs
  <2> QED BY <2>1
<1>3. CASE UNCHANGED rows
  <2>1. DOMAIN rows' = Used /\ \A i \in Used : rows'[i].by = rows[i].by
    BY <1>3 DEF Used
  <2> QED BY <2>1
<1> QED BY <1>1, <1>2, <1>3

\* Every step keeps it: a call or message writes its row as it leaves the insert.
LEMMA RowsStep ==
  ASSUME Types, RowsInserted, [Next]_vars
  PROVE  RowsInserted'
<1>0. \A w \in Works : ProfileOf[w] \in Profiles
  BY WorksAssumption
<1>1. CASE UNCHANGED vars
  BY <1>1 DEF vars, RowsInserted, Used
<1>2. ASSUME NEW c \in Calls, LogStep(c) PROVE RowsInserted'
  <2>0. c \in Works /\ ProfileOf[c] \in Profiles
    BY <1>0 DEF Works
  <2>1. CASE InsertLinked(c)
    <3>1. Goto(c, "lookup") /\ "lookup" \in PCs \ {"idle"} /\ Insert(c, ProfileOf[c])
      BY <2>1 DEF InsertLinked, PCs, Active
    <3> QED BY <2>0, <3>1, WhoseRows, OwnRow
  <2>2. CASE InsertUnlinked(c)
    <3>1. Goto(c, "operator") /\ "operator" \in PCs \ {"idle"} /\ Insert(c, "none")
      BY <2>2 DEF InsertUnlinked, PCs, Over
    <3> QED BY <2>0, <3>1, WhoseRows, OwnRow
  <2>3. CASE ~InsertLinked(c) /\ ~InsertUnlinked(c)
    <3>1. \E s \in PCs \ {"idle"} : Goto(c, s) /\ (s = "unlinked" => pc[c] = "idle")
      BY <1>2, <2>3 DEF LogStep, Broken, InsertRejected, UnlinkedRejected, Lookup, ReadParent,
                        StoreAlert, AlertBroken, mark_parent_notified, PCs, Active, Over
    <3>2. Marks({found[c]}) \/ UNCHANGED rows
      BY <1>2, <2>3 DEF LogStep, Broken, InsertRejected, UnlinkedRejected, Lookup, ReadParent,
                        StoreAlert, AlertBroken, mark_parent_notified, Marks, Used
    <3>3. \A i \in DOMAIN rows' : i \in Used /\ rows'[i].by = rows[i].by
      <4>1. CASE Marks({found[c]})
        <5>1. DOMAIN rows' = Used /\ \A i \in Used : rows'[i].by = rows[i].by
          BY <4>1, MarksIs
        <5> QED BY <5>1
      <4>2. CASE UNCHANGED rows
        BY <4>2 DEF Used
      <4> QED BY <3>2, <4>1, <4>2
    <3> QED BY <2>0, <3>1, <3>3, OwnRow
  <2> QED BY <2>1, <2>2, <2>3
<1>3. ASSUME NEW m \in Messages, Monitor(m) \/ FlagAll(m) \/ acknowledge_alert(m)
      PROVE  RowsInserted'
  <2>0. m \in Works /\ ProfileOf[m] \in Profiles
    BY <1>0 DEF Works
  <2>1. \E s \in PCs \ {"idle"} : Goto(m, s) /\ s # "unlinked"
    BY <1>3 DEF Monitor, FlagAll, acknowledge_alert, PCs, Active, Over, Queued
  <2>2. \/ Insert(m, ProfileOf[m]) \/ UNCHANGED rows
        \/ Marks({i \in Used : rows[i].profile = ProfileOf[m]})
    BY <1>3 DEF Monitor, Recorded, FlagAll, acknowledge_alert, Marks, Used
  <2> QED BY <2>0, <2>1, <2>2, WhoseRows, OwnRow
<1>4. ASSUME NEW w \in Workers, Restart(w) PROVE RowsInserted'
  <2>1. /\ rows' = rows
        /\ \A x \in Works : pc'[x] = pc[x] \/ pc'[x] \in {"crashed", "forgotten"}
    BY <1>4 DEF Restart
  <2> QED BY <2>1 DEF Types, RowSet, RowsInserted, Used
<1>5. ASSUME NEW I, Delete(I), UNCHANGED pc PROVE RowsInserted'
  <2>1. DOMAIN rows' = Used \ I /\ \A i \in Used \ I : rows'[i] = rows[i]
    BY <1>5, DeleteIs
  <2> QED BY <1>5, <2>1 DEF RowsInserted, Used
<1>6. ASSUME NEW w \in Workers, NEW p \in Profiles, stop_monitoring(w, p) PROVE RowsInserted'
  BY <1>6 DEF stop_monitoring, RowsInserted, Used
<1>7. ASSUME (\E i \in Ids : Purge(i)) \/ (\E p \in Profiles : Erase(p)) PROVE RowsInserted'
  BY <1>5, <1>7 DEF Purge, Erase
<1> QED BY <1>1, <1>2, <1>3, <1>4, <1>6, <1>7 DEF Next

------------------------------------------------------------------------------
\* A call is not disturbed by the steps of others.

\* The tables only grow, and a row stays whose it is.
Grows ==
  /\ UNCHANGED profiles
  /\ Used \subseteq DOMAIN rows'
  /\ \A i \in Used : rows'[i].by = rows[i].by /\ rows'[i].profile = rows[i].profile
  /\ alerts \subseteq alerts' /\ operator \subseteq operator'

\* An insert makes the tables grow, by a row that is not marked.
LEMMA InsertGrows ==
  ASSUME Types, NEW w \in Works, NEW p \in Profiles \cup {"none"}, Insert(w, p),
         UNCHANGED <<profiles, alerts>>, operator \subseteq operator'
  PROVE  /\ Grows
         /\ \A i \in DOMAIN rows' : rows'[i].notified => i \in Used /\ rows[i].notified
<1>1. PICK n \in Ids \ Used :
           /\ DOMAIN rows' = Used \cup {n}
           /\ \A i \in Used : rows'[i] = rows[i]
           /\ ~rows'[n].notified
  BY InsertIs
<1> QED BY <1>1 DEF Grows

\* Whatever a call does, nothing is taken away.
LEMMA LogGrows ==
  ASSUME Types, NEW c \in Calls, LogStep(c)
  PROVE  Grows
<1>1. c \in Works /\ ProfileOf[c] \in Profiles
  BY WorksAssumption DEF Works
<1>2. UNCHANGED profiles /\ alerts \subseteq alerts' /\ operator \subseteq operator'
  BY DEF LogStep, Broken, InsertLinked, InsertRejected, InsertUnlinked, UnlinkedRejected, Lookup,
         ReadParent, StoreAlert, AlertBroken, mark_parent_notified, TellOperator
<1>3. CASE InsertLinked(c)
  BY <1>1, <1>2, <1>3, InsertGrows DEF InsertLinked
<1>4. CASE InsertUnlinked(c)
  BY <1>1, <1>2, <1>4, InsertGrows DEF InsertUnlinked
<1>5. CASE Marks({found[c]})
  BY <1>2, <1>5, MarksIs DEF Grows
<1>6. CASE UNCHANGED rows
  BY <1>2, <1>6 DEF Grows, Used
<1> QED BY <1>3, <1>4, <1>5, <1>6
        DEF LogStep, Broken, InsertRejected, UnlinkedRejected, Lookup, ReadParent, StoreAlert, AlertBroken,
            mark_parent_notified, Marks

\* Of the monitor, too.
LEMMA MonitorGrows ==
  ASSUME Types, NEW m \in Messages, Monitor(m) \/ FlagAll(m) \/ acknowledge_alert(m)
  PROVE  Grows /\ \A c \in Calls : pc'[c] = pc[c] /\ found'[c] = found[c]
<1>1. m \in Works /\ ProfileOf[m] \in Profiles /\ m \notin Calls /\ Calls \subseteq Works
  BY WorksAssumption DEF Works
<1>2. UNCHANGED <<profiles, alerts, operator, found>>
  BY DEF Monitor, FlagAll, acknowledge_alert
<1>3. \A c \in Calls : pc'[c] = pc[c]
  <2>1. \E s \in PCs : Goto(m, s)
    BY DEF Monitor, FlagAll, acknowledge_alert, PCs, Over, Active, Queued
  <2> QED BY <1>1, <2>1, GotoIs
<1>4. CASE Insert(m, ProfileOf[m])
  BY <1>1, <1>2, <1>3, <1>4, InsertGrows
<1>5. CASE Marks({i \in Used : rows[i].profile = ProfileOf[m]})
  BY <1>2, <1>3, <1>5, MarksIs DEF Grows
<1>6. CASE UNCHANGED rows
  BY <1>2, <1>3, <1>6 DEF Grows, Used
<1> QED BY <1>2, <1>3, <1>4, <1>5, <1>6 DEF Monitor, Recorded, FlagAll, acknowledge_alert, Marks

\* What is true of a call stays true while the tables grow.
LEMMA Bystander ==
  ASSUME Grows, NEW d \in Calls, Story(d), Heard(d),
         pc'[d] = pc[d], found'[d] = found[d]
  PROVE  Story(d)' /\ Heard(d)'
<1>1. Alerted(d) => Alerted(d)'
  BY DEF Grows, Alerted
<1>2. Heard(d)'
  BY <1>1 DEF Grows, Heard, MayFail
<1>3. Story(d)'
  BY <1>1 DEF Grows, Story, Used
<1> QED BY <1>2, <1>3

\* The call itself.
LEMMA OwnStep ==
  ASSUME Types, NEW c \in Calls, Story(c), Heard(c), LogStep(c)
  PROVE  Story(c)' /\ Heard(c)'
<1>1. c \in Works /\ ProfileOf[c] \in Profiles
  BY WorksAssumption DEF Works
<1>2. Grows
  BY LogGrows
<1>3. ASSUME NEW s \in PCs, Goto(c, s) PROVE pc'[c] = s
  BY <1>1, <1>3, GotoIs
<1>4. ASSUME pc'[c] = "operator", c \in operator' \/ ~Severe(c) PROVE Story(c)' /\ Heard(c)'
  BY <1>4 DEF Story, Heard
<1>5. CASE Broken(c) \/ InsertUnlinked(c) \/ UnlinkedRejected(c)
  <2>1. pc'[c] = "operator"
    BY <1>3, <1>5 DEF Broken, InsertUnlinked, UnlinkedRejected, PCs, Over
  <2>2. c \in operator' \/ ~Severe(c)
    BY <1>5 DEF Broken, InsertUnlinked, UnlinkedRejected, TellOperator
  <2> QED BY <1>4, <2>1, <2>2
<1>6. CASE InsertLinked(c)
  <2>1. pc'[c] = "lookup" /\ UNCHANGED found /\ pc[c] = "idle"
    BY <1>3, <1>6 DEF InsertLinked, PCs, Active
  <2>2. \E i \in DOMAIN rows' : rows'[i].by = c /\ rows'[i].profile = ProfileOf[c]
    <3>1. PICK n \in Ids \ Used :
               DOMAIN rows' = Used \cup {n} /\ rows'[n].by = c /\ rows'[n].profile = ProfileOf[c]
      BY <1>1, <1>6, InsertIs DEF InsertLinked
    <3> QED BY <3>1
  <2> QED BY <2>1, <2>2 DEF Story, Heard, Used, Over
<1>7. CASE InsertRejected(c)
  <2>1. pc'[c] = "unlinked" /\ UNCHANGED found /\ pc[c] = "idle"
    BY <1>3, <1>7 DEF InsertRejected, PCs, Active
  <2> QED BY <2>1 DEF Story, Heard, Over
<1>8. CASE Lookup(c)
  <2>1. CASE RowsOf(ProfileOf[c]) = {} /\ Goto(c, "lost")
    <3>1. pc'[c] = "lost"
      BY <1>3, <2>1 DEF PCs, Over
    <3>2. ProfileOf[c] \notin profiles'
      BY <1>2, <1>8, <2>1 DEF Lookup, Story, RowsOf, Grows
    <3> QED BY <3>1, <3>2 DEF Story, Heard
  <2>2. CASE ~(RowsOf(ProfileOf[c]) = {} /\ Goto(c, "lost"))
    <3>1. pc'[c] = IF Severe(c) THEN "parent" ELSE "done"
      BY <1>3, <1>8, <2>2 DEF Lookup, PCs, Active, Over
    <3>2. PICK i \in RowsOf(ProfileOf[c]) : found'[c] = i
      BY <1>8, <2>2 DEF Lookup, Types
    <3>3. found'[c] \in DOMAIN rows' /\ rows'[found'[c]].profile = ProfileOf[c]
      BY <1>2, <3>2 DEF Grows, RowsOf
    <3> QED BY <3>1, <3>3 DEF Story, Heard, Used, Over, Severe
  <2> QED BY <2>1, <2>2
<1>9. CASE ReadParent(c)
  <2>1. CASE ProfileOf[c] \in profiles
    <3>1. pc'[c] = "store" /\ UNCHANGED <<found, rows, profiles>> /\ pc[c] = "parent"
      BY <1>3, <1>9, <2>1 DEF ReadParent, PCs, Active
    <3> QED BY <3>1 DEF Story, Heard, Over, Used
  <2>2. CASE ProfileOf[c] \notin profiles
    <3>1. pc'[c] = "operator"
      BY <1>3, <1>9, <2>2 DEF ReadParent, PCs, Over
    <3> QED BY <1>4, <1>9, <2>2, <3>1 DEF ReadParent, TellOperator
  <2> QED BY <2>1, <2>2
<1>10. CASE StoreAlert(c)
  <2>1. CASE found[c] \in Used
    <3>1. pc'[c] = "mark" /\ UNCHANGED <<found, rows, profiles>> /\ pc[c] = "store"
      BY <1>3, <1>10, <2>1 DEF StoreAlert, PCs, Active
    <3>2. [by |-> c, id |-> found[c]] \in alerts'
      BY <1>10, <2>1 DEF StoreAlert
    <3>3. Alerted(c)' /\ \E a \in alerts' : a.id = found[c]
      BY <3>2 DEF Alerted
    <3> QED BY <3>1, <3>3 DEF Story, Heard, Over, Used
  <2>2. CASE found[c] \notin Used
    <3>1. pc'[c] = "untold" /\ UNCHANGED profiles /\ pc[c] = "store"
      BY <1>3, <1>10, <2>2 DEF StoreAlert, PCs, Over
    <3> QED BY <2>2, <3>1 DEF Story, Heard
  <2> QED BY <2>1, <2>2
<1>11. CASE AlertBroken(c)
  <2>1. pc'[c] = "untold" /\ MayFail(c)
    BY <1>3, <1>11 DEF AlertBroken, PCs, Over
  <2> QED BY <2>1 DEF Story, Heard, MayFail
<1>12. CASE mark_parent_notified(c)
  <2>1. pc'[c] = "done" /\ alerts' = alerts /\ pc[c] = "mark"
    BY <1>3, <1>12 DEF mark_parent_notified, PCs, Over
  <2> QED BY <2>1 DEF Story, Heard, Alerted
<1> QED BY <1>5, <1>6, <1>7, <1>8, <1>9, <1>10, <1>11, <1>12 DEF LogStep

------------------------------------------------------------------------------
\* Deletions and restarts.

\* A deletion that spares the rows of a call leaves its story as it was.
LEMMA Spared ==
  ASSUME Types, NEW d \in Calls, Story(d), Heard(d), NEW I, Delete(I), profiles' \subseteq profiles,
         UNCHANGED <<operator, pc, found>>,
         pc[d] = "lookup" /\ ProfileOf[d] \in profiles' =>
           \A i \in I \cap Used : ~(rows[i].by = d /\ rows[i].profile = ProfileOf[d]),
         pc[d] \in {"parent", "store", "mark"} /\ ProfileOf[d] \in profiles' => found[d] \notin I
  PROVE  Story(d)' /\ Heard(d)'
<1>1. /\ DOMAIN rows' = Used \ I
      /\ \A i \in Used \ I : rows'[i] = rows[i]
      /\ \A a \in alerts : \E b \in alerts' : b.by = a.by /\ (a.id \notin I => b.id = a.id)
  BY DeleteIs
<1>2. Alerted(d) => Alerted(d)'
  BY <1>1 DEF Alerted
<1>3. Heard(d)'
  BY <1>2 DEF Heard, MayFail
<1>4. ASSUME pc[d] = "lookup", ProfileOf[d] \in profiles'
      PROVE  \E i \in DOMAIN rows' : rows'[i].by = d /\ rows'[i].profile = ProfileOf[d]
  BY <1>1, <1>4 DEF Story
<1>5. ASSUME pc[d] \in {"parent", "store", "mark"}, ProfileOf[d] \in profiles'
      PROVE  found[d] \in DOMAIN rows' /\ rows'[found[d]].profile = ProfileOf[d]
  BY <1>1, <1>5 DEF Story
<1>6. ASSUME pc[d] = "mark", ProfileOf[d] \in profiles' PROVE \E b \in alerts' : b.id = found[d]
  BY <1>1, <1>6 DEF Story
<1>7. Story(d)'
  BY <1>2, <1>4, <1>5, <1>6 DEF Story, Used
<1> QED BY <1>3, <1>7

\* A deletion keeps the alerts linked to what is left.
LEMMA DeleteKeepsAlerts ==
  ASSUME Types, NEW I, Delete(I), profiles' \subseteq profiles, AlertIsAboutTheChild
  PROVE  AlertIsAboutTheChild'
<1> SUFFICES ASSUME NEW b \in alerts', b.id # 0
             PROVE  rows'[b.id].profile = ProfileOf[b.by] \/ ProfileOf[b.by] \notin profiles'
  BY DEF AlertIsAboutTheChild
<1>1. PICK a \in alerts : b.by = a.by /\ (b.id = 0 \/ (b.id = a.id /\ a.id \notin I))
  BY DeleteIs
<1>2. b.id \in Used \ I
  BY <1>1 DEF Types
<1>3. rows'[b.id] = rows[b.id]
  BY <1>2, DeleteIs
<1> QED BY <1>1, <1>3 DEF AlertIsAboutTheChild

\* A row that is left has what is behind its mark.
LEMMA DeleteKeepsMarks ==
  ASSUME Types, NEW I, Delete(I), profiles' \subseteq profiles, UNCHANGED <<pc, found>>, NotifiedIsTold
  PROVE  NotifiedIsTold'
<1> SUFFICES ASSUME NEW i \in DOMAIN rows', rows'[i].notified
             PROVE  \/ \E a \in alerts' : a.id = i
                    \/ \E m \in Messages : pc'[m] \in Queued /\ ProfileOf[m] = rows'[i].profile
                    \/ \E c \in Calls : found'[c] = i /\ ProfileOf[c] \notin profiles'
  BY DEF NotifiedIsTold, Used
<1>1. i \in Used \ I /\ rows'[i] = rows[i]
  BY DeleteIs
<1>2. \A a \in alerts : \E b \in alerts' : b.by = a.by /\ (a.id \notin I => b.id = a.id)
  BY DeleteIs
<1>3. (\E a \in alerts : a.id = i) => \E b \in alerts' : b.id = i
  BY <1>1, <1>2
<1> QED BY <1>1, <1>3 DEF NotifiedIsTold

\* Retention waits for the calls; erasure concerns the calls about the child.
LEMMA DeletionStep ==
  ASSUME IInv, (\E i \in Ids : Purge(i)) \/ (\E p \in Profiles : Erase(p))
  PROVE  /\ \A c \in Calls : Story(c)' /\ Heard(c)'
         /\ AlertIsAboutTheChild' /\ NotifiedIsTold'
<1> USE DEF IInv
<1>1. ASSUME NEW i \in Ids, Purge(i)
      PROVE  (\A c \in Calls : Story(c)' /\ Heard(c)') /\ AlertIsAboutTheChild' /\ NotifiedIsTold'
  <2>1. Delete({i}) /\ profiles' \subseteq profiles /\ UNCHANGED <<operator, pc, found>>
    BY <1>1 DEF Purge
  <2>2. ASSUME NEW d \in Calls PROVE Story(d)' /\ Heard(d)'
    <3>1. pc[d] \in {"lookup", "parent", "store", "mark"} => found[d] # i /\ rows[i].by # d
      BY <1>1 DEF Purge, Active
    <3>2. /\ pc[d] = "lookup" => \A j \in {i} \cap Used : rows[j].by # d
          /\ pc[d] \in {"parent", "store", "mark"} => found[d] \notin {i}
      BY <3>1
    <3> QED BY <2>1, <3>2, Spared
  <2> QED BY <2>1, <2>2, DeleteKeepsAlerts, DeleteKeepsMarks
<1>2. ASSUME NEW p \in Profiles, Erase(p)
      PROVE  (\A c \in Calls : Story(c)' /\ Heard(c)') /\ AlertIsAboutTheChild' /\ NotifiedIsTold'
  <2>1. Delete(RowsOf(p)) /\ profiles' = profiles \ {p} /\ UNCHANGED <<operator, pc, found>>
    BY <1>2 DEF Erase
  <2>2. ASSUME NEW d \in Calls PROVE Story(d)' /\ Heard(d)'
    <3>1. ASSUME ProfileOf[d] \in profiles'
          PROVE  /\ \A i \in RowsOf(p) \cap Used : ~(rows[i].by = d /\ rows[i].profile = ProfileOf[d])
                 /\ pc[d] \in {"parent", "store", "mark"} => found[d] \notin RowsOf(p)
      BY <2>1, <3>1 DEF Story, RowsOf
    <3> QED BY <2>1, <3>1, Spared
  <2> QED BY <2>1, <2>2, DeleteKeepsAlerts, DeleteKeepsMarks
<1> QED BY <1>1, <1>2

\* A worker that restarts leaves its calls crashed and its queued alerts forgotten; the
\* database is as it was.
LEMMA RestartStep ==
  ASSUME IInv, NEW w \in Workers, Restart(w)
  PROVE  /\ \A c \in Calls : Story(c)' /\ Heard(c)'
         /\ AlertIsAboutTheChild' /\ NotifiedIsTold'
<1> USE DEF IInv
<1>1. UNCHANGED <<profiles, rows, alerts, operator, found>> /\ Grows
  BY DEF Restart, Grows, Used
<1>2. Calls \subseteq Works /\ Messages \subseteq Works
  BY DEF Works
<1>3. \A x \in Works : pc'[x] = pc[x] \/ (pc[x] \in Active /\ pc'[x] = "crashed")
                       \/ (pc[x] = "told" /\ pc'[x] = "forgotten")
  BY DEF Restart
<1>4. ASSUME NEW c \in Calls PROVE Story(c)' /\ Heard(c)'
  <2>1. CASE pc'[c] = pc[c]
    BY <1>1, <2>1, Bystander
  <2>2. CASE pc'[c] \in {"crashed", "forgotten"}
    BY <2>2 DEF Story, Heard, Over
  <2> QED BY <1>2, <1>3, <2>1, <2>2
<1>5. AlertIsAboutTheChild'
  BY <1>1 DEF AlertIsAboutTheChild
<1>6. \A m \in Messages : pc[m] \in Queued => pc'[m] \in Queued
  BY <1>2, <1>3 DEF Queued, Active
<1>7. NotifiedIsTold'
  BY <1>1, <1>6 DEF NotifiedIsTold, Used
<1> QED BY <1>4, <1>5, <1>7

------------------------------------------------------------------------------
\* The steps of calls and messages.

\* A step of a call.
LEMMA LogPreserves ==
  ASSUME IInv, NEW c \in Calls, LogStep(c)
  PROVE  /\ \A d \in Calls : Story(d)' /\ Heard(d)'
         /\ AlertIsAboutTheChild' /\ NotifiedIsTold'
<1> USE DEF IInv
<1>1. c \in Works /\ ProfileOf[c] \in Profiles /\ Calls \subseteq Works /\ c \notin Messages
  BY WorksAssumption DEF Works
<1>2. Grows
  BY LogGrows
<1>3. \A x \in Works : x # c => pc'[x] = pc[x]
  <2>1. \E s \in PCs : Goto(c, s)
    BY DEF LogStep, Broken, InsertLinked, InsertRejected, InsertUnlinked, UnlinkedRejected, Lookup,
           ReadParent, StoreAlert, AlertBroken, mark_parent_notified, PCs, Active, Over
  <2> QED BY <1>1, <2>1, GotoIs
<1>4. \A d \in Calls : d # c \/ pc[c] # "lookup" => found'[d] = found[d]
  BY DEF Types, LogStep, Broken, InsertLinked, InsertRejected, InsertUnlinked, UnlinkedRejected, Lookup,
         ReadParent, StoreAlert, AlertBroken, mark_parent_notified
<1>5. ASSUME NEW d \in Calls PROVE Story(d)' /\ Heard(d)'
  <2>1. CASE d = c
    BY <2>1, OwnStep
  <2>2. CASE d # c
    BY <1>1, <1>2, <1>3, <1>4, <2>2, Bystander
  <2> QED BY <2>1, <2>2
<1>6. AlertIsAboutTheChild'
  <2> SUFFICES ASSUME NEW a \in alerts', a.id # 0
               PROVE  rows'[a.id].profile = ProfileOf[a.by] \/ ProfileOf[a.by] \notin profiles'
    BY DEF AlertIsAboutTheChild
  <2>1. CASE a \in alerts
    BY <1>2, <2>1 DEF AlertIsAboutTheChild, Grows, Types
  <2>2. CASE a \notin alerts
    <3>1. StoreAlert(c) /\ a = [by |-> c, id |-> found[c]]
      BY <2>2 DEF LogStep, Broken, InsertLinked, InsertRejected, InsertUnlinked, UnlinkedRejected, Lookup,
             ReadParent, StoreAlert, AlertBroken, mark_parent_notified
    <3>2. a.by = c /\ a.id = found[c] /\ pc[c] = "store"
      BY <3>1 DEF StoreAlert
    <3>3. Story(c)
      OBVIOUS
    <3> QED BY <1>2, <3>2, <3>3 DEF Story, Grows
  <2> QED BY <2>1, <2>2
<1>7. NotifiedIsTold'
  <2> SUFFICES ASSUME NEW i \in DOMAIN rows', rows'[i].notified
               PROVE  \/ \E a \in alerts' : a.id = i
                      \/ \E m \in Messages : pc'[m] \in Queued /\ ProfileOf[m] = rows'[i].profile
                      \/ \E d \in Calls : found'[d] = i /\ ProfileOf[d] \notin profiles'
    BY DEF NotifiedIsTold, Used
  <2>1. \A m \in Messages : pc'[m] = pc[m]
    BY <1>1, <1>3 DEF Works
  <2>2. CASE i \in Used /\ rows[i].notified
    <3>1. i # 0
      BY <2>2, MaxIdAssumption DEF Types, Ids
    <3>2. \A d \in Calls : found[d] = i => found'[d] = i
      BY <1>4, <3>1 DEF Story
    <3> QED BY <1>2, <2>1, <2>2, <3>2 DEF NotifiedIsTold, Grows
  <2>3. CASE ~(i \in Used /\ rows[i].notified)
    <3>1. ~InsertLinked(c) /\ ~InsertUnlinked(c)
      <4>1. ~\E p \in Profiles \cup {"none"} : Insert(c, p) /\ UNCHANGED <<profiles, alerts>> /\ operator \subseteq operator'
        BY <1>1, <2>3, InsertGrows
      <4> QED BY <1>1, <4>1 DEF InsertLinked, InsertUnlinked, TellOperator
    <3>2. mark_parent_notified(c) /\ Marks({found[c]})
      BY <2>3, <3>1 DEF LogStep, Broken, InsertRejected, UnlinkedRejected, Lookup,
             ReadParent, StoreAlert, AlertBroken, mark_parent_notified, Used, Marks
    <3>3. i = found[c] /\ pc[c] = "mark" /\ UNCHANGED <<profiles, alerts, found>>
      BY <2>3, <3>2, MarksIs DEF mark_parent_notified
    <3>4. Story(c)
      OBVIOUS
    <3> QED BY <3>3, <3>4 DEF Story
  <2> QED BY <2>2, <2>3
<1> QED BY <1>5, <1>6, <1>7

\* A step of the monitor.
LEMMA MonitorPreserves ==
  ASSUME IInv, NEW m \in Messages, Monitor(m) \/ FlagAll(m) \/ acknowledge_alert(m)
  PROVE  /\ \A d \in Calls : Story(d)' /\ Heard(d)'
         /\ AlertIsAboutTheChild' /\ NotifiedIsTold'
<1> USE DEF IInv
<1>1. Grows /\ (\A d \in Calls : pc'[d] = pc[d] /\ found'[d] = found[d])
  BY MonitorGrows
<1>2. UNCHANGED <<profiles, alerts, found>>
  BY DEF Monitor, FlagAll, acknowledge_alert
<1>3. \A d \in Calls : Story(d)' /\ Heard(d)'
  BY <1>1, Bystander
<1>4. AlertIsAboutTheChild'
  BY <1>1, <1>2 DEF AlertIsAboutTheChild, Grows, Types
<1>5. m \in Works /\ ProfileOf[m] \in Profiles /\ Messages \subseteq Works
  BY WorksAssumption DEF Works
<1>6. \A x \in Messages : pc[x] \in Queued => pc'[x] \in Queued
  <2>1. \E s \in PCs : Goto(m, s) /\ (pc[m] \in Queued => s \in Queued)
    BY DEF Monitor, FlagAll, acknowledge_alert, PCs, Active, Over, Queued
  <2> QED BY <1>5, <2>1, GotoIs
<1>7. NotifiedIsTold'
  <2> SUFFICES ASSUME NEW i \in DOMAIN rows', rows'[i].notified
               PROVE  \/ \E a \in alerts' : a.id = i
                      \/ \E x \in Messages : pc'[x] \in Queued /\ ProfileOf[x] = rows'[i].profile
                      \/ \E d \in Calls : found'[d] = i /\ ProfileOf[d] \notin profiles'
    BY DEF NotifiedIsTold, Used
  <2>1. CASE i \in Used /\ rows[i].notified
    BY <1>1, <1>2, <1>6, <2>1 DEF NotifiedIsTold, Grows
  <2>2. CASE ~(i \in Used /\ rows[i].notified)
    <3>1. ~Insert(m, ProfileOf[m]) \/ ~UNCHANGED <<profiles, alerts, operator>>
      BY <1>5, <2>2, InsertGrows
    <3>2. FlagAll(m) /\ Marks({j \in Used : rows[j].profile = ProfileOf[m]})
      BY <2>2, <3>1 DEF Monitor, Recorded, FlagAll, acknowledge_alert, Used, Marks
    <3>3. rows'[i].profile = ProfileOf[m]
      BY <2>2, <3>2, MarksIs
    <3>4. pc'[m] \in Queued
      BY <1>5, <3>2, GotoIs DEF FlagAll, PCs, Queued
    <3> QED BY <3>3, <3>4
  <2> QED BY <2>1, <2>2
<1> QED BY <1>3, <1>4, <1>7

------------------------------------------------------------------------------
\* Nothing recorded, nobody told.
LEMMA InitIInv == Init => IInv
<1> SUFFICES ASSUME Init PROVE IInv
  OBVIOUS
<1>1. Types /\ RowsInserted
  BY DEF Init, Types, RowsInserted, Used
<1>2. \A c \in Calls : Story(c) /\ Heard(c)
  BY DEF Init, Story, Heard, Over, Works
<1>3. AlertIsAboutTheChild /\ NotifiedIsTold
  BY DEF Init, AlertIsAboutTheChild, NotifiedIsTold, Used
<1> QED BY <1>1, <1>2, <1>3 DEF IInv

\* Every step keeps the invariant.
LEMMA NextIInv == IInv /\ [Next]_vars => IInv'
<1> SUFFICES ASSUME IInv, [Next]_vars PROVE IInv'
  OBVIOUS
<1> DEFINE Kept == (\A c \in Calls : Story(c)' /\ Heard(c)') /\ AlertIsAboutTheChild' /\ NotifiedIsTold'
<1>1. Types' /\ RowsInserted'
  BY TypeStep, RowsStep DEF IInv
<1>2. ASSUME UNCHANGED vars PROVE Kept
  BY <1>2 DEF IInv, vars, Story, Heard, Alerted, MayFail, AlertIsAboutTheChild, NotifiedIsTold, Used
<1>3. ASSUME NEW c \in Calls, LogStep(c) PROVE Kept
  BY <1>3, LogPreserves
<1>4. ASSUME NEW m \in Messages, Monitor(m) \/ FlagAll(m) \/ acknowledge_alert(m) PROVE Kept
  BY <1>4, MonitorPreserves
<1>5. ASSUME NEW w \in Workers, Restart(w) PROVE Kept
  BY <1>5, RestartStep
<1>6. ASSUME NEW w \in Workers, NEW p \in Profiles, stop_monitoring(w, p) PROVE Kept
  BY <1>6 DEF stop_monitoring, IInv, Story, Heard, Alerted, MayFail, AlertIsAboutTheChild, NotifiedIsTold, Used
<1>7. ASSUME (\E i \in Ids : Purge(i)) \/ (\E p \in Profiles : Erase(p)) PROVE Kept
  BY <1>7, DeletionStep
<1>8. Kept
  <2> HIDE DEF Kept
  <2> QED BY <1>2, <1>3, <1>4, <1>5, <1>6, <1>7 DEF Next
<1> QED BY <1>1, <1>8 DEF IInv

\* The invariant holds of the specification.
THEOREM Invariance == Spec => []IInv
<1> USE InitIInv, NextIInv
<1> QED BY PTL DEF Spec

\* The types, for any number of workers, calls and messages: the links of alerts lead to
\* rows, and no row is on record for a call or message that has not reached its insert.
THEOREM TypeCorrect == Spec => []TypeOK
<1>1. IInv => TypeOK
  BY DEF IInv, Types, TypeOK
<1> QED BY <1>1, Invariance, PTL

\* A severe incident whose call ran to its end was told to a parent or the operator, the
\* erased profile and the alert that could not be stored apart.
THEOREM SevereTold == Spec => []SevereNeverSilent
<1>1. IInv => SevereNeverSilent
  BY DEF IInv, SevereNeverSilent, Heard
<1> QED BY <1>1, Invariance, PTL

\* An alert is linked to an incident of the child it is about, however calls interleave
\* between the insert and the lookup of the newest row.
THEOREM AlertsAboutTheChild == Spec => []AlertIsAboutTheChild
<1>1. IInv => AlertIsAboutTheChild
  BY DEF IInv
<1> QED BY <1>1, Invariance, PTL

\* A row marked as notified has an alert behind it.
THEOREM NotifiedTold == Spec => []NotifiedIsTold
<1>1. IInv => NotifiedIsTold
  BY DEF IInv
<1> QED BY <1>1, Invariance, PTL
=============================================================================
