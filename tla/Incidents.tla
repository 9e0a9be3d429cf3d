------------------------------ MODULE Incidents ------------------------------
(***************************************************************************)
(* Recording a safety incident and telling an adult about it               *)
(* (safety/incident_logger, safety/safety_monitor.py).                     *)
(*                                                                         *)
(* Workers share one database; every statement commits by itself, so the   *)
(* steps of one call interleave with other workers' calls, with erasure of *)
(* a profile and with retention.  A call is one run of log_incident with   *)
(* send_alert; a message is one run of monitor_message that found          *)
(* something.  The monitor's counts, its alert_sent flags and its pending  *)
(* alerts are memory of the worker.                                        *)
(*                                                                         *)
(* Left out: wording, encryption, the websocket copy of an incident, the   *)
(* e-mail (best effort, after the alert row), the pattern detectors, whose *)
(* finding is a message of its own, and the item the monitor puts on its   *)
(* list for each unsafe message beside this alert: it marks no row.        *)
(***************************************************************************)
EXTENDS Integers, FiniteSets

CONSTANTS
  Workers, Profiles,
  Calls,       \* calls of log_incident
  Messages,    \* messages the monitor finds unsafe
  Home,        \* the worker of a call or message
  ProfileOf,   \* the profile it is about
  SeverityOf,  \* its severity
  WithSession, \* calls that name a session, which may be deleted meanwhile
  Threshold,   \* ALERT_THRESHOLD_*: incidents of a severity that alert
  MaxId,       \* bound on incident ids
  Failing,     \* calls and messages whose statements may fail
  Restarts,    \* workers that may restart
  Erasable     \* profiles that may be erased

Severities == {"minor", "major", "critical"}
Works      == Calls \cup Messages

ASSUME WorksAssumption ==
  /\ Calls \cap Messages = {}
  /\ Home \in [Works -> Workers]
  /\ ProfileOf \in [Works -> Profiles]
  /\ SeverityOf \in [Works -> Severities]
  /\ WithSession \subseteq Calls
ASSUME ThresholdAssumption == Threshold \in [Severities -> Nat \ {0}]
ASSUME MaxIdAssumption     == MaxId \in Nat
ASSUME FaultsAssumption    ==
  Failing \subseteq Works /\ Restarts \subseteq Workers /\ Erasable \subseteq Profiles
ASSUME NoneAssumption      == "none" \notin Profiles

VARIABLES
  profiles,  \* child_profiles
  rows,      \* safety_incidents by id
  alerts,    \* parent_alerts: who made it and the id it is related to, 0 for NULL
  operator,  \* calls whose incident the operator was told of
  pc,        \* where a call or a message is
  found,     \* the incident id a call looked up
  count,     \* the monitor's counts, by worker, profile and severity
  sent       \* alert_sent: worker and profile

vars == <<profiles, rows, alerts, operator, pc, found, count, sent>>

Ids      == 1..MaxId
Used     == DOMAIN rows
\* SQLite's next rowid, one above the newest: ids of deleted newest rows are used again.
IsNextId(i) == i \in Ids /\ (\A j \in Used : j < i) /\ i - 1 \in Used \cup {0}
IsNewest(i, I) == i \in I /\ \A j \in I : j <= i
Row(w, p) == [by |-> w, profile |-> p, severity |-> SeverityOf[w],
              notified |-> FALSE]
RowSet   == [by : Works, profile : Profiles \cup {"none"}, severity : Severities,
             notified : BOOLEAN]
Severe(w) == SeverityOf[w] \in {"major", "critical"}
RowsOf(p) == {i \in Used : rows[i].profile = p}
Active == {"unlinked", "lookup", "parent", "store", "mark", "flag"}
\* A call that is over: "done" with an alert or without need of one, "operator" told
\* the operator, "lost" found no row, "untold" failed to store the alert.
Over   == {"done", "operator", "lost", "untold", "crashed"}
\* An alert the monitor queued: waiting for the parent, acknowledged, gone with its worker.
Queued == {"told", "seen", "forgotten"}

\* A statement of w may fail with a database error.
MayFail(w) == w \in Failing

monitor == <<count, sent>>

Goto(w, s)   == pc' = [pc EXCEPT ![w] = s]
Insert(w, p) ==
  \E n \in Ids : IsNextId(n) /\ rows' = [i \in Used \cup {n} |-> IF i = n THEN Row(w, p) ELSE rows[i]]
\* Mutant: the alerts keep the id of a deleted incident.
DeleteKeepsLinks(I) ==
  /\ rows' = [i \in Used \ I |-> rows[i]]
  /\ UNCHANGED alerts

\* Deleting an incident sets the links of its alerts to NULL.
Delete(I) ==
  /\ rows' = [i \in Used \ I |-> rows[i]]
  /\ alerts' = {[a EXCEPT !.id = IF @ \in I THEN 0 ELSE @] : a \in alerts}

Init ==
  /\ profiles = Profiles
  /\ rows = [i \in {} |-> 0]
  /\ alerts = {} /\ operator = {} /\ sent = {}
  /\ pc = [w \in Works |-> "idle"]
  /\ found = [c \in Calls |-> 0]
  /\ count = [w \in Workers |-> [p \in Profiles |-> [s \in Severities |-> 0]]]

------------------------------------------------------------------------------
\* log_incident

\* DB_ERRORS anywhere in log_incident: the operator hears of a severe incident.
TellOperator(c) == operator' = operator \cup (IF Severe(c) THEN {c} ELSE {})

Broken(c) ==
  /\ MayFail(c) /\ pc[c] \in {"idle", "unlinked", "lookup"}
  /\ TellOperator(c) /\ Goto(c, "operator")
  /\ UNCHANGED <<profiles, rows, alerts, found, monitor>>

InsertLinked(c) ==
  /\ pc[c] = "idle" /\ ProfileOf[c] \in profiles
  /\ Insert(c, ProfileOf[c]) /\ Goto(c, "lookup")
  /\ UNCHANGED <<profiles, alerts, operator, found, monitor>>

\* The profile is unknown to the database.
InsertRejected(c) ==
  /\ pc[c] = "idle" /\ ProfileOf[c] \notin profiles
  /\ Goto(c, "unlinked")
  /\ UNCHANGED <<profiles, rows, alerts, operator, found, monitor>>

\* Mutant: an unlinked row is taken for a recorded incident and nobody is told.
InsertUnlinkedQuiet(c) ==
  /\ pc[c] = "unlinked"
  /\ Insert(c, "none") /\ Goto(c, "operator")
  /\ UNCHANGED <<profiles, alerts, operator, found, monitor>>

\* The row that is kept without a profile, so that a crisis is not dropped.
InsertUnlinked(c) ==
  /\ pc[c] = "unlinked"
  /\ Insert(c, "none") /\ TellOperator(c) /\ Goto(c, "operator")
  /\ UNCHANGED <<profiles, alerts, found, monitor>>

\* The session is gone, with the profile or by cleanup_sessions: its id goes into both
\* inserts, so a row without a profile is rejected too, and that is a database error.
UnlinkedRejected(c) ==
  /\ pc[c] \in {"idle", "unlinked"} /\ c \in WithSession
  /\ TellOperator(c) /\ Goto(c, "operator")
  /\ UNCHANGED <<profiles, rows, alerts, found, monitor>>

\* Mutant: the newest row of the table.
LookupNewest(c) ==
  /\ pc[c] = "lookup"
  /\ \E i \in Used : IsNewest(i, Used) /\ found' = [found EXCEPT ![c] = i]
  /\ Goto(c, IF Severe(c) THEN "parent" ELSE "done")
  /\ UNCHANGED <<profiles, rows, alerts, operator, monitor>>

\* The newest row of the profile is taken for the row of this call.
Lookup(c) ==
  /\ pc[c] = "lookup"
  /\ \/ RowsOf(ProfileOf[c]) = {} /\ Goto(c, "lost") /\ UNCHANGED found
     \/ /\ \E i \in RowsOf(ProfileOf[c]) :
             IsNewest(i, RowsOf(ProfileOf[c])) /\ found' = [found EXCEPT ![c] = i]
        /\ Goto(c, IF Severe(c) THEN "parent" ELSE "done")
  /\ UNCHANGED <<profiles, rows, alerts, operator, monitor>>

\* _send_parent_alert: no profile, no parent.
ReadParent(c) ==
  /\ pc[c] = "parent"
  /\ IF ProfileOf[c] \in profiles
     THEN Goto(c, "store") /\ UNCHANGED operator
     ELSE TellOperator(c) /\ Goto(c, "operator")
  /\ UNCHANGED <<profiles, rows, alerts, found, monitor>>

StoreAlert(c) ==
  /\ pc[c] = "store"
  /\ IF found[c] \in Used
     THEN alerts' = alerts \cup {[by |-> c, id |-> found[c]]} /\ Goto(c, "mark")
     ELSE UNCHANGED alerts /\ Goto(c, "untold")
  /\ UNCHANGED <<profiles, rows, operator, found, monitor>>

\* _send_parent_alert swallows its database errors.
AlertBroken(c) ==
  /\ MayFail(c) /\ pc[c] \in {"parent", "store"}
  /\ Goto(c, "untold")
  /\ UNCHANGED <<profiles, rows, alerts, operator, found, monitor>>

mark_parent_notified(c) ==
  /\ pc[c] = "mark" /\ Goto(c, "done")
  /\ \/ rows' = [i \in Used |-> IF i = found[c] THEN [rows[i] EXCEPT !.notified = TRUE]
                                              ELSE rows[i]]
     \/ MayFail(c) /\ UNCHANGED rows
  /\ UNCHANGED <<profiles, alerts, operator, found, monitor>>

------------------------------------------------------------------------------
\* monitor_message, on the worker's only loop

\* should_alert_parent over counts k.
should_alert_parent(k) == \E s \in Severities : k[s] >= Threshold[s]

Alerts(w, p, k) == should_alert_parent(k) /\ <<w, p>> \notin sent

\* _record_incident: an insert that fails is logged and forgotten.
Recorded(m) ==
  \/ ProfileOf[m] \in profiles /\ Insert(m, ProfileOf[m])
  \/ (ProfileOf[m] \notin profiles \/ MayFail(m)) /\ UNCHANGED rows

\* The count goes up whatever becomes of the row; then the alert is queued.
Monitor(m) ==
  LET w == Home[m]  p == ProfileOf[m]
      k == [count[w][p] EXCEPT ![SeverityOf[m]] = @ + 1] IN
  /\ pc[m] = "idle" /\ \A x \in Messages : Home[x] = w => pc[x] # "flag"
  /\ count' = [count EXCEPT ![w][p] = k]
  /\ Recorded(m)
  /\ IF Alerts(w, p, k)
     THEN sent' = sent \cup {<<w, p>>} /\ Goto(m, "flag")
     ELSE Goto(m, "done") /\ UNCHANGED sent
  /\ UNCHANGED <<profiles, alerts, operator, found>>

\* Mutant: the rows of every profile.
FlagEverybody(m) ==
  /\ pc[m] = "flag" /\ Goto(m, "told")
  /\ rows' = [i \in Used |-> [rows[i] EXCEPT !.notified = TRUE]]
  /\ UNCHANGED <<profiles, alerts, operator, found, monitor>>

\* _create_parent_alert marks every row of the profile that is not marked yet.
FlagAll(m) ==
  /\ pc[m] = "flag" /\ Goto(m, "told")
  /\ \/ rows' = [i \in Used |-> IF rows[i].profile = ProfileOf[m]
                                THEN [rows[i] EXCEPT !.notified = TRUE] ELSE rows[i]]
     \/ MayFail(m) /\ UNCHANGED rows
  /\ UNCHANGED <<profiles, alerts, operator, found, monitor>>

acknowledge_alert(m) ==
  /\ pc[m] = "told" /\ Goto(m, "seen")
  /\ UNCHANGED <<profiles, rows, alerts, operator, found, monitor>>

stop_monitoring(w, p) ==
  /\ \A m \in Messages : Home[m] = w => pc[m] # "flag"
  /\ count[w][p] # [s \in Severities |-> 0]
  /\ count' = [count EXCEPT ![w][p] = [s \in Severities |-> 0]]
  /\ sent' = sent \ {<<w, p>>}
  /\ UNCHANGED <<profiles, rows, alerts, operator, pc, found>>

------------------------------------------------------------------------------
\* Parents, retention, erasure, restarts

\* cleanup_safety_incidents and cleanup_old_incidents delete rows a parent resolved, which
\* nothing else looks at.  They are 90 days behind: no call about the row still runs.
Purge(i) ==
  /\ i \in Used /\ \A c \in Calls : pc[c] \in Active => found[c] # i /\ rows[i].by # c
  /\ Delete({i})
  /\ UNCHANGED <<profiles, operator, pc, found, monitor>>

\* delete_profile_permanently: the incidents of the profile go with it.
Erase(p) ==
  /\ p \in Erasable \cap profiles
  /\ profiles' = profiles \ {p}
  /\ Delete(RowsOf(p))
  /\ UNCHANGED <<operator, pc, found, monitor>>

\* A worker restarts: its calls end where they are and its memory is gone.
Restart(w) ==
  /\ w \in Restarts
  /\ \E x \in Works : Home[x] = w /\ pc[x] \in Active \cup {"told"}
  /\ pc' = [x \in Works |->
              IF Home[x] # w THEN pc[x]
              ELSE IF pc[x] \in Active THEN "crashed"
              ELSE IF pc[x] = "told" THEN "forgotten" ELSE pc[x]]
  /\ count' = [count EXCEPT ![w] = [p \in Profiles |-> [s \in Severities |-> 0]]]
  /\ sent' = {x \in sent : x[1] # w}
  /\ UNCHANGED <<profiles, rows, alerts, operator, found>>

------------------------------------------------------------------------------
LogStep(c) ==
  \/ Broken(c) \/ InsertLinked(c) \/ InsertRejected(c) \/ InsertUnlinked(c)
  \/ UnlinkedRejected(c) \/ Lookup(c) \/ ReadParent(c) \/ StoreAlert(c) \/ AlertBroken(c)
  \/ mark_parent_notified(c)

Next ==
  \/ \E c \in Calls : LogStep(c)
  \/ \E m \in Messages : Monitor(m) \/ FlagAll(m) \/ acknowledge_alert(m)
  \/ \E w \in Workers : Restart(w) \/ \E p \in Profiles : stop_monitoring(w, p)
  \/ \E i \in Ids : Purge(i)
  \/ \E p \in Profiles : Erase(p)

Spec == Init /\ [][Next]_vars

------------------------------------------------------------------------------
\* A row is that of a call or message that has got to its insert, or past it.
RowsInserted == \A i \in Used : pc[rows[i].by] \notin {"idle", "unlinked"}

\* Types of the state; no row is on record for a call or message that has not written one.
TypeOK ==
  /\ profiles \subseteq Profiles
  /\ Used \subseteq Ids /\ \A i \in Used : rows[i] \in RowSet
  /\ alerts \subseteq [by : Calls, id : Used \cup {0}]
  /\ operator \subseteq Calls
  /\ pc \in [Works -> {"idle"} \cup Active \cup Over \cup Queued]
  /\ found \in [Calls -> Ids \cup {0}]
  /\ count \in [Workers -> [Profiles -> [Severities -> Nat]]]
  /\ sent \subseteq Workers \X Profiles
  /\ RowsInserted

Alerted(c) == \E a \in alerts : a.by = c

\* "A crisis must never be dropped": a severe incident whose call ran to its end was told
\* to a parent or to the operator.  The exceptions are the two the code has: the profile
\* was erased while the call was running, or the alert could not be stored, which
\* _send_parent_alert keeps to itself.
SevereNeverSilent ==
  \A c \in Calls : Severe(c) /\ pc[c] \in Over \ {"crashed"} =>
    \/ Alerted(c) \/ c \in operator
    \/ pc[c] = "lost" /\ ProfileOf[c] \notin profiles
    \/ pc[c] = "untold" /\ (MayFail(c) \/ ProfileOf[c] \notin profiles)

\* An alert in a parent's inbox is linked to an incident of the child it is about, whoever
\* else logs incidents meanwhile; only erasure, which frees ids for reuse, can break the link.
AlertIsAboutTheChild ==
  \A a \in alerts : a.id # 0 =>
    rows[a.id].profile = ProfileOf[a.by] \/ ProfileOf[a.by] \notin profiles

\* A row shown as parent-notified has an alert behind it: its own, one queued by the
\* monitor for the profile, or that of a call whose looked-up row was erased and whose
\* id went to this one.
NotifiedIsTold ==
  \A i \in Used : rows[i].notified =>
    \/ \E a \in alerts : a.id = i
    \/ \E m \in Messages : pc[m] \in Queued /\ ProfileOf[m] = rows[i].profile
    \/ \E c \in Calls : found[c] = i /\ ProfileOf[c] \notin profiles
=============================================================================
