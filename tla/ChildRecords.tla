---------------------------- MODULE ChildRecords ----------------------------
(***************************************************************************)
(* What the database keeps about the children, and who writes and deletes  *)
(* it: the native chat route (api/routes/chat.py) with the session manager *)
(* and the conversation store, the creation, the roster import and the     *)
(* editing of profiles, parental consent (api/routes/parental_consent.py   *)
(* and core/age_verification.py), the retention jobs and the erasures.     *)
(*                                                                         *)
(* Every worker of the server handles one turn, end or click at a time up  *)
(* to an await, and shares the database with the other workers and with    *)
(* the jobs: a step is one SQL statement, or several nobody can tell       *)
(* apart.  A row is named for the request that wrote it, and is its        *)
(* child's: a session is of the child whose turn created it, a             *)
(* conversation of the child whose turn opened it.  Days are the unit of   *)
(* every period here, and no request or task spans two.                    *)
(*                                                                         *)
(* Left out: authorization, whose result is chosen, the incidents of the   *)
(* turn (Incidents), its checks (SafetyPipeline), statistics, tables that  *)
(* only cascade with the profile, and the task delete_user_data, which     *)
(* fails on either database before it marks or deletes anything.           *)
(***************************************************************************)
EXTENDS Integers, FiniteSets

CONSTANTS
  Children,
  Imported,    \* those a school's roster brings in; the others are created one by one
  AgeEdits,      \* bound: those whose age somebody edits
  Workers,
  NumTurns,
  Verifies,    \* clicks on the link of a consent mail
  Ends,        \* requests to end a session
  ChildOf,     \* the child a turn or a click is about
  ByAdmin,     \* turns an administrator takes in a child's profile
  MaxPerDay,   \* sessions a day
  Keep,        \* days a conversation, a message or an ended session is kept
  MaxDay       \* bound

Turns    == 1..NumTurns
Requests == Turns \cup Verifies \cup Ends
Never    == -1

ASSUME RequestsAssumption == NumTurns \in Nat /\ Turns \cap Verifies = {} /\ Turns \cap Ends = {} /\ Verifies \cap Ends = {}
ASSUME ChildrenAssumption == ChildOf \in [Turns \cup Verifies -> Children] /\ Imported \cup AgeEdits \subseteq Children
ASSUME WorkersAssumption  == IsFiniteSet(Workers) /\ Workers # {} /\ "none" \notin Workers
ASSUME PeriodsAssumption  == {MaxPerDay, Keep, MaxDay} \subseteq Nat

VARIABLES
  today,
  \* the database, by child
  child,          \* the row of child_profiles: "absent", "present" or "erased"
  under13,        \* its age
  verified,       \* its coppa_verified
  consents,       \* the children with a row in parental_consent_log
  token,          \* the token in the consent mail: "none", "valid" or "spent"
  sessions, conversations, messages,
  \* the processes
  making,         \* where the request that creates or imports a profile is
  purge,          \* the cutoff of a cleanup_conversations in progress
  pc,             \* where each request is
  at,             \* the worker that handles it
  sess, conv,     \* the session and the conversation a turn, or an end, holds
  answered,       \* turns whose reply is there
  \* history variables
  unnoted,        \* messages inserted, whose conversation is not yet marked as updated
  lapsed,         \* children an update of whose consent status failed
  unlogged,       \* imported children whose consent could not be logged
  edited,         \* children whose age was edited
  crossed         \* turns that took a session of another child

profile == <<child, under13, making, edited>>
consent == <<verified, consents, token, lapsed, unlogged>>
talk    == <<sessions, conversations, messages, unnoted>>
held    == <<sess, conv, answered, crossed>>
server  == <<pc, at, held>>
vars    == <<today, profile, consent, talk, purge, server>>

Init ==
  /\ today = 0
  /\ child = [c \in Children |-> "absent"] /\ under13 = [c \in Children |-> FALSE]
  /\ making = [c \in Children |-> "none"]
  /\ verified = [c \in Children |-> FALSE] /\ consents = {} /\ token = [c \in Children |-> "none"]
  /\ sessions = {} /\ conversations = {} /\ messages = {} /\ purge = Never
  /\ pc = [r \in Requests |-> "idle"] /\ at = [r \in Requests |-> "none"]
  /\ sess = [r \in Requests |-> 0] /\ conv = [r \in Requests |-> <<0, FALSE>>]
  /\ answered = {} /\ unnoted = {} /\ lapsed = {} /\ unlogged = {} /\ edited = {} /\ crossed = {}

\* The next day, between requests and tasks.
Tick ==
  /\ today < MaxDay /\ today' = today + 1
  /\ at = [r \in Requests |-> "none"] /\ purge = Never
  /\ \A r \in Requests : pc[r] # "tutor"
  /\ \A c \in Children : making[c] \in {"none", "over"}
  /\ UNCHANGED <<profile, consent, talk, purge, server>>

------------------------------------------------------------------------------
\* Requests

Free(w) == \A r \in Requests : at[r] # w
Goto(r, s) == pc' = [pc EXCEPT ![r] = s] /\ UNCHANGED at
\* The end of a request: what it held is forgotten.
End(r, s) ==
  /\ pc' = [pc EXCEPT ![r] = s] /\ at' = [at EXCEPT ![r] = "none"]
  /\ sess' = [sess EXCEPT ![r] = 0] /\ conv' = [conv EXCEPT ![r] = <<0, FALSE>>]
  /\ answered' = answered \ {r} /\ UNCHANGED crossed
Over(r) == End(r, "over")
Take(r, w, s) ==
  /\ Free(w)
  /\ at' = [at EXCEPT ![r] = w] /\ pc' = [pc EXCEPT ![r] = s]

\* A request is refused, or fails, before it has written anything more.
Fails(r) ==
  /\ at[r] # "none" /\ Over(r)
  /\ UNCHANGED <<today, profile, consent, talk, purge>>

------------------------------------------------------------------------------
\* Sessions

\* Mutant: only today's sessions count as active.
ActiveToday(c) == {s \in sessions : ChildOf[s.id] = c /\ s.named /\ s.ended = Never /\ s.started = today}

Active(c) == {s \in sessions : ChildOf[s.id] = c /\ s.named /\ s.ended = Never}
Today(c)  == {s \in sessions : ChildOf[s.id] = c /\ s.named /\ s.started = today}

\* The route takes the session the client names, whosever it is, which may have ended or
\* lost its name; or the child's active one; or creates one.  The profile may be a cached
\* one.
Begin(t, w) ==
  LET c == ChildOf[t] IN
  /\ pc[t] = "idle" /\ (t > 1 => pc[t - 1] # "idle") /\ child[c] # "absent"
  /\ \/ \E s \in sessions :
          /\ sess' = [sess EXCEPT ![t] = s.id] /\ Take(t, w, "find")
          /\ crossed' = IF ChildOf[s.id] = c THEN crossed ELSE crossed \cup {t}
     \/ Active(c) = {} /\ Take(t, w, "create") /\ UNCHANGED <<sess, crossed>>
  /\ UNCHANGED <<today, profile, consent, talk, purge, conv, answered>>

\* create_session under its lock: the limits are read ...
CheckLimits(t) ==
  /\ pc[t] = "create"
  /\ Active(ChildOf[t]) = {} /\ Cardinality(Today(ChildOf[t])) < MaxPerDay
  /\ Goto(t, "insert")
  /\ UNCHANGED <<today, profile, consent, talk, purge, held>>

\* ... and the session is written; the foreign key refuses an erased profile.
InsertSession(t) ==
  /\ pc[t] = "insert" /\ child[ChildOf[t]] = "present"
  /\ sessions' = sessions \cup
       {[id |-> t, named |-> TRUE, started |-> today, ended |-> Never, by |-> at[t]]}
  /\ sess' = [sess EXCEPT ![t] = t] /\ Goto(t, "find")
  /\ UNCHANGED <<today, profile, consent, conversations, messages, unnoted, purge, conv, answered, crossed>>

\* end_session reads the session ...
ReadSession(e, w) ==
  /\ pc[e] = "idle"
  /\ \E s \in sessions :
       /\ s.ended = Never
       /\ sess' = [sess EXCEPT ![e] = s.id] /\ Take(e, w, "end")
  /\ UNCHANGED <<today, profile, consent, talk, purge, conv, answered, crossed>>

\* ... and writes its end, whatever became of it in between.
EndSession(e) ==
  /\ pc[e] = "end" /\ Over(e)
  /\ sessions' = {IF s.id = sess[e] THEN [s EXCEPT !.ended = today] ELSE s : s \in sessions}
  /\ UNCHANGED <<today, profile, consent, conversations, messages, unnoted, purge>>

------------------------------------------------------------------------------
\* The turn

Replied(t) == t \in answered

\* _get_or_create_conversation_id, for the history and again for the record: the newest
\* conversation of the session ...
FindConversation(t) ==
  LET C == {c \in conversations : c.session = sess[t]} IN
  /\ pc[t] = "find"
  /\ \/ \E c \in {d \in C : \A e \in C : e.created <= d.created} :
          conv' = [conv EXCEPT ![t] = c.id] /\ Goto(t, IF Replied(t) THEN "user" ELSE "gate")
     \/ C = {} /\ Goto(t, "open") /\ UNCHANGED conv
  /\ UNCHANGED <<today, profile, consent, talk, purge, sess, answered, crossed>>

\* Mutant: no foreign key to the profile.
CreateOrphan(t) ==
  LET c == <<t, Replied(t)>> IN
  /\ pc[t] = "open" /\ \E s \in sessions : s.id = sess[t]
  /\ conversations' = conversations \cup {[id |-> c, session |-> sess[t], created |-> today, updated |-> today]}
  /\ conv' = [conv EXCEPT ![t] = c] /\ Goto(t, IF Replied(t) THEN "user" ELSE "gate")
  /\ UNCHANGED <<today, profile, consent, sessions, messages, unnoted, purge, sess, answered, crossed>>

\* ... or a new one; the foreign keys refuse it for an erased profile or a deleted session.
CreateConversation(t) ==
  LET c == <<t, Replied(t)>> IN
  /\ pc[t] = "open"
  /\ child[ChildOf[t]] = "present" /\ \E s \in sessions : s.id = sess[t]
  /\ conversations' = conversations \cup {[id |-> c, session |-> sess[t], created |-> today, updated |-> today]}
  /\ conv' = [conv EXCEPT ![t] = c] /\ Goto(t, IF Replied(t) THEN "user" ELSE "gate")
  /\ UNCHANGED <<today, profile, consent, sessions, messages, unnoted, purge, sess, answered, crossed>>

\* A conversation that cannot be created costs the turn its history, not its reply.
NoHistory(t) ==
  /\ pc[t] = "open" /\ ~Replied(t) /\ Goto(t, "gate")
  /\ UNCHANGED <<today, profile, consent, talk, purge, held>>

\* coppa_consent_block_reason, read at the moment, which an administrator bypasses: with
\* the row gone, the age is that of the profile the turn began with.  Then the turn waits
\* for the tutor, and its worker goes on with other requests.
Gate(t) ==
  LET c == ChildOf[t] IN
  /\ pc[t] = "gate"
  /\ \/ t \in ByAdmin \/ ~under13[c]
     \/ child[c] = "present" /\ verified[c]
     \/ child[c] = "erased" /\ c \in edited
  /\ pc' = [pc EXCEPT ![t] = "tutor"] /\ at' = [at EXCEPT ![t] = "none"]
  /\ UNCHANGED <<today, profile, consent, talk, purge, held>>

Reply(t, w) ==
  /\ pc[t] = "tutor" /\ Take(t, w, "find")
  /\ answered' = answered \cup {t}
  /\ UNCHANGED <<today, profile, consent, talk, purge, sess, conv, crossed>>

\* The tutor has no capacity, or fails.
NoReply(t) ==
  /\ pc[t] = "tutor" /\ Over(t)
  /\ UNCHANGED <<today, profile, consent, talk, purge>>

\* add_message: the row is inserted, if its conversation is still there ...
AddMessage(t) ==
  LET m == [turn |-> t, role |-> pc[t], conv |-> conv[t], day |-> today] IN
  /\ pc[t] \in {"user", "reply"}
  /\ \E c \in conversations : c.id = conv[t]
  /\ messages' = messages \cup {m} /\ unnoted' = unnoted \cup {m}
  /\ Goto(t, IF pc[t] = "user" THEN "note user" ELSE "note reply")
  /\ UNCHANGED <<today, profile, consent, sessions, conversations, purge, held>>

\* ... and the conversation is marked as updated, in a statement of its own.
NoteMessage(t) ==
  /\ pc[t] \in {"note user", "note reply"}
  /\ conversations' = {IF c.id = conv[t] THEN [c EXCEPT !.updated = today] ELSE c : c \in conversations}
  /\ unnoted' = {m \in unnoted : m.turn # t}
  /\ IF pc[t] = "note user" THEN Goto(t, "reply") /\ UNCHANGED held ELSE Over(t)
  /\ UNCHANGED <<today, profile, consent, sessions, messages, purge>>

------------------------------------------------------------------------------
\* Profiles

\* A profile is written; with the birthdate in the request, a statement of its own says
\* next whether the age needs a consent.  Setup, provisioning and administrators write
\* the profile alone.
CreateProfile(c) ==
  /\ c \notin Imported /\ child[c] = "absent"
  /\ child' = [child EXCEPT ![c] = "present"]
  /\ \E young \in BOOLEAN :
       /\ under13' = [under13 EXCEPT ![c] = young]
       /\ \E next \in {"over", IF young THEN "mark pending" ELSE "mark compliant"} :
            making' = [making EXCEPT ![c] = next]
  /\ UNCHANGED <<today, edited, consent, talk, purge, server>>

\* Mutant: a new profile is verified whatever its age.
MarkAgeRegardless(c) ==
  /\ making[c] \in {"mark pending", "mark compliant"}
  /\ making' = [making EXCEPT ![c] = "over"]
  /\ verified' = [verified EXCEPT ![c] = child[c] = "present"]
  /\ UNCHANGED <<today, child, under13, edited, consents, token, lapsed, unlogged, talk, purge, server>>

\* coppa_verified is set for a child of 13 or more; the row may be gone.
MarkAge(c) ==
  /\ making[c] \in {"mark pending", "mark compliant"}
  /\ making' = [making EXCEPT ![c] = "over"]
  /\ verified' = [verified EXCEPT ![c] = child[c] = "present" /\ making[c] = "mark compliant"]
  /\ UNCHANGED <<today, child, under13, edited, consents, token, lapsed, unlogged, talk, purge, server>>

\* A student of a roster: the profile, and for a child under 13, whose consent the school
\* takes upon itself, ...
ImportProfile(c) ==
  /\ c \in Imported /\ child[c] = "absent"
  /\ child' = [child EXCEPT ![c] = "present"]
  /\ \E young \in BOOLEAN :
       /\ under13' = [under13 EXCEPT ![c] = young]
       /\ making' = [making EXCEPT ![c] = IF young THEN "status" ELSE "over"]
  /\ UNCHANGED <<today, edited, consent, talk, purge, server>>

\* An update of coppa_verified: an error is swallowed, and so is a row that is gone.
SetStatus(c) ==
  \/ verified' = [verified EXCEPT ![c] = child[c] = "present"] /\ UNCHANGED lapsed
  \/ lapsed' = lapsed \cup {c} /\ UNCHANGED verified

\* ... first the status ...
ImportStatus(c) ==
  /\ making[c] = "status" /\ making' = [making EXCEPT ![c] = "log"]
  /\ SetStatus(c)
  /\ UNCHANGED <<today, child, under13, edited, consents, token, unlogged, talk, purge, server>>

\* ... and then the log, whose failure is not fatal.
ImportLog(c) ==
  /\ making[c] = "log" /\ making' = [making EXCEPT ![c] = "over"]
  /\ \/ child[c] = "present" /\ consents' = consents \cup {c} /\ UNCHANGED unlogged
     \/ unlogged' = unlogged \cup {c} /\ UNCHANGED consents
  /\ UNCHANGED <<today, child, under13, edited, verified, token, lapsed, talk, purge, server>>

\* The age is edited, by a parent or an administrator, and nothing else.
EditAge(c) ==
  /\ c \in AgeEdits /\ child[c] = "present"
  /\ under13' = [under13 EXCEPT ![c] = ~under13[c]] /\ edited' = edited \cup {c}
  /\ UNCHANGED <<today, child, making, consent, talk, purge, server>>

------------------------------------------------------------------------------
\* Parental consent

\* A mail with a token is sent, once the profile's creation has answered; one mail for a
\* child is enough here.
RequestConsent(v) ==
  LET c == ChildOf[v] IN
  /\ token[c] = "none" /\ child[c] = "present" /\ under13[c] /\ making[c] = "over"
  /\ token' = [token EXCEPT ![c] = "valid"]
  /\ UNCHANGED <<today, profile, verified, consents, lapsed, unlogged, talk, purge, server>>

\* verify_parental_consent: the token, which is the child's, and the profile are read ...
ReadToken(v, w) ==
  LET c == ChildOf[v] IN
  /\ pc[v] = "idle" /\ token[c] = "valid" /\ child[c] = "present" /\ under13[c]
  /\ Take(v, w, "log")
  /\ UNCHANGED <<today, profile, consent, talk, purge, held>>

\* Mutant: the status is set before the consent is on record.
LogConsentLate(v) ==
  /\ pc[v] = "log" /\ child[ChildOf[v]] = "present"
  /\ verified' = [verified EXCEPT ![ChildOf[v]] = TRUE] /\ Goto(v, "update")
  /\ UNCHANGED <<today, profile, consents, token, lapsed, unlogged, talk, purge, held>>

\* ... the consent is logged, which the foreign key refuses for an erased profile ...
LogConsent(v) ==
  /\ pc[v] = "log" /\ child[ChildOf[v]] = "present"
  /\ consents' = consents \cup {ChildOf[v]} /\ Goto(v, "update")
  /\ UNCHANGED <<today, profile, verified, token, lapsed, unlogged, talk, purge, held>>

\* ... the profile is updated ...
UpdateStatus(v) ==
  /\ pc[v] = "update" /\ Goto(v, "spend")
  /\ SetStatus(ChildOf[v])
  /\ UNCHANGED <<today, profile, consents, token, unlogged, talk, purge, held>>

\* ... the token is spent, and the parent is told that the consent is verified.
SpendToken(v) ==
  /\ pc[v] = "spend" /\ token' = [token EXCEPT ![ChildOf[v]] = "spent"]
  /\ End(v, "told")
  /\ UNCHANGED <<today, profile, verified, consents, lapsed, unlogged, talk, purge>>

------------------------------------------------------------------------------
\* Erasure

Of(C) == {m \in messages : \E c \in C : m.conv = c.id}

\* Mutant: the messages of a deleted conversation stay.
DeleteLeavesMessages(C, M) ==
  /\ conversations' = conversations \ C
  /\ messages' = messages \ M
  /\ unnoted' = unnoted \cap messages'

\* These conversations and messages are deleted; a conversation takes its messages along.
Delete(C, M) ==
  /\ conversations' = conversations \ C
  /\ messages' = messages \ (M \cup Of(C))
  /\ unnoted' = unnoted \cap messages'

Author(m) == ChildOf[m.turn]
Holder(k) == ChildOf[k.id[1]]
Erased(K) == [c \in Children |-> IF c \in K THEN "erased" ELSE child[c]]

\* Deleted profiles take everything along but their sessions, which lose their name, and
\* the messages their children left in conversations of another.
Cascade(K) ==
  /\ child' = Erased(K) /\ verified' = [c \in Children |-> c \notin K /\ verified[c]]
  /\ consents' = consents \ K
  /\ sessions' = {IF ChildOf[s.id] \in K THEN [s EXCEPT !.named = FALSE] ELSE s : s \in sessions}
  /\ Delete({k \in conversations : Holder(k) \in K}, {})

\* A parent revokes the consent, in one transaction, or an administrator deletes profiles,
\* or an account and with it the profiles of a family.
Erase(K) ==
  /\ K # {} /\ \A c \in K : child[c] = "present"
  /\ Cascade(K)
  /\ UNCHANGED <<today, under13, making, edited, token, lapsed, unlogged, purge, server>>

------------------------------------------------------------------------------
\* Retention

Cutoff == today - Keep

\* Mutant: the sessions that began long ago, whether they ended or not.
cleanup_sessions_begun ==
  LET S == {s \in sessions : s.started < Cutoff} IN
  /\ S # {} /\ sessions' = sessions \ S
  /\ Delete({c \in conversations : \E s \in S : c.session = s.id}, {})
  /\ UNCHANGED <<today, profile, consent, purge, server>>

\* Sessions that ended long ago, with their conversations.
cleanup_sessions ==
  LET S == {s \in sessions : s.ended # Never /\ s.ended < Cutoff} IN
  /\ S # {} /\ sessions' = sessions \ S
  /\ Delete({c \in conversations : \E s \in S : c.session = s.id}, {})
  /\ UNCHANGED <<today, profile, consent, purge, server>>

cleanup_old_messages ==
  LET M == {m \in messages : m.day < Cutoff} IN
  /\ M # {} /\ Delete({}, M)
  /\ UNCHANGED <<today, profile, consent, sessions, purge, server>>

Untouched(day) == {c \in conversations : c.updated < day}

\* cleanup_conversations: first the messages ...
cleanup_messages ==
  /\ purge = Never /\ Untouched(Cutoff) # {}
  /\ purge' = Cutoff /\ Delete({}, Of(Untouched(Cutoff)))
  /\ UNCHANGED <<today, profile, consent, sessions, server>>

\* ... then the conversations, unless the job fails in between.
cleanup_conversations ==
  /\ purge # Never /\ purge' = Never
  /\ \/ Delete(Untouched(purge), {})
     \/ UNCHANGED <<conversations, messages, unnoted>>
  /\ UNCHANGED <<today, profile, consent, sessions, server>>

------------------------------------------------------------------------------
Next ==
  \/ Tick
  \/ cleanup_sessions \/ cleanup_old_messages \/ cleanup_messages \/ cleanup_conversations
  \/ \E K \in SUBSET Children : Erase(K)
  \/ \E c \in Children :
       \/ CreateProfile(c) \/ MarkAge(c) \/ EditAge(c)
       \/ ImportProfile(c) \/ ImportStatus(c) \/ ImportLog(c)
  \/ \E r \in Requests : Fails(r)
  \/ \E t \in Turns :
       \/ CheckLimits(t) \/ InsertSession(t) \/ FindConversation(t) \/ CreateConversation(t)
       \/ NoHistory(t) \/ Gate(t) \/ NoReply(t) \/ AddMessage(t) \/ NoteMessage(t)
       \/ \E w \in Workers : Begin(t, w) \/ Reply(t, w)
  \/ \E e \in Ends : EndSession(e) \/ \E w \in Workers : ReadSession(e, w)
  \/ \E v \in Verifies :
       \/ RequestConsent(v) \/ LogConsent(v) \/ UpdateStatus(v) \/ SpendToken(v)
       \/ \E w \in Workers : ReadToken(v, w)

Spec == Init /\ [][Next]_vars

------------------------------------------------------------------------------
Days     == 0..MaxDay
ConvIds  == Turns \X BOOLEAN
SessionSet == [id : Turns, named : BOOLEAN, started : Days, ended : Days \cup {Never}, by : Workers]
MessageSet == [turn : Turns, role : {"user", "reply"}, conv : ConvIds, day : Days]
\* Where a request is when no worker handles it.
Parked   == {"idle", "tutor", "over", "told"}
PCs      == Parked \cup {"create", "insert", "end", "find", "open", "gate", "user", "reply",
                        "note user", "note reply", "log", "update", "spend"}

Makings  == {"none", "mark pending", "mark compliant", "status", "log", "over"}

\* Types of the state; every conversation has its session and every message its
\* conversation, and a worker has one request at a time.
TypeOK ==
  /\ today \in Days /\ purge \in Int
  /\ child \in [Children -> {"absent", "present", "erased"}] /\ making \in [Children -> Makings]
  /\ under13 \in [Children -> BOOLEAN] /\ verified \in [Children -> BOOLEAN]
  /\ token \in [Children -> {"none", "valid", "spent"}]
  /\ consents \cup lapsed \cup unlogged \cup edited \subseteq Children
  /\ sessions \subseteq SessionSet
  /\ conversations \subseteq [id : ConvIds, session : Turns, created : Days, updated : Days]
  /\ messages \subseteq MessageSet /\ unnoted \subseteq messages
  /\ \A c \in conversations : \E s \in sessions : s.id = c.session
  /\ \A m \in messages : \E c \in conversations : c.id = m.conv
  /\ pc \in [Requests -> PCs] /\ at \in [Requests -> Workers \cup {"none"}]
  /\ sess \in [Requests -> Turns \cup {0}] /\ conv \in [Requests -> ConvIds \cup {<<0, FALSE>>}]
  /\ answered \cup crossed \subseteq Turns
  /\ \A r, q \in Requests : at[r] = at[q] /\ r # q => at[r] = "none"

\* A message in a conversation that a turn across children may have mixed: its own turn or
\* the one that opened the conversation took another child's session.
Mixed(m) == m.turn \in crossed \/ m.conv[1] \in crossed

\* Revocation and deletion leave no conversation, consent or status of an erased child,
\* nor does one come back by a turn, a consent or an import that was under way; a session
\* that stays does not name the child.  A message of the child stays only where a turn
\* took a session of another child, although revocation says that it "permanently deletes
\* the child profile and all associated data (conversations, messages, ...)"
\* (parental_consent.py:405-406).
ErasureIsTotal ==
  \A c \in Children : child[c] = "erased" =>
    /\ c \notin consents /\ ~verified[c]
    /\ \A s \in sessions : ChildOf[s.id] = c => ~s.named
    /\ \A k \in conversations : Holder(k) # c
    /\ \A m \in messages : Author(m) = c => Mixed(m)

\* The limits on sessions, which a lock of the process guards: two active sessions of a
\* child are two workers', and a day sees at most MaxPerDay sessions of a child, and one
\* more for each further worker.
SessionLimits ==
  /\ \A s, u \in sessions :
       /\ s.named /\ s.ended = Never /\ u.named /\ u.ended = Never
       /\ s.by = u.by /\ ChildOf[s.id] = ChildOf[u.id]
       => s = u
  /\ \A c \in Children : \A d \in Days :
       Cardinality({s \in sessions : ChildOf[s.id] = c /\ s.started = d}) < MaxPerDay + Cardinality(Workers)

\* Retention spares what is recent: a message not older than Keep days goes only with the
\* erasure of its child, or of the one whose conversation it was mixed into; or with a
\* session that ended longer ago, which a client may still name; or when its conversation
\* was not yet marked as updated.
RecentIsKept ==
  [][\A m \in messages \ messages' :
       \/ m.day < Cutoff
       \/ LET c == ChildOf[m.conv[1]] IN
          child[c] = "present" /\ child'[c] = "erased" /\ (c = Author(m) \/ Mixed(m))
       \/ m \in unnoted
       \/ \E s \in sessions \ sessions' : \E c \in conversations :
            c.id = m.conv /\ c.session = s.id /\ s.ended \in 0..(Cutoff - 1)]_vars

\* A child under 13 who may chat has a consent on record, unless a roster brought the child
\* in and the log failed or is still to come, or the age was edited; and a parent told that
\* the consent is verified has a child who may chat, unless the child was erased, or the
\* update failed, which the route does not look at.
ConsentOnRecord ==
  /\ \A c \in Children : verified[c] /\ under13[c] =>
       c \in consents \cup unlogged \cup edited \/ making[c] = "log"
  /\ \A v \in Verifies : pc[v] = "told" =>
       LET c == ChildOf[v] IN verified[c] \/ child[c] = "erased" \/ c \in lapsed
=============================================================================
