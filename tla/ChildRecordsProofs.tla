------------------------- MODULE ChildRecordsProofs -------------------------
(***************************************************************************)
(* What holds of the children's records for any number of children,        *)
(* workers, requests and days.                                             *)
(***************************************************************************)
EXTENDS ChildRecords, TLAPS, FiniteSetTheorems

\* A request has a worker exactly while one handles it.
Handled == \A r \in Requests : at[r] = "none" <=> pc[r] \in Parked

\* A session loses its child's name with the child, and no conversation outlives its child.
Gone ==
  /\ \A s \in sessions : s.named <=> child[ChildOf[s.id]] # "erased"
  /\ \A k \in conversations : child[Holder(k)] # "erased"

\* What a profile has only while it is there, and what its creation has seen to.
MadeOf(c) ==
  /\ child[c] = "absent" <=> making[c] = "none"
  /\ verified[c] \/ c \in consents => child[c] = "present"
  /\ making[c] = "mark compliant" => ~under13[c] \/ c \in edited
  /\ token[c] # "none" => making[c] = "over"

Made == \A c \in Children : MadeOf(c)

\* A consent whose mail is being answered is on record, and its update took or failed.
ClickOf(v) ==
  LET c == ChildOf[v] IN
  /\ pc[v] \in {"log", "update", "spend", "told"} => making[c] = "over"
  /\ pc[v] \in {"update", "spend"} => c \in consents \/ child[c] = "erased"
  /\ pc[v] \in {"spend", "told"} => verified[c] \/ child[c] = "erased" \/ c \in lapsed

ConsentPending == \A v \in Verifies : ClickOf(v)

\* What only a turn that took another child's session can mix: a session, a conversation
\* or a message with another child's.
Unmixed ==
  /\ \A t \in Turns : t \notin crossed /\ sess[t] # 0 => ChildOf[sess[t]] = ChildOf[t]
  /\ \A t \in Turns :
       conv[t][1] # 0 /\ t \notin crossed /\ conv[t][1] \notin crossed => ChildOf[conv[t][1]] = ChildOf[t]
  /\ \A k \in conversations : k.id[1] \notin crossed => ChildOf[k.session] = Holder(k)
  /\ \A m \in messages : Mixed(m) \/ ChildOf[m.conv[1]] = Author(m)

Begun(c, d) == {s \in sessions : ChildOf[s.id] = c /\ s.started = d}
\* Turns that have seen the limits and are about to insert their session.
Inserting(c) == {t \in Turns : ChildOf[t] = c /\ pc[t] = "insert"}

\* The limits, with the sessions about to be inserted: the worker of each of those has no
\* active session, and while the child is there so is room for all of them.
Room ==
  /\ IsFiniteSet(sessions) /\ \A s \in sessions : s.started <= today
  /\ \A c \in Children :
       /\ \A t \in Inserting(c) : \A s \in Active(c) : s.by # at[t]
       /\ \A d \in Days : Cardinality(Begun(c, d)) < MaxPerDay + Cardinality(Workers)
       /\ child[c] # "erased" =>
            Cardinality(Begun(c, today)) + Cardinality(Inserting(c)) < MaxPerDay + Cardinality(Workers)

\* A message that is noted is no younger than the last update of its conversation; one
\* that is not belongs to a turn about to note it, or to one that is over; a purge is
\* about its own day.
Dated ==
  /\ \A m \in messages : m.day <= today
  /\ \A m \in messages \ unnoted : \A c \in conversations : c.id = m.conv => m.day <= c.updated
  /\ \A m \in unnoted :
       pc[m.turn] = "over" \/ (pc[m.turn] \in {"note user", "note reply"} /\ m.conv = conv[m.turn])
  /\ purge \in {Never, Cutoff}

IInv ==
  /\ TypeOK /\ Handled /\ Gone /\ Made /\ Unmixed
  /\ ConsentOnRecord /\ ConsentPending /\ SessionLimits /\ Room /\ Dated

------------------------------------------------------------------------------
\* An empty database.
LEMMA InitIInv == Init => IInv
<1> SUFFICES ASSUME Init PROVE IInv
  OBVIOUS
<1>1. /\ Turns \cap Verifies = {} /\ NumTurns \in Nat /\ MaxDay \in Nat /\ MaxPerDay \in Nat
      /\ Verifies \subseteq Requests /\ Turns \subseteq Requests
      /\ \A r \in Turns \cup Verifies : ChildOf[r] \in Children
  BY RequestsAssumption, ChildrenAssumption, PeriodsAssumption DEF Requests
<1>2. TypeOK
  <2>1. pc \in [Requests -> PCs] /\ at \in [Requests -> Workers \cup {"none"}]
    BY DEF Init, PCs, Parked
  <2>2. sess \in [Requests -> Turns \cup {0}] /\ conv \in [Requests -> ConvIds \cup {<<0, FALSE>>}]
    BY DEF Init
  <2>3. \A r, q \in Requests : at[r] = at[q] /\ r # q => at[r] = "none"
    BY DEF Init
  <2>4. today \in Days /\ purge \in Int
    BY <1>1 DEF Init, Days, Never
  <2>5. /\ child \in [Children -> {"absent", "present", "erased"}] /\ making \in [Children -> Makings]
        /\ under13 \in [Children -> BOOLEAN] /\ verified \in [Children -> BOOLEAN]
        /\ token \in [Children -> {"none", "valid", "spent"}]
    BY DEF Init, Makings
  <2> QED BY <2>1, <2>2, <2>3, <2>4, <2>5 DEF Init, TypeOK
<1>3. Handled /\ Gone
  BY DEF Init, Handled, Gone, Parked, Requests
<1>4. Made /\ ConsentOnRecord /\ ConsentPending
  BY <1>1 DEF Init, Made, MadeOf, ConsentOnRecord, ConsentPending, ClickOf
<1>5. Unmixed
  BY <1>1 DEF Init, Unmixed
<1>6. \A c, d : Begun(c, d) = {}
  BY DEF Init, Begun
<1>7. \A c : Inserting(c) = {} /\ Active(c) = {}
  BY <1>1 DEF Init, Inserting, Active
<1>8. Cardinality({}) = 0 /\ IsFiniteSet({})
  BY FS_EmptySet
<1>9. Cardinality(Workers) \in Nat /\ Cardinality(Workers) # 0
  BY WorkersAssumption, FS_CardinalityType, FS_EmptySet
<1>10. Room
  <2>1. 0 < MaxPerDay + Cardinality(Workers) /\ 0 + 0 < MaxPerDay + Cardinality(Workers)
    BY <1>1, <1>9
  <2>2. \A c \in Children : \A d \in Days : Cardinality(Begun(c, d)) < MaxPerDay + Cardinality(Workers)
    BY <1>6, <1>8, <2>1
  <2>3. \A c \in Children :
          Cardinality(Begun(c, today)) + Cardinality(Inserting(c)) < MaxPerDay + Cardinality(Workers)
    BY <1>6, <1>7, <1>8, <2>1
  <2>4. IsFiniteSet(sessions) /\ \A s \in sessions : s.started <= today
    BY <1>8 DEF Init
  <2> QED BY <1>7, <2>2, <2>3, <2>4 DEF Room
<1>11. SessionLimits
  BY <1>6, <1>10 DEF SessionLimits, Init, Room, Begun
<1>12. Dated
  BY DEF Init, Dated
<1> QED BY <1>2, <1>3, <1>4, <1>5, <1>10, <1>11, <1>12 DEF IInv

\* Who writes to the tables of profiles and talks: every other step leaves them alone.
Records == <<child, sessions, conversations, messages, unnoted>>

\* A step that changes the records is one of these.
LEMMA WhoWrites ==
  ASSUME [Next]_vars
  PROVE  \/ UNCHANGED Records
         \/ cleanup_sessions \/ cleanup_old_messages \/ cleanup_messages \/ cleanup_conversations
         \/ \E K \in SUBSET Children : Erase(K)
         \/ \E c \in Children : CreateProfile(c) \/ ImportProfile(c)
         \/ \E t \in Turns : InsertSession(t) \/ CreateConversation(t) \/ AddMessage(t) \/ NoteMessage(t)
         \/ \E e \in Ends : EndSession(e)
<1> USE DEF Records, talk, profile
<1>1. CASE UNCHANGED vars
  BY <1>1 DEF vars
<1>2. CASE Tick \/ \E r \in Requests : Fails(r)
  BY <1>2 DEF Tick, Fails
<1>3. ASSUME NEW c \in Children, MarkAge(c) \/ EditAge(c) \/ ImportStatus(c) \/ ImportLog(c)
      PROVE  UNCHANGED Records
  BY <1>3 DEF MarkAge, EditAge, ImportStatus, ImportLog
<1>4. ASSUME NEW t \in Turns,
             CheckLimits(t) \/ FindConversation(t) \/ NoHistory(t) \/ Gate(t) \/ NoReply(t)
             \/ \E w \in Workers : Begin(t, w) \/ Reply(t, w)
      PROVE  UNCHANGED Records
  BY <1>4 DEF CheckLimits, FindConversation, NoHistory, Gate, NoReply, Begin, Reply
<1>5. ASSUME NEW e \in Ends, NEW w \in Workers, ReadSession(e, w)
      PROVE  UNCHANGED Records
  BY <1>5 DEF ReadSession
<1>6. ASSUME NEW v \in Verifies,
             RequestConsent(v) \/ LogConsent(v) \/ UpdateStatus(v) \/ SpendToken(v)
             \/ \E w \in Workers : ReadToken(v, w)
      PROVE  UNCHANGED Records
  BY <1>6 DEF RequestConsent, LogConsent, UpdateStatus, SpendToken, ReadToken
<1> QED BY <1>1, <1>2, <1>3, <1>4, <1>5, <1>6 DEF Next

------------------------------------------------------------------------------
\* Nothing comes back.

\* A session with another end or without its name, and an updated conversation.
LEMMA SessionChanged ==
  ASSUME NEW s \in SessionSet, NEW d \in Days
  PROVE  /\ [s EXCEPT !.ended = d] \in SessionSet /\ [s EXCEPT !.named = FALSE] \in SessionSet
         /\ [s EXCEPT !.ended = d].id = s.id /\ [s EXCEPT !.named = FALSE].id = s.id
         /\ [s EXCEPT !.ended = d].by = s.by /\ [s EXCEPT !.ended = d].ended = d
         /\ [s EXCEPT !.ended = d].started = s.started /\ [s EXCEPT !.named = FALSE].started = s.started
         /\ [s EXCEPT !.ended = d].named = s.named /\ [s EXCEPT !.named = FALSE].named = FALSE
BY DEF SessionSet

ConversationSet == [id : ConvIds, session : Turns, created : Days, updated : Days]

\* An updated conversation is the same but for its day.
LEMMA ConversationChanged ==
  ASSUME NEW c \in ConversationSet, NEW d \in Days
  PROVE  /\ [c EXCEPT !.updated = d] \in ConversationSet
         /\ [c EXCEPT !.updated = d].id = c.id /\ [c EXCEPT !.updated = d].session = c.session
         /\ [c EXCEPT !.updated = d].updated = d
BY DEF ConversationSet

\* Rows are of children there are.
LEMMA RowsHaveChildren ==
  ASSUME TypeOK
  PROVE  /\ \A r \in Turns \cup Verifies : ChildOf[r] \in Children
         /\ \A s \in sessions : s \in SessionSet /\ s.id \in Turns /\ ChildOf[s.id] \in Children
         /\ \A k \in conversations : k \in ConversationSet /\ k.id[1] \in Turns /\ Holder(k) \in Children
         /\ \A m \in messages : m.turn \in Turns /\ m.conv[1] \in Turns /\ m.day \in Days
<1>1. \A s \in SessionSet : s.id \in Turns
  BY DEF SessionSet
<1>2. \A k \in ConversationSet : k.id[1] \in Turns
  BY DEF ConversationSet, ConvIds
<1>3. \A m \in MessageSet : m.turn \in Turns /\ m.conv[1] \in Turns /\ m.day \in Days
  BY DEF MessageSet, ConvIds
<1>4. sessions \subseteq SessionSet /\ conversations \subseteq ConversationSet /\ messages \subseteq MessageSet
  BY DEF TypeOK, ConversationSet
<1>5. \A r \in Turns \cup Verifies : ChildOf[r] \in Children
  BY ChildrenAssumption
<1> QED BY <1>1, <1>2, <1>3, <1>4, <1>5 DEF Holder

\* Every step keeps what is gone away.
LEMMA GoneStep ==
  ASSUME IInv, [Next]_vars
  PROVE  Gone'
<1> USE DEF IInv, Gone, Holder
<1>0. /\ \A s \in sessions : s \in SessionSet /\ ChildOf[s.id] \in Children
      /\ \A k \in conversations : k \in ConversationSet /\ ChildOf[k.id[1]] \in Children
  BY RowsHaveChildren
<1>1. CASE UNCHANGED Records
  BY <1>1 DEF Records
<1>2. ASSUME NEW K \in SUBSET Children, Erase(K) PROVE Gone'
  <2> DEFINE F(s) == IF ChildOf[s.id] \in K THEN [s EXCEPT !.named = FALSE] ELSE s
  <2>1. /\ child' = Erased(K) /\ sessions' = {F(s) : s \in sessions}
        /\ conversations' = conversations \ {k \in conversations : Holder(k) \in K}
    BY <1>2 DEF Erase, Cascade, Delete
  <2>2. \A c \in Children : child'[c] = IF c \in K THEN "erased" ELSE child[c]
    BY <2>1 DEF Erased
  <2>3. ASSUME NEW s \in sessions
        PROVE  F(s).id = s.id /\ (F(s).named <=> ChildOf[s.id] \notin K /\ s.named)
    <3>1. CASE ChildOf[s.id] \in K
      BY <1>0, <3>1, SessionChanged DEF TypeOK
    <3>2. CASE ChildOf[s.id] \notin K
      BY <3>2
    <3> QED BY <3>1, <3>2
  <2> HIDE DEF F
  <2>4. \A s \in sessions' : s.named <=> child'[ChildOf[s.id]] # "erased"
    <3> TAKE u \in sessions'
    <3>1. PICK s \in sessions : u = F(s)
      BY <2>1
    <3> QED BY <1>0, <2>2, <2>3, <3>1
  <2> QED BY <1>0, <2>1, <2>2, <2>4
<1>3. ASSUME NEW c \in Children, CreateProfile(c) \/ ImportProfile(c) PROVE Gone'
  <2>1. \A d \in Children : child'[d] = "erased" <=> child[d] = "erased"
    <3>1. child' = [child EXCEPT ![c] = "present"] /\ child[c] = "absent"
      BY <1>3 DEF CreateProfile, ImportProfile
    <3>2. child \in [Children -> {"absent", "present", "erased"}]
      BY DEF TypeOK
    <3> HIDE DEF IInv, Gone
    <3> QED BY <3>1, <3>2
  <2> QED BY <1>0, <1>3, <2>1 DEF CreateProfile, ImportProfile, talk
<1>4. CASE cleanup_sessions \/ cleanup_old_messages \/ cleanup_messages \/ cleanup_conversations
  BY <1>4 DEF cleanup_sessions, cleanup_old_messages, cleanup_messages, cleanup_conversations, Delete, profile
<1>5. ASSUME NEW t \in Turns, InsertSession(t) PROVE Gone'
  BY <1>5 DEF InsertSession, profile
<1>6. ASSUME NEW t \in Turns, CreateConversation(t) PROVE Gone'
  BY <1>6 DEF CreateConversation, profile
<1>7. ASSUME NEW t \in Turns, AddMessage(t) PROVE Gone'
  BY <1>7 DEF AddMessage, profile
<1>8. ASSUME NEW t \in Turns, NoteMessage(t) PROVE Gone'
  <2>1. \A k \in conversations' : \E c \in conversations : k.id = c.id
    <3>1. \A c \in conversations : [c EXCEPT !.updated = today].id = c.id
      BY <1>0, ConversationChanged DEF TypeOK
    <3> QED BY <1>8, <3>1 DEF NoteMessage
  <2> QED BY <1>8, <2>1 DEF NoteMessage, profile
<1>9. ASSUME NEW e \in Ends, EndSession(e) PROVE Gone'
  <2>1. \A u \in sessions' : \E s \in sessions : u.id = s.id /\ u.named = s.named
    <3>1. \A s \in sessions : [s EXCEPT !.ended = today].id = s.id /\ [s EXCEPT !.ended = today].named = s.named
      BY <1>0, SessionChanged DEF TypeOK
    <3> QED BY <1>9, <3>1 DEF EndSession
  <2> QED BY <1>9, <2>1 DEF EndSession, profile
<1> QED BY <1>1, <1>2, <1>3, <1>4, <1>5, <1>6, <1>7, <1>8, <1>9, WhoWrites

------------------------------------------------------------------------------
\* Where requests are.

\* The steps that move no request.
Still == UNCHANGED server

\* A request that is handled moves on, or ends, by its own step.
LEMMA WhoMoves ==
  ASSUME [Next]_vars
  PROVE  \/ Still
         \/ \E r \in Requests : Fails(r)
         \/ \E t \in Turns :
              \/ CheckLimits(t) \/ InsertSession(t) \/ FindConversation(t) \/ CreateConversation(t)
              \/ NoHistory(t) \/ Gate(t) \/ NoReply(t) \/ AddMessage(t) \/ NoteMessage(t)
              \/ \E w \in Workers : Begin(t, w) \/ Reply(t, w)
         \/ \E e \in Ends : EndSession(e) \/ \E w \in Workers : ReadSession(e, w)
         \/ \E v \in Verifies :
              \/ LogConsent(v) \/ UpdateStatus(v) \/ SpendToken(v)
              \/ \E w \in Workers : ReadToken(v, w)
<1> USE DEF Still
<1>1. CASE UNCHANGED vars \/ Tick
  BY <1>1 DEF vars, Tick
<1>2. CASE \E K \in SUBSET Children : Erase(K)
  BY <1>2 DEF Erase
<1>3. ASSUME NEW c \in Children,
             CreateProfile(c) \/ MarkAge(c) \/ EditAge(c) \/ ImportProfile(c) \/ ImportStatus(c) \/ ImportLog(c)
      PROVE  Still
  BY <1>3 DEF CreateProfile, MarkAge, EditAge, ImportProfile, ImportStatus, ImportLog
<1>4. CASE cleanup_sessions \/ cleanup_old_messages \/ cleanup_messages \/ cleanup_conversations
  BY <1>4 DEF cleanup_sessions, cleanup_old_messages, cleanup_messages, cleanup_conversations
<1>5. CASE \E v \in Verifies : RequestConsent(v)
  BY <1>5 DEF RequestConsent
<1> QED BY <1>1, <1>2, <1>3, <1>4, <1>5 DEF Next

\* Request r, and no other, is at s afterwards; a worker that handles it is its own.
Moves(r, s) ==
  /\ s \in PCs /\ pc' = [pc EXCEPT ![r] = s]
  /\ \/ UNCHANGED at /\ pc[r] \notin Parked /\ s \notin Parked
     \/ at' = [at EXCEPT ![r] = "none"] /\ s \in Parked
     \/ \E w \in Workers : Free(w) /\ at' = [at EXCEPT ![r] = w] /\ s \notin Parked

\* A step moves no request, or one in a legal way.
LEMMA EveryMove ==
  ASSUME IInv, [Next]_vars
  PROVE  Still \/ \E r \in Requests, s \in PCs : Moves(r, s)
<1> USE DEF Requests, Moves, PCs, Parked
<1>1. ASSUME NEW r \in Requests, Fails(r) PROVE \E s \in PCs : Moves(r, s)
  BY <1>1 DEF Fails, Over, End
<1>2. ASSUME NEW t \in Turns, CheckLimits(t) \/ InsertSession(t) \/ NoHistory(t) PROVE \E s \in PCs : Moves(t, s)
  <2>1. ASSUME NEW s \in {"insert", "find", "gate"}, Goto(t, s), pc[t] \in {"create", "insert", "open"}
        PROVE  Moves(t, s)
    BY <2>1 DEF Goto
  <2> QED BY <1>2, <2>1 DEF CheckLimits, InsertSession, NoHistory
<1>3. ASSUME NEW t \in Turns, FindConversation(t) \/ CreateConversation(t) PROVE \E s \in PCs : Moves(t, s)
  BY <1>3 DEF FindConversation, CreateConversation, Goto
<1>4. ASSUME NEW t \in Turns, AddMessage(t) \/ NoteMessage(t) PROVE \E s \in PCs : Moves(t, s)
  <2>1. CASE AddMessage(t) /\ pc[t] = "user"
    <3>1. Moves(t, "note user")
      BY <2>1 DEF AddMessage, Goto
    <3> QED BY <3>1
  <2>2. CASE AddMessage(t) /\ pc[t] = "reply"
    <3>1. Moves(t, "note reply")
      BY <2>2 DEF AddMessage, Goto
    <3> QED BY <3>1
  <2>3. CASE NoteMessage(t) /\ pc[t] = "note user"
    <3>1. Moves(t, "reply")
      BY <2>3 DEF NoteMessage, Goto
    <3> QED BY <3>1
  <2>4. CASE NoteMessage(t) /\ pc[t] = "note reply"
    <3>1. Moves(t, "over")
      BY <2>4 DEF NoteMessage, Over, End
    <3> QED BY <3>1
  <2> QED BY <1>4, <2>1, <2>2, <2>3, <2>4 DEF AddMessage, NoteMessage
<1>5. ASSUME NEW t \in Turns, Gate(t) \/ NoReply(t) PROVE \E s \in PCs : Moves(t, s)
  BY <1>5 DEF Gate, NoReply, Over, End
<1>6. ASSUME NEW t \in Turns, NEW w \in Workers, Begin(t, w) \/ Reply(t, w) PROVE \E s \in PCs : Moves(t, s)
  <2>1. ASSUME NEW s \in {"find", "create"}, Take(t, w, s) PROVE \E q \in PCs : Moves(t, q)
    <3>1. Moves(t, s)
      BY <2>1 DEF Take
    <3> QED BY <3>1
  <2> QED BY <1>6, <2>1 DEF Begin, Reply
<1>7. ASSUME NEW e \in Ends, EndSession(e) \/ \E w \in Workers : ReadSession(e, w) PROVE \E s \in PCs : Moves(e, s)
  <2>1. CASE EndSession(e)
    <3>1. Moves(e, "over")
      BY <2>1 DEF EndSession, Over, End
    <3> QED BY <3>1
  <2>2. ASSUME NEW w \in Workers, ReadSession(e, w) PROVE \E s \in PCs : Moves(e, s)
    <3>1. Moves(e, "end")
      BY <2>2 DEF ReadSession, Take
    <3> QED BY <3>1
  <2> QED BY <1>7, <2>1, <2>2
<1>8. ASSUME NEW v \in Verifies, LogConsent(v) \/ UpdateStatus(v) \/ SpendToken(v) \/ \E w \in Workers : ReadToken(v, w)
      PROVE  \E s \in PCs : Moves(v, s)
  BY <1>8 DEF LogConsent, UpdateStatus, SpendToken, ReadToken, Goto, End, Take
<1> QED BY <1>1, <1>2, <1>3, <1>4, <1>5, <1>6, <1>7, <1>8, WhoMoves

OneEach == \A r, q \in Requests : at[r] = at[q] /\ r # q => at[r] = "none"

\* A worker never has two requests at a time.
LEMMA HandledStep ==
  ASSUME IInv, [Next]_vars
  PROVE  /\ Handled' /\ OneEach'
         /\ pc' \in [Requests -> PCs] /\ at' \in [Requests -> Workers \cup {"none"}]
<1> USE DEF IInv, TypeOK, Handled, OneEach
<1>1. CASE Still
  BY <1>1 DEF Still, server, held
<1>2. ASSUME NEW r \in Requests, NEW s \in PCs, Moves(r, s)
      PROVE  /\ Handled' /\ OneEach'
             /\ pc' \in [Requests -> PCs] /\ at' \in [Requests -> Workers \cup {"none"}]
  BY <1>2, WorkersAssumption DEF Moves, Free
<1> QED BY <1>1, <1>2, EveryMove

------------------------------------------------------------------------------
\* Consent.

\* What a step must keep about profiles and consents.
Consents == Made' /\ ConsentOnRecord' /\ ConsentPending'

\* What the others' profiles, consents and clicks keep when a step is about child c.
Apart(c) ==
  /\ \A d \in Children \ {c} :
       /\ child'[d] = child[d] /\ making'[d] = making[d] /\ under13'[d] = under13[d] /\ token'[d] = token[d]
       /\ verified'[d] <=> verified[d]
       /\ (d \in consents' <=> d \in consents) /\ (d \in lapsed' <=> d \in lapsed)
       /\ (d \in unlogged' <=> d \in unlogged) /\ (d \in edited' <=> d \in edited)
  /\ \A v \in Verifies : ChildOf[v] # c => pc'[v] = pc[v]

\* A status of a child under 13 has a consent on record, or an excuse.
RecordOf(c) ==
  verified[c] /\ under13[c] => c \in consents \cup unlogged \cup edited \/ making[c] = "log"

\* The same, child by child and click by click.
LEMMA ConsentsApart ==
  /\ Made /\ ConsentOnRecord /\ ConsentPending
     <=> (\A c \in Children : MadeOf(c) /\ RecordOf(c)) /\ \A v \in Verifies : ClickOf(v)
  /\ Consents <=> (\A c \in Children : MadeOf(c)' /\ RecordOf(c)') /\ \A v \in Verifies : ClickOf(v)'
BY DEF Consents, Made, ConsentOnRecord, RecordOf, ConsentPending, ClickOf

\* A step about child c need only keep what is said of c.
LEMMA ConsentsOf ==
  ASSUME IInv, NEW c \in Children, Apart(c), MadeOf(c)', RecordOf(c)',
         \A v \in Verifies : ChildOf[v] = c => ClickOf(v)'
  PROVE  Consents
<1>1. (\A d \in Children : MadeOf(d) /\ RecordOf(d)) /\ \A v \in Verifies : ClickOf(v)
  BY ConsentsApart DEF IInv
<1>2. \A d \in Children \ {c} : MadeOf(d)'
  BY <1>1 DEF Apart, MadeOf
<1>3. \A d \in Children \ {c} : RecordOf(d)'
  BY <1>1 DEF Apart, RecordOf
<1>4. \A v \in Verifies : ChildOf[v] # c => ClickOf(v)'
  <2> TAKE v \in Verifies
  <2> HAVE ChildOf[v] # c
  <2>1. ChildOf[v] \in Children \ {c} /\ ClickOf(v) /\ pc'[v] = pc[v]
    BY <1>1, ChildrenAssumption DEF Apart
  <2> QED BY <2>1 DEF Apart, ClickOf
<1> QED BY <1>2, <1>3, <1>4, ConsentsApart

\* A step that moves no click, but perhaps to its end, and leaves profiles and consents.
LEMMA ConsentsStay ==
  ASSUME IInv, \A v \in Verifies : pc'[v] = pc[v] \/ pc'[v] = "over", UNCHANGED <<profile, consent>>
  PROVE  Consents
<1>1. (\A d \in Children : MadeOf(d) /\ RecordOf(d)) /\ \A v \in Verifies : ClickOf(v)
  BY ConsentsApart DEF IInv
<1>2. UNCHANGED <<child, under13, making, edited, verified, consents, token, lapsed, unlogged>>
  BY DEF profile, consent
<1>3. \A d \in Children : MadeOf(d)' /\ RecordOf(d)'
  BY <1>1, <1>2 DEF MadeOf, RecordOf
<1>4. \A v \in Verifies : ClickOf(v)'
  BY <1>1, <1>2 DEF ClickOf
<1> QED BY <1>3, <1>4, ConsentsApart

\* Every step keeps consent on record before it counts.
LEMMA ConsentStep ==
  ASSUME IInv, [Next]_vars
  PROVE  Consents
<1>0. /\ Verifies \subseteq Requests /\ Turns \subseteq Requests /\ Ends \subseteq Requests
      /\ Turns \cap Verifies = {} /\ Verifies \cap Ends = {} /\ \A v \in Verifies : ChildOf[v] \in Children
  BY RequestsAssumption, ChildrenAssumption DEF Requests
<1>a. /\ child \in [Children -> {"absent", "present", "erased"}] /\ making \in [Children -> Makings]
      /\ under13 \in [Children -> BOOLEAN] /\ verified \in [Children -> BOOLEAN]
      /\ token \in [Children -> {"none", "valid", "spent"}] /\ pc \in [Requests -> PCs]
  BY DEF IInv, TypeOK
<1>b. (\A d \in Children : MadeOf(d) /\ RecordOf(d)) /\ \A v \in Verifies : ClickOf(v)
  BY ConsentsApart DEF IInv
\* A request that is no click moves, or a click ends.
<1>1. ASSUME NEW r \in Requests, NEW s, pc' = [pc EXCEPT ![r] = s], r \notin Verifies \/ s = "over",
             UNCHANGED <<profile, consent>>
      PROVE  Consents
  <2>1. \A v \in Verifies : pc'[v] = pc[v] \/ pc'[v] = "over"
    BY <1>0, <1>a, <1>1
  <2> QED BY <1>1, <2>1, ConsentsStay
<1>2. CASE UNCHANGED vars \/ Tick
  BY <1>2, ConsentsStay DEF vars, Tick, server
<1>3. CASE cleanup_sessions \/ cleanup_old_messages \/ cleanup_messages \/ cleanup_conversations
  BY <1>3, ConsentsStay DEF cleanup_sessions, cleanup_old_messages, cleanup_messages, cleanup_conversations, server
<1>4. ASSUME NEW r \in Requests, Fails(r) PROVE Consents
  BY <1>1, <1>4 DEF Fails, Over, End
<1>5. ASSUME NEW t \in Turns, CheckLimits(t) \/ InsertSession(t) \/ NoHistory(t) PROVE Consents
  BY <1>0, <1>1, <1>5 DEF CheckLimits, InsertSession, NoHistory, Goto
<1>6. ASSUME NEW t \in Turns, FindConversation(t) \/ CreateConversation(t) PROVE Consents
  BY <1>0, <1>1, <1>6 DEF FindConversation, CreateConversation, Goto
<1>7. ASSUME NEW t \in Turns, Gate(t) \/ NoReply(t) PROVE Consents
  BY <1>0, <1>1, <1>7 DEF Gate, NoReply, Over, End
<1>8. ASSUME NEW t \in Turns, AddMessage(t) \/ NoteMessage(t) PROVE Consents
  BY <1>0, <1>1, <1>8 DEF AddMessage, NoteMessage, Goto, Over, End
<1>9. ASSUME NEW t \in Turns, NEW w \in Workers, Begin(t, w) \/ Reply(t, w) PROVE Consents
  BY <1>0, <1>1, <1>9 DEF Begin, Reply, Take
<1>10. ASSUME NEW e \in Ends, EndSession(e) \/ \E w \in Workers : ReadSession(e, w) PROVE Consents
  BY <1>0, <1>1, <1>10 DEF EndSession, ReadSession, Over, End, Take
<1>11. ASSUME NEW K \in SUBSET Children, Erase(K) PROVE Consents
  <2>1. /\ UNCHANGED <<under13, making, edited, token, lapsed, unlogged, pc>> /\ consents' = consents \ K
        /\ \A c \in K : child[c] = "present"
    BY <1>11 DEF Erase, Cascade, server
  <2>2. \A c \in Children : child'[c] = IF c \in K THEN "erased" ELSE child[c]
    BY <1>11 DEF Erase, Cascade, Erased
  <2>3. \A c \in Children : verified'[c] <=> c \notin K /\ verified[c]
    BY <1>11, Zenon DEF Erase, Cascade
  <2>4. \A c \in Children : MadeOf(c)'
    BY <1>b, <2>1, <2>2, <2>3 DEF MadeOf
  <2>5. \A c \in Children : RecordOf(c)'
    BY <1>b, <2>1, <2>2, <2>3 DEF RecordOf
  <2>6. \A v \in Verifies : ClickOf(v)'
    <3> TAKE v \in Verifies
    <3>1. ClickOf(v) /\ ChildOf[v] \in Children
      BY <1>0, <1>b
    <3> QED BY <2>1, <2>2, <2>3, <3>1 DEF ClickOf
  <2> QED BY <2>4, <2>5, <2>6, ConsentsApart
\* Who has no consent answered yet, or still on its way.
<1>12. ASSUME NEW c \in Children, making[c] # "over"
       PROVE  \A v \in Verifies : ChildOf[v] = c => pc[v] \notin {"log", "update", "spend", "told"}
  BY <1>b, <1>12 DEF ClickOf
<1>13. ASSUME NEW c \in Children, CreateProfile(c) \/ ImportProfile(c) PROVE Consents
  <2>1. /\ UNCHANGED <<edited, consents, verified, token, lapsed, unlogged, pc>> /\ child[c] = "absent"
        /\ child' = [child EXCEPT ![c] = "present"]
        /\ \E young \in BOOLEAN : \E next \in Makings \ {"none"} :
             /\ under13' = [under13 EXCEPT ![c] = young] /\ making' = [making EXCEPT ![c] = next]
             /\ next = "mark compliant" => young = FALSE
    <3>1. CASE CreateProfile(c)
      <4>1. UNCHANGED <<edited, consents, verified, token, lapsed, unlogged, pc>> /\ child[c] = "absent"
            /\ child' = [child EXCEPT ![c] = "present"]
        BY <3>1 DEF CreateProfile, consent, server
      <4>2. PICK young \in BOOLEAN : 
              /\ under13' = [under13 EXCEPT ![c] = young]
              /\ \E next \in {"over", IF young THEN "mark pending" ELSE "mark compliant"} :
                   making' = [making EXCEPT ![c] = next]
        BY <3>1 DEF CreateProfile
      <4>3. PICK next \in {"over", IF young THEN "mark pending" ELSE "mark compliant"} :
              making' = [making EXCEPT ![c] = next]
        BY <4>2
      <4>4. next \in Makings \ {"none"} /\ (next = "mark compliant" => young = FALSE)
        BY <4>3 DEF Makings
      <4> QED BY <4>1, <4>2, <4>3, <4>4
    <3>2. CASE ImportProfile(c)
      <4>1. UNCHANGED <<edited, consents, verified, token, lapsed, unlogged, pc>> /\ child[c] = "absent"
            /\ child' = [child EXCEPT ![c] = "present"]
        BY <3>2 DEF ImportProfile, consent, server
      <4>2. PICK young \in BOOLEAN : 
              /\ under13' = [under13 EXCEPT ![c] = young]
              /\ making' = [making EXCEPT ![c] = IF young THEN "status" ELSE "over"]
        BY <3>2 DEF ImportProfile
      <4>3. (IF young THEN "status" ELSE "over") \in Makings \ {"none", "mark compliant"}
        BY DEF Makings
      <4> QED BY <4>1, <4>2, <4>3
    <3> QED BY <1>13, <3>1, <3>2
  <2>2. PICK young \in BOOLEAN : \E next \in Makings \ {"none"} :
             /\ under13' = [under13 EXCEPT ![c] = young] /\ making' = [making EXCEPT ![c] = next]
             /\ next = "mark compliant" => young = FALSE
    BY <2>1
  <2>3. PICK next \in Makings \ {"none"} :
             /\ under13' = [under13 EXCEPT ![c] = young] /\ making' = [making EXCEPT ![c] = next]
             /\ next = "mark compliant" => young = FALSE
    BY <2>2
  <2>4. child'[c] = "present" /\ making'[c] = next /\ under13'[c] = young
    BY <2>1, <2>3, <1>a
  <2>5. Apart(c)
    BY <2>1, <2>3, <1>a DEF Apart
  <2>6. making[c] = "none" /\ ~verified[c] /\ c \notin consents /\ token[c] = "none"
    BY <1>b, <2>1 DEF MadeOf
  <2>7. MadeOf(c)'
    BY <2>1, <2>3, <2>4, <2>6 DEF MadeOf
  <2>8. RecordOf(c)'
    BY <2>1, <2>6 DEF RecordOf
  <2>9. \A v \in Verifies : ChildOf[v] = c => ClickOf(v)'
    BY <1>12, <2>1, <2>6 DEF ClickOf
  <2> QED BY <2>5, <2>7, <2>8, <2>9, ConsentsOf
<1>14. ASSUME NEW c \in Children, MarkAge(c) PROVE Consents
  <2>1. /\ UNCHANGED <<child, under13, edited, consents, token, lapsed, unlogged, pc>>
        /\ making[c] \in {"mark pending", "mark compliant"} /\ making' = [making EXCEPT ![c] = "over"]
        /\ verified' = [verified EXCEPT ![c] = child[c] = "present" /\ making[c] = "mark compliant"]
    BY <1>14 DEF MarkAge, server
  <2>2. /\ verified'[c] <=> child[c] = "present" /\ making[c] = "mark compliant"
        /\ \A d \in Children \ {c} : verified'[d] <=> verified[d]
    BY <1>a, <2>1, Zenon
  <2>3. making'[c] = "over" /\ \A d \in Children \ {c} : making'[d] = making[d]
    BY <1>a, <2>1
  <2>4. Apart(c)
    BY <2>1, <2>2, <2>3 DEF Apart
  <2>5. MadeOf(c) /\ RecordOf(c)
    BY <1>b
  <2>6. MadeOf(c)'
    BY <2>1, <2>2, <2>3, <2>5 DEF MadeOf
  <2>7. RecordOf(c)'
    BY <2>1, <2>2, <2>3, <2>5 DEF RecordOf, MadeOf
  <2>8. \A v \in Verifies : ChildOf[v] = c => ClickOf(v)'
    BY <1>12, <2>1 DEF ClickOf
  <2> QED BY <2>4, <2>6, <2>7, <2>8, ConsentsOf
<1>15. ASSUME NEW c \in Children, EditAge(c) PROVE Consents
  <2>1. /\ UNCHANGED <<child, verified, consents, token, lapsed, unlogged, making, pc>>
        /\ edited' = edited \cup {c} /\ \A d \in Children \ {c} : under13'[d] = under13[d]
    BY <1>a, <1>15 DEF EditAge, consent, server
  <2>2. Apart(c)
    BY <2>1 DEF Apart
  <2>3. MadeOf(c)' /\ RecordOf(c)'
    BY <1>b, <2>1 DEF MadeOf, RecordOf
  <2>4. \A v \in Verifies : ChildOf[v] = c => ClickOf(v)'
    BY <1>b, <2>1 DEF ClickOf
  <2> QED BY <2>2, <2>3, <2>4, ConsentsOf
\* A change of the status of c, in a step that leaves its row.
<1>16. ASSUME NEW c \in Children, SetStatus(c)
       PROVE  /\ \A d \in Children \ {c} : (verified'[d] <=> verified[d]) /\ (d \in lapsed' <=> d \in lapsed)
              /\ verified'[c] => verified[c] \/ child[c] = "present"
              /\ child[c] = "present" => verified'[c] \/ c \in lapsed'
              /\ child[c] = "present" /\ verified[c] => verified'[c]
              /\ lapsed \subseteq lapsed'
  <2>1. CASE verified' = [verified EXCEPT ![c] = child[c] = "present"] /\ UNCHANGED lapsed
    <3>1. (verified'[c] <=> child[c] = "present") /\ \A d \in Children \ {c} : verified'[d] <=> verified[d]
      BY <1>a, <2>1, Zenon
    <3> QED BY <2>1, <3>1
  <2>2. CASE lapsed' = lapsed \cup {c} /\ UNCHANGED verified
    BY <2>2
  <2> QED BY <1>16, <2>1, <2>2 DEF SetStatus
<1>17. ASSUME NEW c \in Children, ImportStatus(c) PROVE Consents
  <2>1. /\ UNCHANGED <<child, under13, edited, consents, token, unlogged, pc>>
        /\ making[c] = "status" /\ making' = [making EXCEPT ![c] = "log"] /\ SetStatus(c)
    BY <1>17 DEF ImportStatus, server
  <2>2. making'[c] = "log" /\ \A d \in Children \ {c} : making'[d] = making[d]
    BY <1>a, <2>1
  <2>3. Apart(c)
    BY <1>16, <2>1, <2>2 DEF Apart
  <2>4. MadeOf(c)
    BY <1>b
  <2>5. MadeOf(c)' /\ RecordOf(c)'
    BY <1>16, <2>1, <2>2, <2>4 DEF MadeOf, RecordOf
  <2>6. \A v \in Verifies : ChildOf[v] = c => ClickOf(v)'
    BY <1>12, <2>1 DEF ClickOf
  <2> QED BY <2>3, <2>5, <2>6, ConsentsOf
<1>18. ASSUME NEW c \in Children, ImportLog(c) PROVE Consents
  <2>1. /\ UNCHANGED <<child, under13, edited, verified, token, lapsed, pc>>
        /\ making[c] = "log" /\ making' = [making EXCEPT ![c] = "over"]
        /\ \/ child[c] = "present" /\ consents' = consents \cup {c} /\ unlogged' = unlogged
           \/ unlogged' = unlogged \cup {c} /\ consents' = consents
    BY <1>18 DEF ImportLog, server
  <2>2. making'[c] = "over" /\ \A d \in Children \ {c} : making'[d] = making[d]
    BY <1>a, <2>1
  <2>3. Apart(c)
    BY <2>1, <2>2 DEF Apart
  <2>4. MadeOf(c) /\ c \in consents' \cup unlogged'
    BY <1>b, <2>1
  <2>5. MadeOf(c)' /\ RecordOf(c)'
    BY <2>1, <2>2, <2>4 DEF MadeOf, RecordOf
  <2>6. \A v \in Verifies : ChildOf[v] = c => ClickOf(v)'
    BY <1>12, <2>1 DEF ClickOf
  <2> QED BY <2>3, <2>5, <2>6, ConsentsOf
<1>19. ASSUME NEW v \in Verifies, RequestConsent(v) PROVE Consents
  <2> DEFINE c == ChildOf[v]
  <2>1. /\ UNCHANGED <<child, under13, edited, verified, consents, making, lapsed, unlogged, pc>>
        /\ making[c] = "over" /\ \A d \in Children \ {c} : token'[d] = token[d]
    BY <1>0, <1>a, <1>19 DEF RequestConsent, profile, server
  <2>2. c \in Children
    BY <1>0
  <2> HIDE DEF c
  <2>3. Apart(c)
    BY <2>1 DEF Apart
  <2>4. MadeOf(c)' /\ RecordOf(c)'
    BY <1>b, <2>1, <2>2 DEF MadeOf, RecordOf
  <2>5. \A u \in Verifies : ChildOf[u] = c => ClickOf(u)'
    BY <1>b, <2>1 DEF ClickOf
  <2> QED BY <2>2, <2>3, <2>4, <2>5, ConsentsOf
<1>20. ASSUME NEW v \in Verifies, NEW w \in Workers, ReadToken(v, w) PROVE Consents
  <2> DEFINE c == ChildOf[v]
  <2>1. /\ UNCHANGED <<child, under13, making, edited, verified, consents, token, lapsed, unlogged>>
        /\ pc' = [pc EXCEPT ![v] = "log"] /\ token[c] = "valid" /\ c \in Children
    BY <1>0, <1>20 DEF ReadToken, Take, profile, consent
  <2>2. pc'[v] = "log" /\ \A u \in Verifies \ {v} : pc'[u] = pc[u]
    BY <1>0, <1>a, <2>1
  <2> HIDE DEF c
  <2>3. MadeOf(c)' /\ RecordOf(c)' /\ making[c] = "over"
    BY <1>b, <2>1 DEF MadeOf, RecordOf
  <2>4. Apart(c) /\ ClickOf(v)'
    BY <2>1, <2>2, <2>3 DEF Apart, ClickOf, c
  <2>5. \A u \in Verifies \ {v} : ClickOf(u)'
    BY <1>b, <2>1, <2>2 DEF ClickOf
  <2> QED BY <2>1, <2>3, <2>4, <2>5, ConsentsOf
<1>21. ASSUME NEW v \in Verifies, LogConsent(v) PROVE Consents
  <2> DEFINE c == ChildOf[v]
  <2>1. /\ UNCHANGED <<child, under13, making, edited, verified, token, lapsed, unlogged>>
        /\ consents' = consents \cup {c} /\ child[c] = "present" /\ c \in Children
        /\ pc[v] = "log" /\ pc' = [pc EXCEPT ![v] = "update"]
    BY <1>0, <1>21 DEF LogConsent, Goto, profile
  <2>2. pc'[v] = "update" /\ \A u \in Verifies \ {v} : pc'[u] = pc[u]
    BY <1>0, <1>a, <2>1
  <2>3. ClickOf(v)'
    BY <1>b, <2>1, <2>2 DEF ClickOf
  <2> HIDE DEF c
  <2>4. MadeOf(c)' /\ RecordOf(c)'
    BY <1>b, <2>1 DEF MadeOf, RecordOf
  <2>5. Apart(c)
    BY <2>1, <2>2 DEF Apart, c
  <2>6. \A u \in Verifies \ {v} : ClickOf(u)'
    BY <1>b, <2>1, <2>2 DEF ClickOf
  <2> QED BY <2>1, <2>3, <2>4, <2>5, <2>6, ConsentsOf
<1>22. ASSUME NEW v \in Verifies, UpdateStatus(v) PROVE Consents
  <2> DEFINE c == ChildOf[v]
  <2>1. /\ UNCHANGED <<child, under13, making, edited, consents, token, unlogged>> /\ SetStatus(c)
        /\ pc[v] = "update" /\ pc' = [pc EXCEPT ![v] = "spend"] /\ c \in Children
    BY <1>0, <1>22 DEF UpdateStatus, Goto, profile
  <2>2. pc'[v] = "spend" /\ \A u \in Verifies \ {v} : pc'[u] = pc[u]
    BY <1>0, <1>a, <2>1
  <2>3. /\ making[c] = "over" /\ (c \in consents \/ child[c] = "erased")
        /\ child[c] \in {"present", "erased"} /\ MadeOf(c)
    BY <1>a, <1>b, <2>1 DEF ClickOf, MadeOf
  <2>4. /\ \A d \in Children \ {c} : (verified'[d] <=> verified[d]) /\ (d \in lapsed' <=> d \in lapsed)
        /\ verified'[c] => child[c] = "present"
        /\ child[c] = "present" => verified'[c] \/ c \in lapsed'
        /\ child[c] = "present" /\ verified[c] => verified'[c]
        /\ lapsed \subseteq lapsed'
    BY <1>16, <2>1, <2>3 DEF MadeOf
  <2>5. ClickOf(v)'
    BY <2>1, <2>2, <2>3, <2>4 DEF ClickOf
  <2> HIDE DEF c
  <2>6. MadeOf(c)' /\ RecordOf(c)'
    BY <2>1, <2>3, <2>4 DEF MadeOf, RecordOf
  <2>7. Apart(c)
    BY <2>1, <2>2, <2>4 DEF Apart, c
  <2>8. \A u \in Verifies \ {v} : ChildOf[u] = c => ClickOf(u)'
    BY <1>b, <2>1, <2>2, <2>3, <2>4 DEF ClickOf
  <2> QED BY <2>1, <2>5, <2>6, <2>7, <2>8, ConsentsOf
<1>23. ASSUME NEW v \in Verifies, SpendToken(v) PROVE Consents
  <2> DEFINE c == ChildOf[v]
  <2>1. /\ UNCHANGED <<child, under13, making, edited, verified, consents, lapsed, unlogged>>
        /\ token' = [token EXCEPT ![c] = "spent"] /\ c \in Children
        /\ pc[v] = "spend" /\ pc' = [pc EXCEPT ![v] = "told"]
    BY <1>0, <1>23 DEF SpendToken, End, profile
  <2>2. pc'[v] = "told" /\ \A u \in Verifies \ {v} : pc'[u] = pc[u]
    BY <1>0, <1>a, <2>1
  <2>3. making[c] = "over" /\ ClickOf(v)'
    BY <1>b, <2>1, <2>2 DEF ClickOf
  <2> HIDE DEF c
  <2>4. \A d \in Children \ {c} : token'[d] = token[d]
    BY <1>a, <2>1
  <2>5. MadeOf(c)' /\ RecordOf(c)'
    BY <1>b, <2>1, <2>3 DEF MadeOf, RecordOf
  <2>6. Apart(c)
    BY <2>1, <2>2, <2>4 DEF Apart, c
  <2>7. \A u \in Verifies \ {v} : ClickOf(u)'
    BY <1>b, <2>1, <2>2 DEF ClickOf
  <2> QED BY <2>1, <2>3, <2>5, <2>6, <2>7, ConsentsOf
<1> QED
  BY <1>2, <1>3, <1>4, <1>5, <1>6, <1>7, <1>8, <1>9, <1>10, <1>11, <1>13, <1>14, <1>15, <1>17,
     <1>18, <1>19, <1>20, <1>21, <1>22, <1>23
  DEF Next

------------------------------------------------------------------------------
\* Types, and the references between the tables.

\* What a step must keep about the rows of a talk.
TalkTypes ==
  /\ sessions \subseteq SessionSet
  /\ conversations \subseteq ConversationSet
  /\ messages \subseteq MessageSet /\ unnoted \subseteq messages
  /\ \A c \in conversations : \E s \in sessions : s.id = c.session
  /\ \A m \in messages : \E c \in conversations : c.id = m.conv

\* A deletion that takes the conversations of the sessions it deletes keeps the references.
LEMMA DeleteKeeps ==
  ASSUME IInv, NEW C, NEW M, Delete(C, M),
         sessions' \subseteq SessionSet,
         \A c \in conversations \ C : \E s \in sessions' : s.id = c.session
  PROVE  TalkTypes'
BY DEF IInv, TypeOK, Delete, Of, TalkTypes, ConversationSet

\* Every step keeps the rows typed and their references whole.
LEMMA TalkStep ==
  ASSUME IInv, [Next]_vars
  PROVE  TalkTypes'
<1> USE DEF IInv, TypeOK, ConversationSet
<1>1. CASE UNCHANGED Records
  BY <1>1 DEF Records, TalkTypes
<1>2. ASSUME NEW K \in SUBSET Children, Erase(K) PROVE TalkTypes'
  <2> DEFINE F(s) == IF ChildOf[s.id] \in K THEN [s EXCEPT !.named = FALSE] ELSE s
  <2>1. /\ Delete({k \in conversations : Holder(k) \in K}, {})
        /\ sessions' = {F(s) : s \in sessions}
    BY <1>2 DEF Erase, Cascade
  <2>2. ASSUME NEW s \in sessions PROVE F(s) \in SessionSet /\ F(s).id = s.id
    <3>1. CASE ChildOf[s.id] \in K
      BY <3>1, SessionChanged
    <3>2. CASE ChildOf[s.id] \notin K
      BY <3>2
    <3> QED BY <3>1, <3>2
  <2> HIDE DEF F
  <2>3. sessions' \subseteq SessionSet /\ \A s \in sessions : \E u \in sessions' : u.id = s.id
    BY <2>1, <2>2
  <2> DEFINE C == {k \in conversations : Holder(k) \in K}
  <2>4. \A c \in conversations \ C : \E s \in sessions' : s.id = c.session
    <3>1. \A c \in conversations : \E s \in sessions : s.id = c.session
      OBVIOUS
    <3> QED BY <2>3, <3>1
  <2>5. Delete(C, {})
    BY <2>1
  <2> HIDE DEF C
  <2> QED BY <2>3, <2>4, <2>5, DeleteKeeps
<1>3. CASE cleanup_old_messages \/ cleanup_messages
  <2>1. sessions' = sessions /\ \E M : Delete({}, M)
    BY <1>3 DEF cleanup_old_messages, cleanup_messages
  <2> QED BY <2>1, DeleteKeeps
<1>4. ASSUME NEW c \in Children, CreateProfile(c) \/ ImportProfile(c) PROVE TalkTypes'
  BY <1>4 DEF CreateProfile, ImportProfile, talk, TalkTypes
<1>5. CASE cleanup_sessions
  BY <1>5, DeleteKeeps DEF cleanup_sessions
<1>6. CASE cleanup_conversations
  <2>1. CASE Delete(Untouched(purge), {})
    BY <1>6, <2>1, DeleteKeeps DEF cleanup_conversations
  <2>2. CASE UNCHANGED <<conversations, messages, unnoted>>
    BY <1>6, <2>2 DEF cleanup_conversations, TalkTypes
  <2> QED BY <1>6, <2>1, <2>2 DEF cleanup_conversations
<1>7. ASSUME NEW t \in Turns, InsertSession(t) PROVE TalkTypes'
  <2>1. at[t] \in Workers
    BY <1>7 DEF InsertSession, Handled, Parked, Requests
  <2>2. [id |-> t, named |-> TRUE, started |-> today, ended |-> Never, by |-> at[t]] \in SessionSet
    BY <2>1 DEF SessionSet
  <2>3. UNCHANGED <<conversations, messages, unnoted>> /\ sessions \subseteq sessions'
    BY <1>7 DEF InsertSession
  <2> QED BY <1>7, <2>2, <2>3 DEF InsertSession, TalkTypes
<1>8. ASSUME NEW t \in Turns, CreateConversation(t) PROVE TalkTypes'
  <2>1. /\ <<t, Replied(t)>> \in ConvIds /\ sess[t] \in Turns
        /\ \E s \in sessions : s.id = sess[t]
    <3>1. Replied(t) \in BOOLEAN
      BY DEF Replied
    <3>2. PICK s \in sessions : s.id = sess[t]
      BY <1>8 DEF CreateConversation
    <3>3. s.id \in Turns
      BY DEF SessionSet
    <3> QED BY <3>1, <3>2, <3>3 DEF ConvIds
  <2>2. [id |-> <<t, Replied(t)>>, session |-> sess[t], created |-> today, updated |-> today]
          \in ConversationSet
    BY <2>1 DEF ConversationSet
  <2> QED BY <1>8, <2>1, <2>2 DEF CreateConversation, TalkTypes
<1>9. ASSUME NEW t \in Turns, AddMessage(t) PROVE TalkTypes'
  <2>1. conv[t] \in ConvIds /\ \E c \in conversations : c.id = conv[t]
    BY <1>9 DEF AddMessage
  <2>2. [turn |-> t, role |-> pc[t], conv |-> conv[t], day |-> today] \in MessageSet
    BY <1>9, <2>1 DEF AddMessage, MessageSet
  <2>3. /\ messages' = messages \cup {[turn |-> t, role |-> pc[t], conv |-> conv[t], day |-> today]}
        /\ unnoted' = unnoted \cup {[turn |-> t, role |-> pc[t], conv |-> conv[t], day |-> today]}
        /\ UNCHANGED <<sessions, conversations>>
    BY <1>9 DEF AddMessage
  <2>4. messages' \subseteq MessageSet /\ unnoted' \subseteq messages'
    BY <2>2, <2>3
  <2>5. \A m \in messages' : \E c \in conversations : c.id = m.conv
    BY <2>1, <2>3
  <2> QED BY <2>3, <2>4, <2>5 DEF TalkTypes
<1>10. ASSUME NEW t \in Turns, NoteMessage(t) PROVE TalkTypes'
  <2>1. /\ conversations' = {IF c.id = conv[t] THEN [c EXCEPT !.updated = today] ELSE c : c \in conversations}
        /\ UNCHANGED <<sessions, messages>> /\ unnoted' \subseteq unnoted
    BY <1>10 DEF NoteMessage
  <2>2. \A c \in conversations :
          /\ [c EXCEPT !.updated = today] \in ConversationSet
          /\ [c EXCEPT !.updated = today].id = c.id /\ [c EXCEPT !.updated = today].session = c.session
    BY ConversationChanged DEF ConversationSet
  <2>3. /\ conversations' \subseteq ConversationSet
        /\ \A d \in conversations' : \E c \in conversations : d.session = c.session
        /\ \A c \in conversations : \E d \in conversations' : d.id = c.id
    <3> DEFINE F(c) == IF c.id = conv[t] THEN [c EXCEPT !.updated = today] ELSE c
    <3>1. \A c \in conversations : F(c) \in ConversationSet /\ F(c).id = c.id /\ F(c).session = c.session
      BY <2>2 DEF ConversationSet
    <3>2. conversations' = {F(c) : c \in conversations}
      BY <2>1
    <3> HIDE DEF F
    <3> QED BY <3>1, <3>2 DEF ConversationSet
  <2>4. /\ \A d \in conversations' : \E s \in sessions : s.id = d.session
        /\ \A m \in messages : \E d \in conversations' : d.id = m.conv
    <3>1. \A d \in conversations' : \E c \in conversations : d.session = c.session
      BY <2>3
    <3>2. \A c \in conversations : \E d \in conversations' : d.id = c.id
      BY <2>3
    <3> QED BY <3>1, <3>2
  <2> QED BY <2>1, <2>3, <2>4 DEF TalkTypes
<1>11. ASSUME NEW e \in Ends, EndSession(e) PROVE TalkTypes'
  <2>1. /\ sessions' = {IF s.id = sess[e] THEN [s EXCEPT !.ended = today] ELSE s : s \in sessions}
        /\ UNCHANGED <<conversations, messages, unnoted>>
    BY <1>11 DEF EndSession
  <2>2. \A s \in sessions : [s EXCEPT !.ended = today] \in SessionSet /\ [s EXCEPT !.ended = today].id = s.id
    BY SessionChanged
  <2>3. /\ sessions' \subseteq SessionSet
        /\ \A s \in sessions : \E d \in sessions' : d.id = s.id
    <3> DEFINE F(s) == IF s.id = sess[e] THEN [s EXCEPT !.ended = today] ELSE s
    <3>1. \A s \in sessions : F(s) \in SessionSet /\ F(s).id = s.id
      BY <2>2
    <3>2. sessions' = {F(s) : s \in sessions}
      BY <2>1
    <3> HIDE DEF F
    <3> QED BY <3>1, <3>2
  <2>4. \A c \in conversations : \E s \in sessions' : s.id = c.session
    BY <2>3
  <2> QED BY <2>1, <2>3, <2>4 DEF TalkTypes
<1> QED
  BY <1>1, <1>2, <1>3, <1>4, <1>5, <1>6, <1>7, <1>8, <1>9, <1>10, <1>11, WhoWrites

\* What a request holds.
HeldTypes ==
  /\ sess \in [Requests -> Turns \cup {0}] /\ conv \in [Requests -> ConvIds \cup {<<0, FALSE>>}]
  /\ answered \cup crossed \subseteq Turns

\* What a request holds stays typed.
LEMMA HeldStep ==
  ASSUME IInv, [Next]_vars
  PROVE  HeldTypes'
<1> USE DEF IInv, TypeOK, HeldTypes
<1>0. Turns \subseteq Requests /\ Verifies \subseteq Requests /\ Ends \subseteq Requests
  BY DEF Requests
<1>1. CASE Still
  BY <1>1 DEF Still, server, held
<1>2. ASSUME NEW r \in Requests, NEW s, End(r, s) PROVE HeldTypes'
  BY <1>2 DEF End
<1>3. ASSUME NEW r \in Requests, Fails(r) PROVE HeldTypes'
  BY <1>2, <1>3 DEF Fails, Over
<1>4. ASSUME NEW t \in Turns, CheckLimits(t) \/ NoHistory(t) \/ Gate(t) \/ AddMessage(t) PROVE HeldTypes'
  BY <1>4 DEF CheckLimits, NoHistory, Gate, AddMessage, held
<1>5. ASSUME NEW t \in Turns, InsertSession(t) PROVE HeldTypes'
  BY <1>0, <1>5 DEF InsertSession
<1>6. ASSUME NEW t \in Turns, FindConversation(t) PROVE HeldTypes'
  <2>1. \A c \in conversations : c.id \in ConvIds
    OBVIOUS
  <2> QED BY <1>0, <1>6, <2>1 DEF FindConversation
<1>7. ASSUME NEW t \in Turns, CreateConversation(t) PROVE HeldTypes'
  <2>0. Replied(t) \in BOOLEAN
    BY DEF Replied
  <2>1. <<t, Replied(t)>> \in ConvIds
    BY <2>0 DEF ConvIds
  <2> QED BY <1>0, <1>7, <2>1 DEF CreateConversation
<1>8. ASSUME NEW t \in Turns, NoReply(t) PROVE HeldTypes'
  BY <1>0, <1>2, <1>8 DEF NoReply, Over
<1>9. ASSUME NEW t \in Turns, NoteMessage(t) PROVE HeldTypes'
  BY <1>0, <1>2, <1>9 DEF NoteMessage, Over, held
<1>10. \A s \in sessions : s.id \in Turns
  BY DEF SessionSet
<1>11. ASSUME NEW t \in Turns, NEW w \in Workers, Begin(t, w) \/ Reply(t, w) PROVE HeldTypes'
  BY <1>0, <1>10, <1>11 DEF Begin, Reply
<1>12. ASSUME NEW e \in Ends, EndSession(e) PROVE HeldTypes'
  BY <1>0, <1>2, <1>12 DEF EndSession, Over
<1>13. ASSUME NEW e \in Ends, NEW w \in Workers, ReadSession(e, w) PROVE HeldTypes'
  BY <1>0, <1>10, <1>13 DEF ReadSession
<1>14. ASSUME NEW v \in Verifies, SpendToken(v) PROVE HeldTypes'
  BY <1>0, <1>2, <1>14 DEF SpendToken
<1>15. ASSUME NEW v \in Verifies, LogConsent(v) \/ UpdateStatus(v) \/ \E w \in Workers : ReadToken(v, w) PROVE HeldTypes'
  BY <1>15 DEF LogConsent, UpdateStatus, ReadToken, held
<1> QED
  BY <1>1, <1>3, <1>4, <1>5, <1>6, <1>7, <1>8, <1>9, <1>11, <1>12, <1>13, <1>14, <1>15, WhoMoves

\* The days, the profiles and their consents.
OtherTypes ==
  /\ today \in Days /\ purge \in Int
  /\ child \in [Children -> {"absent", "present", "erased"}] /\ making \in [Children -> Makings]
  /\ under13 \in [Children -> BOOLEAN] /\ verified \in [Children -> BOOLEAN]
  /\ token \in [Children -> {"none", "valid", "spent"}]
  /\ consents \cup lapsed \cup unlogged \cup edited \subseteq Children

\* The days, the profiles and their consents stay typed.
LEMMA OtherStep ==
  ASSUME IInv, [Next]_vars
  PROVE  OtherTypes'
<1> USE DEF OtherTypes
<1>0. OtherTypes /\ Days \subseteq Int /\ \A v \in Verifies : ChildOf[v] \in Children
  BY ChildrenAssumption DEF IInv, TypeOK, Days
<1>1. CASE UNCHANGED vars
  BY <1>0, <1>1 DEF vars, profile, consent
<1>2. CASE Tick
  BY <1>0, <1>2, PeriodsAssumption DEF Tick, profile, consent, Days
<1>3. ASSUME NEW K \in SUBSET Children, Erase(K) PROVE OtherTypes'
  <2>1. verified' = [c \in Children |-> c \notin K /\ verified[c]] /\ verified \in [Children -> BOOLEAN]
    BY <1>0, <1>3 DEF Erase, Cascade
  <2>2. verified' \in [Children -> BOOLEAN]
    BY <2>1, Zenon
  <2>3. child' \in [Children -> {"absent", "present", "erased"}]
    BY <1>0, <1>3 DEF Erase, Cascade, Erased
  <2> QED BY <1>0, <1>3, <2>2, <2>3 DEF Erase, Cascade
<1>4. CASE cleanup_sessions \/ cleanup_old_messages
  BY <1>0, <1>4 DEF cleanup_sessions, cleanup_old_messages, profile, consent
<1>5. CASE cleanup_messages \/ cleanup_conversations
  BY <1>0, <1>5, PeriodsAssumption DEF cleanup_messages, cleanup_conversations, profile, consent, Cutoff, Never
<1>6. ASSUME NEW c \in Children, CreateProfile(c) PROVE OtherTypes'
  <2>1. PICK young \in BOOLEAN :
          /\ under13' = [under13 EXCEPT ![c] = young]
          /\ \E next \in {"over", IF young THEN "mark pending" ELSE "mark compliant"} :
               making' = [making EXCEPT ![c] = next]
    BY <1>6 DEF CreateProfile
  <2>2. {"over", IF young THEN "mark pending" ELSE "mark compliant"} \subseteq Makings
    BY DEF Makings
  <2>3. PICK next \in Makings : making' = [making EXCEPT ![c] = next]
    BY <2>1, <2>2
  <2>4. /\ under13' \in [Children -> BOOLEAN] /\ making' \in [Children -> Makings]
        /\ child' \in [Children -> {"absent", "present", "erased"}]
    BY <1>0, <1>6, <2>1, <2>3 DEF CreateProfile
  <2> QED BY <1>0, <1>6, <2>4 DEF CreateProfile, consent
<1>7. ASSUME NEW c \in Children, ImportProfile(c) PROVE OtherTypes'
  <2>1. {"status", "over"} \subseteq Makings
    BY DEF Makings
  <2> QED BY <1>0, <1>7, <2>1 DEF ImportProfile, consent
<1>8. ASSUME NEW c \in Children, MarkAge(c) PROVE OtherTypes'
  <2>1. verified' = [verified EXCEPT ![c] = child[c] = "present" /\ making[c] = "mark compliant"]
    BY <1>8 DEF MarkAge
  <2>2. verified' \in [Children -> BOOLEAN]
    BY <1>0, <2>1, Zenon
  <2> QED BY <1>0, <1>8, <2>2 DEF MarkAge, Makings
<1>9. ASSUME NEW c \in Children, SetStatus(c)
      PROVE  verified' \in [Children -> BOOLEAN] /\ lapsed' \subseteq Children
  <2>1. CASE verified' = [verified EXCEPT ![c] = child[c] = "present"] /\ UNCHANGED lapsed
    <3>1. verified' \in [Children -> BOOLEAN]
      BY <1>0, <2>1, Zenon
    <3> QED BY <1>0, <2>1, <3>1
  <2>2. CASE lapsed' = lapsed \cup {c} /\ UNCHANGED verified
    BY <1>0, <2>2
  <2> QED BY <1>9, <2>1, <2>2 DEF SetStatus
<1>10. ASSUME NEW c \in Children, EditAge(c) PROVE OtherTypes'
  <2>1. under13' \in [Children -> BOOLEAN]
    BY <1>0, <1>10, Zenon DEF EditAge
  <2> QED BY <1>0, <1>10, <2>1 DEF EditAge, consent
<1>11. ASSUME NEW c \in Children, ImportStatus(c) PROVE OtherTypes'
  BY <1>0, <1>9, <1>11 DEF ImportStatus, Makings
<1>12. ASSUME NEW c \in Children, ImportLog(c) PROVE OtherTypes'
  BY <1>0, <1>12 DEF ImportLog, Makings
<1>13. ASSUME NEW r \in Requests, Fails(r) PROVE OtherTypes'
  BY <1>0, <1>13 DEF Fails, profile, consent
<1>14. ASSUME NEW t \in Turns, CheckLimits(t) \/ InsertSession(t) \/ FindConversation(t) \/ CreateConversation(t) PROVE OtherTypes'
  BY <1>0, <1>14 DEF CheckLimits, InsertSession, FindConversation, CreateConversation, profile, consent
<1>15. ASSUME NEW t \in Turns, NoHistory(t) \/ Gate(t) \/ NoReply(t) \/ AddMessage(t) \/ NoteMessage(t) PROVE OtherTypes'
  BY <1>0, <1>15 DEF NoHistory, Gate, NoReply, AddMessage, NoteMessage, profile, consent
<1>16. ASSUME NEW t \in Turns, NEW w \in Workers, Begin(t, w) \/ Reply(t, w) PROVE OtherTypes'
  BY <1>0, <1>16 DEF Begin, Reply, profile, consent
<1>17. ASSUME NEW e \in Ends, EndSession(e) \/ \E w \in Workers : ReadSession(e, w) PROVE OtherTypes'
  BY <1>0, <1>17 DEF EndSession, ReadSession, profile, consent
<1>18. ASSUME NEW v \in Verifies, RequestConsent(v) \/ LogConsent(v) \/ SpendToken(v) PROVE OtherTypes'
  BY <1>0, <1>18 DEF RequestConsent, LogConsent, SpendToken, profile
<1>19. ASSUME NEW v \in Verifies, UpdateStatus(v) \/ \E w \in Workers : ReadToken(v, w) PROVE OtherTypes'
  BY <1>0, <1>9, <1>19 DEF UpdateStatus, ReadToken, profile, consent
<1> QED
  BY <1>1, <1>2, <1>3, <1>4, <1>5, <1>6, <1>7, <1>8, <1>10, <1>11, <1>12, <1>13, <1>14, <1>15, <1>16,
     <1>17, <1>18, <1>19
  DEF Next

\* TypeOK, put together from its parts.
LEMMA TypeStep ==
  ASSUME IInv, [Next]_vars
  PROVE  TypeOK'
BY HandledStep, TalkStep, HeldStep, OtherStep
   DEF TypeOK, OneEach, TalkTypes, HeldTypes, OtherTypes, ConversationSet

------------------------------------------------------------------------------
\* Turns that keep to their own child's sessions.

\* What turn t holds is of its own child.
HeldOf(t) ==
  /\ t \notin crossed /\ sess[t] # 0 => ChildOf[sess[t]] = ChildOf[t]
  /\ conv[t][1] # 0 /\ t \notin crossed /\ conv[t][1] \notin crossed => ChildOf[conv[t][1]] = ChildOf[t]

\* So are the rows of such turns.
RowsUnmixed ==
  /\ \A k \in conversations : k.id[1] \notin crossed => ChildOf[k.session] = Holder(k)
  /\ \A m \in messages : Mixed(m) \/ ChildOf[m.conv[1]] = Author(m)

\* The same, turn by turn and row by row.
LEMMA UnmixedApart ==
  /\ Unmixed <=> RowsUnmixed /\ \A t \in Turns : HeldOf(t)
  /\ Unmixed' <=> RowsUnmixed' /\ \A t \in Turns : HeldOf(t)'
BY DEF Unmixed, RowsUnmixed, HeldOf

\* A step of one request that writes no row keeps the turns of the others as they are.
LEMMA UnmixedHeld ==
  ASSUME IInv, NEW r \in Requests, UNCHANGED <<conversations, messages>>, crossed \subseteq crossed',
         \A q \in Requests \ {r} : sess'[q] = sess[q] /\ conv'[q] = conv[q],
         r \in Turns => HeldOf(r)'
  PROVE  Unmixed'
<1>1. RowsUnmixed /\ \A t \in Turns : HeldOf(t)
  BY UnmixedApart DEF IInv
<1>2. RowsUnmixed'
  BY <1>1 DEF RowsUnmixed, Mixed, Author, Holder
<1>3. \A t \in Turns : HeldOf(t)'
  <2> TAKE t \in Turns
  <2>1. CASE t # r
    <3>1. sess'[t] = sess[t] /\ conv'[t] = conv[t] /\ HeldOf(t)
      BY <1>1, <2>1 DEF Requests
    <3> QED BY <3>1 DEF HeldOf
  <2> QED BY <2>1
<1> QED BY <1>2, <1>3, UnmixedApart

\* Every step keeps the rows of turns that keep to their own child's sessions unmixed.
LEMMA UnmixedStep ==
  ASSUME IInv, [Next]_vars
  PROVE  Unmixed'
<1>0. /\ Turns \subseteq Requests /\ Turns \cap Verifies = {} /\ Turns \cap Ends = {} /\ 0 \notin Turns
      /\ Verifies \subseteq Requests /\ Ends \subseteq Requests
  BY RequestsAssumption DEF Requests, Turns
<1>a. /\ sess \in [Requests -> Turns \cup {0}] /\ conv \in [Requests -> ConvIds \cup {<<0, FALSE>>}]
      /\ \A k \in conversations : k \in ConversationSet /\ k.id \in ConvIds /\ k.id[1] \in Turns /\ k.session \in Turns
  <2>1. \A k \in ConversationSet : k.id \in ConvIds /\ k.id[1] \in Turns /\ k.session \in Turns
    BY DEF ConversationSet, ConvIds
  <2> QED BY <2>1 DEF IInv, TypeOK, ConversationSet
<1>b. RowsUnmixed /\ \A t \in Turns : HeldOf(t)
  BY UnmixedApart DEF IInv
\* A step that moves no turn to another session or conversation, and only deletes.
<1>1. ASSUME UNCHANGED <<sess, conv, crossed>>, conversations' \subseteq conversations, messages' \subseteq messages
      PROVE  Unmixed'
  <2>1. RowsUnmixed'
    BY <1>b, <1>1 DEF RowsUnmixed, Mixed, Author, Holder
  <2>2. \A t \in Turns : HeldOf(t)'
    BY <1>b, <1>1 DEF HeldOf
  <2> QED BY <2>1, <2>2, UnmixedApart
<1>2. CASE UNCHANGED vars \/ Tick
  BY <1>1, <1>2 DEF vars, Tick, talk, server, held
<1>3. CASE cleanup_sessions \/ cleanup_old_messages \/ cleanup_messages \/ cleanup_conversations
  BY <1>1, <1>3 DEF cleanup_sessions, cleanup_old_messages, cleanup_messages, cleanup_conversations, Delete, server, held
<1>4. ASSUME NEW K \in SUBSET Children, Erase(K) PROVE Unmixed'
  BY <1>1, <1>4 DEF Erase, Cascade, Delete, server, held
<1>5. ASSUME NEW c \in Children,
             CreateProfile(c) \/ MarkAge(c) \/ EditAge(c) \/ ImportProfile(c) \/ ImportStatus(c) \/ ImportLog(c)
      PROVE  Unmixed'
  BY <1>1, <1>5 DEF CreateProfile, MarkAge, EditAge, ImportProfile, ImportStatus, ImportLog, talk, server, held
<1>6. ASSUME NEW t \in Turns, CheckLimits(t) \/ NoHistory(t) \/ Gate(t) PROVE Unmixed'
  BY <1>1, <1>6 DEF CheckLimits, NoHistory, Gate, talk, held
<1>7. ASSUME NEW v \in Verifies, RequestConsent(v) \/ LogConsent(v) \/ UpdateStatus(v) \/ \E w \in Workers : ReadToken(v, w)
      PROVE  Unmixed'
  BY <1>1, <1>7 DEF RequestConsent, LogConsent, UpdateStatus, ReadToken, talk, server, held
\* A request ends.
<1>8. ASSUME NEW r \in Requests, NEW s, End(r, s), UNCHANGED <<conversations, messages>> PROVE Unmixed'
  <2>1. /\ sess'[r] = 0 /\ conv'[r] = <<0, FALSE>> /\ crossed' = crossed
        /\ \A q \in Requests \ {r} : sess'[q] = sess[q] /\ conv'[q] = conv[q]
    BY <1>8, <1>a DEF End
  <2>2. r \in Turns => HeldOf(r)'
    BY <2>1 DEF HeldOf
  <2> QED BY <1>8, <2>1, <2>2, UnmixedHeld
<1>9. ASSUME NEW r \in Requests, Fails(r) PROVE Unmixed'
  BY <1>8, <1>9 DEF Fails, Over, talk
<1>10. ASSUME NEW t \in Turns, NoReply(t) PROVE Unmixed'
  BY <1>0, <1>8, <1>10 DEF NoReply, Over, talk
<1>11. ASSUME NEW e \in Ends, EndSession(e) PROVE Unmixed'
  BY <1>0, <1>8, <1>11 DEF EndSession, Over
<1>12. ASSUME NEW v \in Verifies, SpendToken(v) PROVE Unmixed'
  BY <1>0, <1>8, <1>12 DEF SpendToken, talk
<1>13. ASSUME NEW e \in Ends, NEW w \in Workers, ReadSession(e, w) PROVE Unmixed'
  <2>1. PICK s \in sessions : sess' = [sess EXCEPT ![e] = s.id]
    BY <1>13 DEF ReadSession
  <2>2. /\ crossed' = crossed /\ UNCHANGED <<conversations, messages>>
        /\ \A q \in Requests \ {e} : sess'[q] = sess[q] /\ conv'[q] = conv[q]
    BY <1>13, <1>a, <2>1 DEF ReadSession, talk
  <2> QED BY <1>0, <2>2, UnmixedHeld
<1>14. ASSUME NEW t \in Turns, NEW w \in Workers, Begin(t, w) PROVE Unmixed'
  <2>1. UNCHANGED <<conv, conversations, messages>> /\ conv[t] = conv'[t]
    BY <1>14 DEF Begin, talk
  <2>2. CASE \E s \in sessions :
               /\ sess' = [sess EXCEPT ![t] = s.id]
               /\ crossed' = IF ChildOf[s.id] = ChildOf[t] THEN crossed ELSE crossed \cup {t}
    <3>1. PICK s \in sessions :
               /\ sess' = [sess EXCEPT ![t] = s.id]
               /\ crossed' = IF ChildOf[s.id] = ChildOf[t] THEN crossed ELSE crossed \cup {t}
      BY <2>2
    <3>2. /\ sess'[t] = s.id /\ \A q \in Requests \ {t} : sess'[q] = sess[q]
          /\ crossed \subseteq crossed' /\ (ChildOf[s.id] # ChildOf[t] => t \in crossed')
      BY <1>0, <1>a, <3>1
    <3>3. HeldOf(t)'
      BY <1>b, <2>1, <3>2 DEF HeldOf
    <3> QED BY <1>0, <2>1, <3>2, <3>3, UnmixedHeld
  <2>3. CASE UNCHANGED <<sess, crossed>>
    BY <1>1, <2>1, <2>3
  <2> QED BY <1>14, <2>2, <2>3 DEF Begin
<1>15. ASSUME NEW t \in Turns, NEW w \in Workers, Reply(t, w) PROVE Unmixed'
  BY <1>1, <1>15 DEF Reply, talk
<1>16. ASSUME NEW t \in Turns, InsertSession(t) PROVE Unmixed'
  <2>1. /\ UNCHANGED <<conv, crossed, conversations, messages>>
        /\ sess'[t] = t /\ \A q \in Requests \ {t} : sess'[q] = sess[q]
    BY <1>0, <1>16, <1>a DEF InsertSession
  <2>2. HeldOf(t)'
    BY <1>b, <2>1 DEF HeldOf
  <2> QED BY <1>0, <2>1, <2>2, UnmixedHeld
<1>17. ASSUME NEW t \in Turns, FindConversation(t) PROVE Unmixed'
  <2>1. UNCHANGED <<sess, crossed, conversations, messages>>
    BY <1>17 DEF FindConversation, talk
  <2>2. ASSUME NEW k \in conversations, k.session = sess[t], conv' = [conv EXCEPT ![t] = k.id]
        PROVE  Unmixed'
    <3>1. conv'[t] = k.id /\ \A q \in Requests \ {t} : conv'[q] = conv[q]
      BY <1>0, <1>a, <2>2
    <3>2. /\ sess[t] # 0 /\ HeldOf(t)
          /\ k.id[1] \notin crossed => ChildOf[k.session] = ChildOf[k.id[1]]
      BY <1>0, <1>a, <1>b, <2>2 DEF RowsUnmixed, Holder
    <3>3. HeldOf(t)'
      BY <2>1, <2>2, <3>1, <3>2 DEF HeldOf
    <3> QED BY <1>0, <2>1, <3>1, <3>3, UnmixedHeld
  <2>3. CASE conv' = conv
    BY <1>1, <2>1, <2>3
  <2> QED BY <1>17, <2>2, <2>3 DEF FindConversation
<1>18. ASSUME NEW t \in Turns, CreateConversation(t) PROVE Unmixed'
  <2> DEFINE d == [id |-> <<t, Replied(t)>>, session |-> sess[t], created |-> today, updated |-> today]
  <2>1. /\ conversations' = conversations \cup {d} /\ UNCHANGED <<sess, crossed, messages>>
        /\ conv' = [conv EXCEPT ![t] = <<t, Replied(t)>>] /\ \E s \in sessions : s.id = sess[t]
    BY <1>18 DEF CreateConversation
  <2>2. d.id[1] = t /\ d.session = sess[t]
    OBVIOUS
  <2>3. sess[t] # 0
    <3>1. \A s \in sessions : s.id \in Turns
      BY RowsHaveChildren DEF IInv
    <3> QED BY <1>0, <2>1, <3>1
  <2>4. conv'[t][1] = t /\ \A u \in Turns \ {t} : conv'[u] = conv[u]
    BY <1>0, <1>a, <2>1
  <2> HIDE DEF d
  <2>5. RowsUnmixed'
    <3>1. t \notin crossed => ChildOf[sess[t]] = ChildOf[t]
      BY <1>b, <2>3 DEF HeldOf
    <3> QED BY <1>b, <2>1, <2>2, <3>1 DEF RowsUnmixed, Mixed, Author, Holder
  <2>6. \A u \in Turns : HeldOf(u)'
    <3>1. HeldOf(t)'
      BY <1>b, <2>1, <2>4 DEF HeldOf
    <3>2. \A u \in Turns \ {t} : HeldOf(u)'
      BY <1>b, <2>1, <2>4 DEF HeldOf
    <3> QED BY <3>1, <3>2
  <2> QED BY <2>5, <2>6, UnmixedApart
<1>19. ASSUME NEW t \in Turns, AddMessage(t) PROVE Unmixed'
  <2> DEFINE n == [turn |-> t, role |-> pc[t], conv |-> conv[t], day |-> today]
  <2>1. /\ messages' = messages \cup {n} /\ UNCHANGED <<sess, conv, crossed, conversations>>
        /\ \E k \in conversations : k.id = conv[t]
    BY <1>19 DEF AddMessage, held
  <2>2. n.turn = t /\ n.conv = conv[t]
    OBVIOUS
  <2> HIDE DEF n
  <2>3. conv[t][1] # 0
    BY <1>0, <1>a, <2>1
  <2>4. t \in crossed \/ conv[t][1] \in crossed \/ ChildOf[conv[t][1]] = ChildOf[t]
    BY <1>b, <2>3 DEF HeldOf
  <2>5. RowsUnmixed'
    BY <1>b, <2>1, <2>2, <2>4 DEF RowsUnmixed, Mixed, Author, Holder
  <2>6. \A u \in Turns : HeldOf(u)'
    BY <1>b, <2>1 DEF HeldOf
  <2> QED BY <2>5, <2>6, UnmixedApart
<1>20. ASSUME NEW t \in Turns, NoteMessage(t) PROVE Unmixed'
  <2> DEFINE F(c) == IF c.id = conv[t] THEN [c EXCEPT !.updated = today] ELSE c
  <2>1. /\ conversations' = {F(c) : c \in conversations} /\ UNCHANGED <<messages, crossed>>
        /\ (UNCHANGED <<sess, conv>> \/ End(t, "over"))
    BY <1>20 DEF NoteMessage, Over, End, held
  <2>2. \A c \in conversations : F(c).id = c.id /\ F(c).session = c.session
    <3>1. today \in Days
      BY DEF IInv, TypeOK
    <3> QED BY <1>a, <3>1, ConversationChanged
  <2> HIDE DEF F
  <2>3. RowsUnmixed'
    <3>1. \A k \in conversations' : \E c \in conversations : k.id = c.id /\ k.session = c.session
      BY <2>1, <2>2
    <3> QED BY <1>b, <2>1, <3>1 DEF RowsUnmixed, Mixed, Author, Holder
  <2>4. ASSUME NEW u \in Turns PROVE HeldOf(u)'
    <3>1. CASE UNCHANGED <<sess, conv>>
      BY <1>b, <2>1, <3>1 DEF HeldOf
    <3>2. CASE End(t, "over") /\ u = t
      <4>1. sess'[u] = 0 /\ conv'[u] = <<0, FALSE>>
        BY <1>0, <1>a, <3>2 DEF End
      <4>2. conv'[u][1] = 0
        BY <4>1
      <4> QED BY <4>1, <4>2 DEF HeldOf
    <3>3. CASE End(t, "over") /\ u # t
      <4>1. sess'[u] = sess[u] /\ conv'[u] = conv[u]
        BY <1>0, <1>a, <3>3 DEF End
      <4> QED BY <1>b, <2>1, <4>1 DEF HeldOf
    <3> QED BY <2>1, <3>1, <3>2, <3>3
  <2> QED BY <2>3, <2>4, UnmixedApart
<1> QED
  BY <1>2, <1>3, <1>4, <1>5, <1>6, <1>7, <1>9, <1>10, <1>11, <1>12, <1>13, <1>14, <1>15, <1>16,
     <1>17, <1>18, <1>19, <1>20
  DEF Next

\* What an erased child's rows are bound to: nothing of the child is left or comes back.
LEMMA InvErased == IInv => ErasureIsTotal
<1> SUFFICES ASSUME IInv, NEW c \in Children, child[c] = "erased"
             PROVE  /\ c \notin consents /\ ~verified[c]
                    /\ \A s \in sessions : ChildOf[s.id] = c => ~s.named
                    /\ \A k \in conversations : Holder(k) # c
                    /\ \A m \in messages : Author(m) = c => Mixed(m)
  BY DEF ErasureIsTotal
<1>1. c \notin consents /\ ~verified[c]
  BY DEF IInv, Made, MadeOf
<1>2. \A s \in sessions : ChildOf[s.id] = c => ~s.named
  BY DEF IInv, Gone
<1>3. \A k \in conversations : Holder(k) # c
  BY DEF IInv, Gone
<1>4. \A m \in messages : Author(m) = c => Mixed(m)
  <2> SUFFICES ASSUME NEW m \in messages, Author(m) = c, ~Mixed(m) PROVE FALSE
    OBVIOUS
  <2>1. PICK k \in conversations : k.id = m.conv
    BY DEF IInv, TypeOK
  <2>2. Holder(k) = c
    BY <2>1 DEF IInv, Unmixed, Holder
  <2> QED BY <1>3, <2>2
<1> QED BY <1>1, <1>2, <1>3, <1>4

------------------------------------------------------------------------------
\* Dates.

\* Days are integers, and a message has a turn and a day.
LEMMA DaysAreInts == Days \subseteq Int /\ \A m \in MessageSet : m.turn \in Turns /\ m.day \in Days
BY PeriodsAssumption DEF Days, MessageSet

\* Every step keeps the dates in order.
LEMMA DatedStep ==
  ASSUME IInv, [Next]_vars
  PROVE  Dated'
<1> USE DEF Dated
<1>0. /\ Turns \subseteq Requests /\ Verifies \subseteq Requests /\ Ends \subseteq Requests
      /\ Turns \cap Verifies = {} /\ Turns \cap Ends = {}
  BY RequestsAssumption DEF Requests
<1>a. Days \subseteq Int /\ \A m \in messages : m.turn \in Turns /\ m.day \in Days
  BY DaysAreInts DEF IInv, TypeOK
<1>b. /\ Dated /\ today \in Days /\ unnoted \subseteq messages /\ \A c \in conversations : c.updated \in Days
      /\ pc \in [Requests -> PCs] /\ conv \in [Requests -> ConvIds \cup {<<0, FALSE>>}]
  BY DEF IInv, TypeOK
\* A step that neither writes messages nor brings a turn to where it is about to note one.
<1>1. ASSUME UNCHANGED <<today, conversations, messages, unnoted, purge>>,
             \A t \in Turns :
               \/ pc'[t] = pc[t] /\ conv'[t] = conv[t]
               \/ pc'[t] = "over" \/ pc[t] \notin {"over", "note user", "note reply"}
      PROVE  Dated'
  BY <1>1, <1>a, <1>b DEF Cutoff
<1>2. ASSUME NEW r \in Requests,
             pc'[r] = "over" \/ pc[r] \notin {"over", "note user", "note reply"} \/ r \notin Turns,
             \A q \in Requests \ {r} : pc'[q] = pc[q] /\ conv'[q] = conv[q],
             UNCHANGED <<today, conversations, messages, unnoted, purge>>
      PROVE  Dated'
  <2>1. ASSUME NEW t \in Turns
        PROVE  \/ pc'[t] = pc[t] /\ conv'[t] = conv[t]
               \/ pc'[t] = "over" \/ pc[t] \notin {"over", "note user", "note reply"}
    BY <1>0, <1>2
  <2> QED BY <1>1, <1>2, <2>1
\* A deletion.
<1>3. ASSUME NEW C, NEW M, Delete(C, M), UNCHANGED <<today, pc, conv>>, purge' \in {Never, Cutoff}
      PROVE  Dated'
  BY <1>3, <1>a, <1>b DEF Delete, Cutoff
<1>c. purge \in {Never, Cutoff}
  BY <1>b
<1> HIDE DEF Dated
<1>4. CASE UNCHANGED vars \/ \E v \in Verifies : RequestConsent(v)
  BY <1>4, <1>1 DEF vars, RequestConsent, talk, server, held
<1>5. CASE Tick
  <2>1. /\ today' = today + 1 /\ purge = Never /\ purge' = Never
        /\ UNCHANGED <<conversations, messages, unnoted, pc, conv>>
    BY <1>5 DEF Tick, talk, server, held
  <2>2. \A m \in messages : m.day <= today + 1
    <3>1. today \in Int /\ \A m \in messages : m.day \in Int /\ m.day <= today
      BY <1>a, <1>b DEF Dated
    <3> QED BY <3>1
  <2> QED BY <2>1, <2>2, <1>a, <1>b DEF Dated
<1>6. ASSUME NEW K \in SUBSET Children, Erase(K) PROVE Dated'
  BY <1>c, <1>6, <1>3 DEF Erase, Cascade, server, held
<1>7. ASSUME NEW c \in Children,
             CreateProfile(c) \/ MarkAge(c) \/ EditAge(c) \/ ImportProfile(c) \/ ImportStatus(c) \/ ImportLog(c)
      PROVE  Dated'
  BY <1>1, <1>7 DEF CreateProfile, MarkAge, EditAge, ImportProfile, ImportStatus, ImportLog, talk, server, held
<1>8. CASE cleanup_sessions \/ cleanup_old_messages \/ cleanup_messages
  BY <1>c, <1>8, <1>3 DEF cleanup_sessions, cleanup_old_messages, cleanup_messages, server, held
<1>9. CASE cleanup_conversations
  <2>1. UNCHANGED <<today, pc, conv>> /\ purge' = Never
    BY <1>9 DEF cleanup_conversations, server, held
  <2>2. CASE Delete(Untouched(purge), {})
    BY <1>3, <2>1, <2>2
  <2>3. CASE UNCHANGED <<conversations, messages, unnoted>>
    BY <2>1, <2>3, <1>a, <1>b DEF Dated, Cutoff
  <2> QED BY <1>9, <2>2, <2>3 DEF cleanup_conversations
<1>10. ASSUME NEW r \in Requests, Fails(r) PROVE Dated'
  BY <1>b, <1>2, <1>10 DEF Fails, Over, End, talk, held
<1>11. ASSUME NEW t \in Turns, CheckLimits(t) \/ InsertSession(t) \/ NoHistory(t) PROVE Dated'
  BY <1>0, <1>b, <1>2, <1>11 DEF CheckLimits, InsertSession, NoHistory, Goto, talk, held
<1>12. ASSUME NEW t \in Turns, Gate(t) \/ NoReply(t) PROVE Dated'
  BY <1>0, <1>b, <1>2, <1>12 DEF Gate, NoReply, Over, End, talk, held
<1>13. ASSUME NEW t \in Turns, FindConversation(t) PROVE Dated'
  BY <1>0, <1>b, <1>2, <1>13 DEF FindConversation, Goto, talk, held
<1>14. ASSUME NEW t \in Turns, NEW w \in Workers, Begin(t, w) \/ Reply(t, w) PROVE Dated'
  BY <1>0, <1>b, <1>2, <1>14 DEF Begin, Reply, Take, talk, held
<1>15. ASSUME NEW e \in Ends, EndSession(e) \/ \E w \in Workers : ReadSession(e, w) PROVE Dated'
  <2>1. CASE EndSession(e)
    BY <1>0, <1>b, <1>2, <2>1 DEF EndSession, Over, End, held
  <2>2. ASSUME NEW w \in Workers, ReadSession(e, w) PROVE Dated'
    BY <1>0, <1>b, <1>2, <2>2 DEF ReadSession, Take, talk, held
  <2> QED BY <1>15, <2>1, <2>2
<1>16. ASSUME NEW v \in Verifies, LogConsent(v) \/ UpdateStatus(v) PROVE Dated'
  BY <1>0, <1>b, <1>2, <1>16 DEF LogConsent, UpdateStatus, Goto, talk, held
<1>17. ASSUME NEW v \in Verifies, SpendToken(v) \/ \E w \in Workers : ReadToken(v, w) PROVE Dated'
  <2>1. CASE SpendToken(v)
    BY <1>0, <1>b, <1>2, <2>1 DEF SpendToken, End, talk, held
  <2>2. ASSUME NEW w \in Workers, ReadToken(v, w) PROVE Dated'
    BY <1>0, <1>b, <1>2, <2>2 DEF ReadToken, Take, talk, held
  <2> QED BY <1>17, <2>1, <2>2
<1> USE DEF Dated
<1>18. ASSUME NEW t \in Turns, CreateConversation(t) PROVE Dated'
  <2> DEFINE d == [id |-> <<t, Replied(t)>>, session |-> sess[t], created |-> today, updated |-> today]
  <2>1. conversations' = conversations \cup {d} /\ UNCHANGED <<today, messages, unnoted, purge>>
    BY <1>18 DEF CreateConversation, held
  <2>2. d.updated = today
    OBVIOUS
  <2>3. \A u \in Turns :
          \/ pc'[u] = pc[u] /\ conv'[u] = conv[u]
          \/ pc[u] \notin {"over", "note user", "note reply"}
    BY <1>0, <1>b, <1>18 DEF CreateConversation, Goto
  <2> HIDE DEF d
  <2> QED BY <2>1, <2>2, <2>3, <1>a, <1>b DEF Cutoff
<1>19. ASSUME NEW t \in Turns, AddMessage(t) PROVE Dated'
  <2> DEFINE n == [turn |-> t, role |-> pc[t], conv |-> conv[t], day |-> today]
  <2>1. /\ messages' = messages \cup {n} /\ unnoted' = unnoted \cup {n}
        /\ UNCHANGED <<today, conversations, purge, conv>>
    BY <1>19 DEF AddMessage, held
  <2>2. n.turn = t /\ n.conv = conv[t] /\ n.day = today
    OBVIOUS
  <2>3. /\ pc'[t] \in {"note user", "note reply"} /\ pc[t] \in {"user", "reply"}
        /\ \A u \in Turns \ {t} : pc'[u] = pc[u]
    BY <1>0, <1>b, <1>19 DEF AddMessage, Goto
  <2> HIDE DEF n
  <2>4. /\ messages' \ unnoted' \subseteq messages \ unnoted
        /\ \A m \in messages' : m.day <= today
    <3>1. today \in Int /\ \A m \in messages : m.day <= today
      BY <1>a, <1>b
    <3> QED BY <2>1, <2>2, <3>1
  <2>5. \A m \in unnoted : m.turn \in Turns \ {t}
    BY <2>3, <1>a, <1>b
  <2> QED BY <1>b, <2>1, <2>2, <2>3, <2>4, <2>5 DEF Cutoff
<1>20. ASSUME NEW t \in Turns, NoteMessage(t) PROVE Dated'
  <2> DEFINE F(c) == IF c.id = conv[t] THEN [c EXCEPT !.updated = today] ELSE c
  <2>1. /\ conversations' = {F(c) : c \in conversations} /\ unnoted' = {m \in unnoted : m.turn # t}
        /\ UNCHANGED <<today, messages, purge>> /\ pc[t] \in {"note user", "note reply"}
    BY <1>20 DEF NoteMessage, held
  <2>2. \A c \in conversations :
          F(c).id = c.id /\ F(c).updated = IF c.id = conv[t] THEN today ELSE c.updated
    <3>1. conversations \subseteq ConversationSet /\ today \in Days
      BY DEF IInv, TypeOK, ConversationSet
    <3> HIDE DEF Dated
    <3> QED BY <3>1, ConversationChanged
  <2>3. \A u \in Turns \ {t} : pc'[u] = pc[u] /\ conv'[u] = conv[u]
    BY <1>0, <1>b, <1>20 DEF NoteMessage, Goto, Over, End, held
  <2> HIDE DEF F
  <2>4. \A m \in messages \ unnoted' : \A d \in conversations' : d.id = m.conv => m.day <= d.updated
    <3> TAKE m \in messages \ unnoted'
    <3> TAKE d \in conversations'
    <3> HAVE d.id = m.conv
    <3>1. PICK c \in conversations : d = F(c)
      BY <2>1
    <3>2. c.id = m.conv /\ d.updated = IF c.id = conv[t] THEN today ELSE c.updated
      BY <2>2, <3>1
    <3>3. m \notin unnoted \/ (m \in unnoted /\ m.turn = t /\ m.conv = conv[t])
      BY <1>b, <2>1
    <3>4. m \in messages /\ m.day <= today
      BY <1>b, <2>1
    <3> QED BY <1>b, <3>2, <3>3, <3>4
  <2>5. \A m \in unnoted' : m.turn \in Turns \ {t}
    BY <2>1, <1>a, <1>b
  <2> QED BY <1>b, <2>1, <2>3, <2>4, <2>5 DEF Cutoff
<1> HIDE DEF Dated
<1> QED
  BY <1>4, <1>5, <1>6, <1>7, <1>8, <1>9, <1>10, <1>11, <1>12, <1>13, <1>14, <1>15, <1>16, <1>17,
     <1>18, <1>19, <1>20
  DEF Next

------------------------------------------------------------------------------
\* Sessions.

\* A set covered by the image of a finite one is no larger.
LEMMA ImageNotLarger ==
  ASSUME NEW S, IsFiniteSet(S), NEW T, NEW f \in [S -> T], NEW U, \A u \in U : \E x \in S : u = f[x]
  PROVE  /\ IsFiniteSet(U) /\ Cardinality(U) <= Cardinality(S)
         /\ Cardinality(U) \in Nat /\ Cardinality(S) \in Nat
<1> DEFINE V == {f[x] : x \in S}
<1>1. f \in Surjection(S, V)
  BY DEF Surjection
<1>2. IsFiniteSet(V) /\ Cardinality(V) <= Cardinality(S)
  BY <1>1, FS_Surjection
<1>3. IsFiniteSet(U) /\ Cardinality(U) <= Cardinality(V)
  BY <1>2, FS_Subset
<1>4. Cardinality(U) \in Nat /\ Cardinality(V) \in Nat /\ Cardinality(S) \in Nat
  BY <1>2, <1>3, FS_CardinalityType
<1> HIDE DEF V
<1> QED BY <1>2, <1>3, <1>4

\* What the lemmas of this section use of the types.
LEMMA SessionTypes ==
  ASSUME IInv
  PROVE  /\ IsFiniteSet(sessions) /\ today \in Days /\ today \in Int /\ Days \subseteq Int
         /\ \A s \in sessions : s \in SessionSet /\ s.started \in Int /\ s.started <= today
         /\ Cardinality(Workers) \in Nat /\ Cardinality(Workers) # 0 /\ MaxPerDay \in Nat
         /\ MaxPerDay + Cardinality(Workers) \in Int
         /\ pc \in [Requests -> PCs] /\ at \in [Requests -> Workers \cup {"none"}]
         /\ Turns \subseteq Requests /\ Turns \cap Verifies = {} /\ Turns \cap Ends = {}
         /\ Verifies \subseteq Requests /\ Ends \subseteq Requests
<1>1. Cardinality(Workers) \in Nat /\ Cardinality(Workers) # 0 /\ MaxPerDay \in Nat
  BY WorkersAssumption, FS_EmptySet, FS_CardinalityType, PeriodsAssumption
<1>2. \A s \in SessionSet : s.started \in Days
  BY DEF SessionSet
<1>3. sessions \subseteq SessionSet /\ today \in Days
  BY DEF IInv, TypeOK
<1>4. IsFiniteSet(sessions) /\ \A s \in sessions : s.started <= today
  BY DEF IInv, Room
<1>5. pc \in [Requests -> PCs] /\ at \in [Requests -> Workers \cup {"none"}]
  BY DEF IInv, TypeOK
<1>6. /\ Turns \subseteq Requests /\ Turns \cap Verifies = {} /\ Turns \cap Ends = {}
      /\ Verifies \subseteq Requests /\ Ends \subseteq Requests
  BY RequestsAssumption DEF Requests
<1>7. Days \subseteq Int
  BY DaysAreInts
<1>8. MaxPerDay + Cardinality(Workers) \in Int
  BY <1>1
<1> QED BY <1>1, <1>2, <1>3, <1>4, <1>5, <1>6, <1>7, <1>8

\* Requests that insert a session have workers of their own.
LEMMA OneInsertEach ==
  ASSUME NEW I \in SUBSET Requests, NEW a, \A t \in I : a[t] \in Workers,
         \A t, u \in I : a[t] = a[u] => t = u
  PROVE  /\ IsFiniteSet(I) /\ Cardinality(I) \in Nat
         /\ Cardinality(Workers) \in Nat /\ Cardinality(I) <= Cardinality(Workers)
<1> DEFINE f == [t \in I |-> a[t]]
<1>1. f \in Injection(I, Workers)
  BY DEF Injection, IsInjective
<1>2. IsFiniteSet(I) /\ Cardinality(I) <= Cardinality(Workers)
  BY <1>1, FS_Injection, WorkersAssumption
<1> QED BY <1>2, FS_CardinalityType, WorkersAssumption

\* So there are no more of them than workers.
LEMMA InsertingNow ==
  ASSUME IInv, NEW c
  PROVE  /\ IsFiniteSet(Inserting(c)) /\ Cardinality(Inserting(c)) \in Nat
         /\ Cardinality(Inserting(c)) <= Cardinality(Workers)
<1>1. \A t \in Inserting(c) : t \in Requests /\ at[t] \in Workers /\ at[t] # "none"
  BY SessionTypes DEF IInv, Handled, Inserting, Parked
<1>2. \A t, u \in Inserting(c) : at[t] = at[u] => t = u
  BY <1>1 DEF IInv, TypeOK
<1> QED BY <1>1, <1>2, OneInsertEach

\* What a step must keep about sessions.
Limits == Room' /\ SessionLimits'

\* Both limits, from what a step leaves.
LEMMA LimitsKept ==
  ASSUME IsFiniteSet(sessions'), \A s \in sessions' : s.started <= today',
         \A c \in Children : \A t \in Inserting(c)' : \A s \in Active(c)' : s.by # at'[t],
         \A c \in Children : \A d \in Days : Cardinality(Begun(c, d)') < MaxPerDay + Cardinality(Workers),
         \A c \in Children : child'[c] # "erased" =>
           Cardinality(Begun(c, today)') + Cardinality(Inserting(c)') < MaxPerDay + Cardinality(Workers),
         \A s, u \in sessions' :
           /\ s.named /\ s.ended = Never /\ u.named /\ u.ended = Never
           /\ s.by = u.by /\ ChildOf[s.id] = ChildOf[u.id]
           => s = u
  PROVE  Limits
<1>1. Room'
  BY DEF Room
<1>2. SessionLimits'
  BY DEF SessionLimits, Begun
<1> QED BY <1>1, <1>2 DEF Limits

\* A step that begins no session and lets no turn go on to insert one: the sessions that
\* remain are images of earlier ones, none of them newly active.
LEMMA SessionsShrink ==
  ASSUME IInv, NEW T, NEW f \in [sessions -> T], \A u \in sessions' : \E s \in sessions : u = f[s],
         \A s \in sessions :
           /\ f[s].started = s.started /\ f[s].id = s.id
           /\ f[s].named /\ f[s].ended = Never => s.named /\ s.ended = Never /\ f[s].by = s.by,
         UNCHANGED today, \A c \in Children : child'[c] # "erased" => child[c] # "erased",
         \A t \in Turns : pc'[t] = "insert" => pc[t] = "insert" /\ at'[t] = at[t]
  PROVE  Limits
<1> DEFINE K == MaxPerDay + Cardinality(Workers)
<1>0. IsFiniteSet(sessions) /\ today \in Days /\ K \in Int /\ \A s \in sessions : s.started <= today
  BY SessionTypes
<1>1. IsFiniteSet(sessions')
  <2>1. SUFFICES ASSUME NEW U, U = sessions' PROVE IsFiniteSet(U)
    OBVIOUS
  <2>2. \A u \in U : \E s \in sessions : u = f[s]
    BY <2>1
  <2>3. f \in [sessions -> T] /\ IsFiniteSet(sessions)
    BY <1>0
  <2> QED BY ONLY <2>2, <2>3, ImageNotLarger
<1>2. ASSUME NEW c, NEW d
      PROVE  /\ Cardinality(Begun(c, d)') <= Cardinality(Begun(c, d))
             /\ Cardinality(Begun(c, d)') \in Nat /\ Cardinality(Begun(c, d)) \in Nat
  <2> DEFINE B == {s \in sessions' : ChildOf[s.id] = c /\ s.started = d}
             g == [s \in Begun(c, d) |-> f[s]]
  <2>1. IsFiniteSet(Begun(c, d))
    BY <1>0, FS_Subset DEF Begun
  <2>2. g \in [Begun(c, d) -> T]
    BY DEF Begun
  <2>3. \A b \in B : \E s \in Begun(c, d) : b = g[s]
    BY DEF Begun
  <2>4. B = Begun(c, d)'
    BY DEF Begun
  <2> HIDE DEF B, g
  <2>5. Cardinality(B) <= Cardinality(Begun(c, d)) /\ Cardinality(B) \in Nat /\ Cardinality(Begun(c, d)) \in Nat
    BY <2>1, <2>2, <2>3, ImageNotLarger
  <2> QED BY <2>4, <2>5
<1>3. \A c \in Children : \A d \in Days : Cardinality(Begun(c, d)') < K
  <2> TAKE c \in Children
  <2> TAKE d \in Days
  <2>1. Cardinality(Begun(c, d)) < K
    BY DEF IInv, Room
  <2> HIDE DEF K
  <2> QED BY <2>1, <1>0, <1>2
<1>4. \A c : Inserting(c)' \subseteq Inserting(c)
  BY Zenon DEF Inserting
<1>5. ASSUME NEW c
      PROVE  /\ Cardinality(Inserting(c)') <= Cardinality(Inserting(c))
             /\ Cardinality(Inserting(c)') \in Nat /\ Cardinality(Inserting(c)) \in Nat
  BY <1>4, InsertingNow, FS_Subset, FS_CardinalityType
<1>6. \A c \in Children : child'[c] # "erased" => Cardinality(Begun(c, today)') + Cardinality(Inserting(c)') < K
  <2> TAKE c \in Children
  <2> HAVE child'[c] # "erased"
  <2>1. Cardinality(Begun(c, today)) + Cardinality(Inserting(c)) < K
    BY DEF IInv, Room
  <2>2. Begun(c, today)' = {s \in sessions' : ChildOf[s.id] = c /\ s.started = today}
    BY DEF Begun
  <2>3. /\ Cardinality(Begun(c, today)') <= Cardinality(Begun(c, today))
        /\ Cardinality(Begun(c, today)') \in Nat /\ Cardinality(Begun(c, today)) \in Nat
    <3>1. PICK d : d = today
      OBVIOUS
    <3>2. Begun(c, d)' = Begun(c, today)' /\ Begun(c, d) = Begun(c, today)
      BY <3>1 DEF Begun
    <3> QED BY <1>2, <3>2
  <2> HIDE DEF K
  <2> QED BY <2>1, <2>3, <1>0, <1>5
<1>7. \A c \in Children : \A t \in Inserting(c)' : \A s \in Active(c)' : s.by # at'[t]
  <2> TAKE c \in Children
  <2> TAKE t \in Inserting(c)'
  <2> TAKE s \in Active(c)'
  <2>1. PICK r \in sessions : s = f[r]
    BY DEF Active
  <2>2. r \in Active(c) /\ s.by = r.by
    BY <2>1 DEF Active
  <2>3. t \in Inserting(c) /\ at'[t] = at[t]
    BY <1>4 DEF Inserting
  <2> QED BY <2>2, <2>3 DEF IInv, Room
<1>8. \A s \in sessions' : s.started <= today'
  BY <1>0
<1>9. \A s, u \in sessions' :
        /\ s.named /\ s.ended = Never /\ u.named /\ u.ended = Never
        /\ s.by = u.by /\ ChildOf[s.id] = ChildOf[u.id]
        => s = u
  <2> TAKE s, u \in sessions'
  <2> HAVE /\ s.named /\ s.ended = Never /\ u.named /\ u.ended = Never
           /\ s.by = u.by /\ ChildOf[s.id] = ChildOf[u.id]
  <2>1. PICK p \in sessions, q \in sessions : s = f[p] /\ u = f[q]
    OBVIOUS
  <2>2. p = q
    BY <2>1 DEF IInv, SessionLimits
  <2> QED BY <2>1, <2>2
<1> QED BY <1>1, <1>3, <1>6, <1>7, <1>8, <1>9, LimitsKept

\* A step that keeps a subset of the sessions as they are.
LEMMA SessionsStay ==
  ASSUME IInv, sessions' \subseteq sessions,
         UNCHANGED today, \A c \in Children : child'[c] # "erased" => child[c] # "erased",
         \A t \in Turns : pc'[t] = "insert" => pc[t] = "insert" /\ at'[t] = at[t]
  PROVE  Limits
<1> DEFINE f == [s \in sessions |-> s]
<1>1. f \in [sessions -> sessions] /\ \A s \in sessions : f[s] = s
  OBVIOUS
<1>2. \A u \in sessions' : \E s \in sessions : u = f[s]
  BY <1>1
<1> HIDE DEF f
<1> QED BY <1>1, <1>2, SessionsShrink

\* Turns that see the limits go on to insert a session, each on a worker of its own.
LEMMA CheckedLimits ==
  ASSUME IInv, [Next]_vars, NEW t \in Turns, CheckLimits(t)
  PROVE  Limits
<1> DEFINE K == MaxPerDay + Cardinality(Workers)
           b == ChildOf[t]
<1>0. IsFiniteSet(sessions) /\ today \in Days /\ K \in Int /\ \A s \in sessions : s.started <= today
  BY SessionTypes
<1>1. /\ UNCHANGED <<today, child, sessions, at>> /\ pc' = [pc EXCEPT ![t] = "insert"]
      /\ Active(b) = {} /\ Cardinality(Today(b)) < MaxPerDay
  BY DEF CheckLimits, talk, profile, Goto
<1>2. \A c, d : Begun(c, d)' = Begun(c, d)
  BY <1>1 DEF Begun
<1>3. \A c : Active(c)' = Active(c) /\ Begun(c, today)' = Begun(c, today)
  BY <1>1 DEF Active, Begun
<1>4. \A c : c # b => Inserting(c)' = Inserting(c)
  BY <1>1, SessionTypes DEF Inserting
<1>5. ASSUME NEW c
      PROVE  Cardinality(Inserting(c)') \in Nat /\ Cardinality(Inserting(c)') <= Cardinality(Workers)
  <2>1. pc' \in [Requests -> PCs] /\ Handled' /\ OneEach' /\ at' \in [Requests -> Workers \cup {"none"}]
    BY HandledStep
  <2>2. \A u \in Inserting(c)' : u \in Requests /\ at'[u] # "none" /\ at'[u] \in Workers
    BY <2>1, SessionTypes DEF Inserting, Handled, Parked
  <2>3. \A u, q \in Inserting(c)' : at'[u] = at'[q] => u = q
    BY <2>1, <2>2 DEF OneEach
  <2>4. PICK I, a : I = Inserting(c)' /\ a = at'
    OBVIOUS
  <2>5. I \in SUBSET Requests /\ (\A u \in I : a[u] \in Workers) /\ \A u, q \in I : a[u] = a[q] => u = q
    BY <2>2, <2>3, <2>4
  <2>6. Cardinality(I) \in Nat /\ Cardinality(I) <= Cardinality(Workers)
    BY <2>5, OneInsertEach
  <2> QED BY <2>4, <2>6
<1>6. \A c \in Children : child'[c] # "erased" => Cardinality(Begun(c, today)') + Cardinality(Inserting(c)') < K
  <2> TAKE c \in Children
  <2> HAVE child'[c] # "erased"
  <2>1. CASE c = b
    <3>1. Begun(b, today) = Today(b)
      BY <1>1, <2>1 DEF Begun, Today, IInv, Gone
    <3>2. Cardinality(Begun(b, today)) \in Nat
      <4>1. Begun(b, today) \subseteq sessions
        BY DEF Begun
      <4> QED BY <1>0, <4>1, FS_Subset, FS_CardinalityType
    <3>3. /\ Cardinality(Begun(b, today)) < MaxPerDay /\ MaxPerDay \in Nat
          /\ Cardinality(Workers) \in Nat
      BY <1>1, <3>1, SessionTypes
    <3>4. Cardinality(Begun(b, today)) + Cardinality(Inserting(b)') < K
      BY <1>5, <3>2, <3>3
    <3> QED BY <1>3, <2>1, <3>4
  <2>2. CASE c # b
    <3>1. Cardinality(Begun(c, today)) + Cardinality(Inserting(c)) < K
      BY <1>1 DEF IInv, Room
    <3> QED BY <1>3, <1>4, <2>2, <3>1
  <2> QED BY <2>1, <2>2
<1>7. \A c \in Children : \A u \in Inserting(c)' : \A s \in Active(c)' : s.by # at'[u]
  BY <1>1, <1>3, <1>4 DEF IInv, Room
<1>8. \A c \in Children : \A d \in Days : Cardinality(Begun(c, d)') < K
  BY <1>2 DEF IInv, Room
<1>9. \A s, u \in sessions' :
        /\ s.named /\ s.ended = Never /\ u.named /\ u.ended = Never
        /\ s.by = u.by /\ ChildOf[s.id] = ChildOf[u.id]
        => s = u
  BY <1>1 DEF IInv, SessionLimits
<1>10. IsFiniteSet(sessions') /\ \A s \in sessions' : s.started <= today'
  BY <1>0, <1>1
<1> QED BY <1>6, <1>7, <1>8, <1>9, <1>10, LimitsKept

\* A session that is inserted takes the room that was kept for it.
LEMMA InsertedSession ==
  ASSUME IInv, NEW t \in Turns, InsertSession(t)
  PROVE  Limits
<1> DEFINE n == [id |-> t, named |-> TRUE, started |-> today, ended |-> Never, by |-> at[t]]
           K == MaxPerDay + Cardinality(Workers)
           b == ChildOf[t]
<1>0. /\ IsFiniteSet(sessions) /\ today \in Days /\ today \in Int /\ K \in Int
      /\ \A s \in sessions : s.started <= today
  BY SessionTypes
<1>1. /\ sessions' = sessions \cup {n} /\ UNCHANGED <<today, child, at>> /\ child[b] = "present"
      /\ pc[t] = "insert" /\ pc' = [pc EXCEPT ![t] = "find"] /\ b \in Children
  BY ChildrenAssumption DEF InsertSession, Goto, profile
<1>2. n.id = t /\ n.named /\ n.started = today /\ n.ended = Never /\ n.by = at[t]
  OBVIOUS
<1>3. /\ Inserting(b)' = Inserting(b) \ {t} /\ t \in Inserting(b)
      /\ \A c : c # b => Inserting(c)' = Inserting(c)
      /\ \A c : Inserting(c)' \subseteq Inserting(c) \ {t}
  BY <1>1, SessionTypes DEF Inserting
<1> HIDE DEF n
<1>4. IsFiniteSet(sessions')
  BY <1>0, <1>1, FS_AddElement
<1>5. /\ Cardinality(Inserting(b)') = Cardinality(Inserting(b)) - 1
      /\ Cardinality(Inserting(b)) \in Nat /\ Cardinality(Inserting(b)') \in Nat
  BY <1>3, InsertingNow, FS_RemoveElement, FS_CardinalityType
<1>6. \A c, d : (c # b \/ d # today) => Begun(c, d)' = Begun(c, d)
  BY <1>1, <1>2 DEF Begun
<1>7. Begun(b, today)' = Begun(b, today) \cup {n}
  BY <1>1, <1>2 DEF Begun
<1>8. /\ Cardinality(Begun(b, today)') \in Nat /\ Cardinality(Begun(b, today)) \in Nat
      /\ Cardinality(Begun(b, today)') <= Cardinality(Begun(b, today)) + 1
  <2>1. IsFiniteSet(Begun(b, today))
    BY <1>0, FS_Subset DEF Begun
  <2>2. /\ IsFiniteSet(Begun(b, today) \cup {n})
        /\ Cardinality(Begun(b, today) \cup {n})
             = IF n \in Begun(b, today) THEN Cardinality(Begun(b, today)) ELSE Cardinality(Begun(b, today)) + 1
    BY <2>1, FS_AddElement
  <2>3. Cardinality(Begun(b, today)) \in Nat /\ Cardinality(Begun(b, today) \cup {n}) \in Nat
    BY <2>1, <2>2, FS_CardinalityType
  <2> QED BY <1>7, <2>2, <2>3
<1>9. /\ Cardinality(Begun(b, today)) + Cardinality(Inserting(b)) < K
      /\ \A c \in Children : \A d \in Days : Cardinality(Begun(c, d)) < K
  BY <1>1 DEF IInv, Room
<1> HIDE DEF K
<1>10. Cardinality(Begun(b, today)') + Cardinality(Inserting(b)') < K
  BY <1>0, <1>5, <1>8, <1>9
<1>11. \A c \in Children : \A d \in Days : Cardinality(Begun(c, d)') < K
  <2> TAKE c \in Children
  <2> TAKE d \in Days
  <2>1. CASE c = b /\ d = today
    <3>1. Begun(c, d)' = Begun(b, today)'
      BY <1>1, <2>1 DEF Begun
    <3>2. Cardinality(Begun(b, today)') < K
      BY <1>0, <1>5, <1>8, <1>10
    <3> QED BY <3>1, <3>2
  <2>2. CASE ~(c = b /\ d = today)
    BY <1>6, <1>9, <2>2
  <2> QED BY <2>1, <2>2
<1>12. \A c \in Children : child'[c] # "erased" => Cardinality(Begun(c, today)') + Cardinality(Inserting(c)') < K
  <2> TAKE c \in Children
  <2> HAVE child'[c] # "erased"
  <2>1. CASE c = b
    BY <1>10, <2>1
  <2>2. CASE c # b
    <3>1. Cardinality(Begun(c, today)) + Cardinality(Inserting(c)) < K
      BY <1>1 DEF IInv, Room, K
    <3>2. Begun(c, today)' = Begun(c, today)
      BY <1>1, <1>2, <2>2 DEF Begun
    <3> QED BY <1>3, <2>2, <3>1, <3>2
  <2> QED BY <2>1, <2>2
<1>13. \A c \in Children : \A u \in Inserting(c)' : \A s \in Active(c)' : s.by # at'[u]
  <2> TAKE c \in Children
  <2> TAKE u \in Inserting(c)'
  <2> TAKE s \in Active(c)'
  <2>1. u \in Inserting(c) /\ u # t /\ at'[u] = at[u]
    BY <1>1, <1>3
  <2>2. CASE s = n
    <3>1. at[t] # "none" /\ at[u] # at[t]
      BY <1>3, <2>1, SessionTypes DEF IInv, TypeOK, Handled, Parked, Inserting
    <3> QED BY <1>2, <2>1, <2>2, <3>1
  <2>3. CASE s # n
    <3>1. s \in Active(c)
      BY <1>1, <2>3 DEF Active
    <3> QED BY <2>1, <3>1 DEF IInv, Room
  <2> QED BY <2>2, <2>3
<1>14. \A s \in sessions' : s.started <= today'
  BY <1>0, <1>1, <1>2
<1>15. \A s \in sessions : s.named /\ s.ended = Never /\ ChildOf[s.id] = b => s.by # n.by
  BY <1>1, <1>2, <1>3 DEF IInv, Room, Active
<1>16. \A s, u \in sessions' :
         /\ s.named /\ s.ended = Never /\ u.named /\ u.ended = Never
         /\ s.by = u.by /\ ChildOf[s.id] = ChildOf[u.id]
         => s = u
  BY <1>1, <1>2, <1>15 DEF IInv, SessionLimits
<1> QED BY <1>4, <1>11, <1>12, <1>13, <1>14, <1>16, LimitsKept DEF K

\* A day begins without sessions.
LEMMA NewDay ==
  ASSUME IInv, Tick
  PROVE  Limits
<1> DEFINE K == MaxPerDay + Cardinality(Workers)
<1>0. /\ IsFiniteSet(sessions) /\ today \in Int /\ 0 < K
      /\ \A s \in sessions : s.started \in Int /\ s.started <= today
  BY SessionTypes
<1>1. /\ UNCHANGED <<child, sessions, pc, at>> /\ today' = today + 1 /\ \A r \in Requests : at[r] = "none"
  BY DEF Tick, talk, profile, server
<1>2. \A c : Inserting(c)' = {} /\ Inserting(c) = {}
  BY <1>1, SessionTypes DEF Inserting, IInv, Handled, Parked
<1>3. \A c : Begun(c, today)' = {}
  BY <1>0, <1>1 DEF Begun
<1>4. \A c \in Children : Cardinality(Begun(c, today)') + Cardinality(Inserting(c)') < K
  BY <1>0, <1>2, <1>3, FS_EmptySet
<1>5. \A c \in Children : \A d \in Days : Cardinality(Begun(c, d)') < K
  <2>1. \A c, d : Begun(c, d)' = Begun(c, d)
    BY <1>1 DEF Begun
  <2> QED BY <2>1 DEF IInv, Room
<1>6. \A c \in Children : \A u \in Inserting(c)' : \A s \in Active(c)' : s.by # at'[u]
  BY <1>2
<1>7. \A s, u \in sessions' :
        /\ s.named /\ s.ended = Never /\ u.named /\ u.ended = Never
        /\ s.by = u.by /\ ChildOf[s.id] = ChildOf[u.id]
        => s = u
  BY <1>1 DEF IInv, SessionLimits
<1>8. IsFiniteSet(sessions') /\ \A s \in sessions' : s.started <= today'
  BY <1>0, <1>1
<1> QED BY <1>4, <1>5, <1>6, <1>7, <1>8, LimitsKept

\* Every step keeps the limits.
LEMMA LimitsStep ==
  ASSUME IInv, [Next]_vars
  PROVE  Limits
<1>0. /\ pc \in [Requests -> PCs] /\ at \in [Requests -> Workers \cup {"none"}]
      /\ Turns \subseteq Requests /\ Turns \cap Verifies = {} /\ Turns \cap Ends = {}
      /\ Verifies \subseteq Requests /\ Ends \subseteq Requests
  BY SessionTypes
<1>1. CASE UNCHANGED vars \/ \E v \in Verifies : RequestConsent(v)
  BY <1>1, SessionsStay DEF vars, RequestConsent, talk, profile, server
<1>2. ASSUME NEW c \in Children, CreateProfile(c) \/ ImportProfile(c) PROVE Limits
  <2>1. /\ UNCHANGED <<today, sessions, pc, at>> /\ child[c] = "absent" /\ child' = [child EXCEPT ![c] = "present"]
    BY <1>2 DEF CreateProfile, ImportProfile, talk, server
  <2>2. child \in [Children -> {"absent", "present", "erased"}]
    BY DEF IInv, TypeOK
  <2>3. \A d \in Children : child'[d] # "erased" => child[d] # "erased"
    BY <2>1, <2>2
  <2> QED BY <2>1, <2>3, SessionsStay
<1>3. ASSUME NEW c \in Children, MarkAge(c) \/ EditAge(c) \/ ImportStatus(c) \/ ImportLog(c) PROVE Limits
  BY <1>3, SessionsStay DEF MarkAge, EditAge, ImportStatus, ImportLog, talk, server
<1>4. CASE cleanup_sessions \/ cleanup_old_messages \/ cleanup_messages \/ cleanup_conversations
  BY <1>4, SessionsStay DEF cleanup_sessions, cleanup_old_messages, cleanup_messages, cleanup_conversations, profile, server
\* A step of one request that begins no session.
<1>5. ASSUME NEW r \in Requests, NEW s, pc' = [pc EXCEPT ![r] = s], s # "insert" \/ r \notin Turns,
             at' = at \/ \E w : at' = [at EXCEPT ![r] = w],
             UNCHANGED <<today, child, sessions>>
      PROVE  Limits
  <2>1. \A t \in Turns : pc'[t] = "insert" => pc[t] = "insert" /\ at'[t] = at[t]
    BY <1>0, <1>5
  <2> QED BY <1>5, <2>1, SessionsStay
<1>6. ASSUME NEW r \in Requests, Fails(r) PROVE Limits
  BY <1>5, <1>6 DEF Fails, Over, End, talk, profile
<1>7. ASSUME NEW t \in Turns, FindConversation(t) PROVE Limits
  <2>1. UNCHANGED <<today, child, sessions, at>> /\ \E s \in {"user", "gate", "open"} : pc' = [pc EXCEPT ![t] = s]
    BY <1>7 DEF FindConversation, Goto, talk, profile
  <2> QED BY <1>0, <1>5, <2>1
<1>8. ASSUME NEW t \in Turns, CreateConversation(t) PROVE Limits
  <2>1. UNCHANGED <<today, child, sessions, at>> /\ \E s \in {"user", "gate"} : pc' = [pc EXCEPT ![t] = s]
    BY <1>8 DEF CreateConversation, Goto, profile
  <2> QED BY <1>0, <1>5, <2>1
<1>9. ASSUME NEW t \in Turns, NoHistory(t) \/ Gate(t) \/ NoReply(t) PROVE Limits
  <2>1. UNCHANGED <<today, child, sessions>> /\ \E s \in {"gate", "tutor", "over"} : pc' = [pc EXCEPT ![t] = s]
    BY <1>9 DEF NoHistory, Gate, NoReply, Goto, Over, End, talk, profile
  <2>2. at' = at \/ at' = [at EXCEPT ![t] = "none"]
    BY <1>9 DEF NoHistory, Gate, NoReply, Goto, Over, End
  <2> QED BY <1>0, <1>5, <2>1, <2>2
<1>10. ASSUME NEW t \in Turns, AddMessage(t) PROVE Limits
  <2>1. UNCHANGED <<today, child, sessions, at>> /\ \E s \in {"note user", "note reply"} : pc' = [pc EXCEPT ![t] = s]
    BY <1>10 DEF AddMessage, Goto, profile
  <2> QED BY <1>0, <1>5, <2>1
<1>11. ASSUME NEW t \in Turns, NoteMessage(t) PROVE Limits
  BY <1>0, <1>5, <1>11 DEF NoteMessage, Goto, Over, End, profile
<1>12. ASSUME NEW t \in Turns, NEW w \in Workers, Begin(t, w) PROVE Limits
  <2>1. UNCHANGED <<today, child, sessions>> /\ \E s \in {"find", "create"} : Take(t, w, s)
    BY <1>12 DEF Begin, talk, profile
  <2> QED BY <1>0, <1>5, <2>1 DEF Take
<1>13. ASSUME NEW t \in Turns, NEW w \in Workers, Reply(t, w) PROVE Limits
  BY <1>0, <1>5, <1>13 DEF Reply, Take, talk, profile
<1>14. ASSUME NEW e \in Ends, NEW w \in Workers, ReadSession(e, w) PROVE Limits
  <2>1. /\ UNCHANGED <<today, child, sessions>> /\ pc' = [pc EXCEPT ![e] = "end"]
        /\ at' = [at EXCEPT ![e] = w]
    BY <1>14 DEF ReadSession, Take, talk, profile
  <2> QED BY <1>0, <1>5, <2>1
<1>15. ASSUME NEW v \in Verifies, LogConsent(v) \/ UpdateStatus(v) PROVE Limits
  BY <1>0, <1>5, <1>15 DEF LogConsent, UpdateStatus, Goto, talk, profile
<1>16. ASSUME NEW v \in Verifies, SpendToken(v) \/ \E w \in Workers : ReadToken(v, w) PROVE Limits
  <2>1. /\ UNCHANGED <<today, child, sessions>> /\ \E s : pc' = [pc EXCEPT ![v] = s]
        /\ \E w : at' = [at EXCEPT ![v] = w]
    BY <1>16 DEF SpendToken, ReadToken, End, Take, talk, profile
  <2> QED BY <1>0, <1>5, <2>1
<1>17. ASSUME NEW K \in SUBSET Children, Erase(K) PROVE Limits
  <2> DEFINE f == [s \in sessions |-> IF ChildOf[s.id] \in K THEN [s EXCEPT !.named = FALSE] ELSE s]
  <2>1. /\ sessions' = {IF ChildOf[s.id] \in K THEN [s EXCEPT !.named = FALSE] ELSE s : s \in sessions}
        /\ child' = Erased(K) /\ UNCHANGED <<today, pc, at>>
    BY <1>17 DEF Erase, Cascade, server
  <2>2. \A u \in sessions' : \E s \in sessions : u = f[s]
    BY <2>1
  <2>3. ASSUME NEW s \in sessions
        PROVE  /\ f[s] \in SessionSet /\ f[s].started = s.started /\ f[s].id = s.id
               /\ f[s].named /\ f[s].ended = Never => s.named /\ s.ended = Never /\ f[s].by = s.by
    <3> DEFINE u == [s EXCEPT !.named = FALSE]
    <3>1. f[s] = IF ChildOf[s.id] \in K THEN u ELSE s
      OBVIOUS
    <3>2. s \in SessionSet /\ today \in Days
      BY SessionTypes
    <3>3. u \in SessionSet /\ u.started = s.started /\ u.id = s.id /\ u.named = FALSE
      BY <3>2, SessionChanged
    <3> HIDE DEF f, u
    <3> QED BY <3>1, <3>2, <3>3
  <2>4. f \in [sessions -> SessionSet]
    BY <2>3
  <2>5. \A c \in Children : child'[c] # "erased" => child[c] # "erased"
    BY <2>1 DEF Erased
  <2>6. \A s \in sessions :
          /\ f[s].started = s.started /\ f[s].id = s.id
          /\ f[s].named /\ f[s].ended = Never => s.named /\ s.ended = Never /\ f[s].by = s.by
    BY <2>3
  <2> HIDE DEF f
  <2> QED BY <2>1, <2>2, <2>4, <2>5, <2>6, SessionsShrink
<1>18. ASSUME NEW e \in Ends, EndSession(e) PROVE Limits
  <2> DEFINE f == [s \in sessions |-> IF s.id = sess[e] THEN [s EXCEPT !.ended = today] ELSE s]
  <2>1. /\ sessions' = {IF s.id = sess[e] THEN [s EXCEPT !.ended = today] ELSE s : s \in sessions}
        /\ UNCHANGED <<today, child>>
        /\ \A t \in Turns : pc'[t] = pc[t] /\ at'[t] = at[t]
    BY <1>0, <1>18 DEF EndSession, Over, End, profile
  <2>2. \A u \in sessions' : \E s \in sessions : u = f[s]
    BY <2>1
  <2>3. today # Never /\ today \in Days
    BY SessionTypes, PeriodsAssumption DEF Days, Never
  <2>4. ASSUME NEW s \in sessions
        PROVE  /\ f[s] \in SessionSet /\ f[s].started = s.started /\ f[s].id = s.id
               /\ f[s].named /\ f[s].ended = Never => s.named /\ s.ended = Never /\ f[s].by = s.by
    <3> DEFINE u == [s EXCEPT !.ended = today]
    <3>1. f[s] = IF s.id = sess[e] THEN u ELSE s
      OBVIOUS
    <3>2. s \in SessionSet
      BY SessionTypes
    <3>3. u \in SessionSet /\ u.started = s.started /\ u.id = s.id /\ u.ended = today
      BY <2>3, <3>2, SessionChanged
    <3> HIDE DEF f, u
    <3> QED BY <2>3, <3>1, <3>2, <3>3
  <2>5. f \in [sessions -> SessionSet]
    BY <2>4
  <2>6. \A s \in sessions :
          /\ f[s].started = s.started /\ f[s].id = s.id
          /\ f[s].named /\ f[s].ended = Never => s.named /\ s.ended = Never /\ f[s].by = s.by
    BY <2>4
  <2> HIDE DEF f
  <2>7. /\ UNCHANGED today /\ \A c \in Children : child'[c] # "erased" => child[c] # "erased"
        /\ \A t \in Turns : pc'[t] = "insert" => pc[t] = "insert" /\ at'[t] = at[t]
    BY <2>1
  <2> QED BY <2>2, <2>5, <2>6, <2>7, SessionsShrink
<1>19. CASE Tick
  BY <1>19, NewDay
<1>20. ASSUME NEW t \in Turns, CheckLimits(t) PROVE Limits
  BY <1>20, CheckedLimits
<1>21. ASSUME NEW t \in Turns, InsertSession(t) PROVE Limits
  BY <1>21, InsertedSession
<1> QED
  BY <1>1, <1>2, <1>3, <1>4, <1>6, <1>7, <1>8, <1>9, <1>10, <1>11, <1>12, <1>13, <1>14, <1>15,
     <1>16, <1>17, <1>18, <1>19, <1>20, <1>21
  DEF Next

------------------------------------------------------------------------------
\* The invariant is inductive.
LEMMA NextIInv == IInv /\ [Next]_vars => IInv'
BY TypeStep, HandledStep, GoneStep, ConsentStep, UnmixedStep, LimitsStep, DatedStep
   DEF IInv, Limits, Consents

\* The invariant holds in every reachable state.
THEOREM Invariance == Spec => []IInv
<1>1. Init => IInv
  BY InitIInv
<1>2. IInv /\ [Next]_vars => IInv'
  BY NextIInv
<1> QED BY <1>1, <1>2, PTL DEF Spec

\* The types, the references between the tables, and one request a worker, for any number
\* of children, workers and requests.
THEOREM TypeCorrect == Spec => []TypeOK
<1>1. IInv => TypeOK
  BY DEF IInv
<1> QED BY <1>1, Invariance, PTL

\* No conversation, consent, status or name of an erased child is left or comes back,
\* whatever was under way when its profile was deleted; its messages stay only where a turn
\* took a session of another child.
THEOREM ErasureTotal == Spec => []ErasureIsTotal
<1> QED BY InvErased, Invariance, PTL

\* The limits on sessions, with the slack of one for each further worker.
THEOREM SessionsLimited == Spec => []SessionLimits
<1>1. IInv => SessionLimits
  BY DEF IInv
<1> QED BY <1>1, Invariance, PTL

\* A child under 13 with a verified status has a consent on record, with the exceptions of
\* the roster import and the age that was edited; and whoever was told so has the status.
THEOREM ConsentRecorded == Spec => []ConsentOnRecord
<1>1. IInv => ConsentOnRecord
  BY DEF IInv
<1> QED BY <1>1, Invariance, PTL

------------------------------------------------------------------------------
\* Why a recent message may go.
MayGo(m) ==
  \/ m.day < Cutoff
  \/ LET c == ChildOf[m.conv[1]] IN
     child[c] = "present" /\ child'[c] = "erased" /\ (c = Author(m) \/ Mixed(m))
  \/ m \in unnoted
  \/ \E s \in sessions \ sessions' : \E c \in conversations :
       c.id = m.conv /\ c.session = s.id /\ s.ended \in 0..(Cutoff - 1)

\* A conversation no one touched since day has no message since day, but unnoted ones.
LEMMA UntouchedIsOld ==
  ASSUME IInv, NEW m \in messages, NEW c \in Untouched(Cutoff), c.id = m.conv
  PROVE  m.day < Cutoff \/ m \in unnoted
<1>1. m.day \in Int /\ Cutoff \in Int /\ c \in conversations /\ c.updated < Cutoff /\ c.updated \in Int
  <2>1. m \in MessageSet /\ c \in ConversationSet /\ today \in Days
    BY DEF IInv, TypeOK, Untouched, ConversationSet
  <2>2. c.updated \in Days
    BY <2>1 DEF ConversationSet
  <2>3. today \in Int /\ c.updated \in Int /\ m.day \in Int
    BY <2>1, <2>2, DaysAreInts
  <2>4. Cutoff \in Int
    BY <2>3, PeriodsAssumption DEF Cutoff
  <2> QED BY <2>3, <2>4 DEF Untouched
<1>2. m \notin unnoted => m.day <= c.updated
  BY <1>1 DEF IInv, Dated
<1> QED BY <1>1, <1>2

\* A message that goes may go.
LEMMA KeptStep ==
  ASSUME IInv, [Next]_vars, NEW m \in messages \ messages'
  PROVE  MayGo(m)
<1>1. CASE UNCHANGED Records
  BY <1>1 DEF Records
<1>2. ASSUME NEW K \in SUBSET Children, Erase(K) PROVE MayGo(m)
  <2> DEFINE c == ChildOf[m.conv[1]]
  <2>1. PICK k \in conversations : Holder(k) \in K /\ m.conv = k.id
    BY <1>2 DEF Erase, Cascade, Delete, Of
  <2>2. c \in K
    BY <2>1 DEF Holder
  <2>3. child[c] = "present" /\ child'[c] = "erased"
    BY <1>2, <2>2 DEF Erase, Cascade, Erased
  <2>4. c = Author(m) \/ Mixed(m)
    BY DEF IInv, Unmixed
  <2> QED BY <2>3, <2>4 DEF MayGo
<1>3. ASSUME NEW c \in Children, CreateProfile(c) \/ ImportProfile(c) PROVE MayGo(m)
  BY <1>3 DEF CreateProfile, ImportProfile, talk
<1>4. CASE cleanup_sessions
  <2>1. PICK c \in conversations, s \in sessions :
          /\ c.id = m.conv /\ c.session = s.id /\ s \notin sessions'
          /\ s.ended # Never /\ s.ended < Cutoff
    BY <1>4 DEF cleanup_sessions, Delete, Of
  <2>2. s.ended \in 0..(Cutoff - 1)
    <3>1. s \in SessionSet /\ today \in Days
      BY DEF IInv, TypeOK
    <3>2. s.ended \in Days \cup {Never}
      BY <3>1 DEF SessionSet
    <3> QED BY <2>1, <3>1, <3>2, PeriodsAssumption DEF Days, Cutoff
  <2> QED BY <2>1, <2>2 DEF MayGo
<1>5. CASE cleanup_old_messages
  BY <1>5 DEF cleanup_old_messages, Delete, Of, MayGo
<1>6. CASE cleanup_messages
  <2>1. PICK c \in Untouched(Cutoff) : c.id = m.conv
    BY <1>6 DEF cleanup_messages, Delete, Of
  <2> QED BY <2>1, UntouchedIsOld DEF MayGo
<1>7. CASE cleanup_conversations
  <2>1. PICK c \in Untouched(purge) : c.id = m.conv
    BY <1>7 DEF cleanup_conversations, Delete, Of
  <2>2. purge = Cutoff
    BY <1>7 DEF cleanup_conversations, IInv, Dated
  <2> QED BY <2>1, <2>2, UntouchedIsOld DEF MayGo
<1>8. ASSUME NEW t \in Turns, InsertSession(t) \/ CreateConversation(t) \/ AddMessage(t) \/ NoteMessage(t)
      PROVE  MayGo(m)
  <2>1. messages \subseteq messages'
    BY <1>8 DEF InsertSession, CreateConversation, AddMessage, NoteMessage
  <2> QED BY <2>1
<1>9. ASSUME NEW e \in Ends, EndSession(e) PROVE MayGo(m)
  BY <1>9 DEF EndSession
<1> QED BY <1>1, <1>2, <1>3, <1>4, <1>5, <1>6, <1>7, <1>8, <1>9, WhoWrites

\* Retention spares what is recent, with the exceptions RecentIsKept names.
THEOREM RecentKept == Spec => RecentIsKept
<1>1. IInv /\ [Next]_vars => [\A m \in messages \ messages' : MayGo(m)]_vars
  BY KeptStep
<1>2. Spec => [][\A m \in messages \ messages' : MayGo(m)]_vars
  BY <1>1, Invariance, PTL DEF Spec
<1> QED BY <1>2 DEF RecentIsKept, MayGo
=============================================================================
