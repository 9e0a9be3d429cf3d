-------------------------- MODULE AdmissionProofs --------------------------
(***************************************************************************)
(* What holds of admission for any number of workers, turns and slots and  *)
(* under every combination of faults.                                      *)
(***************************************************************************)
EXTENDS Admission, TLAPS, FiniteSetTheorems, SequenceTheorems

\* The table never holds more rows than slots, the expired ones included.
RowsBounded == Cardinality(rows) <= Slots

\* Whoever was told it has a row has one that the others count, unless it
\* outlives the row.
HoldersHaveRows ==
  \A t \in Turns \ CanOutlive : Live(t) /\ answer[t] = "row" => t \in Fresh

\* A turn has no answer before it first asks for a row.
NotYetAsked == \A t \in Turns : pc[t] \in {"idle"} \cup Waiting => answer[t] = "none"

\* An admitted turn is marked as such, so that a nested call recognises it.
HeldIsMarked == \A t \in Turns : pc[t] = "held" => depth[t] > 0

\* A worker's line holds its own queued turns, each of them once.
LineOf(w) ==
  /\ \A i \in 1..Len(queue[w]) : Home[queue[w][i]] = w /\ pc[queue[w][i]] = "queued"
  /\ \A i, j \in 1..Len(queue[w]) : queue[w][i] = queue[w][j] => i = j
InLine == \A w \in Workers : LineOf(w)

IInv == /\ TypeOK /\ RowsBounded /\ HoldersHaveRows
        /\ NotYetAsked /\ HeldIsMarked /\ InLine

------------------------------------------------------------------------------
\* Sequences: removing one element of a line.

\* RemoveAt drops the i-th element and closes the gap.
LEMMA RemoveAtProperties ==
  ASSUME NEW S, NEW s \in Seq(S), NEW i \in 1..Len(s)
  PROVE  /\ RemoveAt(s, i) \in Seq(S)
         /\ Len(RemoveAt(s, i)) = Len(s) - 1
         /\ \A j \in 1..Len(s) - 1 : RemoveAt(s, i)[j] = s[IF j < i THEN j ELSE j + 1]
<1> DEFINE a == SubSeq(s, 1, i - 1)
           b == SubSeq(s, i + 1, Len(s))
<1>1. /\ a \in Seq(S) /\ Len(a) = i - 1
      /\ \A j \in 1..i - 1 : a[j] = s[j]
  <2>1. \A j \in 1..i - 1 : s[j] \in S
    OBVIOUS
  <2> QED BY <2>1, SubSeqProperties
<1>2. /\ b \in Seq(S) /\ Len(b) = Len(s) - i
      /\ \A j \in 1..Len(s) - i : b[j] = s[i + j]
  <2>1. \A j \in i + 1..Len(s) : s[j] \in S
    OBVIOUS
  <2>2. /\ b \in Seq(S) /\ Len(b) = IF i + 1 <= Len(s) THEN Len(s) - (i + 1) + 1 ELSE 0
        /\ \A j \in 1..Len(s) - (i + 1) + 1 : b[j] = s[i + 1 + j - 1]
    BY <2>1, SubSeqProperties
  <2>3. Len(b) = Len(s) - i
    BY <2>2
  <2>4. ASSUME NEW j \in 1..Len(s) - i
        PROVE  b[j] = s[i + j]
    <3>1. i + 1 + j - 1 = i + j /\ j \in 1..Len(s) - (i + 1) + 1
      OBVIOUS
    <3> QED BY <2>2, <3>1
  <2> QED BY <2>2, <2>3, <2>4
<1>3. RemoveAt(s, i) = a \o b
  BY DEF RemoveAt
<1> HIDE DEF a, b
<1>4. /\ a \o b \in Seq(S) /\ Len(a \o b) = Len(a) + Len(b)
      /\ \A j \in 1..Len(a) + Len(b) : (a \o b)[j] = IF j <= Len(a) THEN a[j] ELSE b[j - Len(a)]
  BY <1>1, <1>2, ConcatProperties
<1>5. ASSUME NEW j \in 1..Len(s) - 1
      PROVE  (a \o b)[j] = s[IF j < i THEN j ELSE j + 1]
  <2>1. CASE j < i
    BY <1>1, <1>2, <1>4, <2>1
  <2>2. CASE j >= i
    <3>1. PICK k \in 1..Len(s) - i : k = j - (i - 1)
      BY <2>2
    <3>2. (a \o b)[j] = b[k]
      BY <1>1, <1>2, <1>4, <2>2, <3>1
    <3>3. b[k] = s[i + k] /\ i + k = j + 1
      BY <1>2, <3>1
    <3>4. (IF j < i THEN j ELSE j + 1) = j + 1
      BY <2>2
    <3>5. (a \o b)[j] = s[j + 1]
      BY <3>2, <3>3
    <3> QED BY <3>4, <3>5, Zenon
  <2>3. j < i \/ j >= i
    OBVIOUS
  <2> QED BY <2>1, <2>2, <2>3, Zenon
<1> QED BY <1>1, <1>2, <1>3, <1>4, <1>5

\* Adding an element makes a finite set larger by one at most.
LEMMA AtMostOneMore ==
  ASSUME NEW S, IsFiniteSet(S), NEW x
  PROVE  /\ Cardinality(S) \in Nat /\ Cardinality(S \cup {x}) \in Nat
         /\ Cardinality(S \cup {x}) <= Cardinality(S) + 1
<1>1. Cardinality(S) \in Nat /\ IsFiniteSet(S \cup {x})
  BY FS_CardinalityType, FS_AddElement
<1>2. CASE x \in S
  <2>1. S \cup {x} = S
    BY <1>2
  <2> QED BY <1>1, <2>1
<1>3. CASE x \notin S
  <2>1. Cardinality(S \cup {x}) = Cardinality(S) + 1
    BY <1>3, FS_AddElement
  <2> QED BY <1>1, <2>1
<1> QED BY <1>2, <1>3

------------------------------------------------------------------------------
\* A fresh set of workers: no turn, an empty table, every permit free.
LEMMA InitIInv == Init => IInv
<1> SUFFICES ASSUME Init PROVE IInv
  OBVIOUS
<1>1. TypeOK
  <2>1. ready \in [Workers -> BOOLEAN]
    BY DEF Init
  <2>2. queue \in [Workers -> Seq(Turns)] /\ permits \in [Workers -> Nat]
    BY SlotsAssumption DEF Init
  <2> QED BY <2>1, <2>2 DEF Init, TypeOK, PCs, Answers
<1>2. RowsBounded
  BY FS_EmptySet, SlotsAssumption DEF Init, RowsBounded
<1>3. HoldersHaveRows /\ NotYetAsked /\ HeldIsMarked /\ InLine
  BY DEF Init, HoldersHaveRows, NotYetAsked, HeldIsMarked, InLine, LineOf, Live, Waiting
<1> QED BY <1>1, <1>2, <1>3 DEF IInv

\* What is left of the invariant once the types are settled.
Rest == RowsBounded /\ HoldersHaveRows /\ NotYetAsked /\ HeldIsMarked /\ InLine

\* A turn outside the lines moves on, and the table and the lines stay.
LEMMA MoveKeeps ==
  ASSUME IInv, NEW t \in Turns, NEW x \in PCs \ ({"idle"} \cup Waiting),
         pc[t] # "queued", pc' = [pc EXCEPT ![t] = x],
         UNCHANGED <<answer, queue, rows, expired>>,
         \A u \in Turns \ {t} : depth'[u] = depth[u],
         x = "held" => depth'[t] > 0,
         x \in {"answered", "held", "release"} => Live(t) \/ answer[t] # "row"
  PROVE  Rest'
<1>1. RowsBounded' /\ NotYetAsked'
  BY DEF IInv, TypeOK, RowsBounded, NotYetAsked, Waiting
<1>2. HoldersHaveRows'
  BY DEF IInv, TypeOK, HoldersHaveRows, Live, Fresh
<1>3. HeldIsMarked'
  BY DEF IInv, TypeOK, HeldIsMarked
<1>4. InLine'
  <2>1. \A w \in Workers : \A i \in 1..Len(queue[w]) : queue[w][i] \in Turns
    BY DEF IInv, TypeOK
  <2> QED BY <2>1 DEF IInv, TypeOK, InLine, LineOf, LineOf
<1> QED BY <1>1, <1>2, <1>3, <1>4 DEF Rest

\* A turn moves on as x and the head of its worker's line is handed a permit.
LEMMA HandOverKeeps ==
  ASSUME IInv, NEW t \in Turns, NEW x \in PCs \ ({"idle"} \cup Waiting),
         pc[t] # "queued", queue[Home[t]] # <<>>,
         pc' = [[pc EXCEPT ![t] = x] EXCEPT ![Head(queue[Home[t]])] = "granted"],
         queue' = [queue EXCEPT ![Home[t]] = Tail(@)],
         UNCHANGED <<answer, rows, expired>>,
         \A u \in Turns \ {t} : depth'[u] = depth[u],
         x = "held" => depth'[t] > 0,
         x \in {"answered", "held", "release"} => Live(t) \/ answer[t] # "row"
  PROVE  /\ pc' \in [Turns -> PCs]
         /\ queue' \in [Workers -> Seq(Turns)]
         /\ Rest'
<1> DEFINE w == Home[t]
           q == queue[w]
           h == Head(q)
<1>0. w \in Workers /\ q \in Seq(Turns) /\ q # <<>>
  BY HomeAssumption DEF IInv, TypeOK
<1>1. /\ h = q[1] /\ 1 \in 1..Len(q) /\ h \in Turns
      /\ Tail(q) \in Seq(Turns) /\ Len(Tail(q)) = Len(q) - 1
      /\ \A i \in 1..Len(q) - 1 : Tail(q)[i] = q[i + 1]
  BY <1>0
<1>2. pc[h] = "queued" /\ h # t
  BY <1>0, <1>1 DEF IInv, InLine, LineOf
<1>3. /\ pc' = [[pc EXCEPT ![t] = x] EXCEPT ![h] = "granted"]
      /\ queue' = [queue EXCEPT ![w] = Tail(q)]
  OBVIOUS
<1>4. /\ pc' \in [Turns -> PCs] /\ pc'[t] = x /\ pc'[h] = "granted"
      /\ \A u \in Turns \ {t, h} : pc'[u] = pc[u]
  <2>1. "granted" \in PCs /\ x \in PCs
    BY DEF PCs, Waiting
  <2> DEFINE p == [pc EXCEPT ![t] = x]
  <2>2. /\ p \in [Turns -> PCs] /\ p[t] = x
        /\ \A u \in Turns \ {t} : p[u] = pc[u]
    BY <2>1 DEF IInv, TypeOK
  <2>3. pc' = [p EXCEPT ![h] = "granted"] /\ h \in Turns \ {t}
    BY <1>1, <1>2, <1>3
  <2> HIDE DEF p, h
  <2> QED BY <2>1, <2>2, <2>3
<1>5. queue' \in [Workers -> Seq(Turns)]
  BY <1>0, <1>1, <1>3 DEF IInv, TypeOK
<1>6. RowsBounded' /\ HoldersHaveRows' /\ HeldIsMarked'
  BY <1>1, <1>2, <1>4 DEF IInv, RowsBounded, HoldersHaveRows, HeldIsMarked, Live, Fresh
<1>7. NotYetAsked'
  BY <1>1, <1>2, <1>4 DEF IInv, NotYetAsked, Waiting
<1>8. InLine'
  <2>1. ASSUME NEW v \in Workers, v # w
        PROVE  LineOf(v)'
    <3>1. queue'[v] = queue[v]
      BY <1>3, <2>1 DEF IInv, TypeOK
    <3>2. \A i \in 1..Len(queue[v]) : queue[v][i] \in Turns \ {t, h}
      BY <1>1, <2>1, <1>0 DEF IInv, TypeOK, InLine, LineOf, LineOf
    <3> QED BY <1>4, <3>1, <3>2 DEF IInv, InLine, LineOf
  <2>2. queue'[w] = Tail(q) /\ Len(queue'[w]) = Len(q) - 1
    BY <1>0, <1>1, <1>3 DEF IInv, TypeOK
  <2>3. \A i \in 1..Len(q) - 1 : Home[queue'[w][i]] = w /\ pc'[queue'[w][i]] = "queued"
    <3> TAKE i \in 1..Len(q) - 1
    <3>1. i + 1 \in 1..Len(q) /\ i + 1 # 1 /\ Tail(q)[i] = q[i + 1]
      BY <1>0, <1>1
    <3>2. q[i + 1] \in Turns /\ Home[q[i + 1]] = w /\ pc[q[i + 1]] = "queued" /\ q[i + 1] # h
      BY <1>0, <1>1, <3>1 DEF IInv, InLine, LineOf
    <3> QED BY <1>4, <2>2, <3>1, <3>2
  <2>4. \A i, j \in 1..Len(q) - 1 : queue'[w][i] = queue'[w][j] => i = j
    <3> TAKE i, j \in 1..Len(q) - 1
    <3>1. i + 1 \in 1..Len(q) /\ j + 1 \in 1..Len(q)
      BY <1>0, <1>1
    <3> QED BY <1>0, <1>1, <2>2, <3>1 DEF IInv, InLine, LineOf
  <2>5. LineOf(w)'
    BY <2>2, <2>3, <2>4 DEF LineOf
  <2> QED BY <2>1, <2>5 DEF InLine
<1> QED BY <1>4, <1>5, <1>6, <1>7, <1>8 DEF Rest

\* A permit given back by turn t, which ends as x: to the head of the line, or to
\* the semaphore.
LEMMA FreedKeeps ==
  ASSUME IInv, NEW t \in Turns, NEW x \in Ended,
         pc[t] # "queued", Freed(Home[t], queue[Home[t]], [pc EXCEPT ![t] = x]),
         UNCHANGED <<answer, rows, expired>>,
         \A u \in Turns \ {t} : depth'[u] = depth[u]
  PROVE  /\ pc' \in [Turns -> PCs]
         /\ queue' \in [Workers -> Seq(Turns)]
         /\ permits' \in [Workers -> Nat]
         /\ Rest'
<1> DEFINE w == Home[t]
           q == queue[w]
<1>1. w \in Workers /\ q \in Seq(Turns)
  BY HomeAssumption DEF IInv, TypeOK
<1>0. x \in PCs \ ({"idle"} \cup Waiting) /\ x \notin {"answered", "held", "release"}
  BY DEF PCs, Ended, Waiting
<1>2. CASE q = <<>>
  <2>1. pc' = [pc EXCEPT ![t] = x] /\ queue' = queue /\ permits' = [permits EXCEPT ![w] = @ + 1]
    BY <1>1, <1>2 DEF Freed, IInv, TypeOK
  <2>2. Rest'
    BY <1>0, <2>1, MoveKeeps
  <2> QED BY <1>0, <1>1, <2>1, <2>2 DEF IInv, TypeOK
<1>3. CASE q # <<>>
  <2>1. /\ pc' = [[pc EXCEPT ![t] = x] EXCEPT ![Head(q)] = "granted"]
        /\ queue' = [queue EXCEPT ![w] = Tail(@)]
        /\ permits' = permits
    BY <1>1, <1>3 DEF Freed, IInv, TypeOK
  <2> QED BY <1>0, <1>3, <2>1, HandOverKeeps DEF IInv, TypeOK
<1> QED BY <1>2, <1>3

------------------------------------------------------------------------------
\* One lemma per action.

\* A nested call of slot() only counts depth.
LEMMA NestedIInv ==
  ASSUME IInv, NEW t \in Turns, NestedEnter(t) \/ NestedExit(t)
  PROVE  IInv'
<1>1. /\ depth' \in [Turns -> Nat] /\ depth'[t] > 0
      /\ \A u \in Turns \ {t} : depth'[u] = depth[u]
  BY DEF IInv, TypeOK, NestedEnter, NestedExit, IsNested
<1>2. UNCHANGED <<pc, answer, late, queue, permits, waiting, ready, rows, expired>>
  BY DEF NestedEnter, NestedExit
<1>3. TypeOK'
  BY <1>1, <1>2 DEF IInv, TypeOK
<1>4. HeldIsMarked'
  BY <1>1, <1>2 DEF IInv, HeldIsMarked
<1>5. RowsBounded' /\ HoldersHaveRows' /\ NotYetAsked' /\ InLine'
  BY <1>2 DEF IInv, RowsBounded, HoldersHaveRows, NotYetAsked, InLine, LineOf, Live, Fresh
<1> QED BY <1>3, <1>4, <1>5 DEF IInv

\* Only a turn that has not started can arrive: inside, every call is nested.
LEMMA ArrivesIdle ==
  ASSUME IInv, NEW t \in Turns, Arrives(t)
  PROVE  pc[t] = "idle" /\ answer[t] = "none" /\ Home[t] \in Workers
BY HomeAssumption DEF IInv, TypeOK, HeldIsMarked, NotYetAsked, Arrives, IsNested

\* A turn refused because the line is full touches nothing but itself.
LEMMA ArriveFullIInv ==
  ASSUME IInv, NEW t \in Turns, ArriveFull(t)
  PROVE  IInv'
<1>1. "refused" \in PCs \ ({"idle"} \cup Waiting)
  BY DEF PCs, Waiting, Ended
<1>2. pc' = [pc EXCEPT ![t] = "refused"] /\ pc[t] = "idle"
  BY ArrivesIdle DEF ArriveFull
<1>3. TypeOK'
  BY <1>1, <1>2 DEF IInv, TypeOK, ArriveFull
<1>4. Rest'
  BY <1>1, <1>2, MoveKeeps DEF ArriveFull
<1> QED BY <1>3, <1>4 DEF IInv, Rest

\* A new turn joins the end of its worker's line, where it was not yet.
LEMMA ArriveQueueIInv ==
  ASSUME IInv, NEW t \in Turns, ArriveQueue(t)
  PROVE  IInv'
<1> DEFINE w == Home[t]
           q == queue[w]
<1>1. pc[t] = "idle" /\ answer[t] = "none" /\ w \in Workers /\ q \in Seq(Turns)
  BY ArrivesIdle DEF ArriveQueue, IInv, TypeOK
<1>2. /\ Append(q, t) \in Seq(Turns) /\ Len(Append(q, t)) = Len(q) + 1
      /\ \A i \in 1..Len(q) : Append(q, t)[i] = q[i]
      /\ Append(q, t)[Len(q) + 1] = t
  BY <1>1, AppendProperties
<1>3. /\ queue' = [queue EXCEPT ![w] = Append(q, t)]
      /\ pc' = [pc EXCEPT ![t] = "queued"]
  BY DEF ArriveQueue
<1>4. TypeOK'
  BY <1>1, <1>2, <1>3 DEF ArriveQueue, IInv, TypeOK, PCs, Waiting
<1>5. RowsBounded' /\ HoldersHaveRows' /\ NotYetAsked' /\ HeldIsMarked'
  BY <1>1, <1>3 DEF ArriveQueue, IInv, TypeOK, RowsBounded, HoldersHaveRows, NotYetAsked,
                    HeldIsMarked, Waiting, Live, Fresh
<1>6. InLine'
  <2>1. ASSUME NEW v \in Workers, v # w
        PROVE  LineOf(v)'
    <3>1. queue'[v] = queue[v]
      BY <1>3, <2>1 DEF IInv, TypeOK
    <3>2. \A i \in 1..Len(queue[v]) : queue[v][i] \in Turns \ {t}
      BY <1>1, <2>1 DEF IInv, TypeOK, InLine, LineOf
    <3>3. \A u \in Turns \ {t} : pc'[u] = pc[u]
      BY <1>3 DEF IInv, TypeOK
    <3>4. LineOf(v)
      BY DEF IInv, InLine
    <3> QED BY <3>1, <3>2, <3>3, <3>4 DEF LineOf
  <2>2. queue'[w] = Append(q, t) /\ Len(queue'[w]) = Len(q) + 1
    BY <1>1, <1>2, <1>3 DEF IInv, TypeOK
  <2>3. \A i \in 1..Len(q) : q[i] \in Turns \ {t} /\ Home[q[i]] = w /\ pc[q[i]] = "queued"
    BY <1>1 DEF IInv, InLine, LineOf
  <2>4. \A i \in 1..Len(q) + 1 : Home[queue'[w][i]] = w /\ pc'[queue'[w][i]] = "queued"
    <3>1. pc'[t] = "queued" /\ \A u \in Turns \ {t} : pc'[u] = pc[u]
      BY <1>3 DEF IInv, TypeOK
    <3> TAKE i \in 1..Len(q) + 1
    <3>2. CASE i \in 1..Len(q)
      BY <1>2, <2>2, <2>3, <3>1, <3>2
    <3>3. CASE i = Len(q) + 1
      BY <1>2, <2>2, <3>1, <3>3
    <3> QED BY <1>1, <3>2, <3>3
  <2>5. \A i, j \in 1..Len(q) : q[i] = q[j] => i = j
    BY <1>1 DEF IInv, InLine, LineOf
  <2>6. \A i, j \in 1..Len(q) + 1 : queue'[w][i] = queue'[w][j] => i = j
    BY <1>1, <1>2, <2>2, <2>3, <2>5
  <2>7. LineOf(w)'
    BY <2>2, <2>4, <2>6 DEF LineOf
  <2> QED BY <2>1, <2>7 DEF InLine
<1> QED BY <1>4, <1>5, <1>6 DEF IInv

\* Taking a permit ends in the gate: a row is asked for, or the turn is admitted.
LEMMA ArriveFreeIInv ==
  ASSUME IInv, NEW t \in Turns, ArriveFree(t)
  PROVE  IInv'
<1>1. pc[t] = "idle" /\ answer[t] = "none" /\ Home[t] \in Workers
  BY ArrivesIdle DEF ArriveFree
<1>2. PICK on \in BOOLEAN :
        /\ ready' = [ready EXCEPT ![Home[t]] = on]
        /\ pc' = [pc EXCEPT ![t] = IF on THEN "reserve" ELSE "held"]
        /\ depth' = [depth EXCEPT ![t] = IF on THEN @ ELSE @ + 1]
  BY DEF ArriveFree, Gate, Enabled
<1> DEFINE x == IF on THEN "reserve" ELSE "held"
<1>3. x \in PCs \ ({"idle"} \cup Waiting)
  BY DEF PCs, Waiting, Gating
<1>4. /\ pc' \in [Turns -> PCs] /\ ready' \in [Workers -> BOOLEAN]
      /\ depth' \in [Turns -> Nat] /\ (x = "held" => depth'[t] > 0)
      /\ \A u \in Turns \ {t} : depth'[u] = depth[u]
  BY <1>1, <1>2, <1>3 DEF IInv, TypeOK
<1>5. permits' \in [Workers -> Nat]
  BY <1>1 DEF ArriveFree, Locked, IInv, TypeOK
<1>6. TypeOK'
  BY <1>4, <1>5 DEF ArriveFree, IInv, TypeOK
<1>7. Rest'
  BY <1>1, <1>2, <1>3, <1>4, MoveKeeps DEF ArriveFree
<1> QED BY <1>6, <1>7 DEF IInv, Rest

\* A turn that resumes with its permit may hand a second one to the head of the line.
LEMMA ResumeIInv ==
  ASSUME IInv, NEW t \in Turns, Resume(t)
  PROVE  IInv'
<1> DEFINE w == Home[t]
           q == queue[w]
<1>1. pc[t] = "granted" /\ answer[t] = "none" /\ w \in Workers /\ q \in Seq(Turns)
  BY HomeAssumption DEF Resume, IInv, TypeOK, NotYetAsked, Waiting
<1>2. PICK on \in BOOLEAN :
        LET p == [pc EXCEPT ![t] = IF on THEN "reserve" ELSE "held"] IN
        /\ ready' = [ready EXCEPT ![w] = on]
        /\ depth' = [depth EXCEPT ![t] = IF on THEN @ ELSE @ + 1]
        /\ IF permits[w] > 0 /\ q # <<>>
           THEN /\ permits' = [permits EXCEPT ![w] = @ - 1]
                /\ queue' = [queue EXCEPT ![w] = Tail(@)]
                /\ pc' = [p EXCEPT ![Head(q)] = "granted"]
           ELSE pc' = p /\ UNCHANGED <<permits, queue>>
  BY DEF Resume, Enabled
<1> DEFINE x == IF on THEN "reserve" ELSE "held"
<1>3. x \in PCs \ ({"idle"} \cup Waiting)
  BY DEF PCs, Waiting, Gating
<1>4. /\ ready' \in [Workers -> BOOLEAN] /\ waiting' \in [Workers -> Int]
      /\ depth' \in [Turns -> Nat] /\ (x = "held" => depth'[t] > 0)
      /\ \A u \in Turns \ {t} : depth'[u] = depth[u]
      /\ UNCHANGED <<answer, late, rows, expired>>
  BY <1>1, <1>2, <1>3 DEF Resume, IInv, TypeOK
<1>5. CASE permits[w] > 0 /\ q # <<>>
  <2>1. /\ pc' = [[pc EXCEPT ![t] = x] EXCEPT ![Head(q)] = "granted"]
        /\ queue' = [queue EXCEPT ![w] = Tail(@)]
        /\ permits' = [permits EXCEPT ![w] = @ - 1]
    BY <1>2, <1>5
  <2>2. permits' \in [Workers -> Nat]
    BY <1>1, <1>5, <2>1 DEF IInv, TypeOK
  <2>3. pc' \in [Turns -> PCs] /\ queue' \in [Workers -> Seq(Turns)] /\ Rest'
    BY <1>1, <1>3, <1>4, <1>5, <2>1, HandOverKeeps
  <2> QED BY <1>4, <2>2, <2>3 DEF IInv, TypeOK, Rest
<1>6. CASE ~(permits[w] > 0 /\ q # <<>>)
  <2>1. pc' = [pc EXCEPT ![t] = x] /\ UNCHANGED <<permits, queue>>
    BY <1>2, <1>6
  <2>2. pc' \in [Turns -> PCs]
    BY <1>3, <2>1 DEF IInv, TypeOK
  <2>3. Rest'
    BY <1>1, <1>3, <1>4, <2>1, MoveKeeps
  <2> QED BY <1>4, <2>1, <2>2, <2>3 DEF IInv, TypeOK, Rest
<1> QED BY <1>5, <1>6

\* A turn that leaves the line takes nobody else's place with it.
LEMMA LeaveLineIInv ==
  ASSUME IInv, NEW t \in Turns, NEW x \in {"refused", "cancelled"}, LeaveLine(t, x)
  PROVE  IInv'
<1> DEFINE w == Home[t]
           q == queue[w]
<1>1. w \in Workers /\ q \in Seq(Turns) /\ x \in Ended /\ x \in PCs
  BY HomeAssumption DEF IInv, TypeOK, Ended, PCs
<1>2. /\ waiting' \in [Workers -> Int]
      /\ UNCHANGED <<answer, depth, late, ready, rows, expired>>
  BY <1>1 DEF LeaveLine, IInv, TypeOK
<1>3. CASE pc[t] = "granted"
  <2>1. Freed(w, q, [pc EXCEPT ![t] = x])
    BY <1>3 DEF LeaveLine
  <2>2. /\ pc' \in [Turns -> PCs] /\ queue' \in [Workers -> Seq(Turns)]
        /\ permits' \in [Workers -> Nat] /\ Rest'
    BY <1>1, <1>2, <1>3, <2>1, FreedKeeps
  <2> QED BY <1>2, <2>2 DEF IInv, TypeOK, Rest
<1>4. CASE pc[t] = "queued"
  <2>1. PICK k \in 1..Len(q) : q[k] = t /\ queue' = [queue EXCEPT ![w] = RemoveAt(@, k)]
    BY <1>1, <1>4 DEF LeaveLine
  <2>2. pc' = [pc EXCEPT ![t] = x] /\ permits' = permits
    BY <1>4 DEF LeaveLine
  <2> DEFINE r == RemoveAt(q, k)
  <2>3. /\ r \in Seq(Turns) /\ Len(r) = Len(q) - 1
        /\ \A j \in 1..Len(q) - 1 : r[j] = q[IF j < k THEN j ELSE j + 1]
    BY <1>1, RemoveAtProperties
  <2>4. queue' = [queue EXCEPT ![w] = r] /\ queue'[w] = r
    BY <1>1, <2>1 DEF IInv, TypeOK
  <2> HIDE DEF r
  <2>5. pc'[t] = x /\ \A u \in Turns \ {t} : pc'[u] = pc[u]
    BY <2>2 DEF IInv, TypeOK
  <2>6. TypeOK'
    BY <1>1, <1>2, <2>2, <2>3, <2>4 DEF IInv, TypeOK
  <2>7. RowsBounded' /\ HoldersHaveRows' /\ NotYetAsked' /\ HeldIsMarked'
    BY <1>1, <1>2, <2>5 DEF IInv, RowsBounded, HoldersHaveRows, NotYetAsked, HeldIsMarked,
                            Waiting, Live, Fresh, Ended
  <2>8. ASSUME NEW v \in Workers, v # w
        PROVE  LineOf(v)'
    <3>1. queue'[v] = queue[v]
      BY <2>4, <2>8 DEF IInv, TypeOK
    <3>2. \A i \in 1..Len(queue[v]) : queue[v][i] \in Turns \ {t}
      BY <2>8 DEF IInv, TypeOK, InLine, LineOf
    <3>3. LineOf(v)
      BY DEF IInv, InLine
    <3> QED BY <2>5, <3>1, <3>2, <3>3 DEF LineOf
  <2>9. LineOf(w)'
    <3>1. /\ \A i \in 1..Len(q) : q[i] \in Turns /\ Home[q[i]] = w /\ pc[q[i]] = "queued"
          /\ \A i, j \in 1..Len(q) : q[i] = q[j] => i = j
      BY <1>1 DEF IInv, InLine, LineOf
    <3>2. \A j \in 1..Len(q) - 1 :
            /\ (IF j < k THEN j ELSE j + 1) \in 1..Len(q)
            /\ (IF j < k THEN j ELSE j + 1) # k
      BY <1>1
    <3>3. \A j \in 1..Len(q) - 1 : r[j] \in Turns \ {t} /\ Home[r[j]] = w /\ pc[r[j]] = "queued"
      BY <2>1, <2>3, <3>1, <3>2
    <3>4. \A i, j \in 1..Len(q) - 1 : r[i] = r[j] => i = j
      <4> TAKE i, j \in 1..Len(q) - 1
      <4> HAVE r[i] = r[j]
      <4>1. (IF i < k THEN i ELSE i + 1) = (IF j < k THEN j ELSE j + 1)
        BY <2>3, <3>1, <3>2
      <4> QED BY <1>1, <4>1
    <3>5. \A j \in 1..Len(q) - 1 : pc'[r[j]] = "queued"
      BY <2>5, <3>3
    <3>6. Len(queue'[w]) = Len(q) - 1
      BY <2>3, <2>4
    <3> QED BY <2>4, <3>3, <3>4, <3>5, <3>6 DEF LineOf
  <2> QED BY <2>6, <2>7, <2>8, <2>9 DEF IInv, InLine
<1> QED BY <1>3, <1>4 DEF LeaveLine

\* The table: only a full one refuses a row, and reaping spares the holders' rows.
LEMMA ReserveIInv ==
  ASSUME IInv, NEW t \in Turns, Reserve(t)
  PROVE  IInv'
<1> DEFINE x == IF pc[t] = "reserve" THEN "answered" ELSE "cancelled"
<1>1. /\ pc[t] \in {"reserve", "orphan"} /\ pc' = [pc EXCEPT ![t] = x]
      /\ UNCHANGED <<depth, late, queue, permits, waiting>>
  BY DEF Reserve, IInv, TypeOK
<1>2. /\ x \in PCs /\ x \notin {"idle", "held", "queued"} \cup Waiting
      /\ pc' \in [Turns -> PCs] /\ pc'[t] = x /\ \A u \in Turns \ {t} : pc'[u] = pc[u]
  BY <1>1 DEF IInv, TypeOK, PCs, Waiting, Gating, Ended
<1>3. Home[t] \in Workers
  BY HomeAssumption
<1>4. PICK a \in Answers : answer' = [answer EXCEPT ![t] = a]
  BY DEF Reserve, reserve, ReserveRow, Answers
<1>5. ready' \in [Workers -> BOOLEAN]
  BY <1>3 DEF Reserve, reserve, IInv, TypeOK
<1>6. \/ UNCHANGED <<rows, expired>> /\ a # "row"
      \/ /\ Cardinality(Fresh) < Slots /\ a = "row"
         /\ rows' = Fresh \cup {t} /\ expired' = {}
  <2>1. IsFiniteSet(Fresh)
    BY FiniteAssumption, FS_Subset DEF IInv, TypeOK, Fresh
  <2>2. Cardinality(Fresh) \in Nat
    BY <2>1, FS_CardinalityType
  <2>3. a = answer'[t]
    BY <1>4 DEF IInv, TypeOK
  <2> QED BY <2>2, <2>3, <1>4, SlotsAssumption DEF Reserve, reserve, ReserveRow, IInv, TypeOK
<1>7. TypeOK'
  <2>1. rows' \subseteq Turns /\ expired' \subseteq rows'
    BY <1>6 DEF IInv, TypeOK, Fresh
  <2> QED BY <1>1, <1>2, <1>4, <1>5, <2>1 DEF IInv, TypeOK
<1>8. RowsBounded'
  <2>1. CASE rows' = Fresh \cup {t} /\ Cardinality(Fresh) < Slots
    <3>1. IsFiniteSet(Fresh)
      BY FiniteAssumption, FS_Subset DEF IInv, TypeOK, Fresh
    <3>2. Cardinality(rows') <= Cardinality(Fresh) + 1
      BY <2>1, <3>1, AtMostOneMore
    <3>3. Cardinality(Fresh) \in Nat /\ Cardinality(rows') \in Nat
      BY <2>1, <3>1, AtMostOneMore
    <3> QED BY <2>1, <3>2, <3>3, SlotsAssumption DEF RowsBounded
  <2> QED BY <1>6, <2>1 DEF IInv, RowsBounded
<1>9. HoldersHaveRows'
  <2> SUFFICES ASSUME NEW u \in Turns \ CanOutlive, Live(u)', answer'[u] = "row"
               PROVE  u \in Fresh'
    BY DEF HoldersHaveRows
  <2>1. CASE u = t
    BY <1>4, <1>6, <2>1 DEF IInv, TypeOK, Fresh
  <2>2. CASE u # t
    <3>1. Live(u) /\ answer[u] = "row"
      BY <1>2, <1>4, <2>2 DEF Live, IInv, TypeOK
    <3> QED BY <1>6, <3>1 DEF IInv, HoldersHaveRows, Fresh
  <2> QED BY <2>1, <2>2
<1>10. NotYetAsked' /\ HeldIsMarked'
  BY <1>1, <1>2, <1>4 DEF IInv, TypeOK, NotYetAsked, HeldIsMarked
<1>11. InLine'
  <2>1. \A w \in Workers : \A i \in 1..Len(queue[w]) : queue[w][i] \in Turns \ {t}
    <3>1. \A w \in Workers : \A i \in 1..Len(queue[w]) : queue[w][i] \in Turns
      BY DEF IInv, TypeOK
    <3> QED BY <1>1, <3>1 DEF IInv, InLine, LineOf
  <2>2. \A w \in Workers : LineOf(w)
    BY DEF IInv, InLine
  <2>3. queue' = queue /\ \A u \in Turns \ {t} : pc'[u] = pc[u]
    BY <1>1, <1>2
  <2> QED BY <2>1, <2>2, <2>3 DEF InLine, LineOf
<1> QED BY <1>7, <1>8, <1>9, <1>10, <1>11 DEF IInv

\* Steps of one turn between the gate and the admission.
LEMMA GateIInv ==
  ASSUME IInv, NEW t \in Turns, Admit(t) \/ Sleep(t) \/ PollAgain(t)
  PROVE  IInv'
<1>1. PICK x \in {"held", "poll", "reserve"} :
        /\ pc' = [pc EXCEPT ![t] = x]
        /\ pc[t] \in {"answered", "poll"}
        /\ x = "held" => pc[t] = "answered"
        /\ depth' = IF x = "held" THEN [depth EXCEPT ![t] = @ + 1] ELSE depth
        /\ UNCHANGED <<answer, late, queue, permits, waiting, ready, rows, expired>>
  BY DEF Admit, Sleep, PollAgain
<1>2. x \in PCs \ ({"idle"} \cup Waiting)
  BY DEF PCs, Waiting, Gating
<1>3. /\ depth' \in [Turns -> Nat] /\ (x = "held" => depth'[t] > 0)
      /\ \A u \in Turns \ {t} : depth'[u] = depth[u]
  BY <1>1 DEF IInv, TypeOK
<1>4. TypeOK'
  BY <1>1, <1>2, <1>3 DEF IInv, TypeOK
<1>5. Rest'
  BY <1>1, <1>2, <1>3, MoveKeeps DEF Live
<1> QED BY <1>4, <1>5 DEF IInv, Rest

\* Steps that give a permit back.
LEMMA PermitBackIInv ==
  ASSUME IInv, NEW t \in Turns,
         \/ Refuse(t) \/ ReleasePermit(t)
         \/ EndTurn(t) /\ answer[t] = "none"
  PROVE  IInv'
<1> DEFINE x == IF pc[t] = "answered" THEN "refused" ELSE "done"
<1>1. /\ x \in Ended /\ pc[t] # "queued"
      /\ Freed(Home[t], queue[Home[t]], [pc EXCEPT ![t] = x])
      /\ UNCHANGED <<answer, late, waiting, ready, rows, expired>>
      /\ depth' = depth \/ depth' = [depth EXCEPT ![t] = 0]
  <2>1. "refused" \in Ended /\ "done" \in Ended
    BY DEF Ended
  <2>2. CASE Refuse(t)
    BY <2>1, <2>2 DEF Refuse
  <2>3. CASE ReleasePermit(t)
    BY <2>1, <2>3 DEF ReleasePermit
  <2>4. CASE EndTurn(t) /\ answer[t] = "none"
    BY <2>1, <2>4 DEF EndTurn
  <2> HIDE DEF x
  <2> QED BY <2>2, <2>3, <2>4
<1> HIDE DEF x
<1>2. depth' \in [Turns -> Nat] /\ \A u \in Turns \ {t} : depth'[u] = depth[u]
  <2>1. depth \in [Turns -> Nat]
    BY DEF IInv, TypeOK
  <2>2. depth' = depth \/ depth' = [depth EXCEPT ![t] = 0]
    BY <1>1
  <2> QED BY <2>1, <2>2
<1>3. /\ pc' \in [Turns -> PCs] /\ queue' \in [Workers -> Seq(Turns)]
      /\ permits' \in [Workers -> Nat] /\ Rest'
  BY <1>1, <1>2, FreedKeeps
<1> QED BY <1>1, <1>2, <1>3 DEF IInv, TypeOK, Rest

\* A turn that ends with a row gives the row back before the permit.
LEMMA EndTurnIInv ==
  ASSUME IInv, NEW t \in Turns, EndTurn(t), answer[t] # "none"
  PROVE  IInv'
<1>1. /\ pc[t] = "held" /\ pc' = [pc EXCEPT ![t] = "release"]
      /\ depth' = [depth EXCEPT ![t] = 0]
      /\ UNCHANGED <<answer, late, queue, permits, waiting, ready, rows, expired>>
  BY DEF EndTurn
<1>2. "release" \in PCs \ ({"idle"} \cup Waiting)
  BY DEF PCs, Waiting
<1>3. depth' \in [Turns -> Nat] /\ \A u \in Turns \ {t} : depth'[u] = depth[u]
  BY <1>1 DEF IInv, TypeOK
<1>4. TypeOK'
  BY <1>1, <1>2, <1>3 DEF IInv, TypeOK
<1>5. Rest'
  BY <1>1, <1>2, <1>3, MoveKeeps DEF Live
<1> QED BY <1>4, <1>5 DEF IInv, Rest

\* A turn's own row may go once the turn is over, and no other row goes with it.
LEMMA ReleaseIInv ==
  ASSUME IInv, NEW t \in Turns, Release(t)
  PROVE  IInv'
<1> DEFINE x == IF pc[t] = "release" THEN "released" ELSE "cancelled"
<1>1. /\ pc[t] \in {"release", "parting"} /\ pc' = [pc EXCEPT ![t] = x]
      /\ UNCHANGED <<answer, depth, late, queue, permits, waiting, ready>>
      /\ \/ rows' = rows \ {t} /\ expired' = expired \ {t}
         \/ UNCHANGED <<rows, expired>>
  BY DEF Release
<1>2. x \in PCs /\ x \in {"released", "cancelled"}
  BY DEF PCs, Ended
<1> HIDE DEF x
<1>3. pc'[t] = x /\ \A u \in Turns \ {t} : pc'[u] = pc[u]
  BY <1>1 DEF IInv, TypeOK
<1>4. TypeOK'
  BY <1>1, <1>2 DEF IInv, TypeOK
<1>5. RowsBounded'
  <2>1. IsFiniteSet(rows)
    BY FiniteAssumption, FS_Subset DEF IInv, TypeOK
  <2>2. IsFiniteSet(rows') /\ Cardinality(rows') <= Cardinality(rows)
    <3>1. rows' \subseteq rows
      BY <1>1
    <3> QED BY <2>1, <3>1, FS_Subset
  <2>3. Cardinality(rows) \in Nat /\ Cardinality(rows') \in Nat
    BY <2>1, <2>2, FS_CardinalityType
  <2> QED BY <2>2, <2>3, SlotsAssumption DEF IInv, RowsBounded
<1>6. HoldersHaveRows'
  BY <1>1, <1>2, <1>3 DEF IInv, HoldersHaveRows, Live, Fresh
<1>7. NotYetAsked' /\ HeldIsMarked'
  BY <1>1, <1>2, <1>3 DEF IInv, NotYetAsked, HeldIsMarked, Waiting
<1>8. InLine'
  <2>1. \A w \in Workers : \A i \in 1..Len(queue[w]) : queue[w][i] \in Turns
    BY DEF IInv, TypeOK
  <2> QED BY <1>1, <1>3, <2>1 DEF IInv, InLine, LineOf
<1> QED BY <1>4, <1>5, <1>6, <1>7, <1>8 DEF IInv

\* Time passes for a turn or for a row.
LEMMA TimeIInv ==
  ASSUME IInv, NEW t \in Turns, DeadlinePasses(t) \/ RowExpires(t)
  PROVE  IInv'
<1>1. UNCHANGED <<pc, answer, depth, queue, permits, waiting, ready, rows>>
  BY DEF DeadlinePasses, RowExpires
<1>2. late' \subseteq Turns /\ expired' \subseteq rows
  BY DEF DeadlinePasses, RowExpires, IInv, TypeOK
<1>3. TypeOK'
  BY <1>1, <1>2 DEF IInv, TypeOK
<1>4. HoldersHaveRows'
  BY <1>1 DEF IInv, HoldersHaveRows, Live, Fresh, DeadlinePasses, RowExpires
<1>5. RowsBounded' /\ NotYetAsked' /\ HeldIsMarked' /\ InLine'
  BY <1>1 DEF IInv, RowsBounded, NotYetAsked, HeldIsMarked, InLine, LineOf
<1> QED BY <1>3, <1>4, <1>5 DEF IInv

\* A cancellation behind the permit.
LEMMA CancelGatingIInv ==
  ASSUME IInv, NEW t \in Turns, Cancel(t), pc[t] \in Gating \cup {"release"}
  PROVE  IInv'
<1>1. PICK x \in {"orphan", "parting", "cancelled"} :
        /\ pc' = [pc EXCEPT ![t] = x]
        /\ UNCHANGED <<answer, depth, late, queue, permits, waiting, ready, rows, expired>>
  BY DEF Cancel, Gating, Waiting, Abandoned
<1>2. x \in PCs \ ({"idle"} \cup Waiting) /\ pc[t] # "queued"
  BY DEF PCs, Waiting, Gating, Ended
<1>3. TypeOK'
  BY <1>1, <1>2 DEF IInv, TypeOK
<1>4. Rest'
  BY <1>1, <1>2, MoveKeeps
<1> QED BY <1>3, <1>4 DEF IInv, Rest

\* A crash empties the worker's line with its tasks; its rows stay.
LEMMA CrashIInv ==
  ASSUME IInv, NEW w \in Workers, Crash(w)
  PROVE  IInv'
<1>1. /\ pc' = [t \in Turns |-> IF Home[t] = w /\ pc[t] \notin Ended \cup {"idle"}
                                THEN "crashed" ELSE pc[t]]
      /\ depth' = [t \in Turns |-> IF Home[t] = w THEN 0 ELSE depth[t]]
      /\ queue' = [queue EXCEPT ![w] = <<>>]
      /\ UNCHANGED <<answer, late, rows, expired>>
  BY DEF Crash
<1>2. \A t \in Turns : \/ pc'[t] = "crashed"
                       \/ pc'[t] = pc[t] /\ (Home[t] # w \/ pc[t] \in Ended \cup {"idle"})
  BY <1>1
<1>3. TypeOK'
  <2>1. pc' \in [Turns -> PCs]
    <3>1. "crashed" \in PCs
      BY DEF PCs, Ended
    <3> QED BY <1>1, <3>1 DEF IInv, TypeOK
  <2>2. depth' \in [Turns -> Nat]
    BY <1>1 DEF IInv, TypeOK
  <2>3. queue' \in [Workers -> Seq(Turns)]
    BY <1>1 DEF IInv, TypeOK
  <2>4. /\ permits' \in [Workers -> Nat] /\ waiting' \in [Workers -> Int]
        /\ ready' \in [Workers -> BOOLEAN]
    <3>1. PICK on \in BOOLEAN : ready' = [ready EXCEPT ![w] = on]
      BY DEF Crash
    <3>2. permits' = [permits EXCEPT ![w] = Slots] /\ waiting' = [waiting EXCEPT ![w] = 0]
      BY DEF Crash
    <3> QED BY <3>1, <3>2, SlotsAssumption DEF IInv, TypeOK
  <2> QED BY <1>1, <2>1, <2>2, <2>3, <2>4 DEF IInv, TypeOK
<1>4. RowsBounded' /\ NotYetAsked'
  BY <1>1, <1>2 DEF IInv, RowsBounded, NotYetAsked, Waiting
<1>5. HoldersHaveRows'
  BY <1>1, <1>2 DEF IInv, HoldersHaveRows, Live, Fresh
<1>6. HeldIsMarked'
  BY <1>1, <1>2 DEF IInv, HeldIsMarked, Ended
<1>7. InLine'
  <2>1. ASSUME NEW v \in Workers, v # w
        PROVE  LineOf(v)'
    <3>1. queue'[v] = queue[v] /\ LineOf(v)
      BY <1>1, <2>1 DEF IInv, TypeOK, InLine
    <3>2. \A i \in 1..Len(queue[v]) : queue[v][i] \in Turns /\ Home[queue[v][i]] # w
      BY <2>1, <3>1 DEF IInv, TypeOK, LineOf
    <3>3. \A u \in Turns : Home[u] # w => pc'[u] = pc[u]
      BY <1>1
    <3> QED BY <3>1, <3>2, <3>3 DEF LineOf
  <2>2. queue'[w] = <<>>
    BY <1>1 DEF IInv, TypeOK
  <2>3. LineOf(w)'
    BY <2>2 DEF LineOf
  <2> QED BY <2>1, <2>3 DEF InLine
<1> QED BY <1>3, <1>4, <1>5, <1>6, <1>7 DEF IInv

------------------------------------------------------------------------------
\* Every step of a turn, by the disjuncts of Turn.
LEMMA TurnIInv ==
  ASSUME IInv, NEW t \in Turns, Turn(t)
  PROVE  IInv'
<1>1. CASE Arrive(t)
  BY <1>1, ArriveFullIInv, ArriveQueueIInv, ArriveFreeIInv DEF Arrive
<1>2. CASE Resume(t)
  BY <1>2, ResumeIInv
<1>3. CASE QueueTimeout(t)
  BY <1>3, LeaveLineIInv DEF QueueTimeout
<1>4. CASE Reserve(t)
  BY <1>4, ReserveIInv
<1>5. CASE Admit(t) \/ Sleep(t) \/ PollAgain(t)
  BY <1>5, GateIInv
<1>6. CASE Refuse(t) \/ ReleasePermit(t)
  BY <1>6, PermitBackIInv
<1>7. CASE Release(t)
  BY <1>7, ReleaseIInv
<1>8. CASE Course(t)
  BY <1>8, NestedIInv, EndTurnIInv, PermitBackIInv DEF Course
<1>9. CASE DeadlinePasses(t) \/ RowExpires(t)
  BY <1>9, TimeIInv
<1>10. CASE Cancel(t)
  BY <1>10, LeaveLineIInv, CancelGatingIInv DEF Cancel
<1> QED BY <1>1, <1>2, <1>3, <1>4, <1>5, <1>6, <1>7, <1>8, <1>9, <1>10 DEF Turn, Progress

\* Every step of the box: of a turn, or the crash of a worker.
LEMMA StepIInv == IInv /\ [Next]_vars => IInv'
<1> SUFFICES ASSUME IInv, [Next]_vars PROVE IInv'
  OBVIOUS
<1>1. CASE UNCHANGED vars
  <2>1. TypeOK'
    BY <1>1 DEF vars, IInv, TypeOK
  <2>2. RowsBounded' /\ HoldersHaveRows' /\ NotYetAsked' /\ HeldIsMarked'
    BY <1>1 DEF vars, IInv, RowsBounded, HoldersHaveRows, NotYetAsked, HeldIsMarked, Live, Fresh
  <2>3. InLine'
    BY <1>1 DEF vars, IInv, InLine, LineOf
  <2> QED BY <2>1, <2>2, <2>3 DEF IInv
<1>2. CASE Next
  BY <1>2, TurnIInv, CrashIInv DEF Next
<1> QED BY <1>1, <1>2

\* The invariant holds in every state, whatever faults occur.
THEOREM Inductive == Spec => []IInv
BY InitIInv, StepIInv, PTL DEF Spec

\* Type correctness.
THEOREM TypeCorrect == Spec => []TypeOK
<1>1. IInv => TypeOK BY DEF IInv
<1> QED BY <1>1, Inductive, PTL

\* slots=N for the box (admission.py:36-39), for any number of workers and turns
\* and under every fault: the turns that hold a row are never more than the slots.
THEOREM BoxNeverOverfull == Spec => []BoxCapacity
<1>1. IInv => BoxCapacity
  <2> SUFFICES ASSUME IInv PROVE BoxCapacity
    OBVIOUS
  <2>1. RowHolders \ CanOutlive \subseteq rows
    BY DEF IInv, TypeOK, HoldersHaveRows, RowHolders, Fresh
  <2>2. IsFiniteSet(rows)
    BY FiniteAssumption, FS_Subset DEF IInv, TypeOK
  <2>3. Cardinality(RowHolders \ CanOutlive) <= Cardinality(rows)
    BY <2>1, <2>2, FS_Subset
  <2>4. Cardinality(RowHolders \ CanOutlive) \in Nat /\ Cardinality(rows) \in Nat
    BY <2>1, <2>2, FS_Subset, FS_CardinalityType
  <2> QED BY <2>3, <2>4, SlotsAssumption DEF IInv, RowsBounded, BoxCapacity
<1> QED BY <1>1, Inductive, PTL

------------------------------------------------------------------------------
\* The head of a line is a queued turn, so nobody else is handed a permit.
LEMMA HeadIsQueued ==
  ASSUME IInv, NEW w \in Workers, queue[w] # <<>>
  PROVE  Head(queue[w]) \in Turns /\ pc[Head(queue[w])] = "queued"
<1>1. queue[w] \in Seq(Turns)
  BY DEF IInv, TypeOK
<1>2. Head(queue[w]) = queue[w][1] /\ 1 \in 1..Len(queue[w]) /\ queue[w][1] \in Turns
  BY <1>1
<1> QED BY <1>2 DEF IInv, InLine, LineOf

\* A permit given back changes the turn that gives it and at most one queued turn.
LEMMA FreedMoves ==
  ASSUME IInv, NEW t \in Turns, NEW x, pc[t] # "queued",
         Freed(Home[t], queue[Home[t]], [pc EXCEPT ![t] = x])
  PROVE  /\ pc'[t] = x
         /\ \A u \in Turns \ {t} :
              pc'[u] = pc[u] \/ (pc[u] = "queued" /\ pc'[u] = "granted")
<1> DEFINE p == [pc EXCEPT ![t] = x]
           h == Head(queue[Home[t]])
<1>1. p[t] = x /\ (\A u \in Turns \ {t} : p[u] = pc[u]) /\ DOMAIN p = Turns
  BY DEF IInv, TypeOK
<1>2. CASE queue[Home[t]] = <<>>
  BY <1>1, <1>2 DEF Freed
<1>3. CASE queue[Home[t]] # <<>>
  <2>1. pc' = [p EXCEPT ![h] = "granted"]
    BY <1>3 DEF Freed
  <2>2. h \in Turns /\ pc[h] = "queued"
    BY <1>3, HomeAssumption, HeadIsQueued
  <2> HIDE DEF p, h
  <2> QED BY <1>1, <2>1, <2>2
<1> QED BY <1>2, <1>3

\* A step of one turn moves no other turn, but for one that is handed a permit.
LEMMA OthersStay ==
  ASSUME IInv, NEW t \in Turns, Turn(t)
  PROVE  \A u \in Turns \ {t} : pc'[u] = pc[u] \/ (pc[u] = "queued" /\ pc'[u] = "granted")
<1>1. CASE \E x \in PCs : pc' = [pc EXCEPT ![t] = x]
  BY <1>1 DEF IInv, TypeOK
<1>2. CASE pc[t] # "queued" /\ \E x : Freed(Home[t], queue[Home[t]], [pc EXCEPT ![t] = x])
  BY <1>2, FreedMoves
<1>3. CASE pc' = pc
  BY <1>3
<1>4. CASE Resume(t)
  <2> DEFINE h == Head(queue[Home[t]])
  <2>1. PICK on \in BOOLEAN :
          LET p == [pc EXCEPT ![t] = IF on THEN "reserve" ELSE "held"] IN
          \/ queue[Home[t]] # <<>> /\ pc' = [p EXCEPT ![h] = "granted"]
          \/ pc' = p
    BY <1>4 DEF Resume, Enabled
  <2> DEFINE p == [pc EXCEPT ![t] = IF on THEN "reserve" ELSE "held"]
  <2>2. (\A u \in Turns \ {t} : p[u] = pc[u]) /\ DOMAIN p = Turns
    BY DEF IInv, TypeOK
  <2>3. queue[Home[t]] # <<>> => h \in Turns /\ pc[h] = "queued"
    BY HomeAssumption, HeadIsQueued
  <2> HIDE DEF h
  <2> QED BY <2>1, <2>2, <2>3
<1>5. CASE Arrive(t)
  BY <1>5 DEF Arrive, ArriveFull, ArriveQueue, ArriveFree, Gate, IInv, TypeOK
<1>6. CASE LeaveLine(t, "refused") \/ LeaveLine(t, "cancelled")
  BY <1>6, FreedMoves DEF LeaveLine, IInv, TypeOK
<1>7. CASE EndTurn(t) \/ Refuse(t) \/ ReleasePermit(t)
  <2>1. pc[t] # "queued"
    BY <1>7 DEF EndTurn, Refuse, ReleasePermit
  <2>2. \/ \E x : Freed(Home[t], queue[Home[t]], [pc EXCEPT ![t] = x])
        \/ pc' = [pc EXCEPT ![t] = "release"]
    BY <1>7 DEF EndTurn, Refuse, ReleasePermit
  <2> QED BY <1>2, <2>1, <2>2 DEF IInv, TypeOK
<1>8. CASE \/ NestedEnter(t) \/ NestedExit(t) \/ DeadlinePasses(t) \/ RowExpires(t)
  BY <1>8, <1>3 DEF NestedEnter, NestedExit, DeadlinePasses, RowExpires
<1>9. CASE \/ Reserve(t) \/ Admit(t) \/ Sleep(t) \/ PollAgain(t) \/ Release(t)
           \/ Cancel(t) /\ pc[t] \in Gating \cup {"release"}
  BY <1>9 DEF Reserve, Admit, Sleep, PollAgain, Release, Cancel, Waiting, Gating, IInv, TypeOK
<1> QED BY <1>4, <1>5, <1>6, <1>7, <1>8, <1>9 DEF Turn, Progress, Course, QueueTimeout, Cancel

\* An admitted turn goes on, or gives its row and its permit back.
LEMMA AdmittedGoesOn ==
  ASSUME IInv, NEW t \in Turns, Turn(t), pc[t] = "held"
  PROVE  pc'[t] \in {"held", "release", "done"}
<1>1. depth[t] > 0 /\ t \in DOMAIN pc
  BY DEF IInv, TypeOK, HeldIsMarked
<1>2. Course(t) \/ DeadlinePasses(t) \/ RowExpires(t)
  BY <1>1 DEF Turn, Progress, Arrive, ArriveFull, ArriveQueue, ArriveFree, Arrives, IsNested,
              Resume, QueueTimeout, LeaveLine, Reserve, Admit, Refuse, Sleep, PollAgain,
              Release, ReleasePermit, Cancel, Waiting, Gating
<1>3. CASE EndTurn(t)
  <2>1. \/ Freed(Home[t], queue[Home[t]], [pc EXCEPT ![t] = "done"])
        \/ pc' = [pc EXCEPT ![t] = "release"]
    BY <1>3 DEF EndTurn
  <2> QED BY <1>1, <2>1, FreedMoves
<1>4. CASE pc' = pc
  BY <1>4
<1> QED BY <1>2, <1>3, <1>4 DEF Course, NestedEnter, NestedExit, DeadlinePasses, RowExpires

\* Nested calls never queue behind their own turn
\* (tests/test_inference_admission.py:128-129), at any capacity and depth.
THEOREM NestedCallsNeverWait == Spec => NestedNeverWaits
<1> DEFINE GoesOn == \A t \in Turns : pc[t] = "held" =>
                       pc'[t] \notin Waiting \cup Gating \cup {"refused"}
<1>1. IInv /\ [Next]_vars => [GoesOn]_vars
  <2> SUFFICES ASSUME IInv, Next, NEW u \in Turns, pc[u] = "held"
               PROVE  pc'[u] \notin Waiting \cup Gating \cup {"refused"}
    OBVIOUS
  <2>1. CASE \E t \in Turns : Turn(t)
    <3>1. pc'[u] \in {"held", "release", "done"}
      BY <2>1, OthersStay, AdmittedGoesOn
    <3> QED BY <3>1 DEF Waiting, Gating
  <2>2. CASE \E w \in Workers : Crash(w)
    <3>1. pc'[u] \in {"held", "crashed"}
      BY <2>2 DEF Crash
    <3> QED BY <3>1 DEF Waiting, Gating
  <2> QED BY <2>1, <2>2 DEF Next
<1> QED BY <1>1, Inductive, PTL DEF Spec, NestedNeverWaits

------------------------------------------------------------------------------
\* Counting turns and permits.

\* Where a turn that has a permit, or one on its way, can be.
Permit == {"granted", "held", "release", "released"} \cup Gating

\* Nobody is lost from a line: whoever is queued is in the line of its worker.
AllInLine ==
  \A t \in Turns : pc[t] = "queued" =>
    \E i \in 1..Len(queue[Home[t]]) : queue[Home[t]][i] = t

CInv == PermitsAddUp /\ WaitingExact /\ AllInLine /\ NoLostWakeup

\* 1 if x is in S, 0 if not.
Bit(x, S) == IF x \in S THEN 1 ELSE 0

\* Two sets that differ in one element at most.
LEMMA OneChanges ==
  ASSUME NEW S, IsFiniteSet(S), NEW T, NEW x, S \ {x} = T \ {x}
  PROVE  /\ IsFiniteSet(T) /\ Cardinality(S) \in Nat /\ Cardinality(T) \in Nat
         /\ Cardinality(T) = Cardinality(S) + Bit(x, T) - Bit(x, S)
<1> DEFINE R == S \ {x}
<1>1. IsFiniteSet(R) /\ Cardinality(R) \in Nat /\ x \notin R
  BY FS_Subset, FS_CardinalityType
<1>2. S = (IF x \in S THEN R \cup {x} ELSE R) /\ T = (IF x \in T THEN R \cup {x} ELSE R)
  OBVIOUS
<1> HIDE DEF R
<1>3. IsFiniteSet(R \cup {x}) /\ Cardinality(R \cup {x}) = Cardinality(R) + 1
  BY <1>1, FS_AddElement
<1>4. Cardinality(S) = Cardinality(R) + Bit(x, S)
  <2>1. CASE x \in S
    BY <1>2, <1>3, <2>1 DEF Bit
  <2>2. CASE x \notin S
    BY <1>1, <1>2, <2>2 DEF Bit
  <2> QED BY <2>1, <2>2
<1>5. IsFiniteSet(T) /\ Cardinality(T) = Cardinality(R) + Bit(x, T)
  <2>1. CASE x \in T
    BY <1>2, <1>3, <2>1 DEF Bit
  <2>2. CASE x \notin T
    BY <1>1, <1>2, <2>2 DEF Bit
  <2> QED BY <2>1, <2>2
<1> QED BY <1>1, <1>4, <1>5 DEF Bit

\* The turns of a worker are finitely many.
LEMMA FiniteTurns ==
  \A w : /\ IsFiniteSet(Queued(w)) /\ Cardinality(Queued(w)) \in Nat
         /\ IsFiniteSet(Permitted(w)) /\ Cardinality(Permitted(w)) \in Nat
<1>1. \A w : Queued(w) \subseteq Turns /\ Permitted(w) \subseteq Turns
  BY DEF Queued, Permitted, Of
<1> QED BY <1>1, FiniteAssumption, FS_Subset, FS_CardinalityType

\* Turn t goes to x, and the turns in H are handed a permit.
Moves(t, x, H) ==
  \A u \in Turns : pc'[u] = IF u = t THEN x ELSE IF u \in H THEN "granted" ELSE pc[u]

\* H is the head of the worker's line, or nobody.
Handed(w, H) ==
  \/ H = {} /\ queue' = queue
  \/ /\ queue[w] # <<>> /\ H = {Head(queue[w])}
     /\ queue' = [queue EXCEPT ![w] = Tail(@)]

\* The two counts of a turn's worker after its step; the other workers' stay.
LEMMA Recounted ==
  ASSUME IInv, NEW t \in Turns, NEW x, NEW H \in SUBSET Turns, Moves(t, x, H),
         NEW w, w = Home[t],
         \/ H = {}
         \/ \E h \in Turns \ {t} : H = {h} /\ Home[h] = w /\ pc[h] = "queued"
  PROVE  /\ Cardinality(Queued(w)') = Cardinality(Queued(w)) + Bit(x, Waiting) - Bit(pc[t], Waiting)
         /\ Cardinality(Permitted(w)')
              = Cardinality(Permitted(w)) + Bit(x, Permit) - Bit(pc[t], Permit) + (IF H = {} THEN 0 ELSE 1)
         /\ \A v \in Workers \ {w} : Queued(v)' = Queued(v) /\ Permitted(v)' = Permitted(v)
<1> DEFINE Q == Queued(w)
           P == Permitted(w)
           Qn == {u \in Turns : Home[u] = w /\ pc'[u] \in Waiting}
           Pn == {u \in Turns : Home[u] = w /\ pc'[u] \in Permit}
<1>1. /\ Q = {u \in Turns : Home[u] = w /\ pc[u] \in Waiting} /\ Queued(w)' = Qn
      /\ P = {u \in Turns : Home[u] = w /\ pc[u] \in Permit} /\ Permitted(w)' = Pn
  BY DEF Queued, Permitted, Of, At, Permit
<1>2. "queued" \in Waiting /\ "granted" \in Waiting /\ "queued" \notin Permit /\ "granted" \in Permit
  BY DEF Waiting, Permit, Gating
<1>3. \A u \in H : u # t /\ Home[u] = w /\ pc[u] = "queued"
  OBVIOUS
<1>4. \A u \in Turns \ {t} : pc'[u] = IF u \in H THEN "granted" ELSE pc[u]
  BY DEF Moves
<1>5. pc'[t] = x
  BY DEF Moves
<1>6. IsFiniteSet(Q) /\ IsFiniteSet(P) /\ Cardinality(Q) \in Nat /\ Cardinality(P) \in Nat
  BY FiniteTurns
<1>7. /\ Bit(t, Q) = Bit(pc[t], Waiting) /\ Bit(t, Qn) = Bit(x, Waiting)
      /\ Bit(t, P) = Bit(pc[t], Permit) /\ Bit(t, Pn) = Bit(x, Permit)
  BY <1>1, <1>5 DEF Bit
<1>8. Q \ {t} = Qn \ {t}
  BY <1>1, <1>2, <1>3, <1>4
<1>9. \A u \in Turns \ {t} : u \in Pn <=> u \in P \/ u \in H
  BY <1>1, <1>2, <1>3, <1>4
<1>10. \A u \in H : u \notin P /\ u \in Pn /\ u # t
  BY <1>1, <1>2, <1>3, <1>9
<1>11. P \subseteq Turns /\ Pn \subseteq Turns
  BY <1>1
<1>12. \A v \in Workers \ {w} : Queued(v)' = Queued(v) /\ Permitted(v)' = Permitted(v)
  <2> TAKE v \in Workers \ {w}
  <2>1. \A u \in Turns : Home[u] = v => pc'[u] = pc[u]
    BY <1>3, <1>4
  <2> QED BY <2>1 DEF Queued, Permitted, Of, At
<1> HIDE DEF Q, P, Qn, Pn
<1>13. Cardinality(Qn) = Cardinality(Q) + Bit(x, Waiting) - Bit(pc[t], Waiting)
  BY <1>6, <1>7, <1>8, OneChanges
<1>14. Cardinality(Pn) = Cardinality(P) + Bit(x, Permit) - Bit(pc[t], Permit)
                         + (IF H = {} THEN 0 ELSE 1)
  <2>1. CASE H = {}
    <3>1. P \ {t} = Pn \ {t}
      BY <1>9, <1>11, <2>1
    <3>2. Cardinality(Pn) = Cardinality(P) + Bit(t, Pn) - Bit(t, P)
      BY <1>6, <3>1, OneChanges
    <3> QED BY <3>2, <1>6, <1>7, <2>1 DEF Bit
  <2>2. CASE H # {}
    <3>1. PICK h \in Turns : H = {h} /\ h \notin P /\ h \in Pn /\ h # t
      BY <2>2, <1>10
    <3> DEFINE M == Pn \ {h}
    <3>2. P \ {t} = M \ {t} /\ Bit(t, M) = Bit(t, Pn)
      BY <1>9, <1>11, <3>1 DEF Bit
    <3>3. M \ {h} = Pn \ {h} /\ Bit(h, M) = 0 /\ Bit(h, Pn) = 1
      BY <3>1 DEF Bit
    <3> HIDE DEF M
    <3>4. IsFiniteSet(M) /\ Cardinality(M) \in Nat
          /\ Cardinality(M) = Cardinality(P) + Bit(t, M) - Bit(t, P)
      BY <1>6, <3>2, OneChanges
    <3>5. Cardinality(Pn) = Cardinality(M) + Bit(h, Pn) - Bit(h, M) /\ Cardinality(Pn) \in Nat
      BY <3>3, <3>4, OneChanges
    <3> QED BY <3>2, <3>3, <3>4, <3>5, <1>6, <1>7, <2>2 DEF Bit
  <2> QED BY <2>1, <2>2
<1>15. Queued(w)' = Qn /\ Permitted(w)' = Pn
  BY <1>1
<1> QED BY <1>12, <1>13, <1>14, <1>15 DEF Q, P

\* A step of turn t whose permits and place in line are accounted for; only a
\* cancellation may lose a permit.
Due(t, x, H) ==
  permits[Home[t]] + Bit(pc[t], Permit) - Bit(x, Permit) - (IF H = {} THEN 0 ELSE 1)
Account(t, x, H) ==
  /\ Moves(t, x, H)
  /\ waiting'[Home[t]] = waiting[Home[t]] + Bit(x, Waiting) - Bit(pc[t], Waiting)
  /\ \A v \in Workers \ {Home[t]} : waiting'[v] = waiting[v] /\ permits'[v] = permits[v]
  /\ IF "cancel" \in Faults
     THEN permits'[Home[t]] <= Due(t, x, H) ELSE permits'[Home[t]] = Due(t, x, H)

\* Such a step keeps both sums.
LEMMA CountsKept ==
  ASSUME IInv, TypeOK', PermitsAddUp, WaitingExact,
         NEW t \in Turns, NEW x, NEW H \in SUBSET Turns, Account(t, x, H),
         \/ H = {}
         \/ \E h \in Turns \ {t} : H = {h} /\ Home[h] = Home[t] /\ pc[h] = "queued",
         x \in Waiting => pc[t] \in Waiting \/ ~LineFull(Home[t])
  PROVE  PermitsAddUp' /\ WaitingExact'
<1> DEFINE w == Home[t]
           d == IF H = {} THEN 0 ELSE 1
           q == Cardinality(Queued(w))
           p == Cardinality(Permitted(w))
           qn == Cardinality(Queued(w)')
           pn == Cardinality(Permitted(w)')
           i == Bit(x, Waiting)
           j == Bit(pc[t], Waiting)
           k == Bit(x, Permit)
           l == Bit(pc[t], Permit)
<1>1. w \in Workers
  BY HomeAssumption
<1>2. /\ qn = q + i - j /\ pn = p + k - l + d
      /\ \A v \in Workers \ {w} : Queued(v)' = Queued(v) /\ Permitted(v)' = Permitted(v)
  BY Recounted DEF Account
<1>3. q \in Nat /\ p \in Nat /\ d \in {0, 1} /\ i \in {0, 1} /\ j \in {0, 1} /\ k \in {0, 1} /\ l \in {0, 1}
  BY FiniteTurns DEF Bit
<1>4. /\ permits[w] \in Nat /\ permits'[w] \in Nat /\ waiting[w] \in Int /\ waiting'[w] \in Int
      /\ Slots \in Nat /\ MaxQueue \in Nat
  BY <1>1, SlotsAssumption, MaxQueueAssumption DEF IInv, TypeOK
<1>5. /\ waiting'[w] = waiting[w] + i - j
      /\ IF "cancel" \in Faults THEN permits'[w] <= permits[w] + l - k - d
                                ELSE permits'[w] = permits[w] + l - k - d
      /\ \A v \in Workers \ {w} : waiting'[v] = waiting[v] /\ permits'[v] = permits[v]
  BY DEF Account, Due
<1>6. /\ waiting[w] = q
      /\ MaxQueue > 0 => waiting[w] <= MaxQueue
      /\ IF "cancel" \in Faults THEN permits[w] + p <= Slots ELSE permits[w] + p = Slots
  BY <1>1 DEF WaitingExact, PermitsAddUp
<1>7. MaxQueue > 0 /\ i = 1 /\ j = 0 => waiting[w] < MaxQueue
  BY <1>4 DEF LineFull, Bit
<1> HIDE DEF w, d, q, p, qn, pn, i, j, k, l
<1>8. waiting'[w] = qn /\ (MaxQueue > 0 => waiting'[w] <= MaxQueue)
  BY <1>2, <1>3, <1>4, <1>5, <1>6, <1>7
<1>9. IF "cancel" \in Faults THEN permits'[w] + pn <= Slots ELSE permits'[w] + pn = Slots
  BY <1>2, <1>3, <1>4, <1>5, <1>6
<1>10. PermitsAddUp'
  <2> SUFFICES ASSUME NEW v \in Workers
               PROVE  IF "cancel" \in Faults
                      THEN permits'[v] + Cardinality(Permitted(v)') <= Slots
                      ELSE permits'[v] + Cardinality(Permitted(v)') = Slots
    BY DEF PermitsAddUp
  <2>1. CASE v = w
    BY <2>1, <1>9 DEF pn
  <2>2. CASE v # w
    BY <2>2, <1>2, <1>5 DEF PermitsAddUp
  <2> QED BY <2>1, <2>2
<1>11. WaitingExact'
  <2> SUFFICES ASSUME NEW v \in Workers
               PROVE  /\ waiting'[v] = Cardinality(Queued(v)')
                      /\ MaxQueue > 0 => waiting'[v] <= MaxQueue
    BY DEF WaitingExact
  <2>1. CASE v = w
    BY <2>1, <1>8 DEF qn
  <2>2. CASE v # w
    BY <2>2, <1>2, <1>5 DEF WaitingExact
  <2> QED BY <2>1, <2>2
<1> QED BY <1>10, <1>11

\* Whoever is handed a permit was queued with the same worker.
LEMMA HandedIs ==
  ASSUME IInv, NEW t \in Turns, pc[t] # "queued", NEW H, Handed(Home[t], H)
  PROVE  /\ H \in SUBSET Turns
         /\ \/ H = {}
            \/ \E h \in Turns \ {t} : H = {h} /\ Home[h] = Home[t] /\ pc[h] = "queued"
<1> DEFINE w == Home[t]
<1>1. CASE H = {}
  BY <1>1
<1>2. CASE H # {}
  <2>1. queue[w] # <<>> /\ H = {Head(queue[w])} /\ w \in Workers /\ queue[w] \in Seq(Turns)
    BY <1>2, HomeAssumption DEF Handed, IInv, TypeOK
  <2>2. Head(queue[w]) = queue[w][1] /\ 1 \in 1..Len(queue[w]) /\ queue[w][1] \in Turns
    BY <2>1
  <2>3. Home[queue[w][1]] = w /\ pc[queue[w][1]] = "queued"
    BY <2>1, <2>2 DEF IInv, InLine, LineOf
  <2> QED BY <2>1, <2>2, <2>3
<1> QED BY <1>1, <1>2

\* The lines after a step of a turn that neither joins its line nor leaves it, except
\* with a permit.
LEMMA LinesKept ==
  ASSUME IInv, TypeOK', AllInLine, NoLostWakeup,
         NEW t \in Turns, NEW x, NEW H, Moves(t, x, H), Handed(Home[t], H),
         pc[t] # "queued", x # "queued",
         \A v \in Workers \ {Home[t]} : permits'[v] = permits[v],
         H = {} => \/ permits'[Home[t]] = permits[Home[t]] /\ pc[t] # "granted"
                   \/ queue[Home[t]] = <<>>
                   \/ permits'[Home[t]] = 0
  PROVE  AllInLine' /\ NoLostWakeup'
<1> DEFINE w == Home[t]
           q == queue[w]
<1>1. w \in Workers /\ q \in Seq(Turns)
  BY HomeAssumption DEF IInv, TypeOK
<1>2. \A u \in H : u \in Turns \ {t} /\ Home[u] = w /\ pc[u] = "queued"
  BY HandedIs
<1>3. \A v \in Workers \ {w} : queue'[v] = queue[v]
  BY DEF Handed, IInv, TypeOK
<1>4. AllInLine'
  <2> SUFFICES ASSUME NEW u \in Turns, pc'[u] = "queued"
               PROVE  \E i \in 1..Len(queue'[Home[u]]) : queue'[Home[u]][i] = u
    BY DEF AllInLine
  <2>1. u # t /\ u \notin H /\ pc[u] = "queued" /\ Home[u] \in Workers
    BY HomeAssumption DEF Moves
  <2>2. PICK i \in 1..Len(queue[Home[u]]) : queue[Home[u]][i] = u
    BY <2>1 DEF AllInLine
  <2>3. CASE H = {} \/ Home[u] # w
    BY <2>1, <2>2, <2>3, <1>3 DEF Handed
  <2>4. CASE H # {} /\ Home[u] = w
    <3>1. q # <<>> /\ H = {Head(q)} /\ queue' = [queue EXCEPT ![w] = Tail(q)]
      BY <2>4 DEF Handed
    <3>2. queue'[w] = Tail(q)
      BY <1>1, <3>1 DEF IInv, TypeOK
    <3>3. i # 1 /\ i \in 1..Len(q) /\ q[i] = u
      BY <1>1, <2>1, <2>2, <2>4, <3>1
    <3>4. i - 1 \in 1..Len(Tail(q)) /\ Tail(q)[i - 1] = q[i]
      BY <1>1, <3>1, <3>3
    <3> QED BY <2>4, <3>2, <3>3, <3>4
  <2> QED BY <2>3, <2>4
<1>5. NoLostWakeup'
  <2> SUFFICES ASSUME NEW v \in Workers, permits'[v] > 0, queue'[v] # <<>>
               PROVE  \E u \in Turns : Home[u] = v /\ pc'[u] = "granted"
    BY DEF NoLostWakeup, Of
  <2>1. CASE v = w /\ H # {}
    <3>1. PICK h \in H : h \in Turns \ {t} /\ Home[h] = w
      BY <2>1, <1>2
    <3> QED BY <2>1, <3>1 DEF Moves
  <2>2. CASE v = w /\ H = {}
    <3>1. queue' = queue
      BY <2>2 DEF Handed
    <3>2. permits'[w] = permits[w] /\ pc[t] # "granted"
      BY <2>2, <3>1
    <3>3. PICK u \in Turns : Home[u] = w /\ pc[u] = "granted"
      BY <2>2, <3>1, <3>2 DEF NoLostWakeup, Of
    <3> QED BY <2>2, <3>2, <3>3 DEF Moves
  <2>3. CASE v # w
    <3>1. PICK u \in Turns : Home[u] = v /\ pc[u] = "granted"
      BY <2>3, <1>3 DEF NoLostWakeup, Of
    <3> QED BY <2>3, <3>1, <1>2 DEF Moves
  <2> QED BY <2>1, <2>2, <2>3
<1> QED BY <1>4, <1>5

\* Both together.
LEMMA MoveCounts ==
  ASSUME IInv, TypeOK', CInv,
         NEW t \in Turns, NEW x, NEW H, Account(t, x, H), Handed(Home[t], H),
         pc[t] # "queued", x \notin Waiting,
         H = {} => \/ permits'[Home[t]] = permits[Home[t]] /\ pc[t] # "granted"
                   \/ queue[Home[t]] = <<>>
                   \/ permits'[Home[t]] = 0
  PROVE  CInv'
<1>1. PermitsAddUp' /\ WaitingExact'
  BY HandedIs, CountsKept DEF CInv
<1>2. x # "queued"
  BY DEF Waiting
<1>3. AllInLine' /\ NoLostWakeup'
  BY <1>2, LinesKept DEF CInv, Account
<1> QED BY <1>1, <1>3 DEF CInv

\* A permit given back.
LEMMA FreedIs ==
  ASSUME IInv, NEW t \in Turns, NEW x, pc[t] # "queued",
         Freed(Home[t], queue[Home[t]], [pc EXCEPT ![t] = x])
  PROVE  \E H : /\ Moves(t, x, H) /\ Handed(Home[t], H)
                /\ H = {} => queue[Home[t]] = <<>>
                /\ permits'[Home[t]] = permits[Home[t]] + (IF H = {} THEN 1 ELSE 0)
                /\ \A v \in Workers \ {Home[t]} : permits'[v] = permits[v]
<1> DEFINE w == Home[t]
           q == queue[w]
           p == [pc EXCEPT ![t] = x]
<1>1. w \in Workers /\ q \in Seq(Turns)
  BY HomeAssumption DEF IInv, TypeOK
<1>2. p[t] = x /\ (\A u \in Turns \ {t} : p[u] = pc[u]) /\ DOMAIN p = Turns
  BY DEF IInv, TypeOK
<1>3. CASE q = <<>>
  <2>1. pc' = p /\ queue' = queue /\ permits' = [permits EXCEPT ![w] = @ + 1]
    BY <1>1, <1>3 DEF Freed, IInv, TypeOK
  <2>2. Moves(t, x, {})
    BY <1>2, <2>1 DEF Moves
  <2>3. Handed(w, {})
    BY <2>1 DEF Handed
  <2> QED BY <1>1, <1>3, <2>1, <2>2, <2>3 DEF IInv, TypeOK
<1>4. CASE q # <<>>
  <2> DEFINE h == Head(q)
  <2>1. pc' = [p EXCEPT ![h] = "granted"] /\ queue' = [queue EXCEPT ![w] = Tail(@)] /\ permits' = permits
    BY <1>1, <1>4 DEF Freed, IInv, TypeOK
  <2>2. h \in Turns /\ pc[h] = "queued"
    BY <1>1, <1>4, HeadIsQueued
  <2>3. h # t
    BY <2>2
  <2>4. Handed(w, {h})
    BY <1>4, <2>1 DEF Handed
  <2> HIDE DEF h, p
  <2>5. Moves(t, x, {h})
    BY <1>2, <2>1, <2>2, <2>3 DEF Moves
  <2>6. {h} # {}
    OBVIOUS
  <2>7. permits'[w] = permits[w] + 0
    BY <1>1, <2>1 DEF IInv, TypeOK
  <2> QED BY <2>1, <2>4, <2>5, <2>6, <2>7
<1> QED BY <1>3, <1>4

\* A turn moves on behind its permit, or without one; a cancelled one may lose it.
LEMMA PlainCounts ==
  ASSUME IInv, TypeOK', CInv, NEW t \in Turns, NEW x,
         pc[t] \notin Waiting, x \notin Waiting, pc' = [pc EXCEPT ![t] = x],
         UNCHANGED <<queue, permits, waiting>>,
         \/ pc[t] \in Permit <=> x \in Permit
         \/ "cancel" \in Faults /\ x \notin Permit
  PROVE  CInv'
<1>1. Moves(t, x, {})
  BY DEF Moves, IInv, TypeOK
<1>2. Handed(Home[t], {})
  BY DEF Handed
<1>3. Home[t] \in Workers /\ permits[Home[t]] \in Nat /\ waiting[Home[t]] \in Int
  BY HomeAssumption DEF IInv, TypeOK
<1>4. permits[Home[t]] <= Due(t, x, {}) /\ ("cancel" \notin Faults => permits[Home[t]] = Due(t, x, {}))
  BY <1>3 DEF Due, Bit
<1>5. Account(t, x, {})
  BY <1>1, <1>3, <1>4 DEF Account, Bit
<1>6. pc[t] # "queued" /\ pc[t] # "granted"
  BY DEF Waiting
<1> QED BY <1>1, <1>2, <1>5, <1>6, MoveCounts

\* A permit given back by a turn that ends.
LEMMA BackCounts ==
  ASSUME IInv, TypeOK', CInv, NEW t \in Turns, NEW x \in Ended,
         pc[t] \in Permit, Freed(Home[t], queue[Home[t]], [pc EXCEPT ![t] = x]),
         waiting' = [waiting EXCEPT ![Home[t]] = @ - Bit(pc[t], Waiting)]
  PROVE  CInv'
<1>1. x \notin Waiting /\ x \notin Permit /\ pc[t] # "queued"
  BY DEF Ended, Waiting, Permit, Gating
<1>2. PICK H : /\ Moves(t, x, H) /\ Handed(Home[t], H)
               /\ H = {} => queue[Home[t]] = <<>>
               /\ permits'[Home[t]] = permits[Home[t]] + (IF H = {} THEN 1 ELSE 0)
               /\ \A v \in Workers \ {Home[t]} : permits'[v] = permits[v]
  BY <1>1, FreedIs
<1>3. Home[t] \in Workers /\ permits[Home[t]] \in Nat /\ waiting[Home[t]] \in Int
  BY HomeAssumption DEF IInv, TypeOK
<1>4. permits'[Home[t]] = Due(t, x, H) /\ permits'[Home[t]] \in Nat
  BY <1>1, <1>2, <1>3 DEF Due, Bit
<1>5. /\ waiting'[Home[t]] = waiting[Home[t]] + Bit(x, Waiting) - Bit(pc[t], Waiting)
      /\ \A v \in Workers \ {Home[t]} : waiting'[v] = waiting[v]
  BY <1>1, <1>3 DEF Bit, IInv, TypeOK
<1>6. Account(t, x, H)
  BY <1>2, <1>4, <1>5 DEF Account
<1> QED BY <1>1, <1>2, <1>6, MoveCounts

\* A permit taken by a new turn, which finds nobody in line.
LEMMA ArriveFreeCounts ==
  ASSUME IInv, TypeOK', CInv, NEW t \in Turns, ArriveFree(t)
  PROVE  CInv'
<1> DEFINE w == Home[t]
<1>1. pc[t] = "idle" /\ w \in Workers
  BY ArrivesIdle DEF ArriveFree
<1>2. PICK x \in {"reserve", "held"} : pc' = [pc EXCEPT ![t] = x]
  BY DEF ArriveFree, Gate
<1>3. /\ permits' = [permits EXCEPT ![w] = @ - 1] /\ UNCHANGED <<queue, waiting>>
      /\ permits[w] # 0 /\ Queued(w) = {}
  BY DEF ArriveFree, Locked
<1>4. /\ x \notin Waiting /\ x \in Permit /\ pc[t] \notin Waiting /\ pc[t] \notin Permit
      /\ pc[t] # "queued"
  BY <1>1 DEF Waiting, Permit, Gating
<1>5. permits[w] \in Nat /\ waiting[w] \in Int /\ queue[w] \in Seq(Turns)
  BY <1>1 DEF IInv, TypeOK
<1>6. queue[w] = <<>>
  <2> SUFFICES ASSUME queue[w] # <<>> PROVE FALSE
    OBVIOUS
  <2>1. 1 \in 1..Len(queue[w]) /\ queue[w][1] \in Turns
    BY <1>5
  <2>2. queue[w][1] \in Queued(w)
    BY <1>1, <2>1 DEF IInv, InLine, LineOf, Queued, Of, At, Waiting
  <2> QED BY <1>3, <2>2
<1>7. Moves(t, x, {}) /\ Handed(w, {})
  BY <1>2, <1>3 DEF Moves, Handed, IInv, TypeOK
<1>8. permits'[w] = Due(t, x, {}) /\ permits'[w] \in Nat
  BY <1>1, <1>3, <1>4, <1>5 DEF Due, Bit, IInv, TypeOK
<1>9. Account(t, x, {})
  BY <1>1, <1>3, <1>4, <1>5, <1>7, <1>8 DEF Account, Bit, IInv, TypeOK
<1> QED BY <1>4, <1>6, <1>7, <1>9, MoveCounts

\* A turn that resumes, and may hand a second permit on.
LEMMA ResumeCounts ==
  ASSUME IInv, TypeOK', CInv, NEW t \in Turns, Resume(t)
  PROVE  CInv'
<1> DEFINE w == Home[t]
           q == queue[w]
<1>1. pc[t] = "granted" /\ w \in Workers /\ q \in Seq(Turns)
  BY HomeAssumption DEF Resume, IInv, TypeOK
<1>2. PICK x \in {"reserve", "held"} :
        LET p == [pc EXCEPT ![t] = x] IN
        IF permits[w] > 0 /\ q # <<>>
        THEN /\ permits' = [permits EXCEPT ![w] = @ - 1]
             /\ queue' = [queue EXCEPT ![w] = Tail(@)]
             /\ pc' = [p EXCEPT ![Head(q)] = "granted"]
        ELSE pc' = p /\ UNCHANGED <<permits, queue>>
  BY DEF Resume
<1>3. /\ x \notin Waiting /\ x \in Permit /\ pc[t] \in Waiting /\ pc[t] \in Permit
      /\ pc[t] # "queued"
  BY <1>1 DEF Waiting, Permit, Gating
<1>4. permits[w] \in Nat /\ waiting[w] \in Int
  BY <1>1 DEF IInv, TypeOK
<1>5. /\ waiting'[w] = waiting[w] + Bit(x, Waiting) - Bit(pc[t], Waiting)
      /\ \A v \in Workers \ {w} : waiting'[v] = waiting[v]
  BY <1>1, <1>3, <1>4 DEF Resume, Bit, IInv, TypeOK
<1>6. CASE permits[w] > 0 /\ q # <<>>
  <2> DEFINE h == Head(q)
             p == [pc EXCEPT ![t] = x]
  <2>1. /\ permits' = [permits EXCEPT ![w] = @ - 1]
        /\ queue' = [queue EXCEPT ![w] = Tail(@)]
        /\ pc' = [p EXCEPT ![h] = "granted"]
    BY <1>2, <1>6
  <2>2. h \in Turns /\ h # t
    BY <1>1, <1>6, HeadIsQueued
  <2>3. (\A u \in Turns \ {t} : p[u] = pc[u]) /\ p[t] = x /\ DOMAIN p = Turns
    BY DEF IInv, TypeOK
  <2>4. Handed(w, {h})
    BY <1>6, <2>1 DEF Handed
  <2> HIDE DEF h, p
  <2>5. Moves(t, x, {h}) /\ {h} # {}
    BY <2>1, <2>2, <2>3 DEF Moves
  <2>6. /\ permits'[w] = permits[w] - 1
        /\ \A v \in Workers \ {w} : permits'[v] = permits[v]
    BY <1>1, <2>1 DEF IInv, TypeOK
  <2>7. permits'[w] = Due(t, x, {h}) /\ permits'[w] \in Nat
    BY <1>3, <1>4, <1>6, <2>5, <2>6 DEF Due, Bit
  <2>8. Account(t, x, {h})
    BY <1>5, <2>5, <2>6, <2>7 DEF Account
  <2> QED BY <1>3, <2>4, <2>5, <2>8, MoveCounts
<1>7. CASE ~(permits[w] > 0 /\ q # <<>>)
  <2>1. pc' = [pc EXCEPT ![t] = x] /\ UNCHANGED <<permits, queue>>
    BY <1>2, <1>7
  <2>2. Moves(t, x, {}) /\ Handed(w, {})
    BY <2>1 DEF Moves, Handed, IInv, TypeOK
  <2>3. permits'[w] = Due(t, x, {}) /\ permits'[w] \in Nat
    BY <1>3, <1>4, <2>1 DEF Due, Bit
  <2>4. Account(t, x, {})
    BY <1>5, <2>1, <2>2, <2>3 DEF Account
  <2>5. q = <<>> \/ permits'[w] = 0
    BY <1>4, <1>7, <2>1
  <2> QED BY <1>3, <2>2, <2>4, <2>5, MoveCounts
<1> QED BY <1>6, <1>7

\* A turn that joins the line finds the permits taken, or somebody on the way to one.
LEMMA ArriveQueueCounts ==
  ASSUME IInv, TypeOK', CInv, NEW t \in Turns, ArriveQueue(t)
  PROVE  CInv'
<1> DEFINE w == Home[t]
           q == queue[w]
<1>1. pc[t] = "idle" /\ w \in Workers /\ q \in Seq(Turns) /\ permits[w] \in Nat /\ waiting[w] \in Int
  BY ArrivesIdle DEF ArriveQueue, IInv, TypeOK
<1>2. /\ Locked(w) /\ ~LineFull(w) /\ UNCHANGED permits
      /\ waiting' = [waiting EXCEPT ![w] = @ + 1]
      /\ queue' = [queue EXCEPT ![w] = Append(q, t)]
      /\ pc' = [pc EXCEPT ![t] = "queued"]
  BY DEF ArriveQueue
<1>3. /\ "queued" \in Waiting /\ "queued" \notin Permit
      /\ pc[t] \notin Waiting /\ pc[t] \notin Permit
  BY <1>1 DEF Waiting, Permit, Gating
<1>4. pc'[t] = "queued" /\ \A u \in Turns \ {t} : pc'[u] = pc[u]
  BY <1>2 DEF IInv, TypeOK
<1>5. Moves(t, "queued", {})
  BY <1>4 DEF Moves
<1>6. /\ waiting'[w] = waiting[w] + Bit("queued", Waiting) - Bit(pc[t], Waiting)
      /\ permits[w] = Due(t, "queued", {})
  BY <1>1, <1>2, <1>3 DEF Due, Bit, IInv, TypeOK
<1>7. Account(t, "queued", {})
  BY <1>1, <1>2, <1>5, <1>6 DEF Account, IInv, TypeOK
<1>8. PermitsAddUp' /\ WaitingExact'
  BY <1>2, <1>7, CountsKept DEF CInv
<1>9. /\ \A v \in Workers \ {w} : queue'[v] = queue[v]
      /\ queue'[w] = Append(q, t) /\ Len(queue'[w]) = Len(q) + 1
      /\ \A i \in 1..Len(q) : queue'[w][i] = q[i]
      /\ queue'[w][Len(q) + 1] = t
  <2>1. /\ Len(Append(q, t)) = Len(q) + 1 /\ Append(q, t)[Len(q) + 1] = t
        /\ \A i \in 1..Len(q) : Append(q, t)[i] = q[i]
    BY <1>1, AppendProperties
  <2> QED BY <1>1, <1>2, <2>1 DEF IInv, TypeOK
<1>10. AllInLine'
  <2> SUFFICES ASSUME NEW u \in Turns, pc'[u] = "queued"
               PROVE  \E i \in 1..Len(queue'[Home[u]]) : queue'[Home[u]][i] = u
    BY DEF AllInLine
  <2>0. Len(q) \in Nat
    BY <1>1
  <2>1. CASE u = t
    BY <2>0, <2>1, <1>9
  <2>2. CASE u # t
    <3>1. pc[u] = "queued" /\ Home[u] \in Workers
      BY <1>4, <2>2, HomeAssumption
    <3>2. PICK i \in 1..Len(queue[Home[u]]) : queue[Home[u]][i] = u
      BY <3>1 DEF CInv, AllInLine
    <3>3. CASE Home[u] = w
      <4>1. i \in 1..Len(q) /\ q[i] = u
        BY <3>2, <3>3
      <4>2. i \in 1..Len(queue'[w]) /\ queue'[w][i] = u
        BY <2>0, <4>1, <1>9
      <4> QED BY <3>3, <4>2
    <3>4. CASE Home[u] # w
      <4>1. queue'[Home[u]] = queue[Home[u]]
        BY <3>1, <3>4, <1>9
      <4> QED BY <3>2, <4>1
    <3> QED BY <3>3, <3>4
  <2> QED BY <2>1, <2>2
<1>11. NoLostWakeup'
  <2> SUFFICES ASSUME NEW v \in Workers, permits'[v] > 0, queue'[v] # <<>>
               PROVE  \E u \in Turns : Home[u] = v /\ pc'[u] = "granted"
    BY DEF NoLostWakeup, Of
  <2>1. \E u \in Turns : Home[u] = v /\ pc[u] = "granted"
    <3>1. CASE queue[v] # <<>>
      BY <3>1, <1>2 DEF CInv, NoLostWakeup, Of
    <3>2. CASE queue[v] = <<>>
      <4>1. v = w
        BY <3>2, <1>9
      <4>2. PICK u \in Turns : Home[u] = w /\ pc[u] \in Waiting
        BY <4>1, <1>1, <1>2 DEF Locked, Queued, Of, At
      <4>3. pc[u] # "queued"
        BY <3>2, <4>1, <4>2 DEF CInv, AllInLine
      <4> QED BY <4>1, <4>2, <4>3 DEF Waiting
    <3> QED BY <3>1, <3>2
  <2> QED BY <2>1, <1>1, <1>4
<1> QED BY <1>8, <1>10, <1>11 DEF CInv

\* A turn that leaves the line, with a permit on its way or without.
LEMMA LeaveLineCounts ==
  ASSUME IInv, TypeOK', CInv, NEW t \in Turns, NEW x \in {"refused", "cancelled"},
         LeaveLine(t, x)
  PROVE  CInv'
<1> DEFINE w == Home[t]
           q == queue[w]
<1>1. /\ w \in Workers /\ q \in Seq(Turns) /\ waiting[w] \in Int /\ permits[w] \in Nat
      /\ waiting' = [waiting EXCEPT ![w] = @ - 1]
  BY HomeAssumption DEF IInv, TypeOK, LeaveLine
<1>2. x \in Ended /\ x \notin Waiting /\ x \notin Permit
  BY DEF Ended, Waiting, Permit, Gating
<1>3. CASE pc[t] = "granted"
  <2>1. Freed(w, q, [pc EXCEPT ![t] = x])
    BY <1>3 DEF LeaveLine
  <2>2. pc[t] \in Permit /\ Bit(pc[t], Waiting) = 1
    BY <1>3 DEF Permit, Waiting, Bit
  <2> QED BY <1>1, <1>2, <2>1, <2>2, BackCounts
<1>4. CASE pc[t] = "queued"
  <2>1. PICK k \in 1..Len(q) : q[k] = t /\ queue' = [queue EXCEPT ![w] = RemoveAt(q, k)]
    BY <1>1, <1>4 DEF LeaveLine
  <2>2. pc' = [pc EXCEPT ![t] = x] /\ permits' = permits
    BY <1>4 DEF LeaveLine
  <2>3. pc'[t] = x /\ \A u \in Turns \ {t} : pc'[u] = pc[u]
    BY <2>2 DEF IInv, TypeOK
  <2>4. Moves(t, x, {})
    BY <2>3 DEF Moves
  <2>5. pc[t] \in Waiting /\ pc[t] \notin Permit
    BY <1>4 DEF Waiting, Permit, Gating
  <2>6. /\ waiting'[w] = waiting[w] + Bit(x, Waiting) - Bit(pc[t], Waiting)
        /\ permits[w] = Due(t, x, {})
    BY <1>1, <1>2, <2>5 DEF Due, Bit, IInv, TypeOK
  <2>7. Account(t, x, {})
    BY <1>1, <2>2, <2>4, <2>6 DEF Account, IInv, TypeOK
  <2>8. PermitsAddUp' /\ WaitingExact'
    BY <1>2, <2>7, CountsKept DEF CInv
  <2> DEFINE r == RemoveAt(q, k)
  <2>9. /\ Len(r) = Len(q) - 1
        /\ \A j \in 1..Len(q) - 1 : r[j] = q[IF j < k THEN j ELSE j + 1]
    BY <1>1, RemoveAtProperties
  <2>10. queue'[w] = r /\ \A v \in Workers \ {w} : queue'[v] = queue[v]
    BY <1>1, <2>1 DEF IInv, TypeOK
  <2> HIDE DEF r
  <2>11. AllInLine'
    <3> SUFFICES ASSUME NEW u \in Turns, pc'[u] = "queued"
                 PROVE  \E i \in 1..Len(queue'[Home[u]]) : queue'[Home[u]][i] = u
      BY DEF AllInLine
    <3>1. u # t /\ pc[u] = "queued" /\ Home[u] \in Workers
      BY <1>2, <2>3, HomeAssumption DEF Waiting
    <3>2. PICK i \in 1..Len(queue[Home[u]]) : queue[Home[u]][i] = u
      BY <3>1 DEF CInv, AllInLine
    <3>3. CASE Home[u] # w
      BY <3>1, <3>2, <3>3, <2>10
    <3>4. CASE Home[u] = w
      <4>1. i # k /\ i \in 1..Len(q) /\ q[i] = u /\ Len(q) \in Nat
        BY <1>1, <2>1, <3>1, <3>2, <3>4
      <4> DEFINE j == IF i < k THEN i ELSE i - 1
      <4>2. j \in 1..Len(q) - 1 /\ (IF j < k THEN j ELSE j + 1) = i
        BY <2>1, <4>1
      <4> HIDE DEF j
      <4>3. r[j] = u /\ j \in 1..Len(r)
        BY <2>9, <4>1, <4>2
      <4> QED BY <2>10, <3>4, <4>3
    <3> QED BY <3>3, <3>4
  <2>12. NoLostWakeup'
    <3> SUFFICES ASSUME NEW v \in Workers, permits'[v] > 0, queue'[v] # <<>>
                 PROVE  \E u \in Turns : Home[u] = v /\ pc'[u] = "granted"
      BY DEF NoLostWakeup, Of
    <3>1. queue[v] # <<>>
      <4>1. CASE v = w
        <5>1. k \in 1..Len(q) /\ q = queue[v]
          BY <2>1, <4>1
        <5> QED BY <1>1, <5>1
      <4>2. CASE v # w
        BY <2>10, <4>2
      <4> QED BY <4>1, <4>2
    <3>2. PICK u \in Turns : Home[u] = v /\ pc[u] = "granted"
      BY <3>1, <2>2 DEF CInv, NoLostWakeup, Of
    <3> QED BY <1>4, <2>3, <3>2
  <2> QED BY <2>8, <2>11, <2>12 DEF CInv
<1> QED BY <1>3, <1>4 DEF LeaveLine

\* A crashed worker starts again with every permit and an empty line.
LEMMA CrashCounts ==
  ASSUME IInv, TypeOK', CInv, NEW w \in Workers, Crash(w)
  PROVE  CInv'
<1>1. /\ pc' = [t \in Turns |-> IF Home[t] = w /\ pc[t] \notin Ended \cup {"idle"}
                                THEN "crashed" ELSE pc[t]]
      /\ queue' = [queue EXCEPT ![w] = <<>>]
      /\ permits' = [permits EXCEPT ![w] = Slots] /\ waiting' = [waiting EXCEPT ![w] = 0]
  BY DEF Crash
<1>2. /\ \A t \in Turns : Home[t] = w => pc'[t] \in Ended \cup {"idle"}
      /\ \A t \in Turns : Home[t] # w => pc'[t] = pc[t]
  BY <1>1 DEF Ended
<1>3. /\ queue'[w] = <<>> /\ permits'[w] = Slots /\ waiting'[w] = 0
      /\ \A v \in Workers \ {w} :
           queue'[v] = queue[v] /\ permits'[v] = permits[v] /\ waiting'[v] = waiting[v]
  BY <1>1 DEF IInv, TypeOK
<1>4. \A y \in Ended \cup {"idle"} : y \notin Waiting /\ y \notin Permit
  BY DEF Ended, Waiting, Permit, Gating
<1>5. Queued(w)' = {} /\ Permitted(w)' = {}
  BY <1>2, <1>4 DEF Queued, Permitted, Of, At, Permit
<1>6. \A v \in Workers \ {w} : Queued(v)' = Queued(v) /\ Permitted(v)' = Permitted(v)
  BY <1>2 DEF Queued, Permitted, Of, At
<1>7. Cardinality(Queued(w)') = 0 /\ Cardinality(Permitted(w)') = 0
  BY <1>5, FS_EmptySet
<1>8. PermitsAddUp'
  <2> SUFFICES ASSUME NEW v \in Workers
               PROVE  IF "cancel" \in Faults
                      THEN permits'[v] + Cardinality(Permitted(v)') <= Slots
                      ELSE permits'[v] + Cardinality(Permitted(v)') = Slots
    BY DEF PermitsAddUp
  <2>1. CASE v = w
    BY <2>1, <1>3, <1>7, SlotsAssumption
  <2>2. CASE v # w
    BY <2>2, <1>3, <1>6 DEF CInv, PermitsAddUp
  <2> QED BY <2>1, <2>2
<1>9. WaitingExact'
  <2> SUFFICES ASSUME NEW v \in Workers
               PROVE  /\ waiting'[v] = Cardinality(Queued(v)')
                      /\ MaxQueue > 0 => waiting'[v] <= MaxQueue
    BY DEF WaitingExact
  <2>1. CASE v = w
    BY <2>1, <1>3, <1>7, MaxQueueAssumption
  <2>2. CASE v # w
    BY <2>2, <1>3, <1>6 DEF CInv, WaitingExact
  <2> QED BY <2>1, <2>2
<1>10. AllInLine'
  <2> SUFFICES ASSUME NEW u \in Turns, pc'[u] = "queued"
               PROVE  \E i \in 1..Len(queue'[Home[u]]) : queue'[Home[u]][i] = u
    BY DEF AllInLine
  <2>1. Home[u] # w
    BY <1>2 DEF Ended
  <2> QED BY <2>1, <1>2, <1>3, HomeAssumption DEF CInv, AllInLine
<1>11. NoLostWakeup'
  <2> SUFFICES ASSUME NEW v \in Workers, permits'[v] > 0, queue'[v] # <<>>
               PROVE  \E u \in Turns : Home[u] = v /\ pc'[u] = "granted"
    BY DEF NoLostWakeup, Of
  <2>1. v # w
    BY <1>3
  <2>2. PICK u \in Turns : Home[u] = v /\ pc[u] = "granted"
    BY <2>1, <1>3 DEF CInv, NoLostWakeup, Of
  <2> QED BY <1>2, <2>1, <2>2
<1> QED BY <1>8, <1>9, <1>10, <1>11 DEF CInv

\* Every step of a turn keeps the counts.
LEMMA TurnCounts ==
  ASSUME IInv, CInv, NEW t \in Turns, Turn(t)
  PROVE  CInv'
<1>1. TypeOK'
  BY TurnIInv DEF IInv
<1>2. CASE UNCHANGED <<pc, queue, permits, waiting>>
  BY <1>2 DEF CInv, PermitsAddUp, WaitingExact, AllInLine, NoLostWakeup, Permitted, Queued,
              Of, At
<1>3. CASE NestedEnter(t) \/ NestedExit(t) \/ DeadlinePasses(t) \/ RowExpires(t)
  BY <1>2, <1>3 DEF NestedEnter, NestedExit, DeadlinePasses, RowExpires
<1>4. CASE ArriveFull(t)
  <2>1. pc[t] = "idle"
    BY <1>4, ArrivesIdle DEF ArriveFull
  <2>2. /\ pc' = [pc EXCEPT ![t] = "refused"] /\ UNCHANGED <<queue, permits, waiting>>
    BY <1>4 DEF ArriveFull
  <2>3. /\ pc[t] \notin Waiting /\ "refused" \notin Waiting
        /\ pc[t] \notin Permit /\ "refused" \notin Permit
    BY <2>1 DEF Waiting, Permit, Gating
  <2> QED BY <1>1, <2>2, <2>3, PlainCounts
<1>5. CASE Reserve(t)
  <2> DEFINE x == IF pc[t] = "reserve" THEN "answered" ELSE "cancelled"
  <2>1. /\ pc[t] \in {"reserve", "orphan"} /\ pc' = [pc EXCEPT ![t] = x]
        /\ UNCHANGED <<queue, permits, waiting>>
    BY <1>5 DEF Reserve
  <2>2. pc[t] \notin Waiting /\ x \notin Waiting /\ (pc[t] \in Permit <=> x \in Permit)
    BY <2>1 DEF Waiting, Permit, Gating
  <2> HIDE DEF x
  <2> QED BY <1>1, <2>1, <2>2, PlainCounts
<1>6. CASE Admit(t) \/ Sleep(t) \/ PollAgain(t) \/ (EndTurn(t) /\ answer[t] # "none")
  <2>1. PICK x \in {"held", "poll", "reserve", "release"} : pc' = [pc EXCEPT ![t] = x]
    BY <1>6 DEF Admit, Sleep, PollAgain, EndTurn
  <2>2. /\ pc[t] \in {"answered", "poll", "held"}
        /\ UNCHANGED <<queue, permits, waiting>>
    BY <1>6 DEF Admit, Sleep, PollAgain, EndTurn
  <2>3. pc[t] \notin Waiting /\ x \notin Waiting /\ pc[t] \in Permit /\ x \in Permit
    BY <2>1, <2>2 DEF Waiting, Permit, Gating
  <2> QED BY <1>1, <2>1, <2>2, <2>3, PlainCounts
<1>17. CASE Release(t)
  <2> DEFINE x == IF pc[t] = "release" THEN "released" ELSE "cancelled"
  <2>1. /\ pc[t] \in {"release", "parting"} /\ pc' = [pc EXCEPT ![t] = x]
        /\ UNCHANGED <<queue, permits, waiting>>
    BY <1>17 DEF Release
  <2>2. pc[t] \notin Waiting /\ x \notin Waiting /\ (pc[t] \in Permit <=> x \in Permit)
    BY <2>1 DEF Waiting, Permit, Gating
  <2> HIDE DEF x
  <2> QED BY <1>1, <2>1, <2>2, PlainCounts
<1>7. CASE Refuse(t) \/ ReleasePermit(t) \/ (EndTurn(t) /\ answer[t] = "none")
  <2>1. PICK x \in {"refused", "done"} :
          Freed(Home[t], queue[Home[t]], [pc EXCEPT ![t] = x])
    BY <1>7 DEF Refuse, ReleasePermit, EndTurn
  <2>2. pc[t] \in {"answered", "released", "held"} /\ waiting' = waiting
    BY <1>7 DEF Refuse, ReleasePermit, EndTurn
  <2>3. x \in Ended /\ pc[t] \in Permit /\ Bit(pc[t], Waiting) = 0
    BY <2>1, <2>2 DEF Ended, Permit, Gating, Waiting, Bit
  <2>4. waiting' = [waiting EXCEPT ![Home[t]] = @ - Bit(pc[t], Waiting)]
    BY <2>2, <2>3, HomeAssumption DEF IInv, TypeOK
  <2> QED BY <1>1, <2>1, <2>3, <2>4, BackCounts
<1>8. CASE Cancel(t) /\ pc[t] \in Gating \cup {"release"}
  <2> DEFINE x == Abandoned(pc[t])
  <2>1. /\ "cancel" \in Faults /\ pc' = [pc EXCEPT ![t] = x]
        /\ UNCHANGED <<queue, permits, waiting>>
    BY <1>8 DEF Cancel, Waiting, Gating
  <2>2. pc[t] \notin Waiting /\ x \notin Waiting /\ x \notin Permit
    BY <1>8 DEF Waiting, Permit, Gating, Abandoned
  <2> HIDE DEF x
  <2> QED BY <1>1, <2>1, <2>2, PlainCounts
<1>9. CASE LeaveLine(t, "refused") \/ LeaveLine(t, "cancelled")
  BY <1>1, <1>9, LeaveLineCounts
<1>10. CASE ArriveQueue(t) \/ ArriveFree(t) \/ Resume(t)
  BY <1>1, <1>10, ArriveQueueCounts, ArriveFreeCounts, ResumeCounts
<1>11. Cancel(t) => LeaveLine(t, "cancelled") \/ pc[t] \in Gating \cup {"release"}
  BY DEF Cancel
<1>12. QueueTimeout(t) => LeaveLine(t, "refused")
  BY DEF QueueTimeout
<1>13. CASE Arrive(t)
  BY <1>13, <1>4, <1>10 DEF Arrive
<1>14. CASE Progress(t)
  BY <1>14, <1>5, <1>6, <1>7, <1>9, <1>10, <1>12, <1>17 DEF Progress
<1>15. CASE Course(t)
  BY <1>15, <1>3, <1>6, <1>7 DEF Course
<1>16. CASE Cancel(t)
  BY <1>16, <1>8, <1>9, <1>11
<1> QED BY <1>3, <1>13, <1>14, <1>15, <1>16 DEF Turn

\* At the start every permit is free and nobody waits.
LEMMA InitCounts == Init => CInv
<1> SUFFICES ASSUME Init PROVE CInv
  OBVIOUS
<1>1. \A w \in Workers : Queued(w) = {} /\ Permitted(w) = {}
  BY DEF Init, Queued, Permitted, Of, At, Waiting, Gating
<1>2. \A w \in Workers : Cardinality(Queued(w)) = 0 /\ Cardinality(Permitted(w)) = 0
  BY <1>1, FS_EmptySet
<1>3. /\ \A w \in Workers : permits[w] = Slots /\ waiting[w] = 0 /\ queue[w] = <<>>
      /\ \A t \in Turns : pc[t] = "idle"
  BY DEF Init
<1>4. PermitsAddUp /\ WaitingExact
  BY <1>2, <1>3, SlotsAssumption, MaxQueueAssumption DEF PermitsAddUp, WaitingExact
<1>5. AllInLine /\ NoLostWakeup
  BY <1>3 DEF AllInLine, NoLostWakeup
<1> QED BY <1>4, <1>5 DEF CInv

\* Every step of the box keeps the counts.
LEMMA StepCounts == IInv /\ CInv /\ [Next]_vars => CInv'
<1> SUFFICES ASSUME IInv, CInv, [Next]_vars PROVE CInv'
  OBVIOUS
<1>1. CASE UNCHANGED vars
  BY <1>1 DEF vars, CInv, PermitsAddUp, WaitingExact, AllInLine, NoLostWakeup, Permitted,
              Queued, Of, At
<1>2. CASE Next
  <2>1. TypeOK'
    BY <1>2, StepIInv DEF IInv
  <2> QED BY <1>2, <2>1, TurnCounts, CrashCounts DEF Next
<1> QED BY <1>1, <1>2

\* The counts hold in every state, whatever faults occur.
THEOREM CountsHold == Spec => []CInv
BY InitCounts, StepCounts, Inductive, PTL DEF Spec

\* Each process keeps its own limit (admission.py:41-43): its permits and the turns that
\* hold one add up to the slots, and no path gives back a permit it does not have; only
\* a cancellation behind the semaphore loses one.
THEOREM PermitsAlwaysAddUp == Spec => []PermitsAddUp
<1>1. CInv => PermitsAddUp BY DEF CInv
<1> QED BY <1>1, CountsHold, PTL

\* The waiting counter is exact and within max_queue (admission.py:295-298), whichever
\* way a turn leaves the line, and after a crash.
THEOREM WaitingAlwaysExact == Spec => []WaitingExact
<1>1. CInv => WaitingExact BY DEF CInv
<1> QED BY <1>1, CountsHold, PTL

\* A free permit beside a line is on its way to somebody in it: no wakeup is lost to a
\* timeout, a cancellation or a release that found only resumed tasks.
THEOREM NoWakeupLost == Spec => []NoLostWakeup
<1>1. CInv => NoLostWakeup BY DEF CInv
<1> QED BY <1>1, CountsHold, PTL
=============================================================================
