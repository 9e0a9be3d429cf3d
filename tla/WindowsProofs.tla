--------------------------- MODULE WindowsProofs ---------------------------
(***************************************************************************)
(* What holds of the shared windows for any number of workers and turns,   *)
(* any limits and periods, and whatever of the shared files fails when.    *)
(***************************************************************************)
EXTENDS Windows, TLAPS, FiniteSetTheorems, FunctionTheorems

------------------------------------------------------------------------------
\* Types, with those TypeOK leaves to the other variables: a clock is never ahead of
\* now, and a turn in progress has a worker.
ClockSet == [last : Times, seen : Times]
StoreSet == [known : [Messages -> -1..(MaxNow + Ttl)], clock : ClockSet]
InTurn   == {"admitted", "filtered", "loaded", "reply"}

Sound(c) == c.last <= c.seen /\ c.seen <= now

Typed ==
  /\ now \in 0..MaxNow
  /\ pc \in [Turns -> {"idle", "over"} \cup InTurn]
  /\ at \in [Turns -> Workers \cup {"none"}]
  /\ past \in [Turns -> SUBSET Turns] /\ kept \in [Turns -> SUBSET Messages]
  /\ rates \subseteq Rows /\ tally \in [Workers -> SUBSET Rows]
  /\ state \in StoreSet /\ local \in [Workers -> StoreSet]
  /\ loaded \in [Turns -> ClockSet]
  /\ Sound(state.clock) /\ \A w \in Workers : Sound(local[w].clock)
  /\ \A t \in Turns : Sound(loaded[t])
  /\ admitted \in [Turns -> Times] /\ served \in [Turns -> Times]
  /\ since \in Times /\ since <= now /\ seen \in Times /\ seen <= now
  /\ blind \in BOOLEAN
  /\ \A t \in Turns : pc[t] \in InTurn => at[t] \in Workers

------------------------------------------------------------------------------
\* The limiter.

\* The window of a worker, or the one they share.
Shared     == "none"
WindowIds  == Workers \cup {Shared}
WindowOf(i) == IF i = Shared THEN rates ELSE tally[i]

\* Only a turn that was let in has been counted, at the time it was let in, and
\* whoever was let in recently is still counted somewhere.
CountedAdmitted ==
  /\ \A t \in Turns : /\ admitted[t] <= now
                      /\ pc[t] = "idle" => admitted[t] = Never
  /\ \A i \in WindowIds : \A r \in WindowOf(i) : admitted[r.turn] = r.ts
  /\ \A t \in Turns : admitted[t] # Never /\ admitted[t] > now - Window =>
       \E i \in WindowIds : [turn |-> t, ts |-> admitted[t]] \in WindowOf(i)

\* No window lets in more than the limit.
WindowsLimited == \A i \in WindowIds : Cardinality(Recent(WindowOf(i))) <= Limit

\* The windows that have counted for themselves, and the turns let in up to n.
Counting == {w \in Workers : tally[w] # {}}
Let(n) == {t \in Turns : admitted[t] \in (n - Window + 1)..n /\ admitted[t] # Never}
LimitKept ==
  \A n \in 0..now : Cardinality(Let(n)) <= Limit * (1 + Cardinality(Counting))

------------------------------------------------------------------------------
\* The ledger.

\* What a store knows was served, and expires Ttl after that; and unless the files failed
\* the shared store knows all that was served.
Truthful(S) ==
  \A m \in Messages : S.known[m] # Never =>
    served[m[1]] # Never /\ S.known[m] = served[m[1]] + Ttl
KnownIsServed ==
  /\ \A t \in Turns : /\ served[t] # Never => pc[t] = "over"
                      /\ pc[t] \in {"idle", "admitted"} => kept[t] = {}
  /\ Truthful(state) /\ \A w \in Workers : Truthful(local[w])
ServedIsKnown ==
  Isolated = {} => \A m \in Messages : m[1] \notin NoState /\ served[m[1]] # Never =>
                     state.known[m] = served[m[1]] + Ttl

------------------------------------------------------------------------------
\* The clock.

\* The child's stretch starts anew with the next reply.
StartsAnew == seen = Never \/ now - seen > Idle

\* Before the first reply no clock runs.  As long as no clock was read or written
\* without the shared state, the shared clock notes the last reply and is not ahead of
\* the stretch; nor is a clock that a turn has loaded, and one that looks
\* fresh is so because the stretch starts anew or has done so this instant.
ClockTrue ==
  /\ seen = Never => /\ state.clock = NoClock
                     /\ \A w \in Workers : local[w].clock = NoClock
  /\ ~blind => /\ state.clock.seen = seen /\ state.clock.last <= since
               /\ \A t \in Turns : pc[t] = "loaded" =>
                    /\ loaded[t].last <= since
                    /\ Fresh(loaded[t]) => StartsAnew \/ since = now

IInv == /\ Typed /\ CountedAdmitted /\ WindowsLimited /\ LimitKept
        /\ KnownIsServed /\ ServedIsKnown /\ ClockTrue /\ ReminderOnTime

------------------------------------------------------------------------------
\* Counting.

\* A set with at most L elements can be numbered by 1..L.
LEMMA Numbered ==
  ASSUME NEW S, IsFiniteSet(S), NEW L \in Nat, Cardinality(S) <= L
  PROVE  \E g \in [S -> 1..L] : \A a, b \in S : g[a] = g[b] => a = b
<1> DEFINE n == Cardinality(S)
<1>1. n \in Nat /\ n <= L /\ ExistsBijection(1..n, S)
  BY FS_CardinalityType
<1> HIDE DEF n
<1>2. PICK f : f \in Bijection(1..n, S)
  BY <1>1, Fun_ExistsBij
<1>3. \A a \in S : \E i \in 1..n : f[i] = a
  BY <1>2 DEF Bijection, Surjection
<1> DEFINE g == [a \in S |-> CHOOSE i \in 1..n : f[i] = a]
<1>4. \A a \in S : g[a] \in 1..n /\ f[g[a]] = a
  BY <1>3
<1>5. \A i \in 1..n : i \in 1..L
  BY <1>1
<1>6. g \in [S -> 1..L]
  BY <1>4, <1>5
<1>7. \A a, b \in S : g[a] = g[b] => a = b
  BY <1>4
<1> QED BY <1>6, <1>7

\* A set that falls into classes of at most L elements has at most L times as many
\* elements as there are classes.
LEMMA Classes ==
  ASSUME NEW A, NEW W, IsFiniteSet(W), NEW L \in Nat, NEW f \in [A -> W],
         \A w \in W : \E g \in [{a \in A : f[a] = w} -> 1..L] :
           \A a, b \in {x \in A : f[x] = w} : g[a] = g[b] => a = b
  PROVE  IsFiniteSet(A) /\ Cardinality(A) <= L * Cardinality(W)
<1> DEFINE Class(w) == {a \in A : f[a] = w}
           Numbers(w, g) == /\ g \in [Class(w) -> 1..L]
                            /\ \A a, b \in Class(w) : g[a] = g[b] => a = b
           G == [w \in W |-> CHOOSE g : Numbers(w, g)]
           h == [a \in A |-> <<f[a], G[f[a]][a]>>]
<1>1. \A w \in W : Numbers(w, G[w])
  <2> TAKE w \in W
  <2>1. \E g : Numbers(w, g)
    OBVIOUS
  <2> HIDE DEF Numbers
  <2> QED BY <2>1
<1>2. \A a \in A : /\ f[a] \in W /\ G[f[a]] \in [Class(f[a]) -> 1..L] /\ a \in Class(f[a])
  BY <1>1
<1> HIDE DEF G
<1>3. \A a \in A : f[a] \in W /\ G[f[a]][a] \in 1..L
  BY <1>2
<1>4. h \in [A -> W \X (1..L)]
  BY <1>3
<1>5. ASSUME NEW a \in A, NEW b \in A, h[a] = h[b]
      PROVE  a = b
  <2>1. f[a] = f[b] /\ G[f[a]][a] = G[f[a]][b]
    BY <1>5
  <2>2. a \in Class(f[a]) /\ b \in Class(f[a]) /\ f[a] \in W
    BY <2>1, <1>2
  <2> QED BY <1>1, <2>1, <2>2
<1> HIDE DEF h
<1>6. h \in Injection(A, W \X (1..L))
  BY <1>4, <1>5, Fun_IsInj
<1>7. /\ IsFiniteSet(1..L) /\ Cardinality(1..L) = L
      /\ IsFiniteSet(W \X (1..L))
      /\ Cardinality(W \X (1..L)) = Cardinality(W) * Cardinality(1..L)
  <2>1. IsFiniteSet(1..L) /\ Cardinality(1..L) = L
    BY FS_Interval
  <2> QED BY <2>1, FS_Product
<1>8. Cardinality(W) \in Nat
  BY FS_CardinalityType
<1>9. Cardinality(W) * L = L * Cardinality(W)
  BY <1>8
<1> QED BY <1>6, <1>7, <1>9, FS_Injection

\* Multiplication is monotone.
LEMMA TimesMonotone ==
  ASSUME NEW L \in Nat, NEW a \in Nat, NEW b \in Nat, a <= b
  PROVE  L * a <= L * b /\ L * a \in Nat
<1>1. PICK d \in Nat : b = a + d
  <2>1. b - a \in Nat /\ b = a + (b - a)
    OBVIOUS
  <2> QED BY <2>1
<1>2. L * b = L * a + L * d /\ L * a \in Nat /\ L * d \in Nat
  BY <1>1
<1> QED BY <1>2

\* Windows are finite.
LEMMA RowsFinite == \A S \in SUBSET Rows : IsFiniteSet(S)
<1> DEFINE f == [r \in Rows |-> <<r.turn, r.ts>>]
<1>1. IsFiniteSet(Turns) /\ IsFiniteSet(0..MaxNow)
  BY FS_Interval, BoundsAssumption DEF Turns
<1>2. IsFiniteSet(Turns \X (0..MaxNow))
  BY <1>1, FS_Product
<1>3. f \in [Rows -> Turns \X (0..MaxNow)]
  BY DEF Rows
<1>4. \A a, b \in Rows : f[a] = f[b] => a = b
  BY DEF Rows
<1> HIDE DEF f
<1>5. f \in Injection(Rows, Turns \X (0..MaxNow))
  BY <1>3, <1>4, Fun_IsInj
<1>6. IsFiniteSet(Rows)
  BY <1>2, <1>5, FS_Injection
<1> QED BY <1>6, FS_Subset

------------------------------------------------------------------------------
\* Types.

\* A window that has counted a turn is a window.
LEMMA CountedRows ==
  ASSUME now \in 0..MaxNow, NEW S \in SUBSET Rows, NEW t \in Turns
  PROVE  Recent(S) \in SUBSET Rows /\ Counted(S, t) \in SUBSET Rows
<1>1. [turn |-> t, ts |-> now] \in Rows
  BY DEF Rows
<1> QED BY <1>1 DEF Recent, Counted

\* What a store learns, and nothing else of it changes.
LEMMA LearnIs ==
  ASSUME now \in 0..MaxNow, NEW S \in StoreSet, NEW m \in Messages
  PROVE  /\ Learn(S, m) \in StoreSet
         /\ Learn(S, m).clock = S.clock
         /\ Learn(S, m).known[m] = now + Ttl
         /\ \A n \in Messages \ {m} : Learn(S, m).known[n] = S.known[n]
<1>1. now + Ttl \in -1..(MaxNow + Ttl)
  BY BoundsAssumption, TimesAssumption
<1>2. /\ Learn(S, m).known = [S.known EXCEPT ![m] = now + Ttl]
      /\ Learn(S, m) = [known |-> Learn(S, m).known, clock |-> S.clock]
  BY DEF Learn, StoreSet
<1>3. S.known \in [Messages -> -1..(MaxNow + Ttl)] /\ S.clock \in ClockSet
  BY DEF StoreSet
<1>4. Learn(S, m).known \in [Messages -> -1..(MaxNow + Ttl)]
  BY <1>1, <1>2, <1>3
<1> QED BY <1>2, <1>3, <1>4 DEF StoreSet

\* A clock that has advanced notes this instant.
LEMMA AdvanceIs ==
  ASSUME now \in 0..MaxNow, NEW c \in ClockSet, Sound(c)
  PROVE  /\ Advance(c) \in ClockSet /\ Sound(Advance(c))
         /\ Advance(c).seen = now
         /\ Advance(c).last = IF Fresh(c) \/ Due(c) THEN now ELSE c.last
BY BoundsAssumption DEF Advance, ClockSet, Sound, Times

\* The empty store.
LEMMA NothingIs ==
  /\ NoClock \in ClockSet /\ Nothing \in StoreSet /\ Nothing.clock = NoClock
  /\ \A m \in Messages : Nothing.known[m] = Never
BY BoundsAssumption, TimesAssumption DEF NoClock, Nothing, ClockSet, StoreSet, Times, Never

\* The answer of a window.
LEMMA AnswerTyped ==
  ASSUME Typed, NEW t \in Turns, NEW w \in Workers, NEW S, Answer(S, t, w)
  PROVE  /\ pc' \in [Turns -> {"idle", "over"} \cup InTurn]
         /\ at' \in [Turns -> Workers \cup {"none"}]
         /\ past' \in [Turns -> SUBSET Turns]
         /\ admitted' \in [Turns -> Times]
         /\ \A u \in Turns : pc'[u] \in InTurn => at'[u] \in Workers
<1>1. CASE Cardinality(Recent(S)) < Limit
  <2>1. /\ pc' = [pc EXCEPT ![t] = "admitted"] /\ at' = [at EXCEPT ![t] = w]
        /\ past' = [past EXCEPT ![t] = {s \in Turns : pc[s] = "over"}]
        /\ admitted' = [admitted EXCEPT ![t] = now]
    BY <1>1 DEF Answer, Goto
  <2>2. now \in Times
    BY BoundsAssumption DEF Typed, Times
  <2> QED BY <2>1, <2>2 DEF Typed, InTurn
<1>2. CASE ~(Cardinality(Recent(S)) < Limit)
  <2>1. pc' = [pc EXCEPT ![t] = "over"] /\ UNCHANGED <<at, past, admitted>>
    BY <1>2 DEF Answer, Goto, turn
  <2> QED BY <2>1 DEF Typed, InTurn
<1> QED BY <1>1, <1>2

\* Every step keeps the types.
LEMMA StepTyped == ASSUME Typed, Next PROVE Typed'
<1> USE DEF turn, limiter, memory, ghosts
<1>1. CASE Tick
  <2>1. now' = now + 1 /\ now' \in 0..MaxNow
    BY <1>1, BoundsAssumption DEF Tick, Typed
  <2>2. UNCHANGED <<pc, turn, kept, loaded, limiter, memory, ghosts>>
    BY <1>1 DEF Tick
  <2>3. \A c \in ClockSet : Sound(c) => Sound(c)'
    BY <2>1 DEF Sound, ClockSet, Times, Typed
  <2>4. /\ state.clock \in ClockSet /\ \A w \in Workers : local[w].clock \in ClockSet
        /\ \A t \in Turns : loaded[t] \in ClockSet
    BY DEF Typed, StoreSet
  <2>5. /\ Sound(state.clock)' /\ \A w \in Workers : Sound(local[w].clock)'
        /\ \A t \in Turns : Sound(loaded[t])'
    BY <2>2, <2>3, <2>4 DEF Typed, Sound
  <2>6. since <= now' /\ seen <= now'
    BY <2>1 DEF Typed, Times
  <2> QED BY <2>1, <2>2, <2>5, <2>6 DEF Typed
<1>2. ASSUME NEW t \in Turns, NEW w \in Workers, CheckShared(t, w)
      PROVE  Typed'
  <2>1. Counted(rates, t) \in SUBSET Rows
    BY CountedRows DEF Typed
  <2> QED BY <1>2, <2>1, AnswerTyped DEF CheckShared, Typed, Sound
<1>3. ASSUME NEW t \in Turns, NEW w \in Workers, CheckLocal(t, w)
      PROVE  Typed'
  <2>1. Counted(tally[w], t) \in SUBSET Rows
    BY CountedRows DEF Typed
  <2>2. tally' \in [Workers -> SUBSET Rows]
    BY <1>3, <2>1 DEF CheckLocal, Typed
  <2> QED BY <1>3, <2>2, AnswerTyped DEF CheckLocal, Typed, Sound
<1>4. ASSUME NEW t \in Turns, Filter(t)
      PROVE  Typed'
  <2>1. filter_history(t) \in SUBSET Messages
    BY DEF filter_history
  <2>2. kept' \in [Turns -> SUBSET Messages]
    BY <1>4, <2>1 DEF Filter, Typed
  <2>3. pc' = [pc EXCEPT ![t] = "filtered"] /\ pc[t] = "admitted"
    BY <1>4 DEF Filter, Goto
  <2> QED BY <1>4, <2>2, <2>3 DEF Filter, Typed, InTurn, Sound
<1>5. ASSUME NEW t \in Turns, Blocked(t)
      PROVE  Typed'
  BY <1>5 DEF Blocked, Leave, Goto, Typed, InTurn, Sound
<1>6. ASSUME NEW t \in Turns, Load(t)
      PROVE  Typed'
  <2>1. PICK c \in ClockSet : Sound(c) /\ loaded' = [loaded EXCEPT ![t] = c]
    <3>1. at[t] \in Workers
      BY <1>6 DEF Load, Typed, InTurn
    <3>2. /\ Copy(t) \in ClockSet /\ Sound(Copy(t))
          /\ state.clock \in ClockSet /\ Sound(state.clock)
      BY <3>1 DEF Typed, StoreSet, Copy
    <3> QED BY <1>6, <3>2 DEF Load
  <2>2. blind' \in BOOLEAN
    BY <1>6 DEF Load, Typed
  <2>3. pc' = [pc EXCEPT ![t] = "loaded"] /\ pc[t] = "filtered"
    BY <1>6 DEF Load, Goto
  <2>4. loaded' \in [Turns -> ClockSet] /\ \A u \in Turns : Sound(loaded'[u])
    BY <2>1 DEF Typed
  <2>5. UNCHANGED <<now, turn, kept, limiter, memory, served, since, seen>>
    BY <1>6 DEF Load
  <2>6. \A u \in Turns : Sound(loaded[u])'
    BY <2>4, <2>5 DEF Sound
  <2> QED BY <2>2, <2>3, <2>4, <2>5, <2>6 DEF Typed, InTurn, Sound
<1>7. ASSUME NEW t \in Turns, Save(t)
      PROVE  Typed'
  <2> DEFINE c == Advance(loaded[t])
  <2>1. c \in ClockSet /\ Sound(c)
    BY AdvanceIs DEF Typed
  <2>2. at[t] \in Workers /\ now \in Times
    BY <1>7, BoundsAssumption DEF Save, Typed, InTurn, Times
  <2>3. /\ local' = [local EXCEPT ![at[t]].clock = c]
        /\ state' = state \/ state' = [state EXCEPT !.clock = c]
        /\ blind' \in BOOLEAN /\ seen' = now /\ since' \in {now, since}
        /\ kept' = [kept EXCEPT ![t] = {}] /\ loaded' = [loaded EXCEPT ![t] = NoClock]
        /\ pc' = [pc EXCEPT ![t] = "reply"] /\ pc[t] = "loaded"
        /\ UNCHANGED <<now, turn, limiter, served>>
    BY <1>7 DEF Save, Goto, Typed
  <2>4. \A S \in StoreSet : /\ [S EXCEPT !.clock = c] \in StoreSet
                            /\ [S EXCEPT !.clock = c].clock = c
    BY <2>1 DEF StoreSet
  <2> HIDE DEF c
  <2>5. /\ state' \in StoreSet /\ Sound(state'.clock)
    BY <2>1, <2>3, <2>4 DEF Typed
  <2>6. \A w \in Workers : local'[w] \in StoreSet /\ Sound(local'[w].clock)
    <3> TAKE w \in Workers
    <3>1. local'[w] = IF w = at[t] THEN [local[w] EXCEPT !.clock = c] ELSE local[w]
      BY <2>2, <2>3 DEF Typed
    <3> QED BY <3>1, <2>1, <2>4 DEF Typed
  <2>7. local' \in [Workers -> StoreSet]
    <3>1. local' = [w \in Workers |-> local'[w]]
      BY <2>3 DEF Typed
    <3> QED BY <3>1, <2>6
  <2>8. loaded' \in [Turns -> ClockSet] /\ \A u \in Turns : Sound(loaded'[u])
    <3>1. NoClock \in ClockSet /\ Sound(NoClock)
      BY NothingIs DEF Sound, NoClock, Never, Typed
    <3> QED BY <2>3, <3>1 DEF Typed
  <2>9. /\ Sound(state.clock)' /\ \A w \in Workers : Sound(local[w].clock)'
        /\ \A u \in Turns : Sound(loaded[u])'
    BY <2>3, <2>5, <2>6, <2>8 DEF Sound
  <2>10. since' \in Times /\ since' <= now /\ seen' \in Times /\ seen' <= now
    BY <2>2, <2>3 DEF Typed
  <2>11. /\ pc' \in [Turns -> {"idle", "over"} \cup InTurn]
         /\ kept' \in [Turns -> SUBSET Messages]
         /\ \A u \in Turns : pc'[u] \in InTurn => at[u] \in Workers
    BY <2>2, <2>3 DEF Typed, InTurn
  <2> QED BY <2>3, <2>5, <2>7, <2>8, <2>9, <2>10, <2>11 DEF Typed
<1>8. ASSUME NEW t \in Turns, record_turn(t)
      PROVE  Typed'
  <2> DEFINE u == <<t, "user">>
             r == <<t, "reply">>
  <2>1. u \in Messages /\ r \in Messages /\ at[t] \in Workers
    BY <1>8 DEF Messages, record_turn, Typed, InTurn
  <2>2. now \in 0..MaxNow /\ now \in Times
    BY BoundsAssumption DEF Typed, Times
  <2> HIDE DEF u, r
  <2>3. \A S \in StoreSet :
          /\ Learn(S, u) \in StoreSet /\ Learn(S, u).clock = S.clock
          /\ Learn(Learn(S, u), r) \in StoreSet /\ Learn(Learn(S, u), r).clock = S.clock
    BY <2>1, <2>2, LearnIs
  <2>4. /\ \/ state' = state
           \/ state' \in {Learn(Learn(state, u), r), Learn(state, u)}
        /\ \/ local' = local
           \/ local' = [local EXCEPT ![at[t]] = Learn(Learn(@, u), r)]
    BY <1>8 DEF record_turn, u, r
  <2>5. state' \in StoreSet /\ state'.clock = state.clock
    BY <2>3, <2>4 DEF Typed
  <2>6. local' \in [Workers -> StoreSet] /\ \A w \in Workers : local'[w].clock = local[w].clock
    BY <2>1, <2>3, <2>4 DEF Typed
  <2>7. /\ pc' = [pc EXCEPT ![t] = "over"] /\ at' = [at EXCEPT ![t] = "none"]
        /\ past' = [past EXCEPT ![t] = {}] /\ served' = [served EXCEPT ![t] = now]
        /\ UNCHANGED <<now, kept, loaded, limiter, since, seen, blind>>
    BY <1>8 DEF record_turn, Leave, Goto
  <2> QED BY <2>2, <2>5, <2>6, <2>7 DEF Typed, InTurn, Sound
<1> QED BY <1>1, <1>2, <1>3, <1>4, <1>5, <1>6, <1>7, <1>8 DEF Next

------------------------------------------------------------------------------
\* The limiter.

Limiter == CountedAdmitted /\ WindowsLimited /\ LimitKept

\* A window is one of the shared table or of a worker.
LEMMA WindowsAre ==
  ASSUME Typed
  PROVE  /\ WindowOf(Shared) = rates
         /\ \A w \in Workers : WindowOf(w) = tally[w]
         /\ \A i \in WindowIds : WindowOf(i) \in SUBSET Rows
BY NoneAssumption DEF Typed, WindowOf, WindowIds, Shared

\* What a window is after a turn asked.
LEMMA CountedIs ==
  ASSUME now \in 0..MaxNow, NEW S \in SUBSET Rows, NEW t \in Turns,
         Cardinality(Recent(S)) <= Limit
  PROVE  /\ Recent(Counted(S, t)) = Counted(S, t)
         /\ Cardinality(Counted(S, t)) <= Limit
         /\ Counted(S, t) # {}
         /\ Recent(S) \subseteq Counted(S, t)
         /\ IF Cardinality(Recent(S)) < Limit
            THEN Counted(S, t) = Recent(S) \cup {[turn |-> t, ts |-> now]}
            ELSE Counted(S, t) = Recent(S)
<1> DEFINE R == Recent(S)
           row == [turn |-> t, ts |-> now]
<1>1. IsFiniteSet(R) /\ Cardinality(R) \in Nat /\ Limit \in Nat \ {0}
  <2>1. R \in SUBSET Rows
    BY DEF Recent
  <2> QED BY <2>1, RowsFinite, FS_CardinalityType, RatesAssumption
<1>2. \A r \in R \cup {row} : r.ts > now - Window
  BY RatesAssumption DEF Recent
<1>3. CASE Cardinality(R) < Limit
  <2>1. Counted(S, t) = R \cup {row}
    BY <1>3 DEF Counted
  <2>2. IsFiniteSet(R) /\ Cardinality(R) \in Nat /\ Cardinality(R) < Limit /\ Limit \in Nat
    BY <1>1, <1>3
  <2>3. Recent(R \cup {row}) = R \cup {row} /\ R \cup {row} # {} /\ R \subseteq R \cup {row}
    BY <1>2 DEF Recent
  <2> HIDE DEF R, row
  <2>4. Cardinality(R \cup {row}) <= Limit
    <3>1. CASE row \in R
      <4>1. R \cup {row} = R
        BY <3>1
      <4> QED BY <4>1, <2>2
    <3>2. CASE row \notin R
      <4>1. Cardinality(R \cup {row}) = Cardinality(R) + 1
        BY <3>2, <2>2, FS_AddElement
      <4> QED BY <4>1, <2>2
    <3> QED BY <3>1, <3>2
  <2>5. /\ Recent(Counted(S, t)) = Counted(S, t)
        /\ Cardinality(Counted(S, t)) <= Limit
        /\ Counted(S, t) # {} /\ R \subseteq Counted(S, t)
    BY <2>1, <2>3, <2>4
  <2> USE DEF R, row
  <2> QED BY <1>3, <2>1, <2>5
<1>4. CASE ~(Cardinality(R) < Limit)
  <2>1. Counted(S, t) = R
    BY <1>4 DEF Counted
  <2>2. R # {} /\ Cardinality(R) <= Limit
    BY <1>1, <1>4, FS_EmptySet
  <2>3. Recent(R) = R
    BY DEF Recent
  <2> QED BY <1>4, <2>1, <2>2, <2>3
<1> QED BY <1>3, <1>4

\* Turns and workers are finitely many.
LEMMA Finite ==
  /\ \A n : IsFiniteSet(Let(n)) /\ Cardinality(Let(n)) \in Nat
  /\ IsFiniteSet(Counting) /\ Cardinality(Counting) \in Nat
<1>1. IsFiniteSet(Turns)
  BY FS_Interval, BoundsAssumption DEF Turns
<1>2. \A n : Let(n) \subseteq Turns
  BY DEF Let
<1>3. Counting \subseteq Workers
  BY DEF Counting
<1> QED BY <1>1, <1>2, <1>3, WorkersAssumption, FS_Subset, FS_CardinalityType

\* The bound on the turns let in up to now: each was counted in the shared window or in
\* one of a worker that counts for itself, and each of these holds the limit at most.
LimitNow == Cardinality(Let(now)) <= Limit * (1 + Cardinality(Counting))
LEMMA LimitFollows == Typed /\ CountedAdmitted /\ WindowsLimited => LimitNow
<1> SUFFICES ASSUME Typed, CountedAdmitted, WindowsLimited PROVE LimitNow
  OBVIOUS
<1> DEFINE A == Let(now)
           W == {Shared} \cup Counting
           Row(t) == [turn |-> t, ts |-> admitted[t]]
           f == [t \in A |-> CHOOSE i \in W : Row(t) \in WindowOf(i)]
<1>1. IsFiniteSet(W) /\ Cardinality(W) = 1 + Cardinality(Counting)
  <2>1. Shared \notin Counting
    BY NoneAssumption DEF Shared, Counting
  <2>2. W = Counting \cup {Shared}
    OBVIOUS
  <2> HIDE DEF W
  <2>3. IsFiniteSet(W) /\ Cardinality(W) = Cardinality(Counting) + 1
    BY <2>1, <2>2, Finite, FS_AddElement
  <2> QED BY <2>3, Finite
<1>2. \A t \in A : /\ t \in Turns /\ admitted[t] # Never /\ admitted[t] > now - Window
                   /\ admitted[t] \in Times
  BY RatesAssumption, BoundsAssumption DEF Let, Typed, Times
<1>3. \A t \in A : \E i \in W : Row(t) \in WindowOf(i)
  <2> TAKE t \in A
  <2>1. PICK i \in WindowIds : Row(t) \in WindowOf(i)
    BY <1>2 DEF CountedAdmitted
  <2>2. i \in W
    BY <2>1, WindowsAre DEF Counting, WindowIds
  <2> QED BY <2>1, <2>2
<1>4. \A t \in A : f[t] \in W /\ Row(t) \in WindowOf(f[t])
  BY <1>3
<1>5. \A t \in A : Row(t) \in Recent(WindowOf(f[t]))
  BY <1>2, <1>4 DEF Recent
<1>6. f \in [A -> W]
  BY <1>4
<1> HIDE DEF f
<1>7. ASSUME NEW w \in W
      PROVE  \E g \in [{a \in A : f[a] = w} -> 1..Limit] :
               \A a, b \in {x \in A : f[x] = w} : g[a] = g[b] => a = b
  <2> DEFINE R == Recent(WindowOf(w))
             C == {a \in A : f[a] = w}
  <2>1. w \in WindowIds
    BY DEF Counting, WindowIds
  <2>2. IsFiniteSet(R) /\ Cardinality(R) <= Limit /\ Limit \in Nat
    <3>1. R \in SUBSET Rows
      BY <2>1, WindowsAre DEF Recent
    <3> QED BY <2>1, <3>1, RowsFinite, RatesAssumption DEF WindowsLimited
  <2>3. \A a \in C : Row(a) \in R
    BY <1>5
  <2> HIDE DEF R
  <2>4. PICK h \in [R -> 1..Limit] : \A a, b \in R : h[a] = h[b] => a = b
    BY <2>2, Numbered
  <2> DEFINE g == [a \in C |-> h[Row(a)]]
  <2>5. g \in [C -> 1..Limit]
    BY <2>3, <2>4
  <2>6. \A a, b \in C : g[a] = g[b] => a = b
    BY <2>3, <2>4
  <2> QED BY <2>5, <2>6
<1> HIDE DEF A, W
<1>8. Limit \in Nat
  BY RatesAssumption
<1>9. Cardinality(A) <= Limit * Cardinality(W)
  BY <1>1, <1>6, <1>7, <1>8, Classes
<1> QED BY <1>1, <1>9 DEF LimitNow, A
\* The same after a step.
LEMMA LimitFollowsNext == Typed' /\ CountedAdmitted' /\ WindowsLimited' => LimitNow'
BY LimitFollows, PTL

\* A step in which no turn asks the limiter.
LEMMA LimiterStays ==
  ASSUME Limiter, UNCHANGED <<now, limiter>>,
         \A t \in Turns : pc'[t] = "idle" => pc[t] = "idle"
  PROVE  Limiter'
<1> USE DEF limiter
<1>1. CountedAdmitted'
  BY DEF Limiter, CountedAdmitted, WindowOf
<1>2. WindowsLimited'
  BY DEF Limiter, WindowsLimited, WindowOf, Recent
<1>3. LimitKept'
  BY DEF Limiter, LimitKept, Let, Counting
<1> QED BY <1>1, <1>2, <1>3 DEF Limiter

\* Time passes: windows move on, and nobody is let in by that.
LEMMA LimiterTicks ==
  ASSUME Typed, Limiter, Tick
  PROVE  Limiter'
<1>1. now' = now + 1 /\ now \in 0..MaxNow /\ UNCHANGED <<pc, rates, tally, admitted>>
  BY DEF Tick, limiter, Typed
<1>2. \A i \in WindowIds : WindowOf(i)' = WindowOf(i) /\ WindowOf(i) \in SUBSET Rows
  BY <1>1, WindowsAre DEF WindowOf
<1>3. CountedAdmitted'
  <2>1. \A t \in Turns : admitted[t] \in -1..MaxNow
    BY DEF Typed, Times
  <2>2. \A t \in Turns : /\ admitted[t] <= now => admitted[t] <= now'
                         /\ admitted[t] > now' - Window => admitted[t] > now - Window
    BY <1>1, <2>1, RatesAssumption, BoundsAssumption
  <2> QED BY <1>1, <1>2, <2>2 DEF Limiter, CountedAdmitted
<1>4. WindowsLimited'
  <2> SUFFICES ASSUME NEW i \in WindowIds
               PROVE  Cardinality(Recent(WindowOf(i)))' <= Limit
    BY DEF WindowsLimited
  <2> DEFINE R == Recent(WindowOf(i))
             Q == {r \in WindowOf(i) : r.ts > now + 1 - Window}
  <2>1. Recent(WindowOf(i))' = Q
    <3>1. now' - Window = now + 1 - Window
      BY <1>1, RatesAssumption
    <3>2. WindowOf(i)' = WindowOf(i)
      BY <1>2
    <3> QED BY <3>1, <3>2 DEF Recent
  <2>2. Q \subseteq R
    <3>1. \A r \in WindowOf(i) : r.ts \in 0..MaxNow
      BY <1>2 DEF Rows
    <3> QED BY <3>1, <1>1, RatesAssumption, BoundsAssumption DEF Recent
  <2>3. R \in SUBSET Rows /\ Cardinality(R) <= Limit
    BY <1>2 DEF Recent, Limiter, WindowsLimited
  <2> HIDE DEF Q, R
  <2>4. /\ Cardinality(Q) <= Cardinality(R)
        /\ Cardinality(Q) \in Nat /\ Cardinality(R) \in Nat
    BY <2>2, <2>3, RowsFinite, FS_Subset, FS_CardinalityType
  <2>5. Cardinality(Q) <= Limit
    BY <2>3, <2>4, RatesAssumption
  <2> QED BY <2>1, <2>5
<1>5. LimitKept'
  <2>1. \A n : Let(n)' = Let(n)
    BY <1>1 DEF Let
  <2>2. Counting' = Counting
    BY <1>1 DEF Counting
  <2>3. \A n \in 0..now : Cardinality(Let(n)) <= Limit * (1 + Cardinality(Counting))
    BY DEF Limiter, LimitKept
  <2>4. LimitNow'
    <3>1. Typed'
      BY StepTyped DEF Next
    <3> QED BY <3>1, <1>3, <1>4, LimitFollowsNext
  <2>5. Cardinality(Let(now')) <= Limit * (1 + Cardinality(Counting))
    BY <1>1, <2>2, <2>4 DEF LimitNow, Let
  <2>6. \A n \in 0..now' : n \in 0..now \/ n = now'
    BY <1>1
  <2> QED BY <2>1, <2>2, <2>3, <2>5, <2>6 DEF LimitKept
<1> QED BY <1>3, <1>4, <1>5 DEF Limiter

\* A turn asks window i, and the other windows stay.
LEMMA LimiterAsked ==
  ASSUME Typed, Limiter, Typed', NEW t \in Turns, NEW w \in Workers, NEW i \in WindowIds,
         Arrives(t), Answer(WindowOf(i), t, w), now' = now,
         WindowOf(i)' = Counted(WindowOf(i), t),
         \A j \in WindowIds \ {i} : WindowOf(j)' = WindowOf(j)
  PROVE  Limiter'
<1> DEFINE S == WindowOf(i)
           row == [turn |-> t, ts |-> now]
<1>1. /\ now \in 0..MaxNow /\ S \in SUBSET Rows /\ Cardinality(Recent(S)) <= Limit
      /\ pc[t] = "idle" /\ admitted[t] = Never
  BY WindowsAre DEF Typed, Limiter, WindowsLimited, CountedAdmitted, Arrives
<1>2. /\ Recent(Counted(S, t)) = Counted(S, t)
      /\ Cardinality(Counted(S, t)) <= Limit
      /\ Counted(S, t) # {}
      /\ Recent(S) \subseteq Counted(S, t)
      /\ IF Cardinality(Recent(S)) < Limit
         THEN Counted(S, t) = Recent(S) \cup {row}
         ELSE Counted(S, t) = Recent(S)
  BY <1>1, CountedIs
<1>3. /\ \A u \in Turns \ {t} : admitted'[u] = admitted[u] /\ pc'[u] = pc[u]
      /\ pc'[t] # "idle"
      /\ IF Cardinality(Recent(S)) < Limit THEN admitted'[t] = now ELSE admitted'[t] = Never
  <2>1. pc \in [Turns -> {"idle", "over"} \cup InTurn] /\ admitted \in [Turns -> Times]
    BY DEF Typed
  <2> QED BY <1>1, <2>1 DEF Answer, Goto
<1>4. \A j \in WindowIds : \A r \in WindowOf(j) : r.turn # t /\ r.turn \in Turns
  <2> TAKE j \in WindowIds
  <2> TAKE r \in WindowOf(j)
  <2>1. r \in Rows /\ admitted[r.turn] = r.ts
    BY WindowsAre DEF Limiter, CountedAdmitted
  <2>2. r.turn \in Turns /\ r.ts # Never
    BY <2>1 DEF Rows, Never
  <2> QED BY <1>1, <2>1, <2>2
<1>5. \A j \in WindowIds : WindowOf(j)' = IF j = i THEN Counted(S, t) ELSE WindowOf(j)
  OBVIOUS
<1>6. Recent(S) \subseteq S
  BY DEF Recent
<1>7. CountedAdmitted'
  <2>1. ASSUME NEW u \in Turns
        PROVE  admitted'[u] <= now /\ (pc'[u] = "idle" => admitted'[u] = Never)
    BY <1>1, <1>3 DEF Limiter, CountedAdmitted, Never
  <2>2. ASSUME NEW j \in WindowIds, NEW r \in WindowOf(j)'
        PROVE  admitted'[r.turn] = r.ts
    <3>1. CASE r \in WindowOf(j)
      BY <3>1, <1>3, <1>4 DEF Limiter, CountedAdmitted
    <3>2. CASE r \notin WindowOf(j)
      <4>1. r = row /\ Cardinality(Recent(S)) < Limit
        BY <3>2, <2>2, <1>2, <1>5, <1>6
      <4> QED BY <4>1, <1>3
    <3> QED BY <3>1, <3>2
  <2>3. ASSUME NEW u \in Turns, admitted'[u] # Never, admitted'[u] > now - Window
        PROVE  \E j \in WindowIds : [turn |-> u, ts |-> admitted'[u]] \in WindowOf(j)'
    <3>1. CASE u = t
      BY <3>1, <2>3, <1>2, <1>3, <1>5
    <3>2. CASE u # t
      <4>1. PICK j \in WindowIds : [turn |-> u, ts |-> admitted[u]] \in WindowOf(j)
        BY <2>3, <3>2, <1>3 DEF Limiter, CountedAdmitted
      <4>2. [turn |-> u, ts |-> admitted[u]] \in Recent(WindowOf(j))
        BY <2>3, <3>2, <1>3, <4>1 DEF Recent
      <4>3. [turn |-> u, ts |-> admitted[u]] \in WindowOf(j)'
        BY <4>1, <4>2, <1>2, <1>5
      <4> QED BY <4>3, <3>2, <1>3
    <3> QED BY <3>1, <3>2
  <2> QED BY <2>1, <2>2, <2>3 DEF CountedAdmitted
<1>8. WindowsLimited'
  <2> SUFFICES ASSUME NEW j \in WindowIds
               PROVE  Cardinality(Recent(WindowOf(j)))' <= Limit
    BY DEF WindowsLimited
  <2>1. Recent(WindowOf(j))' = IF j = i THEN Counted(S, t) ELSE Recent(WindowOf(j))
    <3>1. Recent(WindowOf(j))' = {r \in WindowOf(j)' : r.ts > now - Window}
      BY DEF Recent
    <3>2. {r \in Counted(S, t) : r.ts > now - Window} = Counted(S, t)
      BY <1>2 DEF Recent
    <3> HIDE DEF S
    <3> QED BY <3>1, <3>2, <1>5 DEF Recent
  <2> QED BY <2>1, <1>2 DEF Limiter, WindowsLimited
<1>9. LimitKept'
  <2>1. LimitNow'
    BY <1>7, <1>8, LimitFollowsNext
  <2>2. Counting \subseteq Counting'
    <3> SUFFICES ASSUME NEW v \in Workers, tally[v] # {} PROVE tally'[v] # {}
      BY DEF Counting
    <3>1. v \in WindowIds /\ WindowOf(v) = tally[v] /\ WindowOf(v)' = tally'[v]
      BY NoneAssumption DEF WindowIds, WindowOf, Shared
    <3> QED BY <3>1, <1>2, <1>5
  <2>3. /\ IsFiniteSet(Counting') /\ Cardinality(Counting) <= Cardinality(Counting')
        /\ Cardinality(Counting) \in Nat /\ Cardinality(Counting') \in Nat
    <3>1. Counting' \subseteq Workers
      BY DEF Counting
    <3> HIDE DEF Counting
    <3>2. IsFiniteSet(Counting') /\ IsFiniteSet(Counting)
      BY <3>1, WorkersAssumption, Finite, FS_Subset
    <3> QED BY <2>2, <3>2, FS_Subset, FS_CardinalityType
  <2>4. /\ Limit * (1 + Cardinality(Counting)) <= Limit * (1 + Cardinality(Counting'))
        /\ Limit * (1 + Cardinality(Counting)) \in Nat
        /\ Limit * (1 + Cardinality(Counting')) \in Nat
    <3> DEFINE a == 1 + Cardinality(Counting)
               b == 1 + Cardinality(Counting')
    <3>1. a \in Nat /\ b \in Nat /\ a <= b /\ b <= b /\ Limit \in Nat
      BY <2>3, RatesAssumption
    <3> HIDE DEF a, b
    <3>2. Limit * a <= Limit * b /\ Limit * a \in Nat /\ Limit * b \in Nat
      BY <3>1, TimesMonotone
    <3> QED BY <3>2 DEF a, b
  <2>5. ASSUME NEW n \in 0..now, n # now
        PROVE  Let(n)' = Let(n)
    <3>1. \A u \in Turns : admitted'[u] \in (n - Window + 1)..n /\ admitted'[u] # Never
            <=> admitted[u] \in (n - Window + 1)..n /\ admitted[u] # Never
      <4> TAKE u \in Turns
      <4>1. CASE u = t
        <5>1. now \notin (n - Window + 1)..n
          BY <2>5, <1>1
        <5> QED BY <4>1, <5>1, <1>1, <1>3
      <4>2. CASE u # t
        BY <4>2, <1>3
      <4> QED BY <4>1, <4>2
    <3> QED BY <3>1 DEF Let
  <2>6. ASSUME NEW n \in 0..now
        PROVE  Cardinality(Let(n)') <= Limit * (1 + Cardinality(Counting'))
    <3>1. CASE n = now
      <4>1. Let(n)' = Let(now)'
        BY <3>1 DEF Let
      <4> QED BY <4>1, <2>1 DEF LimitNow
    <3>2. CASE n # now
      <4>1. Cardinality(Let(n)) <= Limit * (1 + Cardinality(Counting))
        BY DEF Limiter, LimitKept
      <4>2. Cardinality(Let(n)) \in Nat
        BY Finite
      <4>3. Let(n)' = Let(n)
        BY <2>5, <3>2
      <4> QED BY <4>1, <4>2, <4>3, <2>4
    <3> QED BY <3>1, <3>2
  <2> QED BY <2>6 DEF LimitKept
<1> QED BY <1>7, <1>8, <1>9 DEF Limiter

\* Every step keeps what the limiter promises.
LEMMA StepLimiter == ASSUME Typed, Limiter, Next PROVE Limiter'
<1>0. Typed'
  BY StepTyped
<1>1. CASE Tick
  BY <1>1, LimiterTicks
<1>2. ASSUME NEW t \in Turns, NEW w \in Workers, CheckShared(t, w)
      PROVE  Limiter'
  <2>1. /\ Arrives(t) /\ Answer(rates, t, w) /\ rates' = Counted(rates, t)
        /\ now' = now /\ tally' = tally
    BY <1>2 DEF CheckShared
  <2>2. Shared \in WindowIds /\ WindowOf(Shared) = rates /\ WindowOf(Shared)' = rates'
    BY DEF WindowIds, WindowOf
  <2>3. \A j \in WindowIds \ {Shared} : WindowOf(j)' = WindowOf(j)
    BY <2>1 DEF WindowOf
  <2> QED BY <1>0, <2>1, <2>2, <2>3, LimiterAsked
<1>3. ASSUME NEW t \in Turns, NEW w \in Workers, CheckLocal(t, w)
      PROVE  Limiter'
  <2>1. /\ Arrives(t) /\ Answer(tally[w], t, w) /\ now' = now /\ rates' = rates
        /\ tally' = [tally EXCEPT ![w] = Counted(tally[w], t)]
    BY <1>3 DEF CheckLocal
  <2>2. w \in WindowIds /\ WindowOf(w) = tally[w] /\ WindowOf(w)' = tally'[w]
    BY NoneAssumption DEF WindowIds, WindowOf, Shared
  <2>3. \A j \in WindowIds \ {w} : WindowOf(j)' = WindowOf(j)
    BY <2>1 DEF WindowIds, WindowOf, Typed
  <2>4. tally'[w] = Counted(tally[w], t)
    BY <2>1 DEF Typed
  <2> QED BY <1>0, <2>1, <2>2, <2>3, <2>4, LimiterAsked
<1>4. ASSUME NEW t \in Turns,
             Filter(t) \/ Blocked(t) \/ Load(t) \/ Save(t) \/ record_turn(t)
      PROVE  Limiter'
  <2>1. UNCHANGED <<now, limiter>>
    BY <1>4 DEF Filter, Blocked, Load, Save, record_turn
  <2>2. \E x \in {"over"} \cup InTurn : pc' = [pc EXCEPT ![t] = x]
    BY <1>4 DEF Filter, Blocked, Load, Save, record_turn, Leave, Goto, InTurn
  <2>3. \A u \in Turns : pc'[u] = "idle" => pc[u] = "idle"
    BY <2>2 DEF Typed, InTurn
  <2> QED BY <2>1, <2>3, LimiterStays
<1> QED BY <1>1, <1>2, <1>3, <1>4 DEF Next

------------------------------------------------------------------------------
\* The ledger.

Ledger == KnownIsServed /\ ServedIsKnown

\* A step in which nothing is delivered and nothing remembered.
LEMMA LedgerStays ==
  ASSUME Ledger, served' = served, state'.known = state.known,
         \A w \in Workers : local'[w].known = local[w].known,
         \A t \in Turns : /\ pc[t] = "over" => pc'[t] = "over"
                          /\ pc'[t] \in {"idle", "admitted"} => kept'[t] = {}
  PROVE  Ledger'
BY DEF Ledger, KnownIsServed, ServedIsKnown, Truthful

\* What a store becomes when turn t is recorded: it learns all of it, a part or nothing.
All(S, t)   == Learn(Learn(S, <<t, "user">>), <<t, "reply">>)
Parts(S, t) == {S, Learn(S, <<t, "user">>), All(S, t)}

\* Whatever is recorded of a turn just delivered is true, and the rest is as it was.
LEMMA RecordTruthful ==
  ASSUME Typed, NEW t \in Turns, served[t] = Never, served' = [served EXCEPT ![t] = now],
         NEW S \in StoreSet, Truthful(S),
         NEW R \in Parts(S, t)
  PROVE  /\ \A m \in Messages : R.known[m] # Never =>
              served'[m[1]] # Never /\ R.known[m] = served'[m[1]] + Ttl
         /\ \A m \in Messages : m[1] # t => R.known[m] = S.known[m]
<1> DEFINE u == <<t, "user">>
           r == <<t, "reply">>
<1>1. u \in Messages /\ r \in Messages /\ u # r /\ u[1] = t /\ r[1] = t
  BY DEF Messages
<1>2. \A m \in Messages : m[1] \in Turns
  BY DEF Messages
<1>3. now \in 0..MaxNow /\ now # Never
  BY DEF Typed, Never
<1>4. served'[t] = now /\ \A v \in Turns \ {t} : served'[v] = served[v]
  BY DEF Typed
<1> HIDE DEF u, r
<1>5. \A m \in Messages : \/ R.known[m] = S.known[m]
                          \/ m \in {u, r} /\ R.known[m] = now + Ttl
  <2>1. R \in {S, Learn(S, u), Learn(Learn(S, u), r)}
    BY DEF u, r, Parts, All
  <2>2. /\ Learn(S, u) \in StoreSet /\ Learn(S, u).known[u] = now + Ttl
        /\ \A m \in Messages \ {u} : Learn(S, u).known[m] = S.known[m]
    BY <1>1, <1>3, LearnIs
  <2> DEFINE Q == Learn(S, u)
  <2> HIDE DEF Q
  <2>3. /\ Learn(Q, r).known[r] = now + Ttl
        /\ \A m \in Messages \ {r} : Learn(Q, r).known[m] = Q.known[m]
    BY <1>1, <1>3, <2>2, LearnIs DEF Q
  <2> QED BY <2>1, <2>2, <2>3 DEF Q
<1>6. \A m \in Messages : R.known[m] # Never =>
              served'[m[1]] # Never /\ R.known[m] = served'[m[1]] + Ttl
  <2> SUFFICES ASSUME NEW m \in Messages, R.known[m] # Never
               PROVE  served'[m[1]] # Never /\ R.known[m] = served'[m[1]] + Ttl
    OBVIOUS
  <2>1. CASE R.known[m] = S.known[m]
    BY <2>1, <1>2, <1>4 DEF Truthful
  <2>2. CASE m \in {u, r} /\ R.known[m] = now + Ttl
    BY <2>2, <1>1, <1>3, <1>4
  <2> QED BY <2>1, <2>2, <1>5
<1> QED BY <1>1, <1>5, <1>6

\* Every step keeps what the ledger promises.
LEMMA StepLedger == ASSUME Typed, Ledger, Next PROVE Ledger'
<1>1. CASE Tick
  BY <1>1, LedgerStays DEF Tick, memory, ghosts, Ledger, KnownIsServed
<1>2. ASSUME NEW t \in Turns, NEW w \in Workers, CheckShared(t, w) \/ CheckLocal(t, w)
      PROVE  Ledger'
  <2>1. /\ pc[t] = "idle" /\ UNCHANGED <<kept, memory, ghosts>>
        /\ \E x \in {"over", "admitted"} : pc' = [pc EXCEPT ![t] = x]
    BY <1>2 DEF CheckShared, CheckLocal, Arrives, Answer, Goto
  <2>2. \A u \in Turns : /\ pc[u] = "over" => pc'[u] = "over"
                         /\ pc'[u] \in {"idle", "admitted"} => kept[u] = {}
    BY <2>1 DEF Typed, Ledger, KnownIsServed
  <2> QED BY <2>1, <2>2, LedgerStays DEF memory, ghosts
<1>3. ASSUME NEW t \in Turns, Filter(t) \/ Blocked(t) \/ Load(t)
      PROVE  Ledger'
  <2>1. /\ pc[t] \in {"admitted", "filtered"} /\ UNCHANGED <<memory, served>>
        /\ \E x \in {"over", "filtered", "loaded"} : pc' = [pc EXCEPT ![t] = x]
        /\ \/ kept' = kept
           \/ \E k : kept' = [kept EXCEPT ![t] = k]
    BY <1>3 DEF Filter, Blocked, Load, Leave, Goto, ghosts
  <2>2. \A u \in Turns : /\ pc[u] = "over" => pc'[u] = "over"
                         /\ pc'[u] \in {"idle", "admitted"} => kept'[u] = {}
    BY <2>1 DEF Typed, Ledger, KnownIsServed
  <2> QED BY <2>1, <2>2, LedgerStays DEF memory
<1>4. ASSUME NEW t \in Turns, Save(t)
      PROVE  Ledger'
  <2>1. /\ pc[t] = "loaded" /\ pc' = [pc EXCEPT ![t] = "reply"] /\ served' = served
        /\ kept' = [kept EXCEPT ![t] = {}] /\ at[t] \in Workers
    BY <1>4 DEF Save, Goto, Typed, InTurn
  <2>2. \A u \in Turns : /\ pc[u] = "over" => pc'[u] = "over"
                         /\ pc'[u] \in {"idle", "admitted"} => kept'[u] = {}
    BY <2>1 DEF Typed, Ledger, KnownIsServed
  <2> DEFINE c == Advance(loaded[t])
  <2>3. /\ state' = state \/ state' = [state EXCEPT !.clock = c]
        /\ local' = [local EXCEPT ![at[t]].clock = c]
    BY <1>4 DEF Save
  <2> HIDE DEF c
  <2>4. \A S \in StoreSet : [S EXCEPT !.clock = c].known = S.known
    BY DEF StoreSet
  <2>5. state'.known = state.known /\ \A w \in Workers : local'[w].known = local[w].known
    <3>1. \A w \in Workers :
            local'[w] = IF w = at[t] THEN [local[w] EXCEPT !.clock = c] ELSE local[w]
      BY <2>1, <2>3 DEF Typed
    <3>2. state \in StoreSet /\ \A w \in Workers : local[w] \in StoreSet
      BY DEF Typed
    <3> QED BY <2>3, <2>4, <3>1, <3>2
  <2> QED BY <2>1, <2>2, <2>5, LedgerStays
<1>5. ASSUME NEW t \in Turns, record_turn(t)
      PROVE  Ledger'
  <2>1. /\ pc[t] = "reply" /\ pc' = [pc EXCEPT ![t] = "over"] /\ kept' = kept
        /\ served' = [served EXCEPT ![t] = now] /\ at[t] \in Workers /\ served[t] = Never
    BY <1>5 DEF record_turn, Leave, Goto, Typed, InTurn, Ledger, KnownIsServed
  <2>2. /\ state' \in Parts(state, t)
        /\ \A w \in Workers : local'[w] \in Parts(local[w], t)
        /\ Isolated = {} /\ t \notin NoState => state' = All(state, t)
    BY <1>5 DEF record_turn, Typed, Parts, All
  <2>3. ASSUME NEW S \in StoreSet, Truthful(S), NEW R \in Parts(S, t)
        PROVE  /\ \A m \in Messages : R.known[m] # Never =>
                    served'[m[1]] # Never /\ R.known[m] = served'[m[1]] + Ttl
               /\ \A m \in Messages : m[1] # t => R.known[m] = S.known[m]
    BY <2>1, <2>3, RecordTruthful
  <2>4. Truthful(state)' /\ \A w \in Workers : Truthful(local[w])'
    <3>1. /\ state \in StoreSet /\ Truthful(state)
          /\ \A w \in Workers : local[w] \in StoreSet /\ Truthful(local[w])
      BY DEF Typed, Ledger, KnownIsServed
    <3>2. Truthful(state)'
      BY <2>2, <2>3, <3>1 DEF Truthful
    <3>3. ASSUME NEW w \in Workers
          PROVE  Truthful(local[w])'
      BY <2>2, <2>3, <3>1 DEF Truthful
    <3> QED BY <3>2, <3>3
  <2>5. \A u \in Turns : /\ served'[u] # Never => pc'[u] = "over"
                         /\ pc'[u] \in {"idle", "admitted"} => kept'[u] = {}
    BY <2>1 DEF Typed, Ledger, KnownIsServed
  <2>6. ASSUME Isolated = {}, NEW m \in Messages, m[1] \notin NoState, served'[m[1]] # Never
        PROVE  state'.known[m] = served'[m[1]] + Ttl
    <3>1. m[1] \in Turns
      BY DEF Messages
    <3>2. CASE m[1] = t
      <4> DEFINE S == Learn(state, <<t, "user">>)
      <4>0. <<t, "user">> \in Messages /\ <<t, "reply">> \in Messages
            /\ m \in {<<t, "user">>, <<t, "reply">>}
        BY <3>2 DEF Messages
      <4>1. S \in StoreSet /\ S.known[<<t, "user">>] = now + Ttl
        BY <4>0, LearnIs DEF Typed
      <4> HIDE DEF S
      <4>2. /\ Learn(S, <<t, "reply">>).known[<<t, "reply">>] = now + Ttl
            /\ Learn(S, <<t, "reply">>).known[<<t, "user">>] = S.known[<<t, "user">>]
        BY <4>0, <4>1, LearnIs DEF Typed
      <4>3. state' = Learn(S, <<t, "reply">>) /\ served'[t] = now
        BY <2>1, <2>2, <2>6, <3>2 DEF S, Typed, All
      <4> QED BY <4>0, <4>1, <4>2, <4>3, <3>2
    <3>3. CASE m[1] # t
      <4>1. state.known[m] = served[m[1]] + Ttl /\ served'[m[1]] = served[m[1]]
        BY <2>1, <2>6, <3>1, <3>3 DEF Ledger, ServedIsKnown, Typed
      <4>2. state'.known[m] = state.known[m]
        <5>1. state \in StoreSet /\ Truthful(state)
          BY DEF Typed, Ledger, KnownIsServed
        <5> QED BY <2>2, <2>3, <3>3, <5>1
      <4> QED BY <4>1, <4>2
    <3> QED BY <3>2, <3>3
  <2>7. KnownIsServed'
    BY <2>4, <2>5 DEF KnownIsServed
  <2>8. ServedIsKnown'
    BY <2>6 DEF ServedIsKnown
  <2> QED BY <2>7, <2>8 DEF Ledger
<1> QED BY <1>1, <1>2, <1>3, <1>4, <1>5 DEF Next

------------------------------------------------------------------------------
\* The clock.

Clock == ClockTrue /\ ReminderOnTime

\* A step that writes no clock and loads none.
LEMMA ClockStays ==
  ASSUME Clock, UNCHANGED <<now, since, seen, blind>>, state'.clock = state.clock,
         \A w \in Workers : local'[w].clock = local[w].clock,
         \A t \in Turns : pc'[t] = "loaded" => pc[t] = "loaded" /\ loaded'[t] = loaded[t]
  PROVE  Clock'
<1>1. ClockTrue'
  BY DEF Clock, ClockTrue, StartsAnew, Fresh
<1>2. ReminderOnTime'
  BY DEF Clock, ReminderOnTime
<1> QED BY <1>1, <1>2 DEF Clock

\* What a turn loads while nothing went past the shared state.
LEMMA ClockLoads ==
  ASSUME Typed, Clock, NEW t \in Turns, Load(t)
  PROVE  Clock'
<1>1. /\ UNCHANGED <<now, since, seen, state, local>> /\ at[t] \in Workers
      /\ pc' = [pc EXCEPT ![t] = "loaded"]
      /\ \/ /\ blind' = blind
            /\ loaded' = [loaded EXCEPT ![t] =
                            IF state.clock = NoClock THEN Copy(t) ELSE state.clock]
         \/ blind' = TRUE
  BY DEF Load, Goto, memory, Typed, InTurn
<1>2. ReminderOnTime'
  BY <1>1 DEF Clock, ReminderOnTime
<1>3. ASSUME ~blind'
      PROVE  /\ state.clock.seen = seen /\ state.clock.last <= since
             /\ \A u \in Turns : pc'[u] = "loaded" =>
                  /\ loaded'[u].last <= since
                  /\ Fresh(loaded'[u]) => StartsAnew \/ since = now
  <2>1. /\ ~blind
        /\ loaded' = [loaded EXCEPT ![t] =
                            IF state.clock = NoClock THEN Copy(t) ELSE state.clock]
    BY <1>1, <1>3
  <2>2. state.clock.seen = seen /\ state.clock.last <= since
    BY <2>1 DEF Clock, ClockTrue
  <2>3. ASSUME NEW u \in Turns, pc'[u] = "loaded", u # t
        PROVE  /\ loaded'[u].last <= since
               /\ Fresh(loaded'[u]) => StartsAnew \/ since = now
    BY <1>1, <2>1, <2>3 DEF Clock, ClockTrue, Typed
  <2>4. CASE state.clock = NoClock
    <3>1. seen = Never
      BY <2>2, <2>4 DEF NoClock
    <3>2. loaded'[t] = NoClock
      BY <1>1, <2>1, <2>4, <3>1 DEF Copy, Clock, ClockTrue, Typed
    <3>3. loaded'[t].last <= since
      BY <3>2, BoundsAssumption DEF NoClock, Never, Typed, Times
    <3> QED BY <2>2, <2>3, <3>1, <3>3 DEF StartsAnew
  <2>5. CASE state.clock # NoClock
    <3>1. loaded'[t] = state.clock
      BY <2>1, <2>5 DEF Typed
    <3>2. Fresh(loaded'[t]) => StartsAnew
      BY <2>2, <2>5, <3>1 DEF Fresh, StartsAnew
    <3> QED BY <2>2, <2>3, <3>1, <3>2
  <2> QED BY <2>4, <2>5
<1>4. seen = Never => /\ state.clock = NoClock
                      /\ \A w \in Workers : local[w].clock = NoClock
  BY DEF Clock, ClockTrue
<1>5. ClockTrue'
  BY <1>1, <1>3, <1>4 DEF ClockTrue, StartsAnew, Fresh
<1> QED BY <1>2, <1>5 DEF Clock

\* A turn that saves its clock: the shared clock and the stretch stay together.
LEMMA ClockSaves ==
  ASSUME Typed, Clock, NEW t \in Turns, Save(t)
  PROVE  Clock'
<1> DEFINE d == loaded[t]
           c == Advance(d)
<1>1. /\ pc[t] = "loaded" /\ pc' = [pc EXCEPT ![t] = "reply"]
      /\ now' = now /\ seen' = now
      /\ since' = IF StartsAnew \/ Due(d) THEN now ELSE since
      /\ loaded' = [loaded EXCEPT ![t] = NoClock]
      /\ ~blind' => state' = [state EXCEPT !.clock = c] /\ (~blind \/ Due(d))
  BY DEF Save, Goto, StartsAnew
<1>2. /\ c.seen = now /\ c.last = IF Fresh(d) \/ Due(d) THEN now ELSE d.last
      /\ Sound(d) /\ d \in ClockSet
  BY AdvanceIs DEF Typed
<1>3. /\ now \in 0..MaxNow /\ since \in Times /\ since <= now
      /\ Interval \in Nat \ {0} /\ Idle \in Nat \ {0}
      /\ d.last \in Times /\ d.seen \in Times
  BY <1>2, TimesAssumption DEF Typed, ClockSet
<1>4. now # Never /\ MaxNow \in Nat
  BY <1>3, BoundsAssumption DEF Never
<1>5. ASSUME ~blind'
      PROVE  state'.clock = c
  BY <1>1, <1>5 DEF Typed, StoreSet
<1> HIDE DEF c
<1>6. ASSUME ~blind'
      PROVE  /\ c.last <= since' /\ now - since' < Interval
             /\ \A u \in Turns : pc'[u] = "loaded" =>
                  /\ loaded'[u].last <= since'
                  /\ Fresh(loaded'[u]) => since' = now
  <2>0. since' \in Times /\ since <= since' /\ since' <= now
    BY <1>1, <1>3, <1>4 DEF Times
  <2>1. ASSUME NEW u \in Turns, pc'[u] = "loaded"
        PROVE  /\ loaded'[u] = loaded[u] /\ pc[u] = "loaded"
               /\ loaded[u].last <= now /\ loaded[u].last \in Times
    <3>1. u # t
      BY <1>1, <2>1 DEF Typed
    <3>2. loaded[u] \in ClockSet /\ Sound(loaded[u])
      BY DEF Typed
    <3>3. loaded[u].last \in Times /\ loaded[u].seen \in Times
      BY <3>2 DEF ClockSet
    <3>4. loaded[u].last <= now
      BY <3>2, <3>3, <1>3, <1>4 DEF Sound, Times
    <3> QED BY <1>1, <2>1, <3>1, <3>3, <3>4 DEF Typed
  <2>2. CASE Due(d)
    <3>1. since' = now
      BY <1>1, <2>2
    <3>2. c.last <= since' /\ now - since' < Interval
      BY <1>2, <1>3, <2>2, <3>1
    <3> QED BY <2>1, <3>1, <3>2
  <2>3. CASE ~Due(d) /\ ~blind
    <3>1. /\ d.last <= since
          /\ Fresh(d) => StartsAnew \/ since = now
          /\ \A u \in Turns : pc[u] = "loaded" =>
               /\ loaded[u].last <= since
               /\ Fresh(loaded[u]) => StartsAnew \/ since = now
      BY <1>1, <2>3 DEF Clock, ClockTrue
    <3>2. StartsAnew \/ since = now => since' = now
      BY <1>1
    <3>3. c.last <= since'
      BY <1>2, <1>3, <1>4, <2>0, <2>3, <3>1, <3>2 DEF Times
    <3>4. now - since' < Interval
      <4>1. CASE Fresh(d)
        BY <4>1, <3>1, <3>2, <1>3
      <4>2. CASE ~Fresh(d)
        <5>1. now - d.last < Interval
          BY <4>2, <2>3, <1>3, <1>4 DEF Due, Times
        <5> QED BY <5>1, <3>1, <2>0, <1>3, <1>4 DEF Times
      <4> QED BY <4>1, <4>2
    <3>5. ASSUME NEW u \in Turns, pc'[u] = "loaded"
          PROVE  /\ loaded'[u].last <= since'
                 /\ Fresh(loaded'[u]) => since' = now
      <4>1. /\ loaded'[u] = loaded[u] /\ pc[u] = "loaded" /\ loaded[u].last \in Times
        BY <2>1, <3>5
      <4>2. loaded[u].last <= since'
        BY <4>1, <3>1, <2>0, <1>3, <1>4 DEF Times
      <4> QED BY <4>1, <4>2, <3>1, <3>2
    <3> QED BY <3>3, <3>4, <3>5
  <2> QED BY <2>2, <2>3, <1>1, <1>6
<1>7. ReminderOnTime'
  BY <1>1, <1>6 DEF ReminderOnTime
<1>8. ClockTrue'
  BY <1>1, <1>2, <1>4, <1>5, <1>6 DEF ClockTrue, Fresh
<1> QED BY <1>7, <1>8 DEF Clock

\* Every step keeps the clocks and the reminder.
LEMMA StepClock == ASSUME Typed, Clock, Next PROVE Clock'
<1>1. CASE Tick
  <2>1. /\ \A t \in Turns : pc'[t] # "loaded"
        /\ UNCHANGED <<state, local, since, seen, blind>>
    BY <1>1 DEF Tick, memory, ghosts
  <2> QED BY <2>1 DEF Clock, ClockTrue, ReminderOnTime
<1>2. ASSUME NEW t \in Turns, NEW w \in Workers, CheckShared(t, w) \/ CheckLocal(t, w)
      PROVE  Clock'
  <2>1. /\ UNCHANGED <<now, loaded, memory, ghosts>>
        /\ \E x \in {"over", "admitted"} : pc' = [pc EXCEPT ![t] = x]
    BY <1>2 DEF CheckShared, CheckLocal, Answer, Goto
  <2>2. \A u \in Turns : pc'[u] = "loaded" => pc[u] = "loaded"
    BY <2>1 DEF Typed
  <2> QED BY <2>1, <2>2, ClockStays DEF memory, ghosts
<1>3. ASSUME NEW t \in Turns, Filter(t) \/ Blocked(t)
      PROVE  Clock'
  <2>1. /\ UNCHANGED <<now, loaded, memory, ghosts>>
        /\ \E x \in {"over", "filtered"} : pc' = [pc EXCEPT ![t] = x]
    BY <1>3 DEF Filter, Blocked, Leave, Goto
  <2>2. \A u \in Turns : pc'[u] = "loaded" => pc[u] = "loaded"
    BY <2>1 DEF Typed
  <2> QED BY <2>1, <2>2, ClockStays DEF memory, ghosts
<1>4. ASSUME NEW t \in Turns, record_turn(t)
      PROVE  Clock'
  <2>1. /\ UNCHANGED <<now, loaded, since, seen, blind>> /\ at[t] \in Workers
        /\ pc' = [pc EXCEPT ![t] = "over"]
        /\ state' \in Parts(state, t)
        /\ \A w \in Workers : local'[w] \in Parts(local[w], t)
    BY <1>4 DEF record_turn, Leave, Goto, Parts, All, Typed, InTurn
  <2>2. ASSUME NEW S \in StoreSet, NEW R \in Parts(S, t)
        PROVE  R.clock = S.clock
    <3> DEFINE Q == Learn(S, <<t, "user">>)
    <3>1. Q \in StoreSet /\ Q.clock = S.clock
      BY LearnIs DEF Messages, Typed
    <3> HIDE DEF Q
    <3>2. Learn(Q, <<t, "reply">>).clock = Q.clock
      BY <3>1, LearnIs DEF Messages, Typed
    <3> QED BY <3>1, <3>2 DEF Parts, All, Q
  <2>3. state'.clock = state.clock /\ \A w \in Workers : local'[w].clock = local[w].clock
    BY <2>1, <2>2 DEF Typed
  <2>4. \A u \in Turns : pc'[u] = "loaded" => pc[u] = "loaded"
    BY <2>1 DEF Typed
  <2> QED BY <2>1, <2>3, <2>4, ClockStays
<1> QED BY <1>1, <1>2, <1>3, <1>4, ClockLoads, ClockSaves DEF Next

------------------------------------------------------------------------------
\* At the start nothing is counted, remembered or timed.
LEMMA InitIInv == Init => IInv
<1> SUFFICES ASSUME Init PROVE IInv
  OBVIOUS
<1>1. Typed
  <2>1. /\ now = 0 /\ MaxNow \in Nat /\ Never = -1
    BY BoundsAssumption DEF Init, Never
  <2>2. Sound(NoClock)
    BY <2>1 DEF Sound, NoClock
  <2>3. Nothing \in StoreSet /\ NoClock \in ClockSet /\ Nothing.clock = NoClock
    BY NothingIs
  <2>4. /\ pc \in [Turns -> {"idle", "over"} \cup InTurn]
        /\ at \in [Turns -> Workers \cup {"none"}]
        /\ past \in [Turns -> SUBSET Turns] /\ kept \in [Turns -> SUBSET Messages]
        /\ rates \subseteq Rows /\ tally \in [Workers -> SUBSET Rows]
        /\ \A t \in Turns : pc[t] \notin InTurn
    BY DEF Init, InTurn
  <2>5. /\ state \in StoreSet /\ local \in [Workers -> StoreSet]
        /\ loaded \in [Turns -> ClockSet]
        /\ Sound(state.clock) /\ \A w \in Workers : Sound(local[w].clock)
        /\ \A t \in Turns : Sound(loaded[t])
    BY <2>2, <2>3 DEF Init
  <2>6. /\ admitted \in [Turns -> Times] /\ served \in [Turns -> Times]
        /\ since \in Times /\ since <= now /\ seen \in Times /\ seen <= now
        /\ blind \in BOOLEAN /\ now \in 0..MaxNow
    <3>1. Never \in Times /\ Never <= now /\ now \in 0..MaxNow
      BY <2>1 DEF Times
    <3> QED BY <3>1 DEF Init
  <2> QED BY <2>4, <2>5, <2>6 DEF Typed
<1>2. CountedAdmitted
  BY DEF Init, CountedAdmitted, WindowOf, WindowIds, Shared, Never
<1>3. WindowsLimited
  <2>1. \A i \in WindowIds : Recent(WindowOf(i)) = {}
    BY DEF Init, WindowOf, WindowIds, Shared, Recent
  <2> QED BY <2>1, FS_EmptySet, RatesAssumption DEF WindowsLimited
<1>4. LimitKept
  <2>1. LimitNow
    BY <1>1, <1>2, <1>3, LimitFollows
  <2>2. now = 0
    BY DEF Init
  <2>3. \A n \in 0..now : n = now
    BY <2>2
  <2> QED BY <2>1, <2>3 DEF LimitKept, LimitNow
<1>5. KnownIsServed /\ ServedIsKnown
  <2>1. \A m \in Messages : m[1] \in Turns
    BY DEF Messages
  <2> QED BY <2>1, NothingIs DEF Init, KnownIsServed, ServedIsKnown, Truthful
<1>6. ClockTrue
  BY NothingIs DEF Init, ClockTrue, NoClock, Never
<1>7. ReminderOnTime
  BY TimesAssumption DEF Init, ReminderOnTime, Never
<1> QED BY <1>1, <1>2, <1>3, <1>4, <1>5, <1>6, <1>7 DEF IInv

\* Every step keeps the invariant, and so does a step in which nothing happens.
LEMMA StepIInv == IInv /\ [Next]_vars => IInv'
<1> SUFFICES ASSUME IInv, [Next]_vars PROVE IInv'
  OBVIOUS
<1>1. CASE Next
  <2>1. Typed'
    BY <1>1, StepTyped DEF IInv
  <2>2. Limiter'
    BY <1>1, StepLimiter DEF IInv, Limiter
  <2>3. Ledger'
    BY <1>1, StepLedger DEF IInv, Ledger
  <2>4. Clock'
    BY <1>1, StepClock DEF IInv, Clock
  <2> QED BY <2>1, <2>2, <2>3, <2>4 DEF IInv, Limiter, Ledger, Clock
<1>2. CASE UNCHANGED vars
  <2> USE <1>2 DEF vars, turn, limiter, memory, ghosts
  <2>1. Typed'
    BY DEF IInv, Typed, Sound
  <2>2. Limiter'
    BY LimiterStays DEF IInv, Limiter
  <2>3. Ledger'
    BY LedgerStays DEF IInv, Ledger, KnownIsServed
  <2>4. Clock'
    BY ClockStays DEF IInv, Clock
  <2> QED BY <2>1, <2>2, <2>3, <2>4 DEF IInv, Limiter, Ledger, Clock
<1> QED BY <1>1, <1>2

\* The inductive invariant holds in every state.
THEOREM Invariance == Spec => []IInv
BY InitIInv, StepIInv, PTL DEF Spec

\* Type correctness.
THEOREM TypeCorrect == Spec => []TypeOK
<1>1. IInv => TypeOK
  <2> SUFFICES ASSUME Typed PROVE TypeOK
    BY DEF IInv
  <2>1. ASSUME NEW S \in StoreSet, Sound(S.clock)
        PROVE  /\ S.known \in [Messages -> -1..(MaxNow + Ttl)]
               /\ S.clock \in [last : Times, seen : Times] /\ S.clock.last <= S.clock.seen
    BY <2>1 DEF StoreSet, ClockSet, Sound
  <2>2. \A S \in {state} \cup {local[w] : w \in Workers} : S \in StoreSet /\ Sound(S.clock)
    BY DEF Typed
  <2> QED BY <2>1, <2>2 DEF Typed, TypeOK, InTurn
<1> QED BY <1>1, Invariance, PTL

\* "Degrade to per-process counting rather than no limit at all" (rate_limiter.py): the
\* limiter's promise, for any number of workers, wherever the shared table fails.
THEOREM LimitNeverExceeded == Spec => []LimitHolds
<1>1. IInv => LimitHolds
  <2> SUFFICES ASSUME Typed, CountedAdmitted, LimitKept PROVE LimitHolds
    BY DEF IInv
  <2>1. \A r \in rates \cup UNION {tally[w] : w \in Workers} :
          \E i \in WindowIds : r \in WindowOf(i)
    BY WindowsAre DEF WindowIds
  <2> QED BY <2>1 DEF LimitHolds, LimitKept, Let, Counting, CountedAdmitted
<1> QED BY <1>1, Invariance, PTL

\* A child who keeps chatting is reminded in time, whichever workers serve the replies
\* and however the turns interleave, unless a clock bypassed the shared state.
THEOREM RemindersOnTime == Spec => []ReminderOnTime
<1>1. IInv => ReminderOnTime
  BY DEF IInv
<1> QED BY <1>1, Invariance, PTL

\* What a turn forwards of its history.
LEMMA FilterExact ==
  ASSUME IInv, NEW t \in Turns, Filter(t)
  PROVE  LET G == {s \in Turns : served[s] # Never /\ served[s] + Ttl > now} IN
         /\ \A m \in kept'[t] : m[1] \in G
         /\ past[t] \subseteq G /\ (past[t] \cup {t}) \cap NoState = {} /\ Isolated = {} =>
            kept'[t] = past[t] \X {"user", "reply"}
<1> DEFINE G == {s \in Turns : served[s] # Never /\ served[s] + Ttl > now}
           H == {m \in Messages : m[1] \in past[t]}
<1>1. /\ kept[t] = {} /\ at[t] \in Workers /\ now \in 0..MaxNow /\ past[t] \in SUBSET Turns
      /\ \/ kept'[t] = filter_history(t)
         \/ t \in NoState /\ kept'[t] = kept[t]
  BY DEF Filter, IInv, Typed, InTurn, KnownIsServed
<1>2. Truthful(Store(t))
  BY <1>1 DEF Store, IInv, KnownIsServed
<1>3. ASSUME NEW m \in kept'[t]
      PROVE  m[1] \in G
  <2>1. m \in Messages /\ Knows(Store(t), m)
    <3>1. m \in filter_history(t)
      BY <1>1, <1>3
    <3>2. m \in H /\ \A n \in H : Before(m, n) => Knows(Store(t), n)
      BY <3>1 DEF filter_history
    <3>3. Before(m, m)
      BY <3>2 DEF Before, Messages
    <3> QED BY <3>2, <3>3
  <2>2. Store(t).known[m] > now /\ Store(t).known[m] # Never
    BY <1>1, <2>1 DEF Knows, Never
  <2>3. m[1] \in Turns
    BY <2>1 DEF Messages
  <2> QED BY <1>2, <2>1, <2>2, <2>3 DEF Truthful
<1>4. ASSUME past[t] \subseteq G, (past[t] \cup {t}) \cap NoState = {}, Isolated = {}
      PROVE  kept'[t] = past[t] \X {"user", "reply"}
  <2>1. kept'[t] = filter_history(t) /\ Store(t) = state
    BY <1>1, <1>4 DEF Store
  <2>2. \A n \in H : Knows(state, n)
    <3> TAKE n \in H
    <3>1. n \in Messages /\ n[1] \in G /\ n[1] \notin NoState
      BY <1>4
    <3>2. state.known[n] = served[n[1]] + Ttl
      BY <3>1, <1>4 DEF IInv, ServedIsKnown
    <3> QED BY <3>1, <3>2 DEF Knows
  <2>3. filter_history(t) = H
    BY <2>1, <2>2 DEF filter_history
  <2>4. H = past[t] \X {"user", "reply"}
    BY <1>1 DEF Messages
  <2> QED BY <2>1, <2>3, <2>4
<1> QED BY <1>3, <1>4

\* Earlier messages reach the tutor only if the proxy delivered them within the window,
\* and without faults all of those do, whichever workers served the turns.
THEOREM HistoryIsExact == Spec => HistoryExact
<1> DEFINE Exact ==
      \A t \in Turns : pc[t] = "admitted" /\ pc'[t] = "filtered" =>
        LET G == {s \in Turns : served[s] # Never /\ served[s] + Ttl > now} IN
        /\ \A m \in kept'[t] : m[1] \in G
        /\ past[t] \subseteq G /\ (past[t] \cup {t}) \cap NoState = {} /\ Isolated = {} =>
           kept'[t] = past[t] \X {"user", "reply"}
<1>1. IInv /\ [Next]_vars => [Exact]_vars
  <2> SUFFICES ASSUME IInv, Next, NEW t \in Turns, pc[t] = "admitted", pc'[t] = "filtered"
               PROVE  Filter(t)
    BY FilterExact
  <2>1. pc \in [Turns -> {"idle", "over"} \cup InTurn]
    BY DEF IInv, Typed
  <2>2. CASE Tick
    BY <2>2 DEF Tick
  <2>3. ASSUME NEW u \in Turns, NEW w \in Workers, CheckShared(u, w) \/ CheckLocal(u, w)
        PROVE  FALSE
    BY <2>1, <2>3 DEF CheckShared, CheckLocal, Answer, Goto
  <2>4. ASSUME NEW u \in Turns, Blocked(u) \/ Load(u) \/ Save(u) \/ record_turn(u)
        PROVE  FALSE
    BY <2>1, <2>4 DEF Blocked, Load, Save, record_turn, Leave, Goto
  <2>5. ASSUME NEW u \in Turns, Filter(u)
        PROVE  u = t
    BY <2>1, <2>5 DEF Filter, Goto
  <2> QED BY <2>2, <2>3, <2>4, <2>5 DEF Next
<1> QED BY <1>1, Invariance, PTL DEF Spec, HistoryExact
=============================================================================
