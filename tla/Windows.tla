------------------------------ MODULE Windows ------------------------------
(***************************************************************************)
(* What the proxy remembers of a child between turns, over time: the rate  *)
(* limiter's window, the history ledger and the break-reminder clock       *)
(* (utils/rate_limiter.py, api/routes/ollama_proxy/history_ledger.py and   *)
(* break_reminder.py), kept in SQLite files every worker shares            *)
(* (utils/shared_state.py) with a copy in each worker for when they fail.  *)
(*                                                                         *)
(* One child; a turn is served by any worker.  due() loads, decides and    *)
(* saves in separate statements, within one instant.  A turn's history is  *)
(* all that was said in the turns over when it came.                       *)
(*                                                                         *)
(* Left out: Redis, which has the same interface and is off by default;    *)
(* hashing, pruning of expired entries, and the stages of the turn         *)
(* (ChatTurn), whose outcome is chosen here.                               *)
(***************************************************************************)
EXTENDS Integers, FiniteSets

CONSTANTS
  Workers,
  Isolated,    \* workers that could not open the shared state when they started
  NumTurns, MaxOpen, MaxNow,         \* bounds
  Limit, Window,                     \* rate limit and its window
  Ttl,                               \* of a remembered message
  Interval, Idle,                    \* of the reminder
  NoRates, NoState                   \* turns during which the files may fail

ASSUME WorkersAssumption == Isolated \subseteq Workers /\ IsFiniteSet(Workers)
ASSUME BoundsAssumption  == {NumTurns, MaxOpen, MaxNow} \subseteq Nat
ASSUME RatesAssumption   == {Limit, Window} \subseteq Nat \ {0}
ASSUME TimesAssumption   == {Ttl, Interval, Idle} \subseteq Nat \ {0}
ASSUME NoneAssumption    == "none" \notin Workers
ASSUME FaultsAssumption  == NoRates \cup NoState \subseteq 1..NumTurns

Turns    == 1..NumTurns
Messages == Turns \X {"user", "reply"}
Never    == -1
NoClock  == [last |-> Never, seen |-> Never]

VARIABLES
  now,
  pc,        \* where each turn is
  at,        \* the worker that serves it, until it is over
  past,      \* turns over when it came: the history its client sends
  kept,      \* the earlier messages it forwards to the tutor, until it is over
  loaded,    \* the clock it loaded
  rates,     \* shared_rate_limits: turns and their timestamps
  tally,     \* the limiter's window in a worker's memory
  state,     \* shared state: expiry of each remembered message, and the clock
  local,     \* the same in a worker's memory
  \* history variables
  admitted,  \* when each turn was admitted
  served,    \* when each turn's reply was delivered
  since,     \* when the child's stretch began or was last broken by a reminder
  seen,      \* the child's last reply
  blind      \* since then, a clock was read or written without the shared state

limiter == <<rates, tally, admitted>>
memory  == <<state, local>>
ghosts  == <<served, since, seen, blind>>
turn    == <<at, past>>
vars    == <<now, pc, turn, kept, loaded, limiter, memory, ghosts>>

Nothing == [known |-> [m \in Messages |-> Never], clock |-> NoClock]
Open    == {t \in Turns : pc[t] \notin {"idle", "over"}}
Goto(t, s) == pc' = [pc EXCEPT ![t] = s]
Leave(t) ==
  /\ Goto(t, "over")
  /\ at' = [at EXCEPT ![t] = "none"] /\ past' = [past EXCEPT ![t] = {}]

Init ==
  /\ now = 0
  /\ pc = [t \in Turns |-> "idle"]
  /\ at = [t \in Turns |-> "none"]
  /\ past = [t \in Turns |-> {}] /\ kept = [t \in Turns |-> {}]
  /\ loaded = [t \in Turns |-> NoClock]
  /\ rates = {} /\ tally = [w \in Workers |-> {}]
  /\ state = Nothing /\ local = [w \in Workers |-> Nothing]
  /\ admitted = [t \in Turns |-> Never] /\ served = [t \in Turns |-> Never]
  /\ since = Never /\ seen = Never /\ blind = FALSE

\* Time passes, but not inside due().
Tick ==
  /\ now < MaxNow /\ now' = now + 1
  /\ \A t \in Turns : pc[t] # "loaded"
  /\ UNCHANGED <<pc, turn, kept, loaded, limiter, memory, ghosts>>

------------------------------------------------------------------------------
\* The rate limiter

Recent(S) == {r \in S : r.ts > now - Window}

\* Mutant: refused requests count as well.
CountedAll(S, t) == Recent(S) \cup {[turn |-> t, ts |-> now]}

\* A window after t asked: expired rows are deleted, t is added if it is allowed.
Counted(S, t) ==
  IF Cardinality(Recent(S)) < Limit THEN Recent(S) \cup {[turn |-> t, ts |-> now]} ELSE Recent(S)

Arrives(t) ==
  /\ pc[t] = "idle" /\ (t > 1 => pc[t - 1] # "idle")
  /\ Cardinality(Open) < MaxOpen

\* Window S lets t in at worker w, or does not.
Answer(S, t, w) ==
  IF Cardinality(Recent(S)) < Limit
  THEN /\ Goto(t, "admitted") /\ at' = [at EXCEPT ![t] = w]
       /\ past' = [past EXCEPT ![t] = {s \in Turns : pc[s] = "over"}]
       /\ admitted' = [admitted EXCEPT ![t] = now]
  ELSE Goto(t, "over") /\ UNCHANGED <<turn, admitted>>

\* _check_shared: one immediate transaction on the table.
CheckShared(t, w) ==
  /\ Arrives(t)
  /\ rates' = Counted(rates, t) /\ Answer(rates, t, w)
  /\ UNCHANGED <<now, kept, loaded, tally, memory, ghosts>>

\* The table fails: the worker's own window decides.
CheckLocal(t, w) ==
  /\ Arrives(t) /\ t \in NoRates
  /\ tally' = [tally EXCEPT ![w] = Counted(@, t)] /\ Answer(tally[w], t, w)
  /\ UNCHANGED <<now, kept, loaded, rates, memory, ghosts>>

------------------------------------------------------------------------------
\* The history ledger

\* _seen: remembered, and not expired.
Knows(S, m) == S.known[m] > now

\* Mutant: a worker remembers for itself.
StoreOwn(t) == local[at[t]]

\* The store of t's worker; local only where the shared one could not be opened.
Store(t) == IF at[t] \in Isolated THEN local[at[t]] ELSE state

\* a was said before b or is b.
Before(a, b) == a[1] < b[1] \/ (a[1] = b[1] /\ (a[2] = "user" \/ b[2] = "reply"))

\* filter_history: from the newest message back to the first the ledger does not know.
filter_history(t) ==
  LET H == {m \in Messages : m[1] \in past[t]} IN
  {m \in H : \A n \in H : Before(m, n) => Knows(Store(t), n)}

\* A read that fails leaves the current turn alone.
Filter(t) ==
  /\ pc[t] = "admitted" /\ Goto(t, "filtered")
  /\ \/ kept' = [kept EXCEPT ![t] = filter_history(t)]
     \/ t \in NoState /\ at[t] \notin Isolated /\ UNCHANGED kept
  /\ UNCHANGED <<now, turn, loaded, limiter, memory, ghosts>>

\* The turn is blocked, or fails: nothing is remembered and the clock is not asked.
Blocked(t) ==
  /\ pc[t] = "filtered" /\ Leave(t)
  /\ kept' = [kept EXCEPT ![t] = {}]
  /\ UNCHANGED <<now, loaded, limiter, memory, ghosts>>

------------------------------------------------------------------------------
\* The break reminder

Copy(t) == local[at[t]].clock

\* _load: the shared clock; the worker's copy if there is none, or it cannot be read.
Load(t) ==
  /\ pc[t] = "filtered" /\ Goto(t, "loaded")
  /\ \/ /\ at[t] \notin Isolated
        /\ loaded' = [loaded EXCEPT ![t] = IF state.clock = NoClock THEN Copy(t) ELSE state.clock]
        /\ UNCHANGED blind
     \/ /\ at[t] \in Isolated \/ t \in NoState
        /\ loaded' = [loaded EXCEPT ![t] = Copy(t)] /\ blind' = TRUE
  /\ UNCHANGED <<now, turn, kept, limiter, memory, served, since, seen>>

Fresh(c)   == c = NoClock \/ now - c.seen > Idle
Due(c)     == ~Fresh(c) /\ now - c.last >= Interval

\* Mutant: the last reply is not noted.
AdvanceUnseen(c) == [last |-> now, seen |-> c.seen]

\* Mutant: every reply starts the clock again.
AdvanceAlways(c) == [last |-> now, seen |-> now]

Advance(c) == [last |-> IF Fresh(c) \/ Due(c) THEN now ELSE c.last, seen |-> now]

\* _save and the reply: locally always, shared if it can be written.  An entry outlives
\* Interval + Idle, after which its clock is stale anyway.
Save(t) ==
  LET c == Advance(loaded[t])
      on == seen = Never \/ now - seen > Idle IN
  /\ pc[t] = "loaded" /\ Goto(t, "reply")
  /\ local' = [local EXCEPT ![at[t]].clock = c]
  /\ seen' = now
  /\ since' = IF on \/ Due(loaded[t]) THEN now ELSE since
  /\ \/ /\ at[t] \notin Isolated /\ state' = [state EXCEPT !.clock = c]
        /\ blind' = (blind /\ ~Due(loaded[t]))
     \/ /\ at[t] \in Isolated \/ t \in NoState
        /\ UNCHANGED state /\ blind' = TRUE
  /\ kept' = [kept EXCEPT ![t] = {}] /\ loaded' = [loaded EXCEPT ![t] = NoClock]
  /\ UNCHANGED <<now, turn, limiter, served>>

------------------------------------------------------------------------------
\* record_turn

Learn(S, m) == [S EXCEPT !.known[m] = now + Ttl]

\* _remember both messages of the turn; a write that fails ends it.
record_turn(t) ==
  LET u == <<t, "user">>  r == <<t, "reply">> IN
  /\ pc[t] = "reply" /\ Leave(t)
  /\ served' = [served EXCEPT ![t] = now]
  /\ IF at[t] \in Isolated
     THEN local' = [local EXCEPT ![at[t]] = Learn(Learn(@, u), r)] /\ UNCHANGED state
     ELSE /\ state' \in {Learn(Learn(state, u), r)}
                        \cup (IF t \in NoState THEN {state, Learn(state, u)} ELSE {})
          /\ UNCHANGED local
  /\ UNCHANGED <<now, kept, loaded, limiter, since, seen, blind>>

Next ==
  \/ Tick
  \/ \E t \in Turns :
       \/ \E w \in Workers : CheckShared(t, w) \/ CheckLocal(t, w)
       \/ Filter(t) \/ Blocked(t)
       \/ Load(t) \/ Save(t) \/ record_turn(t)

Spec == Init /\ [][Next]_vars

------------------------------------------------------------------------------
Times == -1..MaxNow
Rows  == [turn : Turns, ts : 0..MaxNow]

\* Types of the state; the clock is never ahead of the last reply it counts.
TypeOK ==
  /\ now \in 0..MaxNow
  /\ pc \in [Turns -> {"idle", "admitted", "filtered", "loaded", "reply", "over"}]
  /\ at \in [Turns -> Workers \cup {"none"}]
  /\ past \in [Turns -> SUBSET Turns] /\ kept \in [Turns -> SUBSET Messages]
  /\ rates \subseteq Rows /\ tally \in [Workers -> SUBSET Rows]
  /\ \A S \in {state} \cup {local[w] : w \in Workers} :
       /\ S.known \in [Messages -> -1..(MaxNow + Ttl)]
       /\ S.clock \in [last : Times, seen : Times] /\ S.clock.last <= S.clock.seen
  /\ admitted \in [Turns -> Times] /\ served \in [Turns -> Times]
  /\ {since, seen} \subseteq Times /\ blind \in BOOLEAN

\* "Degrade to per-process counting rather than no limit at all": in any window at most
\* Limit turns are admitted, and Limit more for each worker that had to count by itself;
\* and what a window counts are turns it admitted, so that a child who was refused and
\* tries again does not keep itself out.
LimitHolds ==
  /\ \A n \in 0..now :
       Cardinality({t \in Turns : admitted[t] \in (n - Window + 1)..n /\ admitted[t] # Never})
         <= Limit * (1 + Cardinality({w \in Workers : tally[w] # {}}))
  /\ \A r \in rates \cup UNION {tally[w] : w \in Workers} : admitted[r.turn] = r.ts

\* Earlier messages reach the tutor only if this proxy delivered them to the child within
\* the window, whichever worker did; and unless the shared state
\* fails, a conversation of replies within the window reaches it whole.
HistoryExact ==
  [][\A t \in Turns : pc[t] = "admitted" /\ pc'[t] = "filtered" =>
       LET G == {s \in Turns : served[s] # Never /\ served[s] + Ttl > now} IN
       /\ \A m \in kept'[t] : m[1] \in G
       /\ past[t] \subseteq G /\ (past[t] \cup {t}) \cap NoState = {} /\ Isolated = {} =>
          kept'[t] = past[t] \X {"user", "reply"}]_vars

\* A child who keeps chatting is reminded at least every Interval, whichever workers
\* serve the replies, unless a clock was read or written without the shared state since
\* the last reminder.
ReminderOnTime == seen - since < Interval \/ blind
=============================================================================
