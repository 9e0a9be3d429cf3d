--------------------------- MODULE ChatTurnProofs ---------------------------
(***************************************************************************)
(* What holds of a student's turn for any number of turns and whatever     *)
(* features are on, and that every turn is one of TurnGate's.              *)
(***************************************************************************)
EXTENDS ChatTurn, TLAPS

Before  == {"idle", "input", "adjudicate", "topic", "tutor"}
Stages  == {"enforce", "screen", "suffix", "finish"}
Cleared == {"topic", "tutor", "streaming", "verdict"} \cup Stages

\* Words a turn may have without check_output's word for them.
Unvetted(t) ==
  (IF "sycophancy" \in Features THEN {"repair"} ELSE {})
  \cup (IF mode[t] = "single" THEN {"raw"} ELSE {})

\* A turn in front of the tutor's reply has nothing yet.
BlankBefore(t) ==
  pc[t] \in Before =>
    /\ held[t] = {} /\ vetted[t] = {} /\ sent[t] = {} /\ ledger[t] = {}
    /\ t \notin rewritten /\ t \notin taken

\* The verdict clears a turn, and nothing else lets it go on.
ClearedFirst(t) ==
  /\ pc[t] \in Cleared => verdict[t] = "safe"
  /\ pc[t] \in {"idle", "input", "adjudicate"} => verdict[t] # "safe"

\* A live reply is sent as it is vetted, with the reminder if there is one.
LiveSent(t) ==
  mode[t] = "live" /\ pc[t] \in {"streaming", "verdict"} =>
    /\ sent[t] \subseteq {"first", "rest", "reminder"} /\ ledger[t] = {}
    /\ sent[t] \cap Words \subseteq vetted[t]
    /\ t \in taken => "reminder" \in sent[t]

\* A buffered reply is one of the tutor's pieces, vetted or excepted, with the suffix of
\* a disclosure and the reminder once their stages are over, the reminder only in a
\* response that is written anew.
BufferedHeld(t) ==
  /\ pc[t] = "streaming" => mode[t] = "live"
  /\ pc[t] \in Stages => Buffered(t) /\ t \notin taken
  /\ pc[t] \in {"enforce", "screen", "suffix"} => held[t] \subseteq Words \ {"raw"}
  /\ pc[t] = "finish" => held[t] \subseteq (Words \ {"raw"}) \cup {"suffix"}
  /\ pc[t] \in Stages \cup {"verdict"} /\ Buffered(t) =>
       /\ sent[t] = {} /\ ledger[t] = {}
       /\ (held[t] \cap Words) \ vetted[t] \subseteq Unvetted(t)
  /\ pc[t] = "verdict" /\ Buffered(t) =>
       /\ held[t] \subseteq Words \cup {"suffix", "reminder"}
       /\ "reminder" \in held[t] => t \in rewritten
       /\ t \in taken => "reminder" \in held[t]
  /\ t \in disclosed /\ (pc[t] = "finish" \/ (pc[t] = "verdict" /\ Buffered(t))) =>
       "suffix" \in held[t] \/ held[t] = {"raw"}

Story(t) == BlankBefore(t) /\ ClearedFirst(t) /\ LiveSent(t) /\ BufferedHeld(t)

\* What ChatTurn's properties say of one turn.
Promises(t) ==
  /\ (sent[t] \cap Words) \ vetted[t] \subseteq Unvetted(t)
  /\ ledger[t] # {} =>
       /\ sent[t] \cap {"block", "notice"} = {}
       /\ \/ ledger[t] = sent[t]
          \/ mode[t] = "live" /\ ledger[t] = sent[t] \ {"override"}
          \/ mode[t] = "single" /\ t \notin rewritten /\ ledger[t] = sent[t] \cup {"suffix"}
  /\ t \in taken /\ Done(t) => sent[t] \cap {"reminder", "override"} # {}
  /\ t \in disclosed /\ Done(t) /\ sent[t] \cap (Words \ {"raw"}) # {} =>
       \/ "suffix" \in sent[t]
       \/ mode[t] = "live"
       \/ mode[t] = "single" /\ t \notin rewritten

IInv == TypeOK /\ \A t \in Turns : Story(t) /\ Promises(t)

------------------------------------------------------------------------------
\* No turn has begun.
LEMMA InitIInv == Init => IInv
<1> SUFFICES ASSUME Init PROVE IInv
  OBVIOUS
<1>1. TypeOK
  BY DEF Init, TypeOK, PCs, Modes, Verdicts
<1>2. ASSUME NEW t \in Turns PROVE Story(t) /\ Promises(t)
  <2>1. /\ pc[t] = "idle" /\ verdict[t] = "none" /\ disclosed = {} /\ held[t] = {} /\ rewritten = {}
        /\ vetted[t] = {} /\ sent[t] = {} /\ ledger[t] = {} /\ taken = {}
    BY DEF Init
  <2> QED BY <2>1 DEF Story, Promises, BlankBefore, ClearedFirst, LiveSent, BufferedHeld, Before, Stages, Cleared, Done
<1> QED BY <1>1, <1>2 DEF IInv

\* Nothing of turn u changes.
Same(u) ==
  /\ pc'[u] = pc[u] /\ mode'[u] = mode[u] /\ verdict'[u] = verdict[u] /\ held'[u] = held[u]
  /\ vetted'[u] = vetted[u] /\ sent'[u] = sent[u] /\ ledger'[u] = ledger[u]
  /\ u \in disclosed' <=> u \in disclosed
  /\ u \in rewritten' <=> u \in rewritten
  /\ u \in taken' <=> u \in taken

\* A turn nothing happens to keeps its story.
LEMMA SameKeeps ==
  ASSUME NEW u, Same(u), Story(u), Promises(u)
  PROVE  Story(u)' /\ Promises(u)'
BY DEF Same, Story, Promises, BlankBefore, ClearedFirst, LiveSent, BufferedHeld, Buffered, Unvetted, Done

\* The typed parts of a step that is not about types.
Types ==
  /\ pc \in [Turns -> PCs]
  /\ mode \in [Turns -> Modes]
  /\ verdict \in [Turns -> Verdicts]
  /\ disclosed \subseteq Turns /\ taken \subseteq Turns /\ rewritten \subseteq Turns
  /\ held \in [Turns -> SUBSET Pieces]
  /\ vetted \in [Turns -> SUBSET Words]
  /\ sent \in [Turns -> SUBSET Pieces]
  /\ ledger \in [Turns -> SUBSET Pieces]
  /\ owed \in BOOLEAN

\* What a step of turn t must show.
Kept(t) ==
  /\ Types' /\ Story(t)' /\ Promises(t)'
  /\ held'[t] # {} \/ ledger'[t] # {} => verdict'[t] = "safe"
  /\ \A u \in Turns \ {t} : Same(u)

\* The turn that steps, and the others, make the invariant.
LEMMA KeptIInv ==
  ASSUME IInv, NEW t \in Turns, Kept(t)
  PROVE  IInv'
<1>1. ASSUME NEW u \in Turns
      PROVE  /\ Story(u)' /\ Promises(u)'
             /\ held'[u] # {} \/ ledger'[u] # {} => verdict'[u] = "safe"
  <2>1. CASE u = t
    BY <2>1 DEF Kept
  <2>2. CASE u # t
    <3>1. Same(u)
      BY <2>2 DEF Kept
    <3>2. Story(u) /\ Promises(u) /\ (held[u] # {} \/ ledger[u] # {} => verdict[u] = "safe")
      BY DEF IInv, TypeOK
    <3> QED BY <3>1, <3>2, SameKeeps DEF Same
  <2> QED BY <2>1, <2>2
<1> QED BY <1>1 DEF IInv, TypeOK, Kept, Types

\* Nothing is held or sent but a notice.
LEMMA ArriveKept ==
  ASSUME IInv, NEW t \in Turns, Arrive(t)
  PROVE  Kept(t)
<1> USE DEF IInv, TypeOK, Arrive, End, Send, Goto, early, reply
<1>1. Types'
  BY DEF Types, PCs, Modes, Verdicts, Words, Fixed, Pieces
<1>2. BlankBefore(t)' /\ ClearedFirst(t)'
  BY DEF Story, BlankBefore, ClearedFirst, Before, Stages, Cleared
<1>3. LiveSent(t)'
  BY DEF Story, BlankBefore, LiveSent, Before, Words
<1>4. BufferedHeld(t)'
  BY DEF Story, BlankBefore, BufferedHeld, Before, Stages, Buffered, Unvetted, Words, Modes
<1>5. Promises(t)'
  BY DEF Story, BlankBefore, LiveSent, BufferedHeld, Promises, Before, Stages, Buffered, Unvetted, Words, Done
<1>6. /\ held'[t] # {} \/ ledger'[t] # {} => verdict'[t] = "safe"
      /\ \A u \in Turns \ {t} : Same(u)
  BY DEF Story, ClearedFirst, Cleared, Stages, Same
<1> HIDE DEF IInv, TypeOK, Arrive
<1> QED BY <1>1, <1>2, <1>3, <1>4, <1>5, <1>6 DEF Kept, Story

\* A verdict other than safe lets no turn go on but to the adjudicator.
LEMMA CheckInputKept ==
  ASSUME IInv, NEW t \in Turns, CheckInput(t)
  PROVE  Kept(t)
<1> USE DEF IInv, TypeOK, CheckInput, End, Send, Goto, early, reply
<1>1. Types'
  BY DEF Types, PCs, Modes, Verdicts, Words, Fixed, Pieces
<1>2. BlankBefore(t)' /\ ClearedFirst(t)'
  BY DEF Story, BlankBefore, ClearedFirst, Before, Stages, Cleared
<1>3. LiveSent(t)'
  BY DEF Story, BlankBefore, LiveSent, Before, Words
<1>4. BufferedHeld(t)'
  BY DEF Story, BlankBefore, BufferedHeld, Before, Stages, Buffered, Unvetted, Words, Modes
<1>5. Promises(t)'
  BY DEF Story, BlankBefore, LiveSent, BufferedHeld, Promises, Before, Stages, Buffered, Unvetted, Words, Done
<1>6. /\ held'[t] # {} \/ ledger'[t] # {} => verdict'[t] = "safe"
      /\ \A u \in Turns \ {t} : Same(u)
  BY DEF Story, ClearedFirst, Cleared, Stages, Same
<1> HIDE DEF IInv, TypeOK, CheckInput
<1> QED BY <1>1, <1>2, <1>3, <1>4, <1>5, <1>6 DEF Kept, Story

\* Only a release clears the turn.
LEMMA AdjudicateKept ==
  ASSUME IInv, NEW t \in Turns, Adjudicate(t)
  PROVE  Kept(t)
<1> USE DEF IInv, TypeOK, Adjudicate, End, Send, Goto, early, reply
<1>1. Types'
  BY DEF Types, PCs, Modes, Verdicts, Words, Fixed, Pieces
<1>2. BlankBefore(t)' /\ ClearedFirst(t)'
  BY DEF Story, BlankBefore, ClearedFirst, Before, Stages, Cleared
<1>3. LiveSent(t)'
  BY DEF Story, BlankBefore, LiveSent, Before, Words
<1>4. BufferedHeld(t)'
  BY DEF Story, BlankBefore, BufferedHeld, Before, Stages, Buffered, Unvetted, Words, Modes
<1>5. Promises(t)'
  BY DEF Story, BlankBefore, LiveSent, BufferedHeld, Promises, Before, Stages, Buffered, Unvetted, Words, Done
<1>6. /\ held'[t] # {} \/ ledger'[t] # {} => verdict'[t] = "safe"
      /\ \A u \in Turns \ {t} : Same(u)
  BY DEF Story, ClearedFirst, Cleared, Stages, Same
<1> HIDE DEF IInv, TypeOK, Adjudicate
<1> QED BY <1>1, <1>2, <1>3, <1>4, <1>5, <1>6 DEF Kept, Story

\* The turn goes to the tutor still blank.
LEMMA TopicGateKept ==
  ASSUME IInv, NEW t \in Turns, TopicGate(t)
  PROVE  Kept(t)
<1> USE DEF IInv, TypeOK, TopicGate, End, Send, Goto, early, reply
<1>1. Types'
  BY DEF Types, PCs, Modes, Verdicts, Words, Fixed, Pieces
<1>2. BlankBefore(t)' /\ ClearedFirst(t)'
  BY DEF Story, BlankBefore, ClearedFirst, Before, Stages, Cleared
<1>3. LiveSent(t)'
  BY DEF Story, BlankBefore, LiveSent, Before, Words
<1>4. BufferedHeld(t)'
  BY DEF Story, BlankBefore, BufferedHeld, Before, Stages, Buffered, Unvetted, Words, Modes
<1>5. Promises(t)'
  BY DEF Story, BlankBefore, LiveSent, BufferedHeld, Promises, Before, Stages, Buffered, Unvetted, Words, Done
<1>6. /\ held'[t] # {} \/ ledger'[t] # {} => verdict'[t] = "safe"
      /\ \A u \in Turns \ {t} : Same(u)
  BY DEF Story, ClearedFirst, Cleared, Stages, Same
<1> HIDE DEF IInv, TypeOK, TopicGate
<1> QED BY <1>1, <1>2, <1>3, <1>4, <1>5, <1>6 DEF Kept, Story

\* The first part is vetted as it is sent, and the reminder is sent with it.
LEMMA CheckpointKept ==
  ASSUME IInv, NEW t \in Turns, Checkpoint(t)
  PROVE  Kept(t)
<1> USE DEF IInv, TypeOK, Checkpoint, End, Send, Goto, due, Reminder, early, reply
<1>1. Types'
  <2>1. CASE Goto(t, "streaming")
    <3>1. /\ vetted' = [vetted EXCEPT ![t] = @ \cup {"first"}] /\ Send(t, Reminder \cup {"first"})
          /\ due(t) /\ UNCHANGED <<early, reply, ledger>>
      BY <2>1 DEF PCs
    <3>2. Reminder \cup {"first"} \subseteq Pieces /\ {"first"} \subseteq Words /\ "streaming" \in PCs
      BY DEF Words, Fixed, Pieces, PCs
    <3> DEFINE R == Reminder \cup {"first"}
    <3> HIDE DEF R, Reminder, Checkpoint
    <3> QED BY <2>1, <3>1, <3>2 DEF Types, R
  <2>2. CASE End(t, {"block"})
    <3>1. /\ End(t, {"block"}) /\ UNCHANGED <<early, reply, vetted, owed, taken>>
      BY <2>2 DEF PCs
    <3> HIDE DEF Checkpoint
    <3> QED BY <3>1 DEF Types, Words, Fixed, Pieces, PCs
  <2> QED BY <2>1, <2>2
<1>2. BlankBefore(t)' /\ ClearedFirst(t)'
  BY DEF Story, BlankBefore, ClearedFirst, Before, Stages, Cleared
<1>3. LiveSent(t)'
  BY DEF Story, BlankBefore, LiveSent, Before, Words
<1>4. BufferedHeld(t)'
  BY DEF Story, BlankBefore, BufferedHeld, Before, Stages, Buffered, Unvetted, Words, Modes
<1>5. Promises(t)'
  BY DEF Story, BlankBefore, LiveSent, BufferedHeld, Promises, Before, Stages, Buffered, Unvetted, Words, Done
<1>6. /\ held'[t] # {} \/ ledger'[t] # {} => verdict'[t] = "safe"
      /\ \A u \in Turns \ {t} : Same(u)
  BY DEF Story, ClearedFirst, Cleared, Stages, Same
<1> HIDE DEF IInv, TypeOK, Checkpoint
<1> QED BY <1>1, <1>2, <1>3, <1>4, <1>5, <1>6 DEF Kept, Story

\* The rest is vetted as it is sent.
LEMMA LastVetKept ==
  ASSUME IInv, NEW t \in Turns, LastVet(t)
  PROVE  Kept(t)
<1> USE DEF IInv, TypeOK, LastVet, End, Send, Goto, early, reply
<1>1. Types'
  BY DEF Types, PCs, Modes, Verdicts, Words, Fixed, Pieces
<1>2. BlankBefore(t)' /\ ClearedFirst(t)'
  BY DEF Story, BlankBefore, ClearedFirst, Before, Stages, Cleared
<1>3. LiveSent(t)'
  BY DEF Story, BlankBefore, LiveSent, Before, Words
<1>4. BufferedHeld(t)'
  BY DEF Story, BlankBefore, BufferedHeld, Before, Stages, Buffered, Unvetted, Words, Modes
<1>5. Promises(t)'
  BY DEF Story, BlankBefore, LiveSent, BufferedHeld, Promises, Before, Stages, Buffered, Unvetted, Words, Done
<1>6. /\ held'[t] # {} \/ ledger'[t] # {} => verdict'[t] = "safe"
      /\ \A u \in Turns \ {t} : Same(u)
  BY DEF Story, ClearedFirst, Cleared, Stages, Same
<1> HIDE DEF IInv, TypeOK, LastVet
<1> QED BY <1>1, <1>2, <1>3, <1>4, <1>5, <1>6 DEF Kept, Story

\* The ledger takes what was sent before the appended answer.
LEMMA AppendKept ==
  ASSUME IInv, NEW t \in Turns, Append(t)
  PROVE  Kept(t)
<1> USE DEF IInv, TypeOK, Append, Send, Goto, early, reply
<1>1. Types'
  BY DEF Types, PCs, Modes, Verdicts, Words, Fixed, Pieces
<1>2. BlankBefore(t)' /\ ClearedFirst(t)'
  BY DEF Story, BlankBefore, ClearedFirst, Before, Stages, Cleared
<1>3. LiveSent(t)'
  BY DEF Story, BlankBefore, LiveSent, Before, Words
<1>4. BufferedHeld(t)'
  BY DEF Story, BlankBefore, BufferedHeld, Before, Stages, Buffered, Unvetted, Words, Modes
<1>5. Promises(t)'
  BY DEF Story, BlankBefore, LiveSent, BufferedHeld, Promises, Before, Stages, Buffered, Unvetted, Words, Done
<1>6. /\ held'[t] # {} \/ ledger'[t] # {} => verdict'[t] = "safe"
      /\ \A u \in Turns \ {t} : Same(u)
  BY DEF Story, ClearedFirst, Cleared, Stages, Same
<1> HIDE DEF IInv, TypeOK, Append
<1> QED BY <1>1, <1>2, <1>3, <1>4, <1>5, <1>6 DEF Kept, Story

\* A failure adds a notice and teaches the ledger nothing.
LEMMA TutorFailsKept ==
  ASSUME IInv, NEW t \in Turns, TutorFails(t)
  PROVE  Kept(t)
<1>0. PICK P \in {{"notice"}, {}} : End(t, P)
  BY DEF TutorFails
<1>a. P \subseteq {"notice"}
  BY <1>0
<1> USE <1>0, <1>a DEF IInv, TypeOK, TutorFails, End, Send, Goto, early, reply
<1>1. Types'
  BY DEF Types, PCs, Modes, Verdicts, Words, Fixed, Pieces
<1>2. BlankBefore(t)' /\ ClearedFirst(t)'
  BY DEF Story, BlankBefore, ClearedFirst, Before, Stages, Cleared
<1>3. LiveSent(t)'
  BY DEF Story, BlankBefore, LiveSent, Before, Words
<1>4. BufferedHeld(t)'
  BY DEF Story, BlankBefore, BufferedHeld, Before, Stages, Buffered, Unvetted, Words, Modes
<1>5. Promises(t)'
  BY DEF Story, BlankBefore, LiveSent, BufferedHeld, Promises, Before, Stages, Buffered, Unvetted, Words, Done
<1>6. /\ held'[t] # {} \/ ledger'[t] # {} => verdict'[t] = "safe"
      /\ \A u \in Turns \ {t} : Same(u)
  BY DEF Story, ClearedFirst, Cleared, Stages, Same
<1> HIDE DEF IInv, TypeOK, TutorFails
<1> QED BY <1>1, <1>2, <1>3, <1>4, <1>5, <1>6 DEF Kept, Story

\* A stream that ends keeps what it sent.
LEMMA StreamEndsKept ==
  ASSUME IInv, NEW t \in Turns, StreamEnds(t)
  PROVE  Kept(t)
<1> USE DEF IInv, TypeOK, StreamEnds, End, Send, Goto, early, reply
<1>1. Types'
  BY DEF Types, PCs, Modes, Verdicts, Words, Fixed, Pieces
<1>2. BlankBefore(t)' /\ ClearedFirst(t)'
  BY DEF Story, BlankBefore, ClearedFirst, Before, Stages, Cleared
<1>3. LiveSent(t)'
  BY DEF Story, BlankBefore, LiveSent, Before, Words
<1>4. BufferedHeld(t)'
  BY DEF Story, BlankBefore, BufferedHeld, Before, Stages, Buffered, Unvetted, Words, Modes
<1>5. Promises(t)'
  BY DEF Story, BlankBefore, LiveSent, BufferedHeld, Promises, Before, Stages, Buffered, Unvetted, Words, Done
<1>6. /\ held'[t] # {} \/ ledger'[t] # {} => verdict'[t] = "safe"
      /\ \A u \in Turns \ {t} : Same(u)
  BY DEF Story, ClearedFirst, Cleared, Stages, Same
<1> HIDE DEF IInv, TypeOK, StreamEnds
<1> QED BY <1>1, <1>2, <1>3, <1>4, <1>5, <1>6 DEF Kept, Story

\* A draft is held only once it is vetted.
LEMMA VetDraftKept ==
  ASSUME IInv, NEW t \in Turns, VetDraft(t)
  PROVE  Kept(t)
<1> USE DEF IInv, TypeOK, VetDraft, End, Send, Goto, Hold, Buffered, early, reply
<1>1. Types'
  BY DEF Types, PCs, Modes, Verdicts, Words, Fixed, Pieces
<1>2. BlankBefore(t)' /\ ClearedFirst(t)'
  BY DEF Story, BlankBefore, ClearedFirst, Before, Stages, Cleared
<1>3. LiveSent(t)'
  BY DEF Story, BlankBefore, LiveSent, Before, Words
<1>4. BufferedHeld(t)'
  BY DEF Story, BlankBefore, BufferedHeld, Before, Stages, Buffered, Unvetted, Words, Modes
<1>5. Promises(t)'
  BY DEF Story, BlankBefore, LiveSent, BufferedHeld, Promises, Before, Stages, Buffered, Unvetted, Words, Done
<1>6. /\ held'[t] # {} \/ ledger'[t] # {} => verdict'[t] = "safe"
      /\ \A u \in Turns \ {t} : Same(u)
  BY DEF Story, ClearedFirst, Cleared, Stages, Same
<1> HIDE DEF IInv, TypeOK, VetDraft
<1> QED BY <1>1, <1>2, <1>3, <1>4, <1>5, <1>6 DEF Kept, Story

\* A raw body is held in a single response only.
LEMMA NotJsonKept ==
  ASSUME IInv, NEW t \in Turns, NotJson(t)
  PROVE  Kept(t)
<1> USE DEF IInv, TypeOK, NotJson, Hold, Goto, early, reply
<1>1. Types'
  BY DEF Types, PCs, Modes, Verdicts, Words, Fixed, Pieces
<1>2. BlankBefore(t)' /\ ClearedFirst(t)'
  BY DEF Story, BlankBefore, ClearedFirst, Before, Stages, Cleared
<1>3. LiveSent(t)'
  BY DEF Story, BlankBefore, LiveSent, Before, Words
<1>4. BufferedHeld(t)'
  BY DEF Story, BlankBefore, BufferedHeld, Before, Stages, Buffered, Unvetted, Words, Modes
<1>5. Promises(t)'
  BY DEF Story, BlankBefore, LiveSent, BufferedHeld, Promises, Before, Stages, Buffered, Unvetted, Words, Done
<1>6. /\ held'[t] # {} \/ ledger'[t] # {} => verdict'[t] = "safe"
      /\ \A u \in Turns \ {t} : Same(u)
  BY DEF Story, ClearedFirst, Cleared, Stages, Same
<1> HIDE DEF IInv, TypeOK, NotJson
<1> QED BY <1>1, <1>2, <1>3, <1>4, <1>5, <1>6 DEF Kept, Story

\* A rewrite is held only once it is vetted.
LEMMA EnforceKept ==
  ASSUME IInv, NEW t \in Turns, Enforce(t)
  PROVE  Kept(t)
<1> USE DEF IInv, TypeOK, Enforce, Rewrite, Hold, Goto, early, reply
<1>1. Types'
  BY DEF Types, PCs, Modes, Verdicts, Words, Fixed, Pieces
<1>2. BlankBefore(t)' /\ ClearedFirst(t)'
  BY DEF Story, BlankBefore, ClearedFirst, Before, Stages, Cleared
<1>3. LiveSent(t)'
  BY DEF Story, BlankBefore, LiveSent, Before, Words
<1>4. BufferedHeld(t)'
  BY DEF Story, BlankBefore, BufferedHeld, Before, Stages, Buffered, Unvetted, Words, Modes
<1>5. Promises(t)'
  BY DEF Story, BlankBefore, LiveSent, BufferedHeld, Promises, Before, Stages, Buffered, Unvetted, Words, Done
<1>6. /\ held'[t] # {} \/ ledger'[t] # {} => verdict'[t] = "safe"
      /\ \A u \in Turns \ {t} : Same(u)
  BY DEF Story, ClearedFirst, Cleared, Stages, Same
<1> HIDE DEF IInv, TypeOK, Enforce
<1> QED BY <1>1, <1>2, <1>3, <1>4, <1>5, <1>6 DEF Kept, Story

\* A repair is held only where the screen is on.
LEMMA ScreenKept ==
  ASSUME IInv, NEW t \in Turns, Screen(t)
  PROVE  Kept(t)
<1> USE DEF IInv, TypeOK, Screen, Rewrite, Hold, Goto, early, reply
<1>1. Types'
  BY DEF Types, PCs, Modes, Verdicts, Words, Fixed, Pieces
<1>2. BlankBefore(t)' /\ ClearedFirst(t)'
  BY DEF Story, BlankBefore, ClearedFirst, Before, Stages, Cleared
<1>3. LiveSent(t)'
  BY DEF Story, BlankBefore, LiveSent, Before, Words
<1>4. BufferedHeld(t)'
  BY DEF Story, BlankBefore, BufferedHeld, Before, Stages, Buffered, Unvetted, Words, Modes
<1>5. Promises(t)'
  BY DEF Story, BlankBefore, LiveSent, BufferedHeld, Promises, Before, Stages, Buffered, Unvetted, Words, Done
<1>6. /\ held'[t] # {} \/ ledger'[t] # {} => verdict'[t] = "safe"
      /\ \A u \in Turns \ {t} : Same(u)
  BY DEF Story, ClearedFirst, Cleared, Stages, Same
<1> HIDE DEF IInv, TypeOK, Screen
<1> QED BY <1>1, <1>2, <1>3, <1>4, <1>5, <1>6 DEF Kept, Story

\* The suffix adds no word of the tutor.
LEMMA SuffixKept ==
  ASSUME IInv, NEW t \in Turns, Suffix(t)
  PROVE  Kept(t)
<1> USE DEF IInv, TypeOK, Suffix, Hold, Goto, early, reply
<1>1. Types'
  BY DEF Types, PCs, Modes, Verdicts, Words, Fixed, Pieces
<1>2. BlankBefore(t)' /\ ClearedFirst(t)'
  BY DEF Story, BlankBefore, ClearedFirst, Before, Stages, Cleared
<1>3. LiveSent(t)'
  BY DEF Story, BlankBefore, LiveSent, Before, Words
<1>4. BufferedHeld(t)'
  BY DEF Story, BlankBefore, BufferedHeld, Before, Stages, Buffered, Unvetted, Words, Modes
<1>5. Promises(t)'
  BY DEF Story, BlankBefore, LiveSent, BufferedHeld, Promises, Before, Stages, Buffered, Unvetted, Words, Done
<1>6. /\ held'[t] # {} \/ ledger'[t] # {} => verdict'[t] = "safe"
      /\ \A u \in Turns \ {t} : Same(u)
  BY DEF Story, ClearedFirst, Cleared, Stages, Same
<1> HIDE DEF IInv, TypeOK, Suffix
<1> QED BY <1>1, <1>2, <1>3, <1>4, <1>5, <1>6 DEF Kept, Story

\* A reminder that is taken is held, in a response to be written anew.
LEMMA FinishKept ==
  ASSUME IInv, NEW t \in Turns, Finish(t)
  PROVE  Kept(t)
<1> USE DEF IInv, TypeOK, Finish, Hold, Goto, due, Reminder, early, reply
<1>1. Types'
  BY DEF Types, PCs, Modes, Verdicts, Words, Fixed, Pieces
<1>2. BlankBefore(t)' /\ ClearedFirst(t)'
  BY DEF Story, BlankBefore, ClearedFirst, Before, Stages, Cleared
<1>3. LiveSent(t)'
  BY DEF Story, BufferedHeld, LiveSent, Stages, Buffered
<1>4. BufferedHeld(t)'
  BY DEF Story, BlankBefore, BufferedHeld, Before, Stages, Buffered, Unvetted, Words, Modes
<1>5. Promises(t)'
  BY DEF Story, BlankBefore, LiveSent, BufferedHeld, Promises, Before, Stages, Buffered, Unvetted, Words, Done
<1>6. /\ held'[t] # {} \/ ledger'[t] # {} => verdict'[t] = "safe"
      /\ \A u \in Turns \ {t} : Same(u)
  BY DEF Story, ClearedFirst, Cleared, Stages, Same
<1> HIDE DEF IInv, TypeOK, Finish
<1> QED BY <1>1, <1>2, <1>3, <1>4, <1>5, <1>6 DEF Kept, Story

\* What is remembered is what is delivered, but for the suffix of an unmarked response.
LEMMA RespondKept ==
  ASSUME IInv, NEW t \in Turns, Respond(t)
  PROVE  Kept(t)
<1> USE DEF IInv, TypeOK, Respond, Send, Goto, Rewrite, Hold, Delivered, Buffered, early, reply
<1>1. Types'
  BY DEF Types, PCs, Modes, Verdicts, Words, Fixed, Pieces
<1>2. BlankBefore(t)' /\ ClearedFirst(t)'
  BY DEF Story, BlankBefore, ClearedFirst, Before, Stages, Cleared
<1>3. LiveSent(t)'
  BY DEF Story, BlankBefore, LiveSent, Before, Words
<1>4. BufferedHeld(t)'
  BY DEF Story, BlankBefore, BufferedHeld, Before, Stages, Buffered, Unvetted, Words, Modes
<1>5. Promises(t)'
  <2>1. /\ mode' = mode /\ vetted' = vetted /\ disclosed' = disclosed /\ taken' = taken
        /\ pc'[t] = "over" /\ mode[t] \in {"buffered", "single"} /\ sent[t] = {} /\ ledger[t] = {}
        /\ sent'[t] = Delivered(t) /\ held'[t] \in SUBSET Pieces
    BY DEF Story, BufferedHeld, Pieces, Fixed, Words
  <2>2. /\ held[t] \subseteq Words \cup {"suffix", "reminder"} /\ ("reminder" \in held[t] => t \in rewritten)
        /\ (held[t] \cap Words) \ vetted[t] \subseteq Unvetted(t) /\ (t \in taken => "reminder" \in held[t])
        /\ (t \in disclosed => "suffix" \in held[t] \/ held[t] = {"raw"})
    BY <2>1 DEF Story, BufferedHeld
  <2>3. CASE held[t] = {"raw"}
    <3>1. held' = held /\ rewritten' = rewritten /\ ledger' = ledger
      BY <2>3
    <3> HIDE DEF IInv, TypeOK, Respond
    <3> QED BY <2>1, <2>2, <2>3, <3>1 DEF Promises, Unvetted, Words, Done
  <2>4. CASE held[t] # {"raw"} /\ held' = held /\ rewritten' = rewritten
    <3>1. ledger'[t] = held[t]
      BY <2>4
    <3> HIDE DEF IInv, TypeOK, Respond
    <3>2. CASE mode[t] = "single" /\ t \notin rewritten
      <4>1. sent'[t] = held[t] \cap Words /\ held[t] \subseteq Words \cup {"suffix"} /\ t \notin taken
        BY <2>1, <2>2, <2>4, <3>2
      <4> QED BY <2>1, <2>2, <2>4, <3>1, <3>2, <4>1 DEF Promises, Unvetted, Words, Done
    <3>3. CASE ~(mode[t] = "single" /\ t \notin rewritten)
      <4>1. sent'[t] = held[t]
        BY <2>1, <2>4, <3>3
      <4> QED BY <2>1, <2>2, <2>4, <3>1, <3>3, <4>1 DEF Promises, Unvetted, Words, Done
    <3> QED BY <3>2, <3>3
  <2>5. CASE held[t] # {"raw"} /\ Rewrite(t, {"override"})
    <3>1. held'[t] = {"override"} /\ t \in rewritten' /\ ledger'[t] = {"override"} /\ sent'[t] = {"override"}
      BY <2>1, <2>5
    <3> HIDE DEF IInv, TypeOK, Respond
    <3> QED BY <2>1, <3>1 DEF Promises, Unvetted, Words, Done
  <2> QED BY <2>3, <2>4, <2>5
<1>6. /\ held'[t] # {} \/ ledger'[t] # {} => verdict'[t] = "safe"
      /\ \A u \in Turns \ {t} : Same(u)
  BY DEF Story, ClearedFirst, Cleared, Stages, Same
<1> HIDE DEF IInv, TypeOK, Respond
<1> QED BY <1>1, <1>2, <1>3, <1>4, <1>5, <1>6 DEF Kept, Story

------------------------------------------------------------------------------
\* The invariant is inductive.
LEMMA NextIInv == IInv /\ [Next]_vars => IInv'
<1> SUFFICES ASSUME IInv, [Next]_vars PROVE IInv'
  OBVIOUS
<1>1. CASE UNCHANGED vars \/ IntervalPasses
  <2>1. /\ UNCHANGED <<pc, mode, verdict, disclosed, held, rewritten, vetted, sent, ledger, taken>>
        /\ owed' \in BOOLEAN
    BY <1>1 DEF vars, IntervalPasses, early, reply, IInv, TypeOK
  <2>2. \A t \in Turns : Same(t)
    BY <2>1 DEF Same
  <2>3. \A t \in Turns : Story(t)' /\ Promises(t)'
    BY <2>2, SameKeeps DEF IInv
  <2>4. TypeOK'
    BY <2>1 DEF IInv, TypeOK
  <2> QED BY <2>3, <2>4 DEF IInv
<1>2. ASSUME NEW t \in Turns, Arrive(t) \/ Step(t)
      PROVE  IInv'
  <2>1. Kept(t)
    BY <1>2, ArriveKept, CheckInputKept, AdjudicateKept, TopicGateKept, CheckpointKept, LastVetKept,
       AppendKept, TutorFailsKept, StreamEndsKept, VetDraftKept, NotJsonKept, EnforceKept, ScreenKept,
       SuffixKept, FinishKept, RespondKept
    DEF Step
  <2> QED BY <2>1, KeptIInv
<1> QED BY <1>1, <1>2 DEF Next

\* The invariant holds in every reachable state.
THEOREM Invariance == Spec => []IInv
<1>1. Init => IInv
  BY InitIInv
<1>2. IInv /\ [Next]_vars => IInv'
  BY NextIInv
<1> QED BY <1>1, <1>2, PTL DEF Spec

\* The types, and no reply without a cleared text.
THEOREM TypeCorrect == Spec => []TypeOK
<1>1. IInv => TypeOK
  BY DEF IInv
<1> QED BY <1>1, Invariance, PTL

\* No word of the tutor reaches a child unvetted, but for the two exceptions of the code.
THEOREM Vetted == Spec => []VettedOnly
<1>1. IInv => VettedOnly
  BY DEF IInv, Promises, VettedOnly, Unvetted
<1> QED BY <1>1, Invariance, PTL

\* The ledger remembers what was delivered, but for the suffix and the appended answer.
THEOREM LedgerTrue == Spec => []LedgerIsWhatWasSent
<1>1. IInv => LedgerIsWhatWasSent
  BY DEF IInv, Promises, LedgerIsWhatWasSent
<1> QED BY <1>1, Invariance, PTL

\* A reminder due() granted ships, or the answer to a disclosure in its place.
THEOREM ReminderShipped == Spec => []ReminderShips
<1>1. IInv => ReminderShips
  <2> SUFFICES ASSUME IInv PROVE ReminderShips
    OBVIOUS
  <2>1. taken \subseteq Turns
    BY DEF IInv, TypeOK
  <2> QED BY <2>1 DEF IInv, Promises, ReminderShips
<1> QED BY <1>1, Invariance, PTL

\* A disclosing child whose reply is buffered is given the resource with the tutor's words.
THEOREM ResourceGiven == Spec => []ResourceReaches
<1>1. IInv => ResourceReaches
  <2> SUFFICES ASSUME IInv PROVE ResourceReaches
    OBVIOUS
  <2>1. disclosed \subseteq Turns
    BY DEF IInv, TypeOK
  <2> QED BY <2>1 DEF IInv, Promises, ResourceReaches
<1> QED BY <1>1, Invariance, PTL

------------------------------------------------------------------------------
\* Refinement: the stage of a turn and the words it has shown are those of TurnGate.

AllStages  == [t \in Turns |-> Stage(t)]
Heard(t) == sent[t] \cap Words # {}
AllHeard  == {t \in Turns : Heard(t)}

\* A step of turn t is one of TurnGate's, or none.
Gated(t) ==
  /\ \A u \in Turns \ {t} : Stage(u)' = Stage(u) /\ (Heard(u)' <=> Heard(u))
  /\ \/ Stage(t)' = Stage(t) /\ (Heard(t)' <=> Heard(t))
     \/ Stage(t) = "unasked" /\ Stage(t)' = "asked" /\ (Heard(t)' <=> Heard(t))
     \/ Stage(t) = "asked" /\ Stage(t)' = "cleared" /\ (Heard(t)' <=> Heard(t))
     \/ Stage(t) = "cleared" /\ Stage(t)' = "cleared" /\ Heard(t)'
     \/ /\ Stage(t) # "over" /\ Stage(t)' = "over"
        /\ (Heard(t)' <=> Heard(t)) \/ (Stage(t) = "cleared" /\ Heard(t)')

\* A gated step is one of TurnGate's on the mapped state.
LEMMA GatedStep ==
  ASSUME NEW t \in Turns, Gated(t)
  PROVE  [Gate!Next]_<<AllStages, AllHeard>>
<1>1. \A u \in Turns : AllStages[u] = Stage(u) /\ AllStages'[u] = Stage(u)'
  BY DEF AllStages
<1>2. \A u \in Turns : (u \in AllHeard <=> Heard(u)) /\ (u \in AllHeard' <=> Heard(u)')
  BY DEF AllHeard
<1>3. AllHeard \subseteq Turns /\ AllHeard' \subseteq Turns
  BY DEF AllHeard
<1>4. AllStages' = [AllStages EXCEPT ![t] = Stage(t)']
  <2>1. \A u \in Turns : AllStages'[u] = IF u = t THEN Stage(t)' ELSE AllStages[u]
    BY <1>1 DEF Gated
  <2> QED BY <2>1 DEF AllStages
<1>5. (Heard(t)' <=> Heard(t)) => AllHeard' = AllHeard
  BY <1>2, <1>3 DEF Gated
<1>6. Heard(t)' => AllHeard' = AllHeard \cup {t}
  BY <1>2, <1>3 DEF Gated
<1>7. Stage(t)' = Stage(t) => AllStages' = AllStages
  BY <1>1, <1>4 DEF AllStages
<1>8. AllStages[t] = Stage(t)
  BY <1>1
<1> QED
  BY <1>4, <1>5, <1>6, <1>7, <1>8
  DEF Gated, Gate!Next, Gate!Ask, Gate!Clear, Gate!Show, Gate!Close, AllStages, AllHeard, Heard

\* The part of Gated about turn t itself.
OwnGated(t) ==
  \/ Stage(t)' = Stage(t) /\ (Heard(t)' <=> Heard(t))
  \/ Stage(t) = "unasked" /\ Stage(t)' = "asked" /\ (Heard(t)' <=> Heard(t))
  \/ Stage(t) = "asked" /\ Stage(t)' = "cleared" /\ (Heard(t)' <=> Heard(t))
  \/ Stage(t) = "cleared" /\ Stage(t)' = "cleared" /\ Heard(t)'
  \/ /\ Stage(t) # "over" /\ Stage(t)' = "over"
     /\ (Heard(t)' <=> Heard(t)) \/ (Stage(t) = "cleared" /\ Heard(t)')

\* Where a turn is tells its stage.
LEMMA StageIs ==
  ASSUME IInv, NEW t \in Turns
  PROVE  /\ pc[t] = "idle" => Stage(t) = "unasked"
         /\ pc[t] = "over" => Stage(t) = "over"
         /\ pc[t] \in {"input", "adjudicate"} => Stage(t) = "asked"
         /\ pc[t] \in Cleared => Stage(t) = "cleared"
BY DEF IInv, Story, ClearedFirst, Cleared, Stages, Stage

\* A turn of the proxy takes TurnGate's steps.
LEMMA StepIsGated ==
  ASSUME IInv, NEW t \in Turns, Arrive(t) \/ Step(t)
  PROVE  Gated(t)
<1>1. Kept(t)
  BY ArriveKept, CheckInputKept, AdjudicateKept, TopicGateKept, CheckpointKept, LastVetKept,
     AppendKept, TutorFailsKept, StreamEndsKept, VetDraftKept, NotJsonKept, EnforceKept, ScreenKept,
     SuffixKept, FinishKept, RespondKept
  DEF Step
<1>2. IInv'
  BY <1>1, KeptIInv
<1>3. \A u \in Turns \ {t} : Stage(u)' = Stage(u) /\ (Heard(u)' <=> Heard(u))
  BY <1>1 DEF Kept, Same, Stage, Heard
<1>4. OwnGated(t)
  <2>1. /\ pc'[t] = "over" => Stage(t)' = "over"
        /\ pc'[t] \in {"input", "adjudicate"} => Stage(t)' = "asked"
        /\ pc'[t] \in Cleared => Stage(t)' = "cleared"
    BY <1>2 DEF IInv, Story, ClearedFirst, Cleared, Stages, Stage
  <2>2. /\ pc[t] = "idle" => Stage(t) = "unasked"
        /\ pc[t] \in {"input", "adjudicate"} => Stage(t) = "asked"
        /\ pc[t] \in Cleared => Stage(t) = "cleared"
    BY StageIs
  <2>3. pc \in [Turns -> PCs] /\ sent \in [Turns -> SUBSET Pieces] /\ pc' \in [Turns -> PCs]
    BY <1>2 DEF IInv, TypeOK
  <2>4. pc[t] \in Before => ~Heard(t)
    BY DEF IInv, Story, BlankBefore, Heard
  <2> USE DEF Cleared, Stages, Before, Heard, OwnGated
  <2>5. CASE Arrive(t)
    BY <2>5, <2>1, <2>2, <2>3, <2>4 DEF Arrive, End, Send, Goto, Words
  <2>6. CASE CheckInput(t)
    BY <2>6, <2>1, <2>2, <2>3, <2>4 DEF CheckInput, End, Send, Goto, Words
  <2>7. CASE Adjudicate(t)
    BY <2>7, <2>1, <2>2, <2>3, <2>4 DEF Adjudicate, End, Send, Goto, Words
  <2>8. CASE TopicGate(t)
    BY <2>8, <2>1, <2>2, <2>3, <2>4 DEF TopicGate, End, Send, Goto, Words
  <2>9. CASE Checkpoint(t)
    BY <2>9, <2>1, <2>2, <2>3, <2>4 DEF Checkpoint, End, Send, Goto, Words
  <2>10. CASE LastVet(t)
    BY <2>10, <2>1, <2>2, <2>3, <2>4 DEF LastVet, End, Send, Goto, Words
  <2>11. CASE Append(t)
    BY <2>11, <2>1, <2>2, <2>3, <2>4 DEF Append, End, Send, Goto, Words
  <2>12. CASE TutorFails(t)
    BY <2>12, <2>1, <2>2, <2>3, <2>4 DEF TutorFails, End, Send, Goto, Words
  <2>13. CASE StreamEnds(t)
    BY <2>13, <2>1, <2>2, <2>3, <2>4 DEF StreamEnds, End, Send, Goto, Words
  <2>14. CASE VetDraft(t)
    BY <2>14, <2>1, <2>2, <2>3, <2>4 DEF VetDraft, End, Send, Goto, Words
  <2>15. CASE NotJson(t)
    BY <2>15, <2>1, <2>2, <2>3, <2>4 DEF NotJson, End, Send, Goto, Words
  <2>16. CASE Enforce(t)
    BY <2>16, <2>1, <2>2, <2>3, <2>4 DEF Enforce, Goto
  <2>17. CASE Screen(t)
    BY <2>17, <2>1, <2>2, <2>3, <2>4 DEF Screen, Goto
  <2>18. CASE Suffix(t)
    BY <2>18, <2>1, <2>2, <2>3, <2>4 DEF Suffix, Goto
  <2>19. CASE Finish(t)
    BY <2>19, <2>1, <2>2, <2>3, <2>4 DEF Finish, Goto
  <2>20. CASE Respond(t)
    <3>1. pc[t] = "verdict" /\ pc'[t] = "over" /\ sent[t] \subseteq sent'[t]
      BY <2>20, <2>3 DEF Respond, Goto, Send
    <3> QED BY <2>1, <2>2, <3>1
  <2> QED BY <2>5, <2>6, <2>7, <2>8, <2>9, <2>10, <2>11, <2>12,
             <2>13, <2>14, <2>15, <2>16, <2>17, <2>18, <2>19, <2>20 DEF Step
<1> QED BY <1>3, <1>4 DEF Gated, OwnGated

\* Every turn of the proxy is one of TurnGate's.
THEOREM TurnGateSafety == Spec => Gate!Safety
<1>1. Init => Gate!Init
  <2> SUFFICES ASSUME Init PROVE Gate!Init
    OBVIOUS
  <2>1. \A t \in Turns : Stage(t) = "unasked" /\ sent[t] = {}
    BY DEF Init, Stage
  <2> QED BY <2>1 DEF Gate!Init
<1>2. IInv /\ [Next]_vars => [Gate!Next]_<<AllStages, AllHeard>>
  <2> SUFFICES ASSUME IInv, [Next]_vars PROVE [Gate!Next]_<<AllStages, AllHeard>>
    OBVIOUS
  <2>1. CASE UNCHANGED vars \/ IntervalPasses
    <3>1. UNCHANGED <<pc, verdict, sent>>
      BY <2>1 DEF vars, early, IntervalPasses
    <3> QED BY <3>1 DEF AllStages, AllHeard, Stage, Heard
  <2>2. ASSUME NEW t \in Turns, Arrive(t) \/ Step(t) PROVE [Gate!Next]_<<AllStages, AllHeard>>
    BY <2>2, StepIsGated, GatedStep
  <2> QED BY <2>1, <2>2 DEF Next
<1>3. Spec => [][Gate!Next]_<<AllStages, AllHeard>>
  BY <1>2, Invariance, PTL DEF Spec
<1> QED BY <1>1, <1>3, PTL DEF Spec, Gate!Safety, AllStages, AllHeard, Heard
=============================================================================
