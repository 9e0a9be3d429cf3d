------------------------------ MODULE ChatTurn ------------------------------
(***************************************************************************)
(* A student's turn through the proxy (api/routes/ollama_proxy/chat.py),   *)
(* from the gates in front of it to the bytes that leave.                  *)
(*                                                                         *)
(* Turns of one child run concurrently, on one worker or on several; what  *)
(* happens between two awaits of the handler is one step.  A reply is the  *)
(* set of the pieces it is made of.  What a stage finds is chosen when the *)
(* stage runs; the stages themselves (SafetyPipeline, Disclosure) and the  *)
(* clocks behind the break reminder and the ledger (Windows) have modules  *)
(* of their own: here the reminder is owed or not.                         *)
(*                                                                         *)
(* Left out: tracing, request rewriting (model pin, system messages,       *)
(* arithmetic note), the turn cap, and what the rows of a block say.       *)
(***************************************************************************)
EXTENDS Naturals, FiniteSets

CONSTANTS
  Turns,
  Features  \* of FeatureSet: the switches that are on

FeatureSet == {"live", "enforcer", "adjudicator", "topic", "sycophancy", "wording"}

ASSUME FeaturesAssumption == Features \subseteq FeatureSet

VARIABLES
  pc,         \* where each turn's handler is
  mode,       \* "live" hold-back stream, "buffered" stream, or "single" response
  verdict,    \* what the input check, or the adjudicator, said
  disclosed,  \* the regex found a disclosure that calls for a crisis resource
  held,       \* the reply as it stands, before anything is sent
  rewritten,  \* turns whose response is written anew instead of passing the tutor's on
  vetted,     \* the pieces check_output has cleared
  sent,       \* the pieces the child was sent
  ledger,     \* the reply the history ledger remembers, if it does
  owed,       \* a break reminder is due
  taken       \* turns whose due() answered TRUE

vars == <<pc, mode, verdict, disclosed, held, rewritten, vetted, sent, ledger, owed, taken>>
early == <<mode, verdict, disclosed>>
reply == <<held, rewritten>>

\* The tutor's words: the two halves of a live reply, a whole reply, the enforcer's
\* rewrite of it, the repair of the S9051B screen, an upstream body that is no JSON.
Words    == {"first", "rest", "draft", "rewrite", "repair", "raw"}
\* The proxy's own: the crisis suffix, the reminder, the answer to a disclosure, the
\* text in place of a blocked one, and the notices of refusals and failures.
Fixed    == {"suffix", "reminder", "override", "block", "notice"}
Pieces   == Words \cup Fixed
Modes    == {"live", "buffered", "single"}
Verdicts == {"none", "safe", "derogatory", "harmful"}
PCs      == {"idle", "input", "adjudicate", "topic", "tutor", "streaming", "enforce",
             "screen", "suffix", "finish", "verdict", "over"}

Goto(t, s)   == pc' = [pc EXCEPT ![t] = s]
Send(t, P)   == sent' = [sent EXCEPT ![t] = @ \cup P]
Hold(t, P)   == held' = [held EXCEPT ![t] = P]
\* The turn ends with these pieces, and the ledger learns nothing of it.
End(t, P)    == Send(t, P) /\ Goto(t, "over") /\ UNCHANGED ledger

Init ==
  /\ pc = [t \in Turns |-> "idle"]
  /\ mode = [t \in Turns |-> "single"]
  /\ verdict = [t \in Turns |-> "none"]
  /\ disclosed = {}
  /\ held = [t \in Turns |-> {}]
  /\ rewritten = {}
  /\ vetted = [t \in Turns |-> {}]
  /\ sent = [t \in Turns |-> {}]
  /\ ledger = [t \in Turns |-> {}]
  /\ owed = FALSE
  /\ taken = {}

------------------------------------------------------------------------------
\* In front of the tutor

\* Rate limit, circuit, license, serving plan, profile, COPPA consent.
Arrive(t) ==
  /\ pc[t] = "idle"
  /\ \/ Goto(t, "input") /\ UNCHANGED <<sent, ledger>>
     \/ End(t, {"notice"})
  /\ UNCHANGED <<early, reply, vetted, owed, taken>>

\* Mutant: a check that raises lets the turn through.
CheckInputOpen(t) ==
  /\ pc[t] = "input" /\ Goto(t, "topic")
  /\ UNCHANGED <<early, reply, vetted, sent, ledger, owed, taken>>

\* check_input, the regex, and the enqueueing of the semantic pass; a check that raises
\* ends the turn, and a harmful one gets the block message.
CheckInput(t) ==
  /\ pc[t] = "input"
  /\ \/ /\ \E v \in Verdicts \ {"none"} : \E d \in {{}, {t}} :
             /\ verdict' = [verdict EXCEPT ![t] = v]
             /\ disclosed' = disclosed \cup d
             /\ CASE v = "safe" -> Goto(t, "topic") /\ UNCHANGED <<sent, ledger>>
                  [] v = "derogatory" /\ "adjudicator" \in Features ->
                       Goto(t, "adjudicate") /\ UNCHANGED <<sent, ledger>>
                  [] OTHER -> End(t, {"block"})
     \/ End(t, {"notice"}) /\ UNCHANGED <<verdict, disclosed>>
  /\ UNCHANGED <<mode, reply, vetted, owed, taken>>

\* The speech-act adjudicator releases a derogatory turn, or the block stands; an error
\* keeps the block.
Adjudicate(t) ==
  /\ pc[t] = "adjudicate"
  /\ \/ verdict' = [verdict EXCEPT ![t] = "safe"] /\ Goto(t, "topic") /\ UNCHANGED <<sent, ledger>>
     \/ End(t, {"block"}) /\ UNCHANGED verdict
  /\ UNCHANGED <<mode, disclosed, reply, vetted, owed, taken>>

\* The topic gate, and the choice of how to serve: homework is never streamed live.
TopicGate(t) ==
  /\ pc[t] = "topic"
  /\ \/ /\ Goto(t, "tutor") /\ UNCHANGED <<sent, ledger>>
        /\ \E m \in Modes \ (IF "live" \in Features THEN {} ELSE {"live"}) :
             mode' = [mode EXCEPT ![t] = m]
     \/ "topic" \in Features /\ End(t, {"block"}) /\ UNCHANGED mode
  /\ UNCHANGED <<verdict, disclosed, reply, vetted, owed, taken>>

------------------------------------------------------------------------------
\* The break reminder

\* due(): the clock starts again when it answers TRUE.
due(t) ==
  /\ owed' = FALSE
  /\ taken' = IF owed THEN taken \cup {t} ELSE taken
Reminder == IF owed THEN {"reminder"} ELSE {}

IntervalPasses == owed' = TRUE /\ UNCHANGED <<pc, early, reply, vetted, sent, ledger, taken>>

------------------------------------------------------------------------------
\* Live: hold-back streaming

\* Mutant: the clock is asked before the part is vetted.
CheckpointAsksFirst(t) ==
  /\ pc[t] = "tutor" /\ mode[t] = "live"
  /\ due(t)
  /\ \/ /\ vetted' = [vetted EXCEPT ![t] = @ \cup {"first"}]
        /\ Send(t, Reminder \cup {"first"}) /\ Goto(t, "streaming") /\ UNCHANGED ledger
     \/ End(t, {"block"}) /\ UNCHANGED vetted
  /\ UNCHANGED <<early, reply>>

\* The first sentence is vetted before it is flushed, with the reminder ahead of it.
Checkpoint(t) ==
  /\ pc[t] = "tutor" /\ mode[t] = "live"
  /\ \/ /\ vetted' = [vetted EXCEPT ![t] = @ \cup {"first"}]
        /\ due(t) /\ Send(t, Reminder \cup {"first"}) /\ Goto(t, "streaming") /\ UNCHANGED ledger
     \/ End(t, {"block"}) /\ UNCHANGED <<vetted, owed, taken>>
  /\ UNCHANGED <<early, reply>>

\* The whole text is vetted before the rest is flushed; a short reply has no checkpoint.
LastVet(t) ==
  /\ pc[t] \in {"tutor", "streaming"} /\ mode[t] = "live"
  /\ \/ /\ vetted' = [vetted EXCEPT ![t] = @ \cup {"rest"}]
        /\ Send(t, {"rest"}) /\ Goto(t, "verdict") /\ UNCHANGED ledger
     \/ End(t, {"block"}) /\ UNCHANGED vetted
  /\ UNCHANGED <<early, reply, owed, taken>>

\* The disclosure verdict is awaited and its answer appended; the ledger remembers the
\* reminder and the tutor's text.
Append(t) ==
  /\ pc[t] = "verdict" /\ mode[t] = "live"
  /\ \E o \in IF "wording" \in Features THEN {{}, {"override"}} ELSE {{}} : Send(t, o)
  /\ ledger' = [ledger EXCEPT ![t] = sent[t]]
  /\ Goto(t, "over")
  /\ UNCHANGED <<early, reply, vetted, owed, taken>>

\* The tutor cannot be reached or times out, and the child is told so; or the call fails
\* otherwise, and the proxy answers with an error.
TutorFails(t) ==
  /\ pc[t] \in {"tutor", "streaming"} /\ (pc[t] = "streaming" => mode[t] = "live")
  /\ \E P \in {{"notice"}, {}} : End(t, P)
  /\ UNCHANGED <<early, reply, vetted, owed, taken>>

\* The client goes away, or another exception ends the stream.
StreamEnds(t) ==
  /\ pc[t] \in {"tutor", "streaming", "verdict"} /\ mode[t] = "live"
  /\ End(t, {})
  /\ UNCHANGED <<early, reply, vetted, owed, taken>>

------------------------------------------------------------------------------
\* Buffered: the whole reply is here before a byte leaves

Buffered(t) == mode[t] \in {"buffered", "single"}

\* A stage that changes the reply marks it to be written anew.
Rewrite(t, P) == Hold(t, P) /\ rewritten' = rewritten \cup {t}

\* check_output; it raises, blocks, or clears the draft, whose reasoning is stripped.
VetDraft(t) ==
  /\ pc[t] = "tutor" /\ Buffered(t)
  /\ \/ /\ Hold(t, {"draft"}) /\ vetted' = [vetted EXCEPT ![t] = @ \cup {"draft"}]
        /\ \E thinking \in {{}, {t}} : rewritten' = rewritten \cup thinking
        /\ Goto(t, "enforce") /\ UNCHANGED <<sent, ledger>>
     \/ \E p \in {"block", "notice"} : End(t, {p}) /\ UNCHANGED <<reply, vetted>>
  /\ UNCHANGED <<early, owed, taken>>

\* A body that is no JSON object skips every stage that reads the reply.  So does one
\* without a message, once the empty text is vetted: an empty reply is remembered.
NotJson(t) ==
  /\ pc[t] = "tutor" /\ mode[t] = "single"
  /\ Hold(t, {"raw"}) /\ Goto(t, "verdict")
  /\ UNCHANGED <<early, rewritten, vetted, sent, ledger, owed, taken>>

\* Mutant: the rewrite is served as it comes.
EnforceTrusting(t) ==
  /\ pc[t] = "enforce"
  /\ Rewrite(t, {"rewrite"}) /\ Goto(t, "screen")
  /\ UNCHANGED <<early, vetted, sent, ledger, owed, taken>>

\* enforce_guidance: a rewrite is vetted again, and dropped on any doubt.
Enforce(t) ==
  /\ pc[t] = "enforce" /\ Goto(t, "screen")
  /\ \/ UNCHANGED <<reply, vetted>>
     \/ /\ "enforcer" \in Features
        /\ Rewrite(t, {"rewrite"}) /\ vetted' = [vetted EXCEPT ![t] = @ \cup {"rewrite"}]
  /\ UNCHANGED <<early, sent, ledger, owed, taken>>

\* The S9051B screen: one regeneration, looked at for phrases only.
Screen(t) ==
  /\ pc[t] = "screen" /\ Goto(t, "suffix")
  /\ \/ UNCHANGED reply
     \/ "sycophancy" \in Features /\ Rewrite(t, {"repair"})
  /\ UNCHANGED <<early, vetted, sent, ledger, owed, taken>>

\* Mutant: no suffix on a reply a stage has rewritten.
SuffixFirstDraft(t) ==
  /\ pc[t] = "suffix" /\ Goto(t, "finish")
  /\ Hold(t, held[t] \cup (IF t \in disclosed \ rewritten THEN {"suffix"} ELSE {}))
  /\ UNCHANGED <<early, rewritten, vetted, sent, ledger, owed, taken>>

\* The crisis resource of a disclosure, which does not mark the reply as changed.
Suffix(t) ==
  /\ pc[t] = "suffix" /\ Goto(t, "finish")
  /\ Hold(t, held[t] \cup (IF t \in disclosed THEN {"suffix"} ELSE {}))
  /\ UNCHANGED <<early, rewritten, vetted, sent, ledger, owed, taken>>

\* Last edits: a narrated age tag is dropped, a reminder that is due goes on top.
Finish(t) ==
  /\ pc[t] = "finish" /\ Goto(t, "verdict")
  /\ due(t)
  /\ Hold(t, held[t] \cup Reminder)
  /\ \E tag \in {{}, {t}} : rewritten' = rewritten \cup tag \cup (IF owed THEN {t} ELSE {})
  /\ UNCHANGED <<early, vetted, sent, ledger>>

\* What leaves: a single response that no stage marked is the tutor's own body.
Delivered(t) ==
  IF mode[t] = "single" /\ t \notin rewritten' THEN held'[t] \cap Words ELSE held'[t]

\* Mutant: the ledger remembers the draft whatever was delivered.
RespondDraft(t) ==
  /\ pc[t] = "verdict" /\ Buffered(t)
  /\ ledger' = [ledger EXCEPT ![t] = {"draft"}]
  /\ Send(t, held[t]) /\ Goto(t, "over")
  /\ UNCHANGED <<early, reply, vetted, owed, taken>>

\* The router replaces the reply to a disclosure; the ledger remembers the reply.
Respond(t) ==
  /\ pc[t] = "verdict" /\ Buffered(t)
  /\ IF held[t] = {"raw"}
     THEN UNCHANGED <<reply, ledger>>
     ELSE /\ \/ UNCHANGED reply
             \/ "wording" \in Features /\ Rewrite(t, {"override"})
          /\ ledger' = [ledger EXCEPT ![t] = held'[t]]
  /\ Send(t, Delivered(t)) /\ Goto(t, "over")
  /\ UNCHANGED <<early, vetted, owed, taken>>

------------------------------------------------------------------------------
Step(t) ==
  \/ CheckInput(t) \/ Adjudicate(t) \/ TopicGate(t)
  \/ Checkpoint(t) \/ LastVet(t) \/ Append(t) \/ TutorFails(t) \/ StreamEnds(t)
  \/ VetDraft(t) \/ NotJson(t) \/ Enforce(t) \/ Screen(t) \/ Suffix(t) \/ Finish(t) \/ Respond(t)

Next == IntervalPasses \/ \E t \in Turns : Arrive(t) \/ Step(t)

Spec == Init /\ [][Next]_vars

\* Every await of the handler is bounded by a timeout of its own, so a turn goes on.
FairSpec == Spec /\ \A t \in Turns : WF_vars(Step(t))

------------------------------------------------------------------------------
Done(t) == pc[t] = "over"

\* Types of the state; a turn whose own text was not cleared has no reply.
TypeOK ==
  /\ pc \in [Turns -> PCs]
  /\ mode \in [Turns -> Modes]
  /\ verdict \in [Turns -> Verdicts]
  /\ disclosed \subseteq Turns /\ taken \subseteq Turns /\ rewritten \subseteq Turns
  /\ held \in [Turns -> SUBSET Pieces]
  /\ vetted \in [Turns -> SUBSET Words]
  /\ sent \in [Turns -> SUBSET Pieces]
  /\ ledger \in [Turns -> SUBSET Pieces]
  /\ owed \in BOOLEAN
  /\ \A t \in Turns : held[t] # {} \/ ledger[t] # {} => verdict[t] = "safe"

\* Every word of the tutor a child has seen, check_output has cleared, on every path and
\* whatever rewrote the reply.  The two exceptions are the code's: the repair of the
\* S9051B screen, and an upstream body that is no JSON.
VettedOnly ==
  \A t \in Turns :
    (sent[t] \cap Words) \ vetted[t] \subseteq
      (IF "sycophancy" \in Features THEN {"repair"} ELSE {})
      \cup (IF mode[t] = "single" THEN {"raw"} ELSE {})

\* "Record the text actually DELIVERED": nothing withheld is remembered, so nothing
\* withheld can be replayed as history.  A crisis suffix the response does not carry is
\* remembered, and an answer appended to a live reply is not.
LedgerIsWhatWasSent ==
  \A t \in Turns : ledger[t] # {} =>
    /\ sent[t] \cap {"block", "notice"} = {}
    /\ \/ ledger[t] = sent[t]
       \/ mode[t] = "live" /\ ledger[t] = sent[t] \ {"override"}
       \/ mode[t] = "single" /\ t \notin rewritten /\ ledger[t] = sent[t] \cup {"suffix"}

\* due() starts the clock again, so a reminder it grants must be in the reply that ships,
\* whatever fails after it; only the router's answer to a disclosure takes its place.
ReminderShips ==
  \A t \in taken : Done(t) => sent[t] \cap {"reminder", "override"} # {}

\* A child who discloses something that calls for a crisis resource is given the resource
\* or the router's answer with the tutor's words, when the reply is buffered: a live reply
\* has no suffix, and a single one that is otherwise unchanged loses it (SuffixServed).
ResourceReaches ==
  \A t \in disclosed : Done(t) /\ sent[t] \cap (Words \ {"raw"}) # {} =>
    \/ "suffix" \in sent[t]
    \/ mode[t] = "live"
    \/ mode[t] = "single" /\ t \notin rewritten

\* "Append a crisis resource for a disclosure": a reply that goes out whole carries it.
\* Violated: the suffix does not mark a single response to be written anew.
SuffixServed ==
  \A t \in disclosed : Done(t) /\ Buffered(t) /\ "draft" \in sent[t] => "suffix" \in sent[t]

\* Where a turn is, seen from outside.
Stage(t) ==
  CASE pc[t] = "idle" -> "unasked"
    [] pc[t] = "over" -> "over"
    [] pc[t] \notin {"idle", "over"} /\ verdict[t] = "safe" -> "cleared"
    [] OTHER -> "asked"

Gate == INSTANCE TurnGate
  WITH stage <- [t \in Turns |-> Stage(t)],
       heard <- {t \in Turns : sent[t] \cap Words # {}}

\* Whatever the switches, a turn keeps what TurnGate promises: no word of the tutor
\* before the child's own text was cleared, nothing after the end, and an end.
KeepsTheGate == Gate!Spec
=============================================================================
