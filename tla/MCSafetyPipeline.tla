-------------------------- MODULE MCSafetyPipeline --------------------------
(* Message sets for TLC: every message one check can meet, and the few that *)
(* make concurrent checks interfere.                                        *)
EXTENDS SafetyPipeline, TLC

CONSTANTS c1, c2

\* A message nothing is remarkable about.
Plain == [dir |-> "output", where |-> "thread", valid |-> TRUE, det |-> "none",
          stripped |-> FALSE, edu |-> FALSE, child |-> FALSE, gated |-> FALSE]

Question == [Plain EXCEPT !.dir = "input", !.where = "loop"]

\* A streamed reply, with and without a match to defer, beside a student's question.
Streamed ==
  {Plain, [Plain EXCEPT !.det = "topic"], [Plain EXCEPT !.det = "self_harm"],
   [Plain EXCEPT !.det = "topic", !.child = TRUE],
   [Question EXCEPT !.det = "topic", !.edu = TRUE], [Question EXCEPT !.edu = TRUE],
   [Question EXCEPT !.det = "stem", !.edu = TRUE]}

\* Every message there is, checked on the event loop, where only one check can
\* run at a time; what stage 1 and the age gate find is independent of the rest.
OnLoop == {m \in AllMessages : m.where = "loop" /\ (~m.valid => m.gated)}

\* Two messages that are enough for the probe and a streamed check to race.
Race == {[Plain EXCEPT !.det = "topic"]}

MCSymmetry == Permutations({c1, c2})
=============================================================================
