---------------------------- MODULE MCAdmission ----------------------------
(* Small boxes for TLC: turns t1, t2, ... are routed to the workers below. *)
EXTENDS Admission, TLC

CONSTANTS w1, w2, t1, t2, t3, t4

\* Three turns on one worker, where they queue, and one on another.
MCHome == t1 :> w1 @@ t2 :> w1 @@ t3 :> w1 @@ t4 :> w2

\* What the rest of a behaviour can depend on: a deadline and an answer no longer
\* matter to a turn once it is over.
MCView ==
  <<pc, [t \in Turns |-> IF pc[t] \in Ended THEN "none" ELSE answer[t]], depth,
    late \cap At(Waiting \cup Gating), queue, permits, waiting, ready, rows, expired>>
=============================================================================
