---------------------------- MODULE MCIncidents ----------------------------
(* Calls c1 and c2 about the first child race on two workers, c3 is about the *)
(* second child; the monitor alerts at the first child's second message.      *)
EXTENDS Incidents, TLC

CONSTANTS w1, w2, p1, p2, c1, c2, c3, m1, m2

MCHome       == c1 :> w1 @@ c2 :> w2 @@ c3 :> w2 @@ m1 :> w1 @@ m2 :> w1
MCProfileOf  == c1 :> p1 @@ c2 :> p1 @@ c3 :> p2 @@ m1 :> p1 @@ m2 :> p1
MCSeverityOf == c1 :> "critical" @@ c2 :> "major" @@ c3 :> "minor"
                @@ m1 :> "major" @@ m2 :> "major"
MCThreshold  == "critical" :> 1 @@ "major" :> 2 @@ "minor" :> 2
=============================================================================
