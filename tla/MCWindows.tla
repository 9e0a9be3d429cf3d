---------------------------- MODULE MCWindows ----------------------------
(* Workers that share the files are alike. *)
EXTENDS Windows, TLC

CONSTANTS w1, w2

MCSymmetry == Permutations(Workers \ Isolated)
=============================================================================
