----------------------------- MODULE MCWorker -----------------------------
(* Model-checking instances of Worker: one user; a second subscription is  *)
(* to the same source, when the user subscribes again.                     *)
EXTENDS Worker, TLC

CONSTANTS u1, x1, s1, s2, w1, w2

MCSubUser   == [s \in Subscriptions |-> u1]
MCSubSource == [s \in Subscriptions |-> x1]
MCTokens    == 1 .. MaxJobs + Cardinality(Workers) + 1
MCSymmetry  == Permutations(Workers)
===========================================================================
