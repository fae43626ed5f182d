---------------------------- MODULE MCJobQueue ----------------------------
(* Model-checking instance of JobQueue: one user with one subscription,    *)
(* two worker processes.  Tokens: one per row, one per worker and a spare. *)
EXTENDS JobQueue, TLC

CONSTANTS u1, x1, s1, w1, w2

MCSubUser   == [s \in Subscriptions |-> u1]
MCSubSource == [s \in Subscriptions |-> x1]
MCSymmetry  == Permutations(Workers)
MCTokens    == 1 .. MaxJobs + Cardinality(Workers) + 1
===========================================================================
