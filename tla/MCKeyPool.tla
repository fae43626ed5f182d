----------------------------- MODULE MCKeyPool -----------------------------
(* Instances of KeyPool for TLC.                                           *)
EXTENDS KeyPool, TLC

Values == Permutations(Keys) \cup Permutations(Runs)
=============================================================================
