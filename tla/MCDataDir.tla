----------------------------- MODULE MCDataDir -----------------------------
(* Instances of DataDir for TLC.                                           *)
EXTENDS DataDir, TLC

AnyPair == Permutations(Id) \union Permutations(Updater)
=============================================================================
