----------------------------- MODULE MCFolders -----------------------------
(* Instances of Folders for TLC.                                           *)
EXTENDS Folders, TLC

Alike == Permutations(Call) \union Permutations(Name)
=============================================================================
