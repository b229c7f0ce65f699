------------------------------- MODULE MCPage -------------------------------
(* Instances of Page for TLC.                                              *)
EXTENDS Page, TLC

CONSTANTS j1, j2

InTurn == [j \in Job |-> IF j = j1 THEN 1 ELSE 2]
=============================================================================
