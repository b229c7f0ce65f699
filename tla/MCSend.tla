------------------------------- MODULE MCSend -------------------------------
(* Instances of Send for TLC.                                              *)
EXTENDS Send

CONSTANTS j1, j2, t1

OneTarget == [j \in Job |-> t1]

OneFile == [j \in Job |-> 1]
TwoFiles == [j \in Job |-> 2]
=============================================================================
