---------------------------- MODULE MCDelivery ----------------------------
(* Instances of Delivery for TLC.                                          *)
EXTENDS Delivery, TLC

CONSTANTS t1, A

OneTarget == [j \in Job |-> t1]
Count == [j \in Job |-> 2]

(* All files want the name x.  The first has one chunk, the second none.   *)
MCPath == {"x", "x1", "x2", "x.part", "x1.part", "x2.part"}
MCCandidate == [k \in Job \X File \X Share |-> <<"x", "x1", "x2">>]
MCPartOf == "x" :> "x.part" @@ "x1" :> "x1.part" @@ "x2" :> "x2.part"
MCSize == [f \in File |-> IF f = 1 THEN 1 ELSE 0]
=============================================================================
