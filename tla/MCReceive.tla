----------------------------- MODULE MCReceive -----------------------------
(* Instances of Receive for TLC.  Names on the shares are short strings;   *)
(* "x" and "x1" stand for a name and its first "name (1)" alternative.     *)
EXTENDS Receive, TLC

CONSTANTS s1, s2, f1, f2, A, B

(* Every file of every session wants the name x of the chosen share.       *)
MCPath == {"x", "x1", "x2", "x.part", "x1.part", "x2.part"}
MCCandidate == [k \in Session \X File \X Share |-> <<"x", "x1", "x2">>]
MCPartOf == "x" :> "x.part" @@ "x1" :> "x1.part" @@ "x2" :> "x2.part"

(* Every share has names of its own.                                       *)
MCSharePath == {"a", "a1", "a2", "a.part", "a1.part", "a2.part",
                "b", "b1", "b2", "b.part", "b1.part", "b2.part"}
MCShareCandidate ==
  [k \in Session \X File \X Share |->
     IF k[3] = A THEN <<"a", "a1", "a2">> ELSE <<"b", "b1", "b2">>]
MCSharePartOf ==
  "a" :> "a.part" @@ "a1" :> "a1.part" @@ "a2" :> "a2.part" @@
  "b" :> "b.part" @@ "b1" :> "b1.part" @@ "b2" :> "b2.part"

MCSize == [f \in File |-> 1]
MCEmptySize == [f \in File |-> 0]

Symmetry == Permutations(Upload) \union Permutations(Canceller) \union Permutations(File)
=============================================================================
