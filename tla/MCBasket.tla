------------------------------ MODULE MCBasket ------------------------------
(* Instances of Basket for TLC.                                            *)
EXTENDS Basket, TLC

CONSTANTS a, b

(* Files called a are empty, files called b are not.                       *)
EmptyOrNot == [n \in Name |-> IF n = a THEN 0 ELSE 1]
=============================================================================
