------------------------------ MODULE MCServer ------------------------------
(* Server on a small instance: an old build and a new one over one database.   *)
EXTENDS Server

CONSTANTS old, new, r1, r2

Instances == {old, new}
Builds    == [i \in Instances |-> IF i = old THEN 1 ELSE 2]
Requests  == {r1, r2}
Names     == {"Renta", "RENTA"}
Folds     == [n \in Names |-> "renta"]
=============================================================================
