--------------------------- MODULE MCProjections ---------------------------
(* Projections on a small instance: an invoice in two installments, the second *)
(* beyond a month of two days, a purchase that is late, and one movement.      *)
EXTENDS Projections

CONSTANTS FV1, FC1, MM1

Invoices  == {FV1}
Purchases == {FC1}
Rows      == {MM1}
Incomes   == {MM1}
Plans ==
  [d \in {FV1, FC1} |->
     IF d = FV1
     THEN [total |-> 3, due |-> 3,
           schedule |-> <<[day |-> 2, value |-> 1], [day |-> 3, value |-> 2]>>]
     ELSE [total |-> 1, due |-> -1, schedule |-> <<>>]]
Worths   == [r \in Rows |-> 4]
Days     == {-1, 2, 3}
Horizons == {2, 9}
=============================================================================
