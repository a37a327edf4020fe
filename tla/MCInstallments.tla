-------------------------- MODULE MCInstallments --------------------------
(* Installments on small instances. *)
EXTENDS Installments

Amounts  == 0 .. 3
Balances == -1 .. 3
Days     == {1, 2}
=============================================================================
