-------------------------- MODULE MCDocumentSync --------------------------
(* DocumentSync on small instances. *)
EXTENDS DocumentSync, TLC

CONSTANTS r1, r2

TwoRuns      == {r1, r2}
OneInvoice   == {1}
TwoPurchases == {2, 3}
FourNotes    == 1 .. 4

\* The purchases are older than the invoice.
Dates == 1 :> 1 @@ 2 :> 0 @@ 3 :> 0

\* Two halves of the invoice, and notes of other documents before each.
Halves == 1 :> NoInvoice @@ 2 :> 1 @@ 3 :> NoInvoice @@ 4 :> 1
Ones   == [n \in FourNotes |-> 1]

\* The invoice half credited and a third of it paid, beside a purchase; or two
\* purchases.
Beginnings ==
  {[docs |-> {1, 2}, notes |-> {2, 3}, balance |-> 1 :> 1 @@ 2 :> 3 @@ 3 :> 3],
   [docs |-> {1, 2}, notes |-> {2, 4}, balance |-> 1 :> 1 @@ 2 :> 3 @@ 3 :> 3],
   [docs |-> {2, 3}, notes |-> {},     balance |-> 1 :> 3 @@ 2 :> 3 @@ 3 :> 3]}

\* Runs are started by interchangeable requests.
RunSymmetry == Permutations(TwoRuns)
=============================================================================
