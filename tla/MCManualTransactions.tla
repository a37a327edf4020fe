----------------------- MODULE MCManualTransactions -----------------------
(* ManualTransactions on small instances. *)
EXTENDS ManualTransactions, TLC

CONSTANTS c1, c2, x1, v1, v2

OneClient  == {c1}
TwoClients == {c1, c2}
OneReceipt == {x1}
TwoValues  == {v1, v2}

\* A client may repeat a number of the sequence, or write a word, which leads
\* as a bare number would.
AllForms == {Ref("padded", 1), Ref("text", 0)}

Symmetric == Permutations(TwoClients) \cup Permutations(TwoValues)
=============================================================================
