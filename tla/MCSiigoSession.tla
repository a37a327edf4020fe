-------------------------- MODULE MCSiigoSession --------------------------
(* SiigoSession on small instances. *)
EXTENDS SiigoSession, TLC

CONSTANTS p1, p2, main, a1, a2

TwoCallers  == {p1, p2}
TwoAccounts == {a1, a2}

\* Requests are interchangeable.
CallerSymmetry == Permutations(TwoCallers)
=============================================================================
