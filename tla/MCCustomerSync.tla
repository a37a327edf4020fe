-------------------------- MODULE MCCustomerSync --------------------------
(* CustomerSync on small instances. *)
EXTENDS CustomerSync, TLC

CONSTANTS r1, r2

TwoRuns    == {r1, r2}
FourPeople == 1 .. 4
OneBlank   == {2}

\* Runs are started by interchangeable requests.
RunSymmetry == Permutations(TwoRuns)
=============================================================================
