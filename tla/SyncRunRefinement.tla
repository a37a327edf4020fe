------------------------- MODULE SyncRunRefinement -------------------------
(***************************************************************************)
(* SyncRun implements SyncContract: a page's goroutine is forgotten but    *)
(* for how it ended, and the phases after the join are one closing phase.  *)
(***************************************************************************)
EXTENDS SyncRun

ContractVerdict ==
  CASE phase \in {"credits", "passes"}        -> "open"
    [] phase \in {"sweep", "anchor", "log"}   -> "closing"
    [] OTHER                                  -> phase

FateOf(state) ==
  CASE state = "saved"    -> "stored"
    [] state = "recorded" -> "reported"
    [] state = "dberr"    -> "broken"
    [] OTHER              -> "unsettled"

ContractFate == [p \in Pass |-> [k \in Page |-> FateOf(task[p][k])]]

\* A pass the request does not run expects no page.
ContractExpected == [p \in Pass |-> IF p \in Started THEN Expected(p) ELSE {}]

Contract == INSTANCE SyncContract WITH
  verdict  <- ContractVerdict,
  expected <- ContractExpected,
  fate     <- ContractFate

\* Every run of the handler, whatever its goroutines do, is one the contract
\* allows: it settles each known page once, never closes over a missing page,
\* fails exactly when the store did, and sweeps and anchors only when closing.
ImplementsContract == Contract!Spec
=============================================================================
