----------------------------- MODULE MCSyncRun -----------------------------
(* SyncRun on small instances. *)
EXTENDS SyncRunRefinement

CONSTANTS invoices, customers

\* The four document passes run the same code, so one stands for them; the
\* customer pass is told apart.
TwoPasses == {invoices, customers}
=============================================================================
