---------------------------- MODULE SyncContract ----------------------------
(***************************************************************************)
(* What a synchronisation with Siigo promises, without its goroutines,     *)
(* retries, semaphore or mutexes: every page that is known to exist meets  *)
(* one fate; the run then fails, if the store failed anywhere, or closes.  *)
(* Only a closing run sweeps, and only if no customer page was missed;     *)
(* only a closing run moves the anchor.  SyncRun implements this           *)
(* (SyncRunRefinement).                                                    *)
(***************************************************************************)
EXTENDS Naturals

CONSTANTS Pass, Customers, MaxPages

Page == 1 .. MaxPages

VARIABLES
  verdict,    \* "open" while pages are settled, then "closing", "done" or "failed"
  expected,   \* pass -> pages known to exist
  fate,       \* pass -> page -> what became of it
  swept, anchored

vars == <<verdict, expected, fate, swept, anchored>>

Fate == {"unsettled", "stored", "reported", "broken"}

Broken == \E p \in Pass, k \in Page : fate[p][k] = "broken"

Init ==
  /\ verdict = "open"
  /\ expected \in [Pass -> {{}, {1}}] /\ expected[Customers] = {1}
  /\ fate = [p \in Pass |-> [k \in Page |-> "unsettled"]]
  /\ swept = FALSE /\ anchored = FALSE

\* The first reply of a pass tells how many pages there are.
Discover(p, n) ==
  /\ verdict = "open"
  /\ expected[p] = {1} /\ fate[p][1] = "unsettled"
  /\ expected' = [expected EXCEPT ![p] = {k \in Page : k = 1 \/ k <= n}]
  /\ UNCHANGED <<verdict, fate, swept, anchored>>

Settle(p, k, f) ==
  /\ verdict = "open"
  /\ k \in expected[p]
  /\ fate[p][k] = "unsettled"
  /\ fate' = [fate EXCEPT ![p][k] = f]
  /\ UNCHANGED <<verdict, expected, swept, anchored>>

\* A pass whose first page was reported or broken never settles the others.
Close ==
  /\ verdict = "open"
  /\ verdict' = IF Broken THEN "failed" ELSE "closing"
  /\ ~Broken => \A p \in Pass : \A k \in expected[p] : fate[p][k] # "unsettled"
  /\ UNCHANGED <<expected, fate, swept, anchored>>

Sweep ==
  /\ verdict = "closing"
  /\ \A k \in expected[Customers] : fate[Customers][k] = "stored"
  /\ swept' = TRUE
  /\ UNCHANGED <<verdict, expected, fate, anchored>>

Anchor ==
  /\ verdict = "closing"
  /\ anchored' = TRUE
  /\ UNCHANGED <<verdict, expected, fate, swept>>

Finish ==
  /\ verdict = "closing"
  /\ verdict' = "done"
  /\ UNCHANGED <<expected, fate, swept, anchored>>

Next ==
  \/ \E p \in Pass, n \in 0 .. MaxPages : Discover(p, n)
  \/ \E p \in Pass, k \in Page, f \in Fate \ {"unsettled"} : Settle(p, k, f)
  \/ Close
  \/ Sweep
  \/ Anchor
  \/ Finish

Spec == Init /\ [][Next]_vars
=============================================================================
