------------------------------ MODULE SyncRun ------------------------------
(***************************************************************************)
(* The control of one synchronisation with Siigo: SiigoHandler.runSync and *)
(* SiigoHandler.SyncCustomers (src/internal/handler/siigo.go).             *)
(*                                                                         *)
(* runSync reads the credit notes, then runs one goroutine per document    *)
(* type (a "pass").  A pass fetches page 1, stores it, and launches one    *)
(* goroutine per further page.  Every page is fetched by withRetry under a *)
(* counting semaphore shared by the passes; a page that cannot be fetched  *)
(* is recorded in result.Errors, one that cannot be stored fails the run.  *)
(* After the join the run either fails, or sweeps the customers it did not *)
(* see, moves the last-sync anchor and writes the activity log.            *)
(*                                                                         *)
(* Data is abstracted to the fate of a page: what the rows hold is the     *)
(* subject of CustomerSync and DocumentSync.                               *)
(*                                                                         *)
(* A definition commented "Variant" is not part of the specification: it   *)
(* is the definition after it with a bug the code could have had, and each *)
(* property below is known to fail for one of them.                        *)
(***************************************************************************)
EXTENDS Integers, FiniteSets

CONSTANTS
  Pass,           \* the five passes of a full run
  Customers,      \* the pass whose completeness decides on the sweep
  MaxPages,       \* bound: pages a pass may list
  MaxConcurrent,  \* siigoMaxConcurrent
  Attempts        \* siigoRetryAttempts

ASSUME PassAssumption     == Customers \in Pass /\ IsFiniteSet(Pass)
ASSUME MaxPagesAssumption == MaxPages \in Nat \ {0}
ASSUME CapAssumption      == MaxConcurrent \in Nat \ {0}
ASSUME AttemptsAssumption == Attempts \in Nat \ {0}

Page == 1 .. MaxPages

VARIABLES
  kind,       \* "full" (runSync) or "customers" (SyncCustomers)
  phase,      \* where the goroutine that serves the request is
  pass,       \* pass -> where its goroutine is; "ok" and "dberr" are its return
  listed,     \* pass -> totalPages computed from page 1, 0 before
  task,       \* pass -> page -> where the fetch of the page is
  tries,      \* pass -> page -> calls that failed
  sem,        \* tokens in the semaphore channel
  errors,     \* result.Errors: the pages given up on
  pageErrs,   \* syncCustomers' counter of pages given up on
  customerErrs, \* its value as returned to runSync
  swept,      \* DeactivateCustomersNotSyncedSince took effect
  anchored,   \* UpdateSiigoLastSync took effect
  logged      \* AddActivityLog took effect

runVars  == <<kind, phase, swept, anchored, logged>>
passVars == <<pass, listed, customerErrs>>
taskVars == <<task, tries, sem, errors, pageErrs>>
vars     == <<runVars, passVars, taskVars>>

-----------------------------------------------------------------------------
Phase     == {"credits", "passes", "sweep", "anchor", "log", "done", "failed"}
PassState == {"idle", "first", "fanout", "ok", "dberr"}
Ended     == {"saved", "recorded", "dberr"}
TaskState == {"idle", "queued", "calling", "sleeping", "exhausted", "saving"} \cup Ended

Started  == IF kind = "full" THEN Pass ELSE {Customers}
Calling  == {t \in Pass \X Page : task[t[1]][t[2]] = "calling"}

\* The pages a pass has to fetch: page 1, and what page 1 listed.
Expected(p) == {k \in Page : k = 1 \/ k <= listed[p]}

TypeOK ==
  /\ kind \in {"full", "customers"}
  /\ phase \in Phase
  /\ pass \in [Pass -> PassState]
  /\ listed \in [Pass -> 0 .. MaxPages]
  /\ task \in [Pass -> [Page -> TaskState]]
  /\ tries \in [Pass -> [Page -> Nat]]
  /\ sem \in Int
  /\ errors \subseteq Pass \X Page
  /\ pageErrs \in Nat
  /\ customerErrs \in Nat
  /\ swept \in BOOLEAN /\ anchored \in BOOLEAN /\ logged \in BOOLEAN

Init ==
  /\ kind \in {"full", "customers"}
  /\ phase = "credits"
  /\ pass = [p \in Pass |-> "idle"]
  /\ listed = [p \in Pass |-> 0]
  /\ task = [p \in Pass |-> [k \in Page |-> "idle"]]
  /\ tries = [p \in Pass |-> [k \in Page |-> 0]]
  /\ sem = 0
  /\ errors = {}
  /\ pageErrs = 0 /\ customerErrs = 0
  /\ swept = FALSE /\ anchored = FALSE /\ logged = FALSE

-----------------------------------------------------------------------------
(* The request goroutine, up to the join *)

\* Every pass starts by queueing for the semaphore with its page 1.
LaunchPasses ==
  /\ phase' = "passes"
  /\ pass' = [p \in Pass |-> IF p \in Started THEN "first" ELSE "idle"]
  /\ task' = [p \in Pass |-> [k \in Page |->
                IF p \in Started /\ k = 1 THEN "queued" ELSE "idle"]]
  /\ UNCHANGED <<kind, swept, anchored, logged, listed, customerErrs,
                 tries, sem, errors, pageErrs>>

\* creditedByInvoice walks the notes page by page, without withRetry: the
\* first failed call ends the walk, with nil on page 1 and with what was
\* accumulated so far on a later page.  The run goes on either way; what a
\* partial answer does to the invoices is the subject of DocumentSync.
ReadCreditNotes ==
  /\ phase = "credits" /\ kind = "full"
  /\ LaunchPasses

\* SyncCustomers needs no credit notes: it runs the one pass.
StartCustomersOnly ==
  /\ phase = "credits" /\ kind = "customers"
  /\ LaunchPasses

-----------------------------------------------------------------------------
(* The goroutine of a page: withRetry around one call, then the save *)

Acquire(p, k) ==
  /\ task[p][k] = "queued"
  /\ sem < MaxConcurrent
  /\ sem' = sem + 1
  /\ task' = [task EXCEPT ![p][k] = "calling"]
  /\ UNCHANGED <<runVars, passVars, tries, errors, pageErrs>>

\* The deferred receive gives the token back before fn returns.  Page 1 also
\* brings Pagination.TotalResults.
CallSucceeds(p, k) ==
  /\ task[p][k] = "calling"
  /\ sem' = sem - 1
  /\ task' = [task EXCEPT ![p][k] = "saving"]
  /\ IF k = 1
       THEN \E n \in 0 .. MaxPages : listed' = [listed EXCEPT ![p] = n]
       ELSE listed' = listed
  /\ UNCHANGED <<runVars, pass, customerErrs, tries, errors, pageErrs>>

\* Variant: the receive that gives the token back is skipped on an error.
CallFailsKeepingToken(p, k) ==
  /\ task[p][k] = "calling"
  /\ tries' = [tries EXCEPT ![p][k] = @ + 1]
  /\ task' = [task EXCEPT ![p][k] =
                IF tries[p][k] + 1 < Attempts THEN "sleeping" ELSE "exhausted"]
  /\ UNCHANGED <<runVars, passVars, sem, errors, pageErrs>>

\* No token is held while withRetry sleeps between two attempts.
CallFails(p, k) ==
  /\ task[p][k] = "calling"
  /\ sem' = sem - 1
  /\ tries' = [tries EXCEPT ![p][k] = @ + 1]
  /\ task' = [task EXCEPT ![p][k] =
                IF tries[p][k] + 1 < Attempts THEN "sleeping" ELSE "exhausted"]
  /\ UNCHANGED <<runVars, passVars, errors, pageErrs>>

Wake(p, k) ==
  /\ task[p][k] = "sleeping"
  /\ task' = [task EXCEPT ![p][k] = "queued"]
  /\ UNCHANGED <<runVars, passVars, tries, sem, errors, pageErrs>>

\* Variant: a page given up on is not appended to result.Errors.
RecordErrorSilently(p, k) ==
  /\ task[p][k] = "exhausted"
  /\ pageErrs' = IF p = Customers THEN pageErrs + 1 ELSE pageErrs
  /\ task' = [task EXCEPT ![p][k] = "recorded"]
  /\ UNCHANGED <<runVars, passVars, tries, sem, errors>>

\* Variant: only the failure of page 1 counts against the sweep.
RecordErrorCountingPageOne(p, k) ==
  /\ task[p][k] = "exhausted"
  /\ errors' = errors \cup {<<p, k>>}
  /\ pageErrs' = IF p = Customers /\ k = 1 THEN pageErrs + 1 ELSE pageErrs
  /\ task' = [task EXCEPT ![p][k] = "recorded"]
  /\ UNCHANGED <<runVars, passVars, tries, sem>>

\* A page given up on goes to result.Errors under the mutex; syncCustomers
\* also counts it.
RecordError(p, k) ==
  /\ task[p][k] = "exhausted"
  /\ errors' = errors \cup {<<p, k>>}
  /\ pageErrs' = IF p = Customers THEN pageErrs + 1 ELSE pageErrs
  /\ task' = [task EXCEPT ![p][k] = "recorded"]
  /\ UNCHANGED <<runVars, passVars, tries, sem>>

\* save* stores the rows of the page one by one and stops at the first error.
Save(p, k) ==
  /\ task[p][k] = "saving"
  /\ \E outcome \in {"saved", "dberr"} : task' = [task EXCEPT ![p][k] = outcome]
  /\ UNCHANGED <<runVars, passVars, tries, sem, errors, pageErrs>>

-----------------------------------------------------------------------------
(* The goroutine of a pass *)

Return(p, value) ==
  /\ pass' = [pass EXCEPT ![p] = value]
  /\ customerErrs' = IF p = Customers THEN pageErrs ELSE customerErrs

\* Page 1 given up on: nothing is known of the others and the pass returns nil.
\* Page 1 not stored: the pass fails.  One page: done.  More: one goroutine each.
AfterFirstPage(p) ==
  /\ pass[p] = "first"
  /\ task[p][1] \in Ended
  /\ IF task[p][1] = "saved" /\ listed[p] > 1
       THEN /\ pass' = [pass EXCEPT ![p] = "fanout"]
            /\ task' = [task EXCEPT ![p] = [k \in Page |->
                          IF k \in 2 .. listed[p] THEN "queued" ELSE @[k]]]
            /\ UNCHANGED customerErrs
       ELSE /\ Return(p, IF task[p][1] = "dberr" THEN "dberr" ELSE "ok")
            /\ UNCHANGED task
  /\ UNCHANGED <<runVars, listed, tries, sem, errors, pageErrs>>

\* Variant: the store errors of pages 2 and up are dropped.
JoinPagesDroppingErrors(p) ==
  /\ pass[p] = "fanout"
  /\ \A k \in Expected(p) : task[p][k] \in Ended
  /\ Return(p, "ok")
  /\ UNCHANGED <<runVars, listed, taskVars>>

\* Variant: wg.Wait is missing.
JoinPagesWithoutWaiting(p) ==
  /\ pass[p] = "fanout"
  /\ Return(p, IF \E k \in Expected(p) : task[p][k] = "dberr" THEN "dberr" ELSE "ok")
  /\ UNCHANGED <<runVars, listed, taskVars>>

\* wg.Wait over the pages, then errors.Join of their store errors.
JoinPages(p) ==
  /\ pass[p] = "fanout"
  /\ \A k \in Expected(p) : task[p][k] \in Ended
  /\ Return(p, IF \E k \in Expected(p) : task[p][k] = "dberr" THEN "dberr" ELSE "ok")
  /\ UNCHANGED <<runVars, listed, taskVars>>

-----------------------------------------------------------------------------
(* The request goroutine, from the join on *)

Join ==
  /\ phase = "passes"
  /\ \A p \in Started : pass[p] \in {"ok", "dberr"}
  /\ phase' = IF \E p \in Started : pass[p] = "dberr" THEN "failed" ELSE "sweep"
  /\ UNCHANGED <<kind, swept, anchored, logged, passVars, taskVars>>

\* Variant: the sweep does not ask whether the customer pass was clean.
SweepUnconditionally ==
  /\ phase = "sweep"
  /\ swept' \in BOOLEAN
  /\ phase' = IF kind = "full" THEN "anchor" ELSE "log"
  /\ UNCHANGED <<kind, anchored, logged, passVars, taskVars>>

\* A store error of the sweep is logged and otherwise ignored.
Sweep ==
  /\ phase = "sweep"
  /\ swept' \in (IF customerErrs = 0 THEN BOOLEAN ELSE {FALSE})
  /\ phase' = IF kind = "full" THEN "anchor" ELSE "log"
  /\ UNCHANGED <<kind, anchored, logged, passVars, taskVars>>

\* UpdateSiigoLastSync and AddActivityLog: their errors are discarded.
Anchor ==
  /\ phase = "anchor"
  /\ anchored' \in BOOLEAN
  /\ phase' = "log"
  /\ UNCHANGED <<kind, swept, logged, passVars, taskVars>>

Log ==
  /\ phase = "log"
  /\ logged' \in BOOLEAN
  /\ phase' = "done"
  /\ UNCHANGED <<kind, swept, anchored, passVars, taskVars>>

-----------------------------------------------------------------------------
RequestStep == ReadCreditNotes \/ StartCustomersOnly \/ Join \/ Sweep \/ Anchor \/ Log

PassStep(p) == AfterFirstPage(p) \/ JoinPages(p)

TaskStep(p, k) ==
  \/ Acquire(p, k)
  \/ CallSucceeds(p, k)
  \/ CallFails(p, k)
  \/ Wake(p, k)
  \/ RecordError(p, k)
  \/ Save(p, k)

\* The request has been answered: nothing is left to do.
Answered == phase \in {"done", "failed"} /\ UNCHANGED vars

Next ==
  \/ RequestStep
  \/ \E p \in Pass : PassStep(p)
  \/ \E p \in Pass, k \in Page : TaskStep(p, k)
  \/ Answered

Spec == Init /\ [][Next]_vars

\* Go schedules every runnable goroutine, every HTTP call ends (http.Client has
\* a 15 s timeout) and every sleep of withRetry is finite.  Nothing is assumed
\* of the order in which waiting goroutines get the semaphore.
Fairness ==
  /\ WF_vars(RequestStep)
  /\ \A p \in Pass : WF_vars(PassStep(p))
  /\ \A p \in Pass, k \in Page : WF_vars(TaskStep(p, k))

FairSpec == Spec /\ Fairness

-----------------------------------------------------------------------------
(* Properties *)

\* At most siigoMaxConcurrent requests of the run are at Siigo at once, whatever
\* path a call leaves by: the tokens and the calls always agree.
ConcurrencyCap ==
  /\ Cardinality(Calling) <= MaxConcurrent
  /\ sem = Cardinality(Calling)

\* A run that was not failed accounts for every page it had to fetch: the page
\* is stored or its error is in the response.  Nothing is lost in the fan-out.
NoPageLost ==
  phase \in {"sweep", "anchor", "log", "done"} =>
    \A p \in Started : \A k \in Expected(p) :
      \/ task[p][k] = "saved"
      \/ task[p][k] = "recorded" /\ <<p, k>> \in errors

\* The sweep that deactivates vanished third parties only happens when page 1
\* and every page it listed were stored: a missing row is then Siigo's doing.
SweepOnlyAfterCompletePass ==
  swept => \A k \in Expected(Customers) : task[Customers][k] = "saved"

\* A store error anywhere is never swallowed on the way up: the run is reported
\* as failed, and neither the sweep nor the anchor nor the log happened.
StoreErrorFailsRun ==
  /\ (phase \in {"sweep", "anchor", "log", "done", "failed"} =>
        (phase = "failed" <=> \E p \in Pass, k \in Page : task[p][k] = "dberr"))
  /\ (swept \/ anchored \/ logged =>
        \A p \in Pass, k \in Page : task[p][k] # "dberr")

\* No goroutine of a run outlives its join: from the sweep on, and once the
\* request is answered, nothing of the run writes to the store any more.
NoWriteAfterJoin ==
  [][phase \notin {"credits", "passes"} =>
       UNCHANGED <<taskVars, pass, listed>>]_vars

\* Every request is answered: no order of failures, sleeps and waits for the
\* semaphore leaves a pass or the join waiting for ever.
RequestAnswered == <>(phase \in {"done", "failed"})

-----------------------------------------------------------------------------
(* The inductive invariant the safety properties follow from *)

Returned == {"ok", "dberr"}

\* Where a pass is says where its pages are: one by one, then all at once.
PagesFollowPass ==
  \A p \in Pass :
    /\ pass[p] = "idle"   => \A k \in Page : task[p][k] = "idle"
    /\ pass[p] = "first"  => \A k \in Page : task[p][k] = "idle" <=> k # 1
    /\ pass[p] = "fanout" => /\ task[p][1] = "saved"
                             /\ \A k \in Page : task[p][k] = "idle" <=> k \notin Expected(p)
    /\ pass[p] = "ok"     => \A k \in Page :
                               IF k \in Expected(p) THEN task[p][k] \in {"saved", "recorded"}
                                                    ELSE task[p][k] = "idle"
    /\ pass[p] = "dberr"  => /\ \A k \in Page : task[p][k] \in Ended \cup {"idle"}
                             /\ \E k \in Page : task[p][k] = "dberr"
    /\ listed[p] > 0      => task[p][1] \in {"saving", "saved", "dberr"}

\* The errors, the retries and the customer counters tell the same story.
ErrorsFollowPages ==
  /\ \A p \in Pass, k \in Page :
       /\ <<p, k>> \in errors <=> task[p][k] = "recorded"
       /\ task[p][k] \in {"idle", "queued", "calling", "sleeping"} => tries[p][k] < Attempts
       /\ task[p][k] \in {"exhausted", "recorded"} => tries[p][k] = Attempts
  /\ pageErrs = 0 => \A k \in Page : task[Customers][k] # "recorded"
  /\ pass[Customers] \in Returned => customerErrs = pageErrs

\* Where the request is says where its passes are.
PassesFollowPhase ==
  /\ \A p \in Pass : pass[p] = "idle" <=> (phase = "credits" \/ p \notin Started)
  /\ phase \notin {"credits", "passes"} =>
       /\ \A p \in Started : pass[p] \in Returned
       /\ phase = "failed" <=> \E p \in Started : pass[p] = "dberr"
  /\ swept => phase \in {"anchor", "log", "done"} /\ customerErrs = 0
  /\ anchored => phase \in {"log", "done"}
  /\ logged => phase = "done"

RunInvariant == PagesFollowPass /\ ErrorsFollowPages /\ PassesFollowPhase

=============================================================================
