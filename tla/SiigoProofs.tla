---------------------------- MODULE SiigoProofs ----------------------------
(***************************************************************************)
(* Theorems about the work with Siigo: the control of a run and its        *)
(* refinement (SyncRun), for any number of passes, pages, attempts and     *)
(* semaphore tokens, and the session every run goes through                *)
(* (SiigoSession), for any callers, accounts, times and bounds.            *)
(***************************************************************************)
EXTENDS SyncRunRefinement, SiigoSession, FiniteSetTheorems, TLAPS

-----------------------------------------------------------------------------
(* The run *)

USE PassAssumption, MaxPagesAssumption, CapAssumption, AttemptsAssumption

-----------------------------------------------------------------------------
(* Type correctness *)

\* Every pass has a page 1, and no page comes before it.
LEMMA PageOne == 1 \in Page /\ \A k \in Page : k \in Nat /\ 1 <= k
  BY DEF Page

\* Every variable keeps its type through every step of the run.
THEOREM TypeCorrect == Spec => []TypeOK
<1>1. Init => TypeOK
  <2> SUFFICES ASSUME Init PROVE TypeOK
    OBVIOUS
  <2>1. swept \in BOOLEAN /\ anchored \in BOOLEAN /\ logged \in BOOLEAN
    BY DEF Init
  <2>2. listed \in [Pass -> 0 .. MaxPages] /\ sem \in Int /\ errors \subseteq Pass \X Page
    BY DEF Init
  <2>3. task \in [Pass -> [Page -> TaskState]] /\ tries \in [Pass -> [Page -> Nat]]
    BY DEF Init, TaskState
  <2> QED
    BY <2>1, <2>2, <2>3 DEF Init, TypeOK, Phase, PassState
<1>2. TypeOK /\ [Next]_vars => TypeOK'
  <2> SUFFICES ASSUME TypeOK, [Next]_vars PROVE TypeOK'
    OBVIOUS
  <2> USE DEF TypeOK, Phase, PassState, TaskState, Ended, runVars, passVars, taskVars
  <2>1. CASE LaunchPasses /\ UNCHANGED kind
    BY <2>1 DEF LaunchPasses
  <2>2. CASE ReadCreditNotes
    BY <2>2 DEF ReadCreditNotes, LaunchPasses
  <2>3. CASE StartCustomersOnly
    BY <2>3 DEF StartCustomersOnly, LaunchPasses
  <2>4. CASE Join \/ Sweep \/ Anchor \/ Log
    BY <2>4 DEF Join, Sweep, Anchor, Log
  <2>5. ASSUME NEW p \in Pass, PassStep(p) PROVE TypeOK'
    <3>1. CASE AfterFirstPage(p)
      <4>1. task' \in [Pass -> [Page -> TaskState]]
        <5>1. \/ task' = task
              \/ task' = [task EXCEPT ![p] = [k \in Page |->
                            IF k \in 2 .. listed[p] THEN "queued" ELSE task[p][k]]]
          BY <3>1 DEF AfterFirstPage
        <5>2. [k \in Page |-> IF k \in 2 .. listed[p] THEN "queued" ELSE task[p][k]]
                \in [Page -> TaskState]
          OBVIOUS
        <5> QED BY <5>1, <5>2
      <4>2. pass' \in [Pass -> PassState] /\ customerErrs' \in Nat
        BY <3>1, PageOne DEF AfterFirstPage, Return
      <4> QED BY <3>1, <4>1, <4>2 DEF AfterFirstPage
    <3>2. CASE JoinPages(p)
      BY <3>2 DEF JoinPages, Return
    <3> QED BY <2>5, <3>1, <3>2 DEF PassStep
  <2>6. ASSUME NEW p \in Pass, NEW k \in Page, TaskStep(p, k) PROVE TypeOK'
    <3>1. CASE Acquire(p, k)
      BY <3>1 DEF Acquire
    <3>2. CASE CallSucceeds(p, k)
      <4>1. listed' \in [Pass -> 0 .. MaxPages]
        BY <3>2 DEF CallSucceeds
      <4>2. task' \in [Pass -> [Page -> TaskState]] /\ sem' \in Int
        BY <3>2 DEF CallSucceeds
      <4> QED BY <3>2, <4>1, <4>2 DEF CallSucceeds
    <3>3. CASE CallFails(p, k)
      <4>1. task' \in [Pass -> [Page -> TaskState]] /\ tries' \in [Pass -> [Page -> Nat]]
        BY <3>3 DEF CallFails
      <4> QED BY <3>3, <4>1 DEF CallFails
    <3>4. CASE Wake(p, k)
      BY <3>4 DEF Wake
    <3>5. CASE RecordError(p, k)
      BY <3>5 DEF RecordError
    <3>6. CASE Save(p, k)
      BY <3>6 DEF Save
    <3> QED BY <2>6, <3>1, <3>2, <3>3, <3>4, <3>5, <3>6 DEF TaskStep
  <2>7. CASE UNCHANGED vars
    BY <2>7 DEF vars
  <2> QED
    BY <2>2, <2>3, <2>4, <2>5, <2>6, <2>7 DEF Next, RequestStep, Answered
<1> QED BY <1>1, <1>2, PTL DEF Spec

-----------------------------------------------------------------------------
(* The inductive invariant *)

\* Pages, errors, passes and phase stay in step with one another: the invariant
\* is inductive, so it holds whatever the number of passes and pages.
THEOREM RunInvariantHolds == Spec => []RunInvariant
<1> USE DEF runVars, passVars, taskVars, Expected, Started, Ended, Returned
<1>1. Init => RunInvariant
  BY PageOne DEF Init, RunInvariant, PagesFollowPass, ErrorsFollowPages, PassesFollowPhase
<1>2. TypeOK /\ RunInvariant /\ [Next]_vars => RunInvariant'
  <2> SUFFICES ASSUME TypeOK, RunInvariant, [Next]_vars PROVE RunInvariant'
    OBVIOUS
  <2> USE PageOne DEF TypeOK, RunInvariant
  <2>1. ASSUME LaunchPasses, phase = "credits", UNCHANGED kind PROVE RunInvariant'
    <3>1. PagesFollowPass'
      BY <2>1 DEF LaunchPasses, PagesFollowPass, PassesFollowPhase
    <3>2. ErrorsFollowPages'
      BY <2>1 DEF LaunchPasses, ErrorsFollowPages, PagesFollowPass, PassesFollowPhase
    <3>3. PassesFollowPhase'
      BY <2>1 DEF LaunchPasses, PassesFollowPhase
    <3> QED BY <3>1, <3>2, <3>3
  <2>2. CASE ReadCreditNotes \/ StartCustomersOnly
    BY <2>1, <2>2 DEF ReadCreditNotes, StartCustomersOnly, LaunchPasses
  <2>3. CASE Join \/ Sweep \/ Anchor \/ Log
    <3>1. PagesFollowPass'
      <4>1. UNCHANGED <<pass, listed, task>>
        BY <2>3 DEF Join, Sweep, Anchor, Log
      <4> QED BY <4>1 DEF PagesFollowPass
    <3>2. ErrorsFollowPages'
      <4>1. CASE Join
        BY <4>1 DEF Join, ErrorsFollowPages
      <4>2. CASE Sweep
        BY <4>2 DEF Sweep, ErrorsFollowPages
      <4>3. CASE Anchor
        BY <4>3 DEF Anchor, ErrorsFollowPages
      <4>4. CASE Log
        BY <4>4 DEF Log, ErrorsFollowPages
      <4> QED BY <2>3, <4>1, <4>2, <4>3, <4>4
    <3>3. PassesFollowPhase'
      <4>1. CASE Join
        BY <4>1 DEF Join, PassesFollowPhase
      <4>2. CASE Sweep
        BY <4>2 DEF Sweep, PassesFollowPhase
      <4>3. CASE Anchor
        BY <4>3 DEF Anchor, PassesFollowPhase
      <4>4. CASE Log
        BY <4>4 DEF Log, PassesFollowPhase
      <4> QED BY <2>3, <4>1, <4>2, <4>3, <4>4
    <3> QED BY <3>1, <3>2, <3>3
  <2>4. ASSUME NEW p \in Pass, AfterFirstPage(p) PROVE RunInvariant'
    <3>1. PagesFollowPass'
      <4>1. CASE task[p][1] = "saved" /\ listed[p] > 1
        <5>1. /\ pass' = [pass EXCEPT ![p] = "fanout"] /\ UNCHANGED listed
              /\ \A q \in Pass \ {p} : task'[q] = task[q]
              /\ \A k \in Page : task'[p][k] = IF k \in 2 .. listed[p] THEN "queued" ELSE task[p][k]
          BY <2>4, <4>1 DEF AfterFirstPage
        <5>2. pass[p] = "first" /\ \A k \in Page : task[p][k] = "idle" <=> k # 1
          BY <2>4 DEF AfterFirstPage, PagesFollowPass
        <5>3. task'[p][1] = "saved" /\ \A k \in Page : task'[p][k] = "idle" <=> k \notin Expected(p)'
          BY <4>1, <5>1, <5>2
        <5> QED BY <4>1, <5>1, <5>2, <5>3 DEF PagesFollowPass
      <4>2. CASE ~(task[p][1] = "saved" /\ listed[p] > 1)
        <5>1. task[p][1] # "dberr" => \A k \in Page : k \in Expected(p) <=> k = 1
          BY <2>4, <4>2 DEF AfterFirstPage, PagesFollowPass
        <5> QED BY <2>4, <4>2, <5>1, SMTT(40) DEF AfterFirstPage, Return, PagesFollowPass
      <4> QED BY <4>1, <4>2
    <3>2. ErrorsFollowPages'
      <4>1. CASE task[p][1] = "saved" /\ listed[p] > 1
        <5>1. /\ pass' = [pass EXCEPT ![p] = "fanout"] /\ UNCHANGED <<tries, errors, pageErrs, customerErrs>>
              /\ \A q \in Pass \ {p} : task'[q] = task[q]
              /\ \A k \in Page : task'[p][k] = IF k \in 2 .. listed[p] THEN "queued" ELSE task[p][k]
          BY <2>4, <4>1 DEF AfterFirstPage
        <5>2. \A k \in 2 .. listed[p] : k \in Page /\ task[p][k] = "idle"
          BY <2>4 DEF AfterFirstPage, PagesFollowPass, Page
        <5>3. \A q \in Pass, k \in Page :
                \/ task'[q][k] = task[q][k]
                \/ task[q][k] = "idle" /\ task'[q][k] = "queued"
          BY <5>1, <5>2
        <5>4. pass'[Customers] \in Returned => pass[Customers] \in Returned
          BY <5>1
        <5> QED BY <5>1, <5>3, <5>4 DEF ErrorsFollowPages
      <4>2. CASE ~(task[p][1] = "saved" /\ listed[p] > 1)
        BY <2>4, <4>2 DEF AfterFirstPage, Return, ErrorsFollowPages
      <4> QED BY <4>1, <4>2
    <3>3. PassesFollowPhase'
      BY <2>4 DEF AfterFirstPage, Return, PassesFollowPhase
    <3> QED BY <3>1, <3>2, <3>3
  <2>5. ASSUME NEW p \in Pass, JoinPages(p) PROVE RunInvariant'
    <3>1. PagesFollowPass'
      BY <2>5 DEF JoinPages, Return, PagesFollowPass
    <3>2. ErrorsFollowPages'
      BY <2>5 DEF JoinPages, Return, ErrorsFollowPages
    <3>3. PassesFollowPhase'
      BY <2>5 DEF JoinPages, Return, PassesFollowPhase
    <3> QED BY <3>1, <3>2, <3>3
  <2>6. ASSUME NEW p \in Pass, NEW k \in Page, Acquire(p, k) PROVE RunInvariant'
    <3>1. PagesFollowPass'
      BY <2>6 DEF Acquire, PagesFollowPass
    <3>2. ErrorsFollowPages'
      BY <2>6 DEF Acquire, ErrorsFollowPages, PagesFollowPass
    <3>3. PassesFollowPhase'
      BY <2>6 DEF Acquire, PassesFollowPhase, PagesFollowPass
    <3> QED BY <3>1, <3>2, <3>3
  <2>7. ASSUME NEW p \in Pass, NEW k \in Page, CallSucceeds(p, k) PROVE RunInvariant'
    <3>1. PagesFollowPass'
      BY <2>7 DEF CallSucceeds, PagesFollowPass
    <3>2. ErrorsFollowPages'
      BY <2>7 DEF CallSucceeds, ErrorsFollowPages, PagesFollowPass
    <3>3. PassesFollowPhase'
      BY <2>7 DEF CallSucceeds, PassesFollowPhase, PagesFollowPass
    <3> QED BY <3>1, <3>2, <3>3
  <2>8. ASSUME NEW p \in Pass, NEW k \in Page, CallFails(p, k) PROVE RunInvariant'
    <3>1. PagesFollowPass'
      BY <2>8 DEF CallFails, PagesFollowPass
    <3>2. ErrorsFollowPages'
      <4>1. ASSUME NEW q \in Pass, NEW j \in Page
            PROVE  /\ <<q, j>> \in errors' <=> task'[q][j] = "recorded"
                   /\ task'[q][j] \in {"idle", "queued", "calling", "sleeping"}
                        => tries'[q][j] < Attempts
                   /\ task'[q][j] \in {"exhausted", "recorded"} => tries'[q][j] = Attempts
        <5>1. CASE q = p /\ j = k
          BY <2>8, <5>1 DEF CallFails, ErrorsFollowPages
        <5>2. CASE ~(q = p /\ j = k)
          BY <2>8, <5>2 DEF CallFails, ErrorsFollowPages
        <5> QED BY <5>1, <5>2
      <4>2. pageErrs' = 0 => \A j \in Page : task'[Customers][j] # "recorded"
        BY <2>8 DEF CallFails, ErrorsFollowPages
      <4>3. pass'[Customers] \in Returned => customerErrs' = pageErrs'
        BY <2>8 DEF CallFails, ErrorsFollowPages
      <4> QED BY <4>1, <4>2, <4>3 DEF ErrorsFollowPages
    <3>3. PassesFollowPhase'
      BY <2>8 DEF CallFails, PassesFollowPhase, PagesFollowPass
    <3> QED BY <3>1, <3>2, <3>3
  <2>9. ASSUME NEW p \in Pass, NEW k \in Page, Wake(p, k) PROVE RunInvariant'
    <3>1. PagesFollowPass'
      BY <2>9 DEF Wake, PagesFollowPass
    <3>2. ErrorsFollowPages'
      BY <2>9 DEF Wake, ErrorsFollowPages, PagesFollowPass
    <3>3. PassesFollowPhase'
      BY <2>9 DEF Wake, PassesFollowPhase, PagesFollowPass
    <3> QED BY <3>1, <3>2, <3>3
  <2>10. ASSUME NEW p \in Pass, NEW k \in Page, RecordError(p, k) PROVE RunInvariant'
    <3>1. PagesFollowPass'
      BY <2>10 DEF RecordError, PagesFollowPass
    <3>2. ErrorsFollowPages'
      BY <2>10 DEF RecordError, ErrorsFollowPages, PagesFollowPass
    <3>3. PassesFollowPhase'
      BY <2>10 DEF RecordError, PassesFollowPhase, PagesFollowPass
    <3> QED BY <3>1, <3>2, <3>3
  <2>11. ASSUME NEW p \in Pass, NEW k \in Page, Save(p, k) PROVE RunInvariant'
    <3>1. PagesFollowPass'
      BY <2>11 DEF Save, PagesFollowPass
    <3>2. ErrorsFollowPages'
      BY <2>11 DEF Save, ErrorsFollowPages, PagesFollowPass
    <3>3. PassesFollowPhase'
      BY <2>11 DEF Save, PassesFollowPhase, PagesFollowPass
    <3> QED BY <3>1, <3>2, <3>3
  <2>12. CASE UNCHANGED vars
    BY <2>12 DEF vars, PagesFollowPass, ErrorsFollowPages, PassesFollowPhase
  <2> QED
    BY <2>2, <2>3, <2>4, <2>5, <2>6, <2>7, <2>8, <2>9, <2>10, <2>11, <2>12
    DEF Next, RequestStep, PassStep, TaskStep, Answered
<1> QED BY <1>1, <1>2, TypeCorrect, PTL DEF Spec

-----------------------------------------------------------------------------
(* What the invariant implies *)

\* A run that was not failed has stored or reported every page it had to fetch.
THEOREM NoPageLostHolds == Spec => []NoPageLost
<1>1. TypeOK /\ RunInvariant => NoPageLost
  <2> SUFFICES ASSUME RunInvariant, phase \in {"sweep", "anchor", "log", "done"},
                      NEW p \in Started, NEW k \in Expected(p)
               PROVE  task[p][k] = "saved" \/ (task[p][k] = "recorded" /\ <<p, k>> \in errors)
    BY DEF NoPageLost
  <2>1. p \in Pass /\ k \in Page
    BY DEF Started, Expected
  <2>2. pass[p] = "ok"
    BY <2>1 DEF RunInvariant, PassesFollowPhase, Returned
  <2>3. task[p][k] \in {"saved", "recorded"}
    BY <2>1, <2>2 DEF RunInvariant, PagesFollowPass
  <2> QED
    BY <2>1, <2>3 DEF RunInvariant, ErrorsFollowPages
<1> QED BY <1>1, TypeCorrect, RunInvariantHolds, PTL

\* The sweep never runs over a customer page that was not stored.
THEOREM SweepSound == Spec => []SweepOnlyAfterCompletePass
<1>1. TypeOK /\ RunInvariant => SweepOnlyAfterCompletePass
  <2> SUFFICES ASSUME TypeOK, RunInvariant, swept, NEW k \in Expected(Customers)
               PROVE  task[Customers][k] = "saved"
    BY DEF SweepOnlyAfterCompletePass
  <2>1. Customers \in Started /\ k \in Page
    BY DEF Started, Expected
  <2>2. pass[Customers] = "ok" /\ customerErrs = 0
    BY <2>1 DEF RunInvariant, PassesFollowPhase, Returned
  <2>3. pageErrs = 0
    BY <2>2 DEF RunInvariant, ErrorsFollowPages, Returned
  <2> QED
    BY <2>1, <2>2, <2>3 DEF RunInvariant, PagesFollowPass, ErrorsFollowPages
<1> QED BY <1>1, TypeCorrect, RunInvariantHolds, PTL

\* A store error anywhere fails the run, before the sweep, the anchor and the log.
THEOREM StoreErrorSound == Spec => []StoreErrorFailsRun
<1>1. TypeOK /\ RunInvariant => StoreErrorFailsRun
  <2> SUFFICES ASSUME TypeOK, RunInvariant PROVE StoreErrorFailsRun
    OBVIOUS
  <2> USE DEF RunInvariant, Returned
  <2>1. ASSUME phase \notin {"credits", "passes"}
        PROVE  phase = "failed" <=> \E p \in Pass, k \in Page : task[p][k] = "dberr"
    <3>1. \A p \in Pass : pass[p] \in {"idle", "ok", "dberr"}
      BY <2>1 DEF PassesFollowPhase
    <3>2. \A p \in Pass : pass[p] = "dberr" <=> \E k \in Page : task[p][k] = "dberr"
      BY <3>1 DEF PagesFollowPass
    <3>3. phase = "failed" <=> \E p \in Pass : pass[p] = "dberr"
      BY <2>1 DEF PassesFollowPhase, Started
    <3> QED BY <3>2, <3>3
  <2>2. swept \/ anchored \/ logged => phase \in {"anchor", "log", "done"}
    BY DEF PassesFollowPhase
  <2> QED BY <2>1, <2>2 DEF StoreErrorFailsRun
<1> QED BY <1>1, TypeCorrect, RunInvariantHolds, PTL

\* After the join no goroutine of the run can take a step.
THEOREM NoWriteAfterJoinHolds == Spec => NoWriteAfterJoin
<1>1. TypeOK /\ RunInvariant /\ [Next]_vars
        => [phase \notin {"credits", "passes"} => UNCHANGED <<taskVars, pass, listed>>]_vars
  <2> SUFFICES ASSUME TypeOK, RunInvariant, [Next]_vars, phase \notin {"credits", "passes"}
               PROVE  UNCHANGED <<taskVars, pass, listed>>
    OBVIOUS
  <2> USE DEF runVars, passVars, taskVars
  <2>1. \A p \in Pass : pass[p] \in {"idle", "ok", "dberr"}
    BY DEF RunInvariant, PassesFollowPhase, Returned
  <2>2. \A p \in Pass, k \in Page : task[p][k] \in Ended \cup {"idle"}
    BY <2>1 DEF RunInvariant, PagesFollowPass, Ended
  <2>3. ASSUME NEW p \in Pass, PassStep(p) PROVE FALSE
    BY <2>1, <2>3 DEF PassStep, AfterFirstPage, JoinPages
  <2>4. ASSUME NEW p \in Pass, NEW k \in Page, TaskStep(p, k) PROVE FALSE
    BY <2>2, <2>4 DEF Ended, TaskStep, Acquire, CallSucceeds, CallFails, Wake, RecordError, Save
  <2>5. CASE RequestStep
    BY <2>5 DEF RequestStep, ReadCreditNotes, StartCustomersOnly, Join, Sweep, Anchor, Log
  <2>6. CASE UNCHANGED vars
    BY <2>6 DEF vars
  <2> QED BY <2>3, <2>4, <2>5, <2>6 DEF Next, Answered
<1> QED BY <1>1, TypeCorrect, RunInvariantHolds, PTL DEF Spec, NoWriteAfterJoin

-----------------------------------------------------------------------------
(* The semaphore *)

\* Pages being called are finitely many.
LEMMA CallingFinite == IsFiniteSet(Calling) /\ Cardinality(Calling) \in Nat
<1>1. IsFiniteSet(Page)
  BY FS_Interval DEF Page
<1>2. IsFiniteSet(Pass \X Page)
  BY <1>1, FS_Product
<1>3. Calling \subseteq Pass \X Page
  BY DEF Calling
<1> QED BY <1>2, <1>3, FS_Subset, FS_CardinalityType

\* The tokens in the channel are the calls under way, and there are never more
\* than siigoMaxConcurrent of them.
THEOREM ConcurrencyCapHolds == Spec => []ConcurrencyCap
<1>1. Init => ConcurrencyCap
  <2> SUFFICES ASSUME Init PROVE ConcurrencyCap
    OBVIOUS
  <2>1. Calling = {}
    BY DEF Init, Calling
  <2> QED BY <2>1, FS_EmptySet DEF Init, ConcurrencyCap
<1>2. TypeOK /\ RunInvariant /\ ConcurrencyCap /\ [Next]_vars => ConcurrencyCap'
  <2> SUFFICES ASSUME TypeOK, RunInvariant, ConcurrencyCap, [Next]_vars PROVE ConcurrencyCap'
    OBVIOUS
  <2> USE CallingFinite DEF TypeOK, ConcurrencyCap, runVars, passVars, taskVars
  <2>1. ASSUME UNCHANGED sem, Calling' = Calling PROVE ConcurrencyCap'
    BY <2>1
  <2>2. ASSUME NEW p \in Pass, NEW k \in Page, Acquire(p, k) PROVE ConcurrencyCap'
    <3>1. Calling' = Calling \cup {<<p, k>>} /\ <<p, k>> \notin Calling
      BY <2>2 DEF Acquire, Calling
    <3>2. Cardinality(Calling') = Cardinality(Calling) + 1
      BY <3>1, FS_AddElement
    <3> QED BY <2>2, <3>2 DEF Acquire
  <2>3. ASSUME NEW p \in Pass, NEW k \in Page, CallSucceeds(p, k) \/ CallFails(p, k)
        PROVE  ConcurrencyCap'
    <3>1. Calling' = Calling \ {<<p, k>>} /\ <<p, k>> \in Calling
      BY <2>3 DEF CallSucceeds, CallFails, Calling
    <3>2. Cardinality(Calling') = Cardinality(Calling) - 1
      BY <3>1, FS_RemoveElement, FS_CardinalityType
    <3>3. sem' = sem - 1
      BY <2>3 DEF CallSucceeds, CallFails
    <3> QED BY <3>2, <3>3
  <2>4. ASSUME NEW p \in Pass, NEW k \in Page, Wake(p, k) \/ RecordError(p, k) \/ Save(p, k)
        PROVE  ConcurrencyCap'
    <3>1. \A q \in Pass, j \in Page : task[q][j] = "calling" <=> task'[q][j] = "calling"
      BY <2>4 DEF Wake, RecordError, Save
    <3>2. Calling' = Calling /\ UNCHANGED sem
      BY <2>4, <3>1 DEF Wake, RecordError, Save, Calling
    <3> QED BY <2>1, <3>2
  <2>5. ASSUME NEW p \in Pass, PassStep(p) PROVE ConcurrencyCap'
    <3>1. CASE AfterFirstPage(p)
      <4>1. ASSUME NEW q \in Pass, NEW k \in Page
            PROVE  task[q][k] = "calling" <=> task'[q][k] = "calling"
        <5>1. CASE task' = task
          BY <5>1
        <5>2. CASE task' = [task EXCEPT ![p] = [j \in Page |->
                              IF j \in 2 .. listed[p] THEN "queued" ELSE task[p][j]]]
          <6>1. q # p => task'[q] = task[q]
            BY <5>2
          <6>2. q = p => task'[q][k] = IF k \in 2 .. listed[p] THEN "queued" ELSE task[q][k]
            BY <5>2
          <6>3. q = p /\ k \in 2 .. listed[p] => task[q][k] = "idle"
            BY <3>1, PageOne DEF AfterFirstPage, RunInvariant, PagesFollowPass
          <6> QED BY <6>1, <6>2, <6>3
        <5> QED BY <3>1, <5>1, <5>2 DEF AfterFirstPage
      <4> QED BY <2>1, <3>1, <4>1 DEF AfterFirstPage, Calling
    <3>2. CASE JoinPages(p)
      BY <2>1, <3>2 DEF JoinPages, Calling
    <3> QED BY <2>5, <3>1, <3>2 DEF PassStep
  <2>6. CASE ReadCreditNotes \/ StartCustomersOnly
    <3>1. phase = "credits" /\ LaunchPasses
      BY <2>6 DEF ReadCreditNotes, StartCustomersOnly
    <3>2. \A q \in Pass, k \in Page : task[q][k] = "idle" /\ task'[q][k] # "calling"
      BY <3>1 DEF LaunchPasses, RunInvariant, PagesFollowPass, PassesFollowPhase
    <3> QED BY <2>1, <3>1, <3>2 DEF LaunchPasses, Calling
  <2>7. CASE Join \/ Sweep \/ Anchor \/ Log
    BY <2>1, <2>7 DEF Join, Sweep, Anchor, Log, Calling
  <2>8. CASE UNCHANGED vars
    BY <2>1, <2>8 DEF vars, Calling
  <2> QED
    BY <2>2, <2>3, <2>4, <2>5, <2>6, <2>7, <2>8 DEF Next, RequestStep, TaskStep, Answered
<1> QED BY <1>1, <1>2, TypeCorrect, RunInvariantHolds, PTL DEF Spec

-----------------------------------------------------------------------------
(* Refinement *)

\* A page under way belongs to a running pass of the request, and is expected.
LEMMA PageUnderWay ==
  ASSUME TypeOK, RunInvariant, NEW p \in Pass, NEW k \in Page,
         task[p][k] \notin Ended \cup {"idle"}
  PROVE  phase = "passes" /\ p \in Started /\ k \in Expected(p)
<1>1. pass[p] \in {"first", "fanout"}
  BY DEF TypeOK, PassState, RunInvariant, PagesFollowPass, Ended
<1>2. k \in Expected(p)
  BY <1>1 DEF RunInvariant, PagesFollowPass, Expected
<1>3. phase \in {"credits", "passes"} /\ p \in Started /\ phase # "credits"
  BY <1>1 DEF RunInvariant, PassesFollowPhase, Returned
<1> QED BY <1>2, <1>3

\* Two tables by pass and page that differ in one entry.
LEMMA PointwiseUpdate ==
  ASSUME NEW S, NEW F \in [Pass -> [Page -> S]], NEW G \in [Pass -> [Page -> S]],
         NEW p \in Pass, NEW k \in Page, NEW v,
         \A q \in Pass, j \in Page : G[q][j] = IF q = p /\ j = k THEN v ELSE F[q][j]
  PROVE  G = [F EXCEPT ![p][k] = v]
<1>1. G = [q \in Pass |-> [j \in Page |-> IF q = p /\ j = k THEN v ELSE F[q][j]]]
  OBVIOUS
<1>2. [F EXCEPT ![p][k] = v] = [q \in Pass |-> IF q = p THEN [F[p] EXCEPT ![k] = v] ELSE F[q]]
  OBVIOUS
<1>3. ASSUME NEW q \in Pass
      PROVE  [j \in Page |-> IF q = p /\ j = k THEN v ELSE F[q][j]]
               = IF q = p THEN [F[p] EXCEPT ![k] = v] ELSE F[q]
  <2>1. F[q] = [j \in Page |-> F[q][j]]
    OBVIOUS
  <2>2. CASE q = p
    BY <2>1, <2>2
  <2>3. CASE q # p
    BY <2>1, <2>3
  <2> QED BY <2>2, <2>3
<1> QED BY <1>1, <1>2, <1>3

\* Only the moment a page ends shows in the contract.
LEMMA FateUnchanged ==
  ASSUME \A p \in Pass, k \in Page :
           task'[p][k] = task[p][k] \/ {task[p][k], task'[p][k]} \cap Ended = {}
  PROVE  UNCHANGED ContractFate
  BY DEF ContractFate, Ended, FateOf

\* Every step of the goroutines is a step of the contract or leaves it alone.
THEOREM Refinement == Spec => ImplementsContract
<1> USE DEF runVars, passVars, taskVars
<1>1. Init => Contract!Init
  <2> SUFFICES ASSUME Init PROVE Contract!Init
    OBVIOUS
  <2>1. \A p \in Pass : Expected(p) = {1}
    BY PageOne DEF Init, Expected
  <2>2. ContractExpected \in [Pass -> {{}, {1}}] /\ ContractExpected[Customers] = {1}
    BY <2>1 DEF Init, ContractExpected, Started
  <2>3. ContractFate = [p \in Pass |-> [k \in Contract!Page |-> "unsettled"]]
    BY DEF Init, ContractFate, Contract!Page, Page, FateOf
  <2>4. ContractVerdict = "open"
    BY DEF Init, ContractVerdict
  <2> QED BY <2>2, <2>3, <2>4 DEF Init, Contract!Init
<1>2. TypeOK /\ TypeOK' /\ RunInvariant /\ RunInvariant' /\ [Next]_vars
        => [Contract!Next]_(Contract!vars)
  <2> SUFFICES ASSUME TypeOK, TypeOK', RunInvariant, RunInvariant', [Next]_vars
               PROVE  Contract!Next \/ UNCHANGED Contract!vars
    OBVIOUS
  <2> USE DEF Contract!vars, Contract!Page, Page
  <2>1. CASE ReadCreditNotes \/ StartCustomersOnly
    <3>1. phase = "credits" /\ LaunchPasses /\ UNCHANGED kind
      BY <2>1 DEF ReadCreditNotes, StartCustomersOnly, LaunchPasses
    <3>2. UNCHANGED ContractVerdict
      BY <3>1 DEF LaunchPasses, ContractVerdict
    <3>3. \A p \in Pass, k \in Page : task[p][k] = "idle" /\ task'[p][k] \in {"idle", "queued"}
      BY <3>1 DEF LaunchPasses, RunInvariant, PagesFollowPass, PassesFollowPhase
    <3>4. UNCHANGED ContractFate
      BY <3>3 DEF ContractFate, FateOf
    <3>5. UNCHANGED <<ContractExpected, swept, anchored>>
      BY <3>1 DEF LaunchPasses, ContractExpected, Started, Expected
    <3> QED BY <3>2, <3>4, <3>5
  <2>2. ASSUME NEW p \in Pass, NEW k \in Page, TaskStep(p, k) PROVE Contract!Next \/ UNCHANGED Contract!vars
    <3>1. /\ ContractVerdict = "open" /\ ContractVerdict' = "open"
          /\ k \in ContractExpected[p] /\ p \in Started
          /\ UNCHANGED <<kind, phase, swept, anchored>>
      <4>1. task[p][k] \notin Ended \cup {"idle"}
        BY <2>2 DEF TaskStep, Acquire, CallSucceeds, CallFails, Wake, RecordError, Save, Ended
      <4>2. UNCHANGED <<kind, phase, swept, anchored>>
        BY <2>2 DEF TaskStep, Acquire, CallSucceeds, CallFails, Wake, RecordError, Save
      <4> QED BY <4>1, <4>2, PageUnderWay DEF ContractVerdict, ContractExpected
    <3>2. CASE Acquire(p, k) \/ CallFails(p, k) \/ Wake(p, k)
      <4>1. UNCHANGED ContractFate
        BY <3>2, FateUnchanged DEF Acquire, CallFails, Wake, Ended
      <4>2. UNCHANGED ContractExpected
        BY <3>1, <3>2 DEF Acquire, CallFails, Wake, ContractExpected, Started, Expected
      <4> QED BY <3>1, <4>1, <4>2
    <3>3. CASE CallSucceeds(p, k)
      <4>1. UNCHANGED ContractFate
        BY <3>3, FateUnchanged DEF CallSucceeds, Ended
      <4>2. CASE k # 1
        BY <3>1, <3>3, <4>1, <4>2 DEF CallSucceeds, ContractExpected, Started, Expected
      <4>3. CASE k = 1
        <5>1. PICK n \in 0 .. MaxPages : listed' = [listed EXCEPT ![p] = n]
          BY <3>3, <4>3 DEF CallSucceeds
        <5>2. listed[p] = 0
          <6>1. listed[p] \in 0 .. MaxPages
            BY DEF TypeOK
          <6>2. ~(listed[p] > 0)
            BY <3>3, <4>3 DEF CallSucceeds, RunInvariant, PagesFollowPass
          <6> QED BY <6>1, <6>2
        <5>3. ContractExpected[p] = {1}
          BY <3>1, <5>2, PageOne DEF ContractExpected, Expected
        <5>4. ContractExpected' = [ContractExpected EXCEPT ![p] = {j \in Page : j = 1 \/ j <= n}]
          BY <3>1, <5>1 DEF ContractExpected, Started, Expected, TypeOK
        <5>5. ContractFate[p][1] = "unsettled"
          BY <3>3, <4>3, PageOne DEF CallSucceeds, ContractFate, FateOf
        <5>6. Contract!Discover(p, n)
          BY <3>1, <4>1, <5>3, <5>4, <5>5 DEF Contract!Discover
        <5> QED BY <5>1, <5>6 DEF Contract!Next
      <4> QED BY <4>2, <4>3
    <3>4. CASE RecordError(p, k) \/ Save(p, k)
      <4>1. PICK e \in Ended : task' = [task EXCEPT ![p][k] = e]
        BY <3>4 DEF RecordError, Save, Ended
      <4> DEFINE f == FateOf(e)
      <4>2. ContractFate[p][k] = "unsettled"
        BY <3>4 DEF RecordError, Save, ContractFate, FateOf
      <4>3. ContractFate' = [ContractFate EXCEPT ![p][k] = f]
        <5>1. task'[p][k] = e /\ \A q \in Pass, j \in Page : (q # p \/ j # k) => task'[q][j] = task[q][j]
          BY <4>1 DEF TypeOK
        <5> HIDE DEF f
        <5>2. \A q \in Pass, j \in Page :
                ContractFate'[q][j] = IF q = p /\ j = k THEN f ELSE ContractFate[q][j]
          BY <5>1 DEF ContractFate, f
        <5>3. /\ ContractFate \in [Pass -> [Page -> Contract!Fate]]
              /\ ContractFate' \in [Pass -> [Page -> Contract!Fate]]
          BY DEF ContractFate, FateOf, Contract!Fate
        <5> QED BY <5>2, <5>3, PointwiseUpdate
      <4>4. UNCHANGED ContractExpected
        BY <3>1, <3>4 DEF RecordError, Save, ContractExpected, Started, Expected
      <4>5. Contract!Settle(p, k, f)
        BY <3>1, <4>2, <4>3, <4>4 DEF Contract!Settle
      <4>6. f \in Contract!Fate \ {"unsettled"}
        BY DEF Contract!Fate, FateOf, Ended
      <4> QED BY <4>5, <4>6 DEF Contract!Next
    <3> QED BY <2>2, <3>2, <3>3, <3>4 DEF TaskStep
  <2>3. ASSUME NEW p \in Pass, PassStep(p) PROVE UNCHANGED Contract!vars
    <3>1. UNCHANGED <<kind, phase, swept, anchored, listed>>
      BY <2>3 DEF PassStep, AfterFirstPage, JoinPages
    <3>2. UNCHANGED <<ContractVerdict, ContractExpected>>
      BY <3>1 DEF ContractVerdict, ContractExpected, Started, Expected
    <3>3. CASE task' = task
      BY <3>1, <3>2, <3>3, FateUnchanged
    <3>4. CASE /\ pass[p] = "first"
               /\ task' = [task EXCEPT ![p] = [k \in Page |->
                             IF k \in 2 .. listed[p] THEN "queued" ELSE task[p][k]]]
      <4>1. ASSUME NEW q \in Pass, NEW k \in Page, task'[q][k] # task[q][k]
            PROVE  {task[q][k], task'[q][k]} \cap Ended = {}
        <5>1. q = p
          BY <3>4, <4>1
        <5>2. task'[p][k] = IF k \in 2 .. listed[p] THEN "queued" ELSE task[p][k]
          BY <3>4 DEF TypeOK
        <5>3. k # 1 => task[p][k] = "idle"
          BY <3>4 DEF RunInvariant, PagesFollowPass
        <5> QED BY <4>1, <5>1, <5>2, <5>3, PageOne DEF Ended
      <4> QED BY <3>1, <3>2, <4>1, FateUnchanged
    <3> QED BY <2>3, <3>3, <3>4 DEF PassStep, AfterFirstPage, JoinPages
  <2>4. CASE Join
    <3>1. UNCHANGED <<ContractFate, ContractExpected, swept, anchored>>
      BY <2>4 DEF Join, ContractFate, ContractExpected, Started, Expected, FateOf
    <3>2. ContractVerdict = "open" /\ ContractVerdict' = IF phase' = "failed" THEN "failed" ELSE "closing"
      BY <2>4 DEF Join, ContractVerdict
    <3>3. \A p \in Pass, k \in Page : ContractFate[p][k] = "broken" <=> task[p][k] = "dberr"
      BY DEF ContractFate, FateOf
    <3>4. Contract!Broken <=> phase' = "failed"
      <4>1. \A p \in Pass : pass[p] = "dberr" <=> \E k \in Page : task[p][k] = "dberr"
        BY <2>4 DEF Join, RunInvariant, PagesFollowPass, PassesFollowPhase, Returned, Started
      <4> QED BY <2>4, <3>3, <4>1 DEF Join, Contract!Broken, Started, RunInvariant, PassesFollowPhase
    <3>5. ASSUME phase' # "failed", NEW p \in Pass, NEW k \in ContractExpected[p]
          PROVE  ContractFate[p][k] # "unsettled"
      <4>1. p \in Started /\ k \in Page /\ k \in Expected(p)
        BY <3>5 DEF ContractExpected, Expected
      <4>2. pass[p] = "ok"
        BY <2>4, <3>5, <4>1 DEF Join
      <4>3. task[p][k] \in {"saved", "recorded"}
        BY <4>1, <4>2 DEF RunInvariant, PagesFollowPass
      <4> QED BY <4>1, <4>3 DEF ContractFate, FateOf
    <3>6. Contract!Close
      BY <3>1, <3>2, <3>4, <3>5 DEF Contract!Close
    <3> QED BY <3>6 DEF Contract!Next
  <2>5. CASE Sweep
    <3>1. UNCHANGED <<ContractFate, ContractExpected, anchored>>
      BY <2>5 DEF Sweep, ContractFate, ContractExpected, Started, Expected, FateOf
    <3>2. ContractVerdict = "closing" /\ ContractVerdict' = "closing"
      BY <2>5 DEF Sweep, ContractVerdict
    <3>3. CASE swept' = TRUE
      <4>1. Customers \in Started /\ pass[Customers] = "ok" /\ customerErrs = 0
        BY <2>5, <3>3 DEF Sweep, Started, RunInvariant, PassesFollowPhase, Returned
      <4>2. \A k \in ContractExpected[Customers] : k \in Page /\ task[Customers][k] = "saved"
        BY <4>1 DEF ContractExpected, Expected, RunInvariant, PagesFollowPass, ErrorsFollowPages, Returned
      <4>3. \A k \in ContractExpected[Customers] : ContractFate[Customers][k] = "stored"
        BY <4>2 DEF ContractFate, FateOf
      <4>4. Contract!Sweep
        BY <3>1, <3>2, <3>3, <4>3 DEF Contract!Sweep
      <4> QED BY <4>4 DEF Contract!Next
    <3>4. CASE swept' = FALSE
      BY <2>5, <3>1, <3>2, <3>4 DEF Sweep, RunInvariant, PassesFollowPhase, TypeOK
    <3> QED BY <3>3, <3>4 DEF TypeOK
  <2>6. CASE Anchor
    <3>1. UNCHANGED <<ContractFate, ContractExpected, swept>>
      BY <2>6 DEF Anchor, ContractFate, ContractExpected, Started, Expected, FateOf
    <3>2. ContractVerdict = "closing" /\ ContractVerdict' = "closing"
      BY <2>6 DEF Anchor, ContractVerdict
    <3>3. CASE anchored' = TRUE
      BY <3>1, <3>2, <3>3 DEF Contract!Next, Contract!Anchor
    <3>4. CASE anchored' = FALSE
      BY <2>6, <3>1, <3>2, <3>4 DEF Anchor, RunInvariant, PassesFollowPhase, TypeOK
    <3> QED BY <3>3, <3>4 DEF TypeOK
  <2>7. CASE Log
    <3>1. UNCHANGED <<ContractFate, ContractExpected, swept, anchored>>
      BY <2>7 DEF Log, ContractFate, ContractExpected, Started, Expected, FateOf
    <3>2. ContractVerdict = "closing" /\ ContractVerdict' = "done"
      BY <2>7 DEF Log, ContractVerdict
    <3> QED BY <3>1, <3>2 DEF Contract!Next, Contract!Finish
  <2>8. CASE UNCHANGED vars
    BY <2>8 DEF vars, ContractVerdict, ContractFate, ContractExpected, Started, Expected, FateOf
  <2> QED
    BY <2>1, <2>2, <2>3, <2>4, <2>5, <2>6, <2>7, <2>8 DEF Next, RequestStep, Answered
<1> QED BY <1>1, <1>2, TypeCorrect, RunInvariantHolds, PTL DEF Spec, ImplementsContract, Contract!Spec

-----------------------------------------------------------------------------
(* The session *)

\* The constants, one by one.
LEMMA Numbers ==
  /\ Lifetime \in Nat \ {0} /\ Ahead \in Nat \ {0} /\ Margin \in Nat \ {0} /\ Retry \in Nat \ {0}
  /\ CallTime \in Nat /\ CallTime <= Margin /\ Margin < Lifetime
  /\ MaxClients \in Nat /\ LastTick \in Nat /\ MaxRestarts \in Nat
BY TimeAssumption, BoundAssumption

USE Numbers, NoneAssumption, ProcessAssumption, AccountAssumption

-----------------------------------------------------------------------------
(* Types *)

\* Every client a process works with, or the handler holds, was made.
LEMMA ClientsAreMadeStep ==
  ASSUME ConnectionTypeOK, ClientsAreMade, [ConnectionNext]_connectionVars
  PROVE  ClientsAreMade'
<1> USE DEF ConnectionTypeOK, ClientsAreMade, Client, clientVars, procVars
<1>1. CASE Restart
  BY <1>1 DEF Restart, BootPc
<1>2. ASSUME NEW p \in Process, NEW who, NEW b, NEW s, NewClient(p, who, b), Goto(p, s)
      PROVE  ClientsAreMade'
  BY <1>2, SMTT(40) DEF NewClient, Goto
<1>3. ASSUME NEW p \in Process, Leave(p), UNCHANGED clientVars PROVE ClientsAreMade'
  BY <1>3 DEF Leave
<1>4. ASSUME NEW p \in Process, NEW who \in Account, Connect(p, who) PROVE ClientsAreMade'
  BY <1>2, <1>4 DEF Connect
<1>5. CASE AutoConnect
  BY <1>2, <1>3, <1>5 DEF AutoConnect, Process
<1>6. ASSUME NEW p \in Process, UseClient(p) \/ ReadConfig(p) PROVE ClientsAreMade'
  BY <1>6, SMTT(40) DEF UseClient, ReadConfig, Goto
<1>7. ASSUME NEW p \in Process, SetClient(p) \/ SaveConfig(p) \/ FailToSave(p) \/ Install(p)
      PROVE  ClientsAreMade'
  BY <1>3, <1>7, SMTT(40) DEF SetClient, SaveConfig, FailToSave, Install, Goto
<1>8. ASSUME NEW p \in Process, Rebuild(p) PROVE ClientsAreMade'
  BY <1>2, <1>3, <1>8 DEF Rebuild
<1>9. ASSUME NEW p \in Process, CallStep(p) PROVE ClientsAreMade'
  BY <1>9, SMTT(40) DEF CallStep, Look, LookAgain, Renew, Send, Goto
<1>10. ASSUME NEW c \in Client, Fire(c) \/ Refresh(c) PROVE ClientsAreMade'
  BY <1>10 DEF Fire, Refresh
<1>11. CASE Tick \/ UNCHANGED connectionVars
  BY <1>11 DEF Tick, connectionVars
<1> QED
  BY <1>1, <1>4, <1>5, <1>6, <1>7, <1>8, <1>9, <1>10, <1>11 DEF ConnectionNext, ChangeStep

\* A token is taken with two times.
LEMMA TakenTyped ==
  ASSUME ConnectionTypeOK, ClientsAreMade, [ConnectionNext]_connectionVars
  PROVE  TokensTypeOK'
<1> USE DEF TokensTypeOK, procVars
<1>0. taken \in [Process -> [at : Nat, end : Nat]] /\ now \in Nat
  BY DEF ConnectionTypeOK
<1>1. ASSUME NEW p \in Process, NEW end \in Nat, TakeToken(p, end) PROVE TokensTypeOK'
  BY <1>0, <1>1 DEF TakeToken
<1>2. CASE taken' = taken
  BY <1>0, <1>2
<1>3. CASE Restart
  BY <1>3 DEF Restart, NoTokens
<1>4. ASSUME NEW p \in Process, CallStep(p) PROVE TokensTypeOK'
  <2>1. exp \in [Client -> Nat] /\ with[p] \in 0 .. made /\ made \in 0 .. MaxClients
    BY DEF ConnectionTypeOK
  <2>2. CASE Look(p) \/ LookAgain(p)
    <3>1. CASE TakeToken(p, exp[with[p]])
      <4>1. exp[with[p]] \in Nat
        <5>1. with[p] # 0
          BY <2>2 DEF Look, LookAgain, ClientsAreMade
        <5> QED BY <5>1, <2>1 DEF Client
      <4> QED BY <3>1, <4>1, <1>1
    <3> QED BY <1>2, <2>2, <3>1 DEF Look, LookAgain
  <2>3. CASE Renew(p)
    <3>1. now + Lifetime \in Nat
      BY <1>0
    <3> QED BY <1>1, <1>2, <2>3, <3>1 DEF Renew
  <2>4. CASE Send(p)
    BY <1>0, <2>4 DEF Send
  <2> QED BY <1>4, <2>2, <2>3, <2>4 DEF CallStep
<1>5. ASSUME NEW p \in Process, UseClient(p) \/ ReadConfig(p) \/ ChangeStep(p) PROVE taken' = taken
  BY <1>5 DEF UseClient, ReadConfig, ChangeStep, SetClient, SaveConfig, FailToSave, Rebuild, Install
<1>6. ASSUME NEW p \in Process, NEW who \in Account, Connect(p, who) PROVE taken' = taken
  BY <1>6 DEF Connect
<1>7. CASE Tick \/ AutoConnect \/ (\E c \in Client : Fire(c) \/ Refresh(c)) \/ UNCHANGED connectionVars
  BY <1>2, <1>7 DEF Tick, AutoConnect, Fire, Refresh, connectionVars
<1> QED
  BY <1>2, <1>3, <1>4, <1>5, <1>6, <1>7 DEF ConnectionNext

\* The variables of the clients, of the session and of the processes keep their
\* types; every client made has an account, and so has whoever changes the session.
THEOREM ConnectionTypesHold == ConnectionSpec => []ConnectionTypeOK
<1> USE DEF Client, Process, Changing, PC, Busy
<1>1. ConnectionInit => ConnectionTypeOK
  BY DEF ConnectionInit, ConnectionTypeOK, TokensTypeOK, BootPc, BootCred, Nobody, Zero, NoTokens
<1>2. ConnectionTypeOK /\ ClientsAreMade /\ [ConnectionNext]_connectionVars => ConnectionTypeOK'
  <2> SUFFICES ASSUME ConnectionTypeOK, ClientsAreMade, [ConnectionNext]_connectionVars PROVE ConnectionTypeOK'
    OBVIOUS
  <2> USE DEF ConnectionTypeOK, clientVars, sessionVars, procVars, ghostVars
  <2>0. ASSUME NEW p \in Process, NEW s \in PC, Goto(p, s) PROVE pc' \in [Process -> PC]
    BY <2>0 DEF Goto
  <2>t. TokensTypeOK'
    BY TakenTyped
  <2>1. CASE Tick
    BY <2>1, <2>t DEF Tick
  <2>2. CASE Restart
    BY <2>2, <2>t DEF Restart, BootPc, BootCred, Nobody, Zero
  <2>3. ASSUME NEW p \in Process, NEW who \in Account, NEW b \in BOOLEAN, NewClient(p, who, b)
        PROVE  /\ made' \in 0 .. MaxClients /\ account' \in [Client -> Account \cup {None}]
               /\ \A c \in 1 .. made' : account'[c] \in Account
               /\ exp' \in [Client -> Nat] \/ now' # now
               /\ lock' = lock
               /\ auto' \in [Client -> {"none", "asleep", "due"}]
               /\ wake' \in [Client -> Int]
               /\ slot \in 0 .. made'
               /\ with' \in [Process -> 0 .. made']
    BY <2>3, SMTT(40) DEF NewClient
  <2>4. ASSUME NEW p \in Process, NEW who \in Account, Connect(p, who) PROVE ConnectionTypeOK'
    BY <2>t, <2>3, <2>4 DEF Connect, Goto, BeginChange
  <2>5. CASE AutoConnect
    <3>1. CASE NewClient(Main, cred[Main], TRUE) /\ Goto(Main, "slotting") /\ UNCHANGED <<cred, alone>>
      <4>1. cred[Main] \in Account
        BY <2>5 DEF AutoConnect
      <4> QED BY <2>t, <2>3, <2>5, <3>1, <4>1 DEF AutoConnect, Goto
    <3>2. CASE Leave(Main) /\ UNCHANGED clientVars
      BY <2>t, <2>5, <3>2 DEF AutoConnect, Leave, EndChange
    <3> QED BY <2>5, <3>1, <3>2 DEF AutoConnect
  <2>6. ASSUME NEW p \in Process, UseClient(p) \/ ReadConfig(p) PROVE ConnectionTypeOK'
    <3>1. CASE UseClient(p)
      BY <2>t, <2>6, <3>1 DEF UseClient, Goto
    <3>2. CASE ReadConfig(p)
      BY <2>t, <2>6, <3>2 DEF ReadConfig, Goto, BeginChange
    <3> QED BY <2>6, <3>1, <3>2
  <2>7. ASSUME NEW p \in Process, SetClient(p) \/ SaveConfig(p) \/ FailToSave(p) \/ Install(p)
        PROVE  ConnectionTypeOK'
    <3>1. CASE SetClient(p)
      BY <2>t, <2>7, <3>1 DEF SetClient, Goto
    <3>2. CASE SaveConfig(p) \/ FailToSave(p)
      <4>1. config' \in Account \cup {None} /\ settled' \in BOOLEAN
        BY <3>2 DEF SaveConfig, FailToSave
      <4>2. Leave(p) /\ UNCHANGED <<now, clientVars, slot, restarts>>
        BY <3>2 DEF SaveConfig, FailToSave
      <4> QED BY <2>t, <4>1, <4>2 DEF Leave, EndChange
    <3>3. CASE Install(p)
      <4>1. settled' \in BOOLEAN
        BY <3>3 DEF Install
      <4> QED BY <2>t, <3>3, <4>1 DEF Install, Goto, EndChange
    <3> QED BY <2>7, <3>1, <3>2, <3>3
  <2>8. ASSUME NEW p \in Process, Rebuild(p) PROVE ConnectionTypeOK'
    <3>1. CASE NewClient(p, cred[p], FALSE) /\ Goto(p, "installing") /\ UNCHANGED <<cred, alone>>
      <4>1. cred[p] \in Account
        BY <2>8 DEF Rebuild
      <4> QED BY <2>t, <2>3, <2>8, <3>1, <4>1 DEF Rebuild, Goto
    <3>2. CASE Leave(p) /\ UNCHANGED clientVars
      BY <2>t, <2>8, <3>2 DEF Rebuild, Leave, EndChange
    <3> QED BY <2>8, <3>1, <3>2 DEF Rebuild
  <2>9. ASSUME NEW p \in Process, CallStep(p) PROVE ConnectionTypeOK'
    <3>1. CASE Look(p)
      <4>1. pc' \in [Process -> PC]
        BY <2>0, <3>1 DEF Look
      <4>2. \A q \in Process : Busy(q)' => Busy(q)
        BY <3>1 DEF Look, Goto
      <4> QED BY <2>t, <3>1, <4>1, <4>2 DEF Look
    <3>2. CASE LookAgain(p)
      <4>1. pc' \in [Process -> PC] /\ lock' \in [Client -> Process \cup {"refresher", None}]
        <5>1. CASE Goto(p, "sending") /\ UNCHANGED lock
          BY <2>0, <5>1
        <5>2. CASE Goto(p, "renewing") /\ lock' = [lock EXCEPT ![with[p]] = p]
          BY <2>0, <5>2
        <5> QED BY <3>2, <5>1, <5>2 DEF LookAgain
      <4>2. \A q \in Process : Busy(q)' => Busy(q)
        BY <3>2 DEF LookAgain, Goto
      <4> QED BY <2>t, <3>2, <4>1, <4>2 DEF LookAgain
    <3>3. CASE Renew(p)
      <4>1. exp' \in [Client -> Nat]
        <5>1. now + Lifetime \in Nat
          OBVIOUS
        <5>2. exp' = [exp EXCEPT ![with[p]] = now + Lifetime] \/ exp' = exp
          BY <3>3 DEF Renew
        <5> QED BY <5>1, <5>2
      <4>2. \A q \in Process : Busy(q)' => Busy(q)
        BY <3>3 DEF Renew, Goto
      <4>3. pc' \in [Process -> PC] /\ with' \in [Process -> 0 .. made]
        <5>1. CASE Goto(p, "sending") /\ UNCHANGED with
          BY <2>0, <5>1
        <5>2. CASE Goto(p, "idle") /\ with' = [with EXCEPT ![p] = 0]
          BY <2>0, <5>2
        <5> QED BY <3>3, <5>1, <5>2 DEF Renew
      <4>4. lock' \in [Client -> Process \cup {"refresher", None}]
        BY <3>3 DEF Renew
      <4> QED BY <2>t, <3>3, <4>1, <4>2, <4>3, <4>4 DEF Renew
    <3>4. CASE Send(p)
      <4>1. pc' \in [Process -> PC] /\ with' \in [Process -> 0 .. made]
        <5>1. CASE Goto(p, "calling") /\ UNCHANGED with
          BY <2>0, <5>1
        <5>2. CASE Goto(p, "idle") /\ with' = [with EXCEPT ![p] = 0]
          BY <2>0, <5>2
        <5> QED BY <3>4, <5>1, <5>2 DEF Send
      <4>2. \A q \in Process : Busy(q)' => Busy(q)
        BY <3>4 DEF Send, Goto
      <4> QED BY <2>t, <3>4, <4>1, <4>2 DEF Send
    <3> QED BY <2>9, <3>1, <3>2, <3>3, <3>4 DEF CallStep
  <2>10. ASSUME NEW c \in Client, Fire(c) PROVE ConnectionTypeOK'
    BY <2>t, <2>10 DEF Fire
  <2>11. ASSUME NEW c \in Client, Refresh(c) PROVE ConnectionTypeOK'
    <3>1. PICK end \in {exp[c], now + Lifetime} :
            /\ exp' = [exp EXCEPT ![c] = end]
            /\ wake' = [wake EXCEPT ![c] = IF now < end - Ahead THEN end - Ahead ELSE now + Retry]
      BY <2>11 DEF Refresh
    <3>2. end \in Nat
      BY <3>1
    <3>3. exp' \in [Client -> Nat] /\ wake' \in [Client -> Int]
      BY <3>1, <3>2
    <3> QED BY <2>t, <2>11, <3>3 DEF Refresh
  <2>12. CASE UNCHANGED connectionVars
    BY <2>t, <2>12 DEF connectionVars
  <2> QED
    BY <2>1, <2>2, <2>4, <2>5, <2>6, <2>7, <2>8, <2>9, <2>10, <2>11, <2>12
    DEF ConnectionNext, ChangeStep
<1>3. ConnectionInit => ClientsAreMade
  BY DEF ConnectionInit, BootPc, ClientsAreMade
<1>4. ConnectionTypeOK /\ ClientsAreMade /\ [ConnectionNext]_connectionVars => ClientsAreMade'
  BY ClientsAreMadeStep
<1> QED BY <1>1, <1>2, <1>3, <1>4, PTL DEF ConnectionSpec

\* Every client a process works with was made, in every behaviour.
LEMMA ClientsAreMadeHolds == ConnectionSpec => []ClientsAreMade
<1>1. ConnectionInit => ClientsAreMade
  BY DEF ConnectionInit, BootPc, ClientsAreMade
<1>2. ConnectionTypeOK /\ ClientsAreMade /\ [ConnectionNext]_connectionVars => ClientsAreMade'
  BY ClientsAreMadeStep
<1> QED BY <1>1, <1>2, ConnectionTypesHold, PTL DEF ConnectionSpec

-----------------------------------------------------------------------------
(* Tokens *)

\* A process on its way to a call has a client, with a token time.
LEMMA OwnersAreClients ==
  ASSUME ConnectionTypeOK, ClientsAreMade, NEW q \in Process,
         pc[q] \in {"slotting", "saving", "installing", "calling", "wanting", "renewing", "sending"}
  PROVE  with[q] \in Client /\ with[q] \in 1 .. made /\ exp[with[q]] \in Nat
BY DEF ConnectionTypeOK, ClientsAreMade, Client

\* A step that leaves the locks, the renewals under way and their tokens alone.
LEMMA RenewalsUndisturbed ==
  ASSUME ConnectionTypeOK, ClientsAreMade, RenewalsAreDue, now' \in Nat, now' >= now, lock' = lock,
         \A c \in Client : auto'[c] = "due" <=> auto[c] = "due",
         \A q \in Process : pc'[q] = "renewing" <=> pc[q] = "renewing",
         \A q \in Process : pc[q] = "renewing" =>
           with'[q] = with[q] /\ exp'[with[q]] = exp[with[q]]
  PROVE  RenewalsAreDue'
<1>1. LockHeldToRenew'
  <2>1. ASSUME NEW c \in Client, NEW q \in Process
        PROVE  lock'[c] = q <=> pc'[q] = "renewing" /\ with'[q] = c
    BY DEF RenewalsAreDue, LockHeldToRenew
  <2>2. ASSUME NEW c \in Client PROVE lock'[c] = "refresher" <=> auto'[c] = "due"
    BY DEF RenewalsAreDue, LockHeldToRenew
  <2> QED BY <2>1, <2>2 DEF LockHeldToRenew
<1>2. ASSUME NEW q \in Process, pc'[q] = "renewing" PROVE ~Fit(with[q])'
  <2>1. pc[q] = "renewing" /\ with'[q] = with[q] /\ exp'[with[q]] = exp[with[q]]
    BY <1>2
  <2>2. ~(now < exp[with[q]] - Margin)
    BY <2>1 DEF RenewalsAreDue, Fit
  <2>3. exp[with[q]] \in Nat /\ now \in Nat
    BY <2>1, OwnersAreClients DEF ConnectionTypeOK
  <2>4. ~(now' < exp[with[q]] - Margin)
    BY <2>2, <2>3
  <2> QED BY <2>1, <2>4 DEF Fit
<1> QED BY <1>1, <1>2 DEF RenewalsAreDue

\* The lock of a client is held by whoever authenticates it, who found its token old.
LEMMA RenewalsAreDueHolds == ConnectionSpec => []RenewalsAreDue
<1>1. ConnectionInit => RenewalsAreDue
  BY DEF ConnectionInit, BootPc, Nobody, RenewalsAreDue, LockHeldToRenew
<1>2. ConnectionTypeOK /\ ClientsAreMade /\ RenewalsAreDue /\ [ConnectionNext]_connectionVars => RenewalsAreDue'
  <2> SUFFICES ASSUME ConnectionTypeOK, ClientsAreMade, RenewalsAreDue, [ConnectionNext]_connectionVars
               PROVE  RenewalsAreDue'
    OBVIOUS
  <2> USE DEF clientVars, procVars
  <2>0. now \in Nat /\ \A p \in Process : p # None /\ p # "refresher" /\ with[p] \in 0 .. made
    BY DEF Process, ConnectionTypeOK
  <2>1. CASE Restart
    BY <2>0, <2>1 DEF Restart, BootPc, Nobody, RenewalsAreDue, LockHeldToRenew
  <2>2. ASSUME NEW p \in Process, pc[p] # "renewing", NEW who, NEW b \in BOOLEAN,
               NEW s, s # "renewing", NewClient(p, who, b), Goto(p, s), now' = now
        PROVE  RenewalsAreDue'
    <3>1. \A q \in Process : pc'[q] = "renewing" <=> pc[q] = "renewing"
      BY <2>2 DEF Goto, ConnectionTypeOK
    <3>2. ASSUME NEW q \in Process, pc[q] = "renewing"
          PROVE  with'[q] = with[q] /\ exp'[with[q]] = exp[with[q]]
      <4>1. with[q] \in Client /\ with[q] \in 1 .. made /\ made \in Nat
        BY <3>2, OwnersAreClients DEF ConnectionTypeOK
      <4> QED BY <2>2, <3>2, <4>1 DEF NewClient, ConnectionTypeOK
    <3>3. \A c \in Client : auto'[c] = "due" <=> auto[c] = "due"
      BY <2>2 DEF NewClient, ClientsAreMade, ConnectionTypeOK
    <3>4. lock' = lock
      BY <2>2 DEF NewClient
    <3> QED BY <2>0, <2>2, <3>1, <3>2, <3>3, <3>4, RenewalsUndisturbed
  <2>3. ASSUME NEW p \in Process, pc[p] # "renewing", NEW s, s # "renewing",
               pc' = [pc EXCEPT ![p] = s], NEW w, with' = [with EXCEPT ![p] = w],
               UNCHANGED <<now, clientVars>>
        PROVE  RenewalsAreDue'
    BY <2>0, <2>3, RenewalsUndisturbed DEF ConnectionTypeOK
  <2>4. ASSUME NEW p \in Process, pc[p] # "renewing", NEW s, s # "renewing",
               Goto(p, s), with' = with, UNCHANGED <<now, clientVars>>
        PROVE  RenewalsAreDue'
    BY <2>0, <2>4, RenewalsUndisturbed DEF ConnectionTypeOK, Goto
  <2>5. ASSUME NEW p \in Process, pc[p] # "renewing", Leave(p), UNCHANGED <<now, clientVars>>
        PROVE  RenewalsAreDue'
    BY <2>3, <2>5 DEF Leave
  <2>6. ASSUME NEW p \in Process, NEW who \in Account, Connect(p, who) PROVE RenewalsAreDue'
    BY <2>2, <2>6 DEF Connect
  <2>7. CASE AutoConnect
    BY <2>2, <2>5, <2>7 DEF AutoConnect, Process
  <2>8. ASSUME NEW p \in Process, UseClient(p) \/ ReadConfig(p) PROVE RenewalsAreDue'
    BY <2>3, <2>4, <2>8 DEF UseClient, ReadConfig, Goto
  <2>9. ASSUME NEW p \in Process, SetClient(p) \/ SaveConfig(p) \/ FailToSave(p) \/ Install(p)
        PROVE  RenewalsAreDue'
    BY <2>4, <2>5, <2>9 DEF SetClient, SaveConfig, FailToSave, Install
  <2>10. ASSUME NEW p \in Process, Rebuild(p) PROVE RenewalsAreDue'
    BY <2>2, <2>5, <2>10 DEF Rebuild
  <2>11. ASSUME NEW p \in Process, Look(p) PROVE RenewalsAreDue'
    BY <2>4, <2>11 DEF Look
  <2>12. ASSUME NEW p \in Process, Send(p) PROVE RenewalsAreDue'
    BY <2>3, <2>4, <2>12 DEF Send, Goto
  <2>13. ASSUME NEW p \in Process, LookAgain(p) PROVE RenewalsAreDue'
    <3>1. CASE Fit(with[p]) /\ Goto(p, "sending") /\ UNCHANGED lock
      BY <2>4, <2>13, <3>1 DEF LookAgain
    <3>2. CASE ~Fit(with[p]) /\ Goto(p, "renewing") /\ lock' = [lock EXCEPT ![with[p]] = p]
      <4>1. with[p] \in Client /\ lock[with[p]] = None /\ pc[p] = "wanting"
        BY <2>13, OwnersAreClients DEF LookAgain
      <4>2. /\ UNCHANGED <<now, exp, auto, with>>
            /\ \A q \in Process : pc'[q] = IF q = p THEN "renewing" ELSE pc[q]
            /\ \A c \in Client : lock'[c] = IF c = with[p] THEN p ELSE lock[c]
        BY <2>13, <3>2 DEF LookAgain, Goto, ConnectionTypeOK
      <4>3. LockHeldToRenew'
        BY <2>0, <4>1, <4>2 DEF RenewalsAreDue, LockHeldToRenew
      <4>4. ASSUME NEW q \in Process, pc'[q] = "renewing" PROVE ~Fit(with[q])'
        BY <3>2, <4>2, <4>4 DEF RenewalsAreDue, Fit
      <4> QED BY <4>3, <4>4 DEF RenewalsAreDue
    <3> QED BY <2>13, <3>1, <3>2 DEF LookAgain
  <2>14. ASSUME NEW p \in Process, Renew(p) PROVE RenewalsAreDue'
    <3>1. with[p] \in Client /\ lock[with[p]] = p /\ pc[p] = "renewing"
      BY <2>14, OwnersAreClients DEF Renew, RenewalsAreDue, LockHeldToRenew
    <3>2. /\ UNCHANGED <<now, auto>>
          /\ \A c \in Client : lock'[c] = IF c = with[p] THEN None ELSE lock[c]
      BY <2>14 DEF Renew, ConnectionTypeOK
    <3>3. \A q \in Process : pc'[q] = "renewing" <=> q # p /\ pc[q] = "renewing"
      BY <2>14 DEF Renew, Goto, ConnectionTypeOK
    <3>4. \A q \in Process : q # p => with'[q] = with[q]
      BY <2>14 DEF Renew, ConnectionTypeOK
    <3>5. \A q \in Process : q # p /\ pc[q] = "renewing" => with[q] \in Client /\ with[q] # with[p]
      BY <3>1, OwnersAreClients DEF RenewalsAreDue, LockHeldToRenew
    <3>6. \A c \in Client : c # with[p] => exp'[c] = exp[c]
      BY <2>14 DEF Renew, ConnectionTypeOK
    <3>7. LockHeldToRenew'
      <4>1. ASSUME NEW c \in Client, NEW q \in Process
            PROVE  lock'[c] = q <=> pc'[q] = "renewing" /\ with'[q] = c
        BY <2>0, <3>1, <3>2, <3>3, <3>4, <3>5 DEF RenewalsAreDue, LockHeldToRenew
      <4>2. ASSUME NEW c \in Client PROVE lock'[c] = "refresher" <=> auto'[c] = "due"
        BY <2>0, <3>1, <3>2, NoneAssumption DEF RenewalsAreDue, LockHeldToRenew
      <4> QED BY <4>1, <4>2 DEF LockHeldToRenew
    <3>8. ASSUME NEW q \in Process, pc'[q] = "renewing" PROVE ~Fit(with[q])'
      BY <3>2, <3>3, <3>4, <3>5, <3>6, <3>8 DEF RenewalsAreDue, Fit
    <3> QED BY <3>7, <3>8 DEF RenewalsAreDue
  <2>15. ASSUME NEW c \in Client, Fire(c) PROVE RenewalsAreDue'
    <3>1. /\ UNCHANGED <<now, exp, pc, with>> /\ lock[c] = None
          /\ \A d \in Client : lock'[d] = IF d = c THEN "refresher" ELSE lock[d]
          /\ \A d \in Client : auto'[d] = IF d = c THEN "due" ELSE auto[d]
      BY <2>15 DEF Fire, ConnectionTypeOK
    <3>2. LockHeldToRenew'
      BY <2>0, <3>1 DEF RenewalsAreDue, LockHeldToRenew
    <3> QED BY <3>1, <3>2 DEF RenewalsAreDue, Fit
  <2>16. ASSUME NEW c \in Client, Refresh(c) PROVE RenewalsAreDue'
    <3>1. /\ UNCHANGED <<now, pc, with>> /\ auto[c] = "due"
          /\ \A d \in Client : lock'[d] = IF d = c THEN None ELSE lock[d]
          /\ \A d \in Client : auto'[d] = IF d = c THEN "asleep" ELSE auto[d]
          /\ \A d \in Client : d # c => exp'[d] = exp[d]
      BY <2>16 DEF Refresh, ConnectionTypeOK
    <3>2. lock[c] = "refresher"
      BY <3>1 DEF RenewalsAreDue, LockHeldToRenew
    <3>3. LockHeldToRenew'
      BY <2>0, <3>1, <3>2, NoneAssumption DEF RenewalsAreDue, LockHeldToRenew
    <3>4. \A q \in Process : pc[q] = "renewing" => with[q] \in Client /\ with[q] # c
      BY <2>0, <3>2, OwnersAreClients DEF RenewalsAreDue, LockHeldToRenew
    <3>5. ASSUME NEW q \in Process, pc'[q] = "renewing" PROVE ~Fit(with[q])'
      BY <3>1, <3>4, <3>5 DEF RenewalsAreDue, Fit
    <3> QED BY <3>3, <3>5 DEF RenewalsAreDue
  <2>17. CASE Tick
    BY <2>0, <2>17, RenewalsUndisturbed DEF Tick
  <2>18. CASE UNCHANGED connectionVars
    BY <2>0, <2>18, RenewalsUndisturbed DEF connectionVars
  <2> QED
    BY <2>1, <2>6, <2>7, <2>8, <2>9, <2>10, <2>11, <2>12, <2>13, <2>14, <2>15, <2>16,
       <2>17, <2>18 DEF ConnectionNext, ChangeStep, CallStep
<1> QED BY <1>1, <1>2, ConnectionTypesHold, ClientsAreMadeHolds, PTL DEF ConnectionSpec

\* The lock of a client is held exactly by whoever is authenticating it: no
\* refusal, restart or late refresher leaves it taken.
THEOREM LockHeldToRenewHolds == ConnectionSpec => []LockHeldToRenew
<1>1. RenewalsAreDue => LockHeldToRenew
  BY DEF RenewalsAreDue
<1> QED BY <1>1, RenewalsAreDueHolds, PTL

\* A step that starts no call, ends no wait and lets no time pass.
LEMMA CallsUndisturbed ==
  ASSUME CallsAreFit, now' = now,
         \A q \in Process : pc'[q] = "sending" => pc[q] = "sending" /\ taken'[q] = taken[q]
  PROVE  CallsAreFit'
BY DEF CallsAreFit

\* A call that starts now, with a token that ends later than the margin.
LEMMA CallStarts ==
  ASSUME ConnectionTypeOK, CallsAreFit, now' = now, NEW p \in Process, NEW end \in Nat,
         now + Margin < end, Goto(p, "sending"), TakeToken(p, end)
  PROVE  CallsAreFit'
<1>1. now \in Nat
  BY DEF ConnectionTypeOK
<1>2. /\ taken'[p].at = now /\ taken'[p].end = end
      /\ \A q \in Process : q # p => taken'[q] = taken[q] /\ pc'[q] = pc[q]
  BY DEF TakeToken, Goto, ConnectionTypeOK, TokensTypeOK
<1>3. now <= now + CallTime
  BY <1>1
<1> QED BY <1>2, <1>3 DEF CallsAreFit

\* The calls that are out carry a token taken in time.
LEMMA CallsAreFitHolds == ConnectionSpec => []CallsAreFit
<1>1. ConnectionInit => CallsAreFit
  BY DEF ConnectionInit, BootPc, CallsAreFit
<1>2. ConnectionTypeOK /\ ClientsAreMade /\ CallsAreFit /\ [ConnectionNext]_connectionVars
        => CallsAreFit'
  <2> SUFFICES ASSUME ConnectionTypeOK, ClientsAreMade, CallsAreFit,
                      [ConnectionNext]_connectionVars
               PROVE  CallsAreFit'
    OBVIOUS
  <2> USE DEF procVars
  <2>0. now \in Nat
    BY DEF ConnectionTypeOK
  <2>1. CASE Restart
    BY <2>1 DEF Restart, BootPc, CallsAreFit
  <2>2. CASE Tick
    <3>1. now' = now + 1 /\ pc' = pc /\ taken' = taken
      BY <2>2 DEF Tick
    <3>2. ASSUME NEW q \in Process, pc[q] = "sending"
          PROVE  now + 1 <= taken[q].at + CallTime
      <4>1. taken[q].at \in Nat /\ now < taken[q].at + CallTime
        BY <2>2, <3>2 DEF Tick, ConnectionTypeOK, TokensTypeOK
      <4> QED BY <2>0, <4>1
    <3> QED BY <3>1, <3>2 DEF CallsAreFit
  <2>3. ASSUME NEW p \in Process, Look(p) \/ LookAgain(p) PROVE CallsAreFit'
    <3>1. now' = now /\ exp[with[p]] \in Nat
      BY <2>3, OwnersAreClients DEF Look, LookAgain
    <3>2. CASE Fit(with[p]) /\ Goto(p, "sending") /\ TakeToken(p, exp[with[p]])
      <4>1. now + Margin < exp[with[p]]
        BY <2>0, <3>1, <3>2 DEF Fit
      <4> QED BY <3>1, <3>2, <4>1, CallStarts
    <3>3. CASE (Goto(p, "wanting") \/ Goto(p, "renewing")) /\ UNCHANGED taken
      BY <3>1, <3>3, CallsUndisturbed DEF Goto, ConnectionTypeOK
    <3> QED BY <2>3, <3>2, <3>3 DEF Look, LookAgain
  <2>4. ASSUME NEW p \in Process, Renew(p) PROVE CallsAreFit'
    <3>1. now' = now
      BY <2>4 DEF Renew
    <3>2. CASE Goto(p, "sending") /\ TakeToken(p, now + Lifetime)
      <4>1. now + Lifetime \in Nat /\ now + Margin < now + Lifetime
        BY <2>0
      <4> QED BY <3>1, <3>2, <4>1, CallStarts
    <3>3. CASE Goto(p, "idle") /\ UNCHANGED taken
      BY <3>1, <3>3, CallsUndisturbed DEF Goto, ConnectionTypeOK
    <3> QED BY <2>4, <3>2, <3>3 DEF Renew
  <2>5. ASSUME NEW p \in Process, Send(p) PROVE CallsAreFit'
    BY <2>5, CallsUndisturbed DEF Send, Goto, ConnectionTypeOK
  <2>6. ASSUME NEW p \in Process, UseClient(p) \/ ReadConfig(p) \/ ChangeStep(p)
        PROVE  CallsAreFit'
    BY <2>6, CallsUndisturbed DEF UseClient, ReadConfig, ChangeStep, SetClient, SaveConfig,
       FailToSave, Rebuild, Install, Goto, Leave, ConnectionTypeOK
  <2>7. ASSUME NEW p \in Process, NEW who \in Account, Connect(p, who) PROVE CallsAreFit'
    BY <2>7, CallsUndisturbed DEF Connect, Goto, ConnectionTypeOK
  <2>8. CASE AutoConnect
    <3>1. Main \in Process
      BY DEF Process
    <3> QED BY <2>8, <3>1, CallsUndisturbed DEF AutoConnect, Goto, Leave, ConnectionTypeOK
  <2>9. CASE (\E c \in Client : Fire(c) \/ Refresh(c)) \/ UNCHANGED connectionVars
    BY <2>9, CallsUndisturbed DEF Fire, Refresh, connectionVars
  <2> QED
    BY <2>1, <2>2, <2>3, <2>4, <2>5, <2>6, <2>7, <2>8, <2>9 DEF ConnectionNext, CallStep
<1> QED BY <1>1, <1>2, ConnectionTypesHold, ClientsAreMadeHolds, PTL DEF ConnectionSpec

\* TokenOutlivesCall for any callers, clients, lifetimes and margins: the margin
\* is what a call may take, so the token a call carries ends after the call.
THEOREM TokenOutlivesCallHolds == ConnectionSpec => []TokenOutlivesCall
<1>1. ConnectionTypeOK /\ CallsAreFit => TokenOutlivesCall
  <2> SUFFICES ASSUME ConnectionTypeOK, CallsAreFit, NEW p \in Process, pc[p] = "sending"
               PROVE  now < taken[p].end
    BY DEF TokenOutlivesCall
  <2>1. now \in Nat /\ taken[p].at \in Nat /\ taken[p].end \in Nat
    BY DEF ConnectionTypeOK, TokensTypeOK
  <2> QED BY <2>1 DEF CallsAreFit
<1> QED BY <1>1, ConnectionTypesHold, CallsAreFitHolds, PTL

\* No caller renews a token that another has renewed while it waited.
THEOREM OneRenewalPerLapseHolds == ConnectionSpec => OneRenewalPerLapse
<1> DEFINE Once ==
      \A p \in Caller, c \in Client :
        pc[p] = "renewing" /\ with[p] = c /\ exp'[c] # exp[c] => ~Fit(c)
<1>1. RenewalsAreDue /\ [ConnectionNext]_connectionVars => [Once]_connectionVars
  BY DEF RenewalsAreDue, Process
<1> QED BY <1>1, RenewalsAreDueHolds, PTL DEF ConnectionSpec, OneRenewalPerLapse

-----------------------------------------------------------------------------
(* The handler's client and the stored account *)

\* A step outside the changes of the session.
LEMMA ChangesUndisturbed ==
  ASSUME ConnectionTypeOK, ChangesKeepOrder, UNCHANGED <<slot, config, cred, account, alone, settled>>,
         \A q \in Process : Busy(q) \/ Busy(q)' => pc'[q] = pc[q] /\ with'[q] = with[q]
  PROVE  ChangesKeepOrder'
BY DEF ChangesKeepOrder, Busy, Changing

\* The order of the changes to the session: who makes one alone is the only one
\* at it, works with a client of the account in hand, and finds what it left.
LEMMA ChangesKeepOrderHolds == ConnectionSpec => []ChangesKeepOrder
<1>1. ConnectionInit => ChangesKeepOrder
  BY DEF ConnectionInit, BootPc, ChangesKeepOrder, Busy, Changing
<1>2. ConnectionTypeOK /\ ClientsAreMade /\ ChangesKeepOrder /\ [ConnectionNext]_connectionVars
        => ChangesKeepOrder'
  <2> SUFFICES ASSUME ConnectionTypeOK, ClientsAreMade, ChangesKeepOrder, [ConnectionNext]_connectionVars
               PROVE  ChangesKeepOrder'
    OBVIOUS
  <2> USE DEF clientVars, sessionVars, procVars, ghostVars
  <2>0. Main \in Process
    BY DEF Process
  <2>1. CASE Restart
    BY <2>1 DEF Restart, BootPc, ChangesKeepOrder, Busy, Changing
  <2>2. ASSUME NEW p \in Process, NEW who, NEW b, NewClient(p, who, b)
        PROVE  /\ \A c \in 1 .. made : account'[c] = account[c]
               /\ made \in Nat /\ slot \in 0 .. made
               /\ account'[with'[p]] = who
               /\ \A q \in Process : q # p => with'[q] = with[q]
               /\ \A q \in Process : pc[q] \in {"slotting", "saving", "installing"} =>
                    account'[with[q]] = account[with[q]]
    <3>1. made + 1 \in Client /\ made \in Nat /\ slot \in 0 .. made
      BY <2>2 DEF NewClient, Client, ConnectionTypeOK
    <3>2. \A q \in Process : pc[q] \in {"slotting", "saving", "installing"} => with[q] \in 1 .. made
      BY OwnersAreClients
    <3>3. \A c \in 1 .. made : account'[c] = account[c]
      BY <2>2, <3>1 DEF NewClient, ConnectionTypeOK, Client
    <3> QED BY <2>2, <3>1, <3>2, <3>3 DEF NewClient, ConnectionTypeOK
  <2>3. ASSUME NEW p \in Process, NEW who \in Account, Connect(p, who) PROVE ChangesKeepOrder'
    <3>1. /\ pc[p] = "idle" /\ NewClient(p, who, TRUE)
          /\ \A q \in Process : pc'[q] = IF q = p THEN "slotting" ELSE pc[q]
          /\ \A q \in Process : cred'[q] = IF q = p THEN who ELSE cred[q]
          /\ \A q \in Process : alone'[q] = IF q = p THEN \A o \in Process \ {p} : ~Busy(o) ELSE ~Busy(q)
          /\ UNCHANGED <<slot, config, settled>>
      BY <2>3 DEF Connect, Goto, BeginChange, ConnectionTypeOK
    <3>2. \A q \in Process : q # p /\ Busy(q) => ~alone'[q]
      BY <3>1
    <3>3. /\ account'[with'[p]] = who /\ slot \in 0 .. made
          /\ \A c \in 1 .. made : account'[c] = account[c]
          /\ \A q \in Process : q # p => with'[q] = with[q]
          /\ \A q \in Process : pc[q] \in {"slotting", "saving", "installing"} =>
               account'[with[q]] = account[with[q]]
      BY <2>2, <3>1
    <3>4. slot # 0 => account'[slot] = account[slot]
      BY <3>3 DEF ConnectionTypeOK
    <3>5. \A q \in Process : Busy(q)' <=> q = p \/ Busy(q)
      BY <3>1 DEF Busy, Changing
    <3>6. \A q, o \in Process : Busy(q)' /\ alone'[q] /\ o # q => ~Busy(o)'
      BY <3>1, <3>2, <3>5
    <3>7. ASSUME NEW q \in Process
          PROVE  /\ pc'[q] \in {"slotting", "saving", "installing"} => account'[with'[q]] = cred'[q]
                 /\ alone'[q] /\ pc'[q] = "saving" => slot' = with'[q]
                 /\ alone'[q] /\ pc'[q] \in {"rebuilding", "installing"} => cred'[q] = config'
      <4>1. CASE q = p
        BY <3>1, <3>3, <4>1
      <4>2. CASE q # p
        BY <3>1, <3>2, <3>3, <4>2 DEF ChangesKeepOrder, Busy, Changing
      <4> QED BY <4>1, <4>2
    <3>8. settled' /\ slot' # 0 /\ (\A q \in Process : pc'[q] # "saving") => account'[slot'] = config'
      BY <3>1, <3>4 DEF ChangesKeepOrder
    <3> QED BY <3>6, <3>7, <3>8 DEF ChangesKeepOrder
  <2>4. ASSUME NEW p \in Process, Leave(p), pc[p] # "saving",
               UNCHANGED <<clientVars, slot, config, settled>>
        PROVE  ChangesKeepOrder'
    <3>1. /\ \A q \in Process : pc'[q] = IF q = p THEN "idle" ELSE pc[q]
          /\ \A q \in Process : q # p => with'[q] = with[q] /\ cred'[q] = cred[q] /\ alone'[q] = alone[q]
      BY <2>4 DEF Leave, EndChange, ConnectionTypeOK
    <3> QED BY <2>4, <3>1 DEF ChangesKeepOrder, Busy, Changing
  <2>5. ASSUME NEW p \in Process, NEW s \in {"slotting", "installing"},
               pc[p] \in {"connecting", "rebuilding"}, pc[p] = "rebuilding" <=> s = "installing",
               NewClient(p, cred[p], s = "slotting"), Goto(p, s),
               UNCHANGED <<slot, config, cred, alone, settled>>
        PROVE  ChangesKeepOrder'
    <3>1. \A q \in Process : pc'[q] = IF q = p THEN s ELSE pc[q]
      BY <2>5 DEF Goto, ConnectionTypeOK
    <3> QED BY <2>2, <2>5, <3>1 DEF ChangesKeepOrder, Busy, Changing
  <2>6. CASE AutoConnect
    BY <2>0, <2>4, <2>5, <2>6 DEF AutoConnect
  <2>7. ASSUME NEW p \in Process, Rebuild(p) PROVE ChangesKeepOrder'
    BY <2>4, <2>5, <2>7 DEF Rebuild
  <2>8. ASSUME NEW p \in Process, ReadConfig(p) PROVE ChangesKeepOrder'
    <3>1. /\ pc[p] = "idle"
          /\ \A q \in Process : pc'[q] = IF q = p THEN "rebuilding" ELSE pc[q]
          /\ \A q \in Process : cred'[q] = IF q = p THEN config ELSE cred[q]
          /\ \A q \in Process : alone'[q] = IF q = p THEN \A o \in Process \ {p} : ~Busy(o) ELSE ~Busy(q)
          /\ UNCHANGED <<slot, config, settled, with, account>>
      BY <2>8 DEF ReadConfig, Goto, BeginChange, ConnectionTypeOK
    <3>2. \A q \in Process : Busy(q)' <=> q = p \/ Busy(q)
      BY <3>1 DEF Busy, Changing
    <3>3. \A q \in Process : q # p /\ Busy(q) => ~alone'[q]
      BY <3>1
    <3>4. \A q, o \in Process : Busy(q)' /\ alone'[q] /\ o # q => ~Busy(o)'
      BY <3>1, <3>2, <3>3
    <3>5. ASSUME NEW q \in Process
          PROVE  /\ pc'[q] \in {"slotting", "saving", "installing"} => account'[with'[q]] = cred'[q]
                 /\ alone'[q] /\ pc'[q] = "saving" => slot' = with'[q]
                 /\ alone'[q] /\ pc'[q] \in {"rebuilding", "installing"} => cred'[q] = config'
      <4>1. CASE q = p
        BY <3>1, <4>1
      <4>2. CASE q # p
        BY <3>1, <3>3, <4>2 DEF ChangesKeepOrder, Busy, Changing
      <4> QED BY <4>1, <4>2
    <3>6. settled' /\ slot' # 0 /\ (\A q \in Process : pc'[q] # "saving") => account'[slot'] = config'
      BY <3>1 DEF ChangesKeepOrder
    <3> QED BY <3>4, <3>5, <3>6 DEF ChangesKeepOrder
  <2>9. ASSUME NEW p \in Process, SetClient(p) PROVE ChangesKeepOrder'
    <3>1. /\ pc[p] = "slotting" /\ slot' = with[p]
          /\ \A q \in Process : pc'[q] = IF q = p THEN "saving" ELSE pc[q]
          /\ UNCHANGED <<account, config, with, cred, alone, settled>>
      BY <2>9 DEF SetClient, Goto, ConnectionTypeOK
    <3> QED BY <3>1 DEF ChangesKeepOrder, Busy, Changing
  <2>10. ASSUME NEW p \in Process, SaveConfig(p) \/ FailToSave(p) PROVE ChangesKeepOrder'
    <3>1. /\ pc[p] = "saving" /\ UNCHANGED <<account, slot>>
          /\ \A q \in Process : pc'[q] = IF q = p THEN "idle" ELSE pc[q]
          /\ \A q \in Process : q # p => with'[q] = with[q] /\ cred'[q] = cred[q] /\ alone'[q] = alone[q]
      BY <2>10 DEF SaveConfig, FailToSave, Leave, EndChange, ConnectionTypeOK
    <3>2. CASE SaveConfig(p)
      <4>1. config' = cred[p] /\ settled' = alone[p]
        BY <3>2 DEF SaveConfig
      <4> QED BY <3>1, <4>1 DEF ChangesKeepOrder, Busy, Changing
    <3>3. CASE FailToSave(p)
      <4>1. config' = config /\ settled' = FALSE
        BY <3>3 DEF FailToSave
      <4> QED BY <3>1, <4>1 DEF ChangesKeepOrder, Busy, Changing
    <3> QED BY <2>10, <3>2, <3>3
  <2>11. ASSUME NEW p \in Process, Install(p) PROVE ChangesKeepOrder'
    <3>1. /\ pc[p] = "installing" /\ slot' = with[p] /\ settled' = (settled /\ alone[p])
          /\ UNCHANGED <<account, config, with>>
          /\ \A q \in Process : pc'[q] = IF q = p THEN "calling" ELSE pc[q]
          /\ \A q \in Process : q # p => cred'[q] = cred[q] /\ alone'[q] = alone[q]
      BY <2>11 DEF Install, Goto, EndChange, ConnectionTypeOK
    <3>2. alone[p] => account[with[p]] = config /\ \A q \in Process : q # p => pc[q] \notin Changing
      BY <3>1 DEF ChangesKeepOrder, Busy, Changing
    <3>3. \A q \in Process : Busy(q)' <=> q # p /\ Busy(q)
      BY <3>1 DEF Busy, Changing
    <3>4. \A q, o \in Process : Busy(q)' /\ alone'[q] /\ o # q => ~Busy(o)'
      BY <3>1, <3>3 DEF ChangesKeepOrder
    <3>5. ASSUME NEW q \in Process
          PROVE  /\ pc'[q] \in {"slotting", "saving", "installing"} => account'[with'[q]] = cred'[q]
                 /\ alone'[q] /\ pc'[q] = "saving" => slot' = with'[q]
                 /\ alone'[q] /\ pc'[q] \in {"rebuilding", "installing"} => cred'[q] = config'
      <4>1. CASE q = p
        BY <3>1, <4>1
      <4>2. CASE q # p
        BY <3>1, <4>2 DEF ChangesKeepOrder, Busy, Changing
      <4> QED BY <4>1, <4>2
    <3>6. settled' => account'[slot'] = config'
      BY <3>1, <3>2
    <3> QED BY <3>4, <3>5, <3>6 DEF ChangesKeepOrder
  <2>12. ASSUME NEW p \in Process, UseClient(p) \/ CallStep(p) PROVE ChangesKeepOrder'
    BY <2>12, ChangesUndisturbed
    DEF UseClient, CallStep, Look, LookAgain, Renew, Send, Goto, Busy, Changing, ConnectionTypeOK
  <2>13. CASE Tick \/ (\E c \in Client : Fire(c) \/ Refresh(c)) \/ UNCHANGED connectionVars
    BY <2>13, ChangesUndisturbed DEF Tick, Fire, Refresh, connectionVars
  <2> QED
    BY <2>1, <2>3, <2>6, <2>7, <2>8, <2>9, <2>10, <2>11, <2>12, <2>13 DEF ConnectionNext, ChangeStep
<1> QED BY <1>1, <1>2, ConnectionTypesHold, ClientsAreMadeHolds, PTL DEF ConnectionSpec

\* After a change made alone, and after any restart, the client of the handler is
\* of the stored account.
THEOREM SessionSound == ConnectionSpec => []SessionIsOfStoredAccount
<1>1. ChangesKeepOrder => SessionIsOfStoredAccount
  BY DEF ChangesKeepOrder, SessionIsOfStoredAccount, Busy, Changing
<1> QED BY <1>1, ChangesKeepOrderHolds, PTL
=============================================================================
