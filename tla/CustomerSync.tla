---------------------------- MODULE CustomerSync ----------------------------
(***************************************************************************)
(* The customers table under synchronisation: saveCustomers, syncCustomers *)
(* and sweepCustomers (src/internal/handler/siigo.go) over UpsertCustomer  *)
(* and DeactivateCustomersNotSyncedSince of the stores.                    *)
(*                                                                         *)
(* Nothing excludes two runs: the cron call, its curl retries and the two  *)
(* buttons of the UI all start one, so the rows are written by several     *)
(* runs at once while Siigo's own list changes under the page numbers.     *)
(* Retries, the semaphore and the document passes are in SyncRun; here a   *)
(* page is fetched or given up on, and its rows are stored one by one.     *)
(* Definitions commented "Variant" are bugs the next definition could have *)
(* had; they are not part of the specification.                            *)
(***************************************************************************)
EXTENDS Integers, FiniteSets

CONSTANTS
  Customer,    \* third parties (identification and branch), in Siigo's order
  Blank,       \* those Siigo holds without an identification
  Run,         \* bound: runs that may be started
  PageSize,    \* siigoPageSize
  MaxPages,    \* bound: pages the list can fill
  Skew,        \* the database's clock minus the server's
  MaxChanges   \* bound: changes made in Siigo

ASSUME CustomerAssumption ==
  Customer \subseteq Nat /\ IsFiniteSet(Customer) /\ Blank \subseteq Customer
ASSUME PageAssumption     == PageSize \in Nat \ {0} /\ MaxPages \in Nat \ {0}
ASSUME CapacityAssumption == Cardinality(Customer) <= PageSize * MaxPages
\* startedAt is the server's clock and synced_at the database's: the sweep
\* compares the two, and nothing keeps them together.
ASSUME SkewAssumption     == Skew \in Int

Page == 1 .. MaxPages

VARIABLES
  siigo,     \* the third parties Siigo lists
  enabled,   \* those it holds as active
  changes,   \* changes made so far
  known,     \* rows of the customers table
  active,    \* rows with active = true
  synced,    \* row -> synced_at
  clock,     \* the server's clock
  stage,     \* run -> "idle", "passing", "swept" or "ended"
  started,   \* run -> startedAt
  total,     \* run -> totalPages from its page 1
  page,      \* run -> page -> where its goroutine is
  got,       \* run -> page -> fetched records still to be stored
  touched,   \* history: run -> rows it stored
  imported,  \* run -> rows it counted in CustomersImported
  steady,    \* history: run -> third parties listed ever since it started
  quiet      \* history: run -> nothing else happened since it started

remoteVars == <<siigo, enabled, changes>>
tableVars  == <<known, active, synced, imported, touched>>
runVars    == <<stage, started, total, page, got>>
vars       == <<remoteVars, tableVars, runVars, clock, steady, quiet>>

-----------------------------------------------------------------------------
PageState == {"idle", "todo", "saving", "saved", "lost", "dberr"}
Ended     == {"saved", "lost", "dberr"}
Record    == Customer \X BOOLEAN

\* The list endpoint numbers the records it holds at the time of the call.
Rank(c)   == Cardinality({d \in siigo : d <= c})
Listed(k) == {c \in siigo : (k - 1) * PageSize < Rank(c) /\ Rank(c) <= k * PageSize}
PageCount == (Cardinality(siigo) + PageSize - 1) \div PageSize

Expected(r) == {k \in Page : k = 1 \/ k <= total[r]}
Clean(r)    == \A k \in Expected(r) : page[r][k] = "saved"

TypeOK ==
  /\ siigo \subseteq Customer /\ enabled \subseteq siigo /\ changes \in Nat
  /\ known \subseteq Customer \ Blank /\ active \subseteq known
  /\ synced \in [Customer -> Int] /\ clock \in Nat
  /\ stage \in [Run -> {"idle", "passing", "swept", "ended"}]
  /\ started \in [Run -> Nat]
  /\ total \in [Run -> Int]
  /\ page \in [Run -> [Page -> PageState]]
  /\ got \in [Run -> [Page -> SUBSET Record]]
  /\ touched \in [Run -> SUBSET known] /\ imported \in [Run -> SUBSET known]
  /\ steady \in [Run -> SUBSET Customer] /\ quiet \in [Run -> BOOLEAN]

Init ==
  /\ siigo = Customer /\ enabled = Customer /\ changes = 0
  /\ known = {} /\ active = {}
  /\ synced = [c \in Customer |-> 0] /\ clock = 0
  /\ stage = [r \in Run |-> "idle"]
  /\ started = [r \in Run |-> 0] /\ total = [r \in Run |-> 0]
  /\ page = [r \in Run |-> [k \in Page |-> "idle"]]
  /\ got = [r \in Run |-> [k \in Page |-> {}]]
  /\ touched = [r \in Run |-> {}] /\ imported = [r \in Run |-> {}]
  /\ steady = [r \in Run |-> {}] /\ quiet = [r \in Run |-> FALSE]

-----------------------------------------------------------------------------
(* Siigo *)

Change ==
  /\ changes < MaxChanges
  /\ changes' = changes + 1
  /\ quiet' = [r \in Run |-> FALSE]
  /\ UNCHANGED <<tableVars, runVars, clock>>

\* Also what a corrected identification looks like from here: the old identity
\* is no longer listed and a new one is.
Delete(c) ==
  /\ c \in siigo
  /\ siigo' = siigo \ {c} /\ enabled' = enabled \ {c}
  /\ steady' = [r \in Run |-> steady[r] \ {c}]
  /\ Change

Add(c) ==
  /\ c \notin siigo
  /\ siigo' = siigo \cup {c} /\ enabled' = enabled \cup {c}
  /\ UNCHANGED steady
  /\ Change

Disable(c) ==
  /\ c \in enabled
  /\ enabled' = enabled \ {c}
  /\ steady' = [r \in Run |-> steady[r] \ {c}]
  /\ UNCHANGED siigo
  /\ Change

-----------------------------------------------------------------------------
(* A run *)

\* startedAt := time.Now(), and page 1 is requested.  Time has passed since
\* anything a finished run did.
Start(r) ==
  /\ stage[r] = "idle"
  /\ clock' = clock + 1
  /\ started' = [started EXCEPT ![r] = clock + 1]
  /\ stage' = [stage EXCEPT ![r] = "passing"]
  /\ page' = [page EXCEPT ![r][1] = "todo"]
  /\ steady' = [steady EXCEPT ![r] = siigo]
  /\ quiet' = [q \in Run |-> q = r /\ \A s \in Run : stage[s] # "passing"]
  /\ UNCHANGED <<remoteVars, tableVars, total, got>>

\* GetCustomers answered, at the first attempt or after retries.
FetchPage(r, k) ==
  /\ page[r][k] = "todo"
  /\ got' = [got EXCEPT ![r][k] = {<<c, c \in enabled>> : c \in Listed(k)}]
  /\ page' = [page EXCEPT ![r][k] = IF Listed(k) = {} THEN "saved" ELSE "saving"]
  /\ total' = IF k = 1 THEN [total EXCEPT ![r] = PageCount] ELSE total
  /\ UNCHANGED <<remoteVars, tableVars, stage, started, clock, steady, quiet>>

\* Every attempt failed: the page is counted in pageErrs.
LosePage(r, k) ==
  /\ page[r][k] = "todo"
  /\ page' = [page EXCEPT ![r][k] = "lost"]
  /\ UNCHANGED <<remoteVars, tableVars, stage, started, total, got, clock, steady, quiet>>

\* Variant: a row that was swept is taken for a new one.
UpsertCountingInactive(r, c, flag) ==
  /\ known' = known \cup {c}
  /\ active' = IF flag THEN active \cup {c} ELSE active \ {c}
  /\ synced' = [synced EXCEPT ![c] = clock + Skew]
  /\ touched' = [touched EXCEPT ![r] = @ \cup {c}]
  /\ imported' = IF c \in active THEN imported ELSE [imported EXCEPT ![r] = @ \cup {c}]

\* Variant: the update branch of the upsert forgets synced_at.
UpsertStampingInserts(r, c, flag) ==
  /\ known' = known \cup {c}
  /\ active' = IF flag THEN active \cup {c} ELSE active \ {c}
  /\ synced' = IF c \in known THEN synced ELSE [synced EXCEPT ![c] = clock + Skew]
  /\ touched' = [touched EXCEPT ![r] = @ \cup {c}]
  /\ imported' = IF c \in known THEN imported ELSE [imported EXCEPT ![r] = @ \cup {c}]

\* UpsertCustomer: one statement that inserts or rewrites the row of the
\* identity, stamps it with the database's clock and tells which it did.
Upsert(r, c, flag) ==
  /\ known' = known \cup {c}
  /\ active' = IF flag THEN active \cup {c} ELSE active \ {c}
  /\ synced' = [synced EXCEPT ![c] = clock + Skew]
  /\ touched' = [touched EXCEPT ![r] = @ \cup {c}]
  /\ imported' = IF c \in known THEN imported ELSE [imported EXCEPT ![r] = @ \cup {c}]

\* saveCustomers, one record of the page: a record without an identification
\* is skipped.  The page is done with its last record.
SaveRecord(r, k) ==
  /\ page[r][k] = "saving"
  /\ \E e \in got[r][k] :
       /\ \A d \in got[r][k] : e[1] <= d[1]
       /\ IF e[1] \in Blank THEN UNCHANGED tableVars ELSE Upsert(r, e[1], e[2])
       /\ got' = [got EXCEPT ![r][k] = @ \ {e}]
       /\ page' = IF got[r][k] = {e} THEN [page EXCEPT ![r][k] = "saved"] ELSE page
  /\ UNCHANGED <<remoteVars, stage, started, total, clock, steady, quiet>>

\* The first store error of a page abandons the rest of it.
FailToSave(r, k) ==
  /\ page[r][k] = "saving"
  /\ page' = [page EXCEPT ![r][k] = "dberr"]
  /\ got' = [got EXCEPT ![r][k] = {}]
  /\ UNCHANGED <<remoteVars, tableVars, stage, started, total, clock, steady, quiet>>

\* One goroutine per page that page 1 announced.
FanOut(r) ==
  /\ page[r][1] = "saved" /\ stage[r] = "passing"
  /\ \E k \in Expected(r) : page[r][k] = "idle"
  /\ page' = [page EXCEPT ![r] = [k \in Page |->
                IF k \in Expected(r) \ {1} THEN "todo" ELSE @[k]]]
  /\ UNCHANGED <<remoteVars, tableVars, stage, started, total, got, clock, steady, quiet>>

\* All goroutines of the pass have returned.
Joined(r) ==
  /\ stage[r] = "passing"
  /\ page[r][1] \in Ended
  /\ page[r][1] = "saved" => \A k \in Expected(r) : page[r][k] \in Ended

\* Variant: a pass with lost pages sweeps too.
SweepAfterPartialPass(r) ==
  /\ Joined(r)
  /\ active' = {c \in active : synced[c] >= started[r]}
  /\ stage' = [stage EXCEPT ![r] = "swept"]
  /\ UNCHANGED <<remoteVars, known, synced, imported, touched, started, total, page, got,
                 clock, steady, quiet>>

\* DeactivateCustomersNotSyncedSince(startedAt), after a clean pass.
Sweep(r) ==
  /\ Joined(r) /\ Clean(r)
  /\ active' = {c \in active : synced[c] >= started[r]}
  /\ stage' = [stage EXCEPT ![r] = "swept"]
  /\ UNCHANGED <<remoteVars, known, synced, imported, touched, started, total, page, got,
                 clock, steady, quiet>>

\* A lost page, a store error (in this pass or in a document pass of the same
\* run) or an error of the sweep itself: nothing is deactivated.
EndWithoutSweep(r) ==
  /\ Joined(r)
  /\ stage' = [stage EXCEPT ![r] = "ended"]
  /\ UNCHANGED <<remoteVars, tableVars, started, total, page, got, clock, steady, quiet>>

-----------------------------------------------------------------------------
SiigoStep == \E c \in Customer : Delete(c) \/ Add(c) \/ Disable(c)

PageStep(r, k) ==
  FetchPage(r, k) \/ LosePage(r, k) \/ SaveRecord(r, k) \/ FailToSave(r, k)

RunStep(r) == Start(r) \/ FanOut(r) \/ Sweep(r) \/ EndWithoutSweep(r)

Next ==
  \/ SiigoStep
  \/ \E r \in Run : RunStep(r)
  \/ \E r \in Run, k \in Page : PageStep(r, k)

Spec == Init /\ [][Next]_vars

-----------------------------------------------------------------------------
(* Properties *)

\* A third party is only ever deactivated for one of two reasons: Siigo itself
\* returned it as inactive, or a run that stored every customer page did not
\* meet it.  However runs overlap, no run's sweep undoes what that run stored.
DeactivationHasCause ==
  [][\A c \in active \ active' : \E r \in Run :
       \/ stage[r] # "swept" /\ stage'[r] = "swept" /\ Clean(r) /\ c \notin touched[r]
       \/ \E k \in Page : <<c, FALSE>> \in got[r][k] \ got'[r][k]]_vars

\* A third party is counted as imported by exactly one run, however many runs
\* meet it for the first time at once.
ImportedOnce ==
  \A c \in known : \E r \in Run :
    /\ c \in imported[r]
    /\ \A q \in Run \ {r} : c \notin imported[q]

\* A clean run during which nothing else happened leaves exactly the third
\* parties active that Siigo holds as active: the vanished ones are swept, the
\* disabled ones are off, and everything an earlier run missed is there.
QuietRunMirrorsSiigo ==
  [][\A r \in Run :
       stage[r] = "passing" /\ stage'[r] = "swept" /\ quiet[r] =>
         active' = enabled \ Blank]_vars

\* sweepCustomers' comment (siigo.go): the sweep "deactivates rows the run
\* never touched - a third party deleted in Siigo, or one whose identification
\* was corrected there".  One listed as active all along is neither.
ListedStaysActive ==
  [][\A r \in Run :
       stage[r] = "passing" /\ stage'[r] = "swept" =>
         steady[r] \cap active \subseteq active']_vars

-----------------------------------------------------------------------------
(* The inductive invariants *)

\* Whatever a run stored carries a stamp no older than the run's start.
StampsFollowStart ==
  \A r \in Run :
    /\ started[r] <= clock
    /\ \A c \in touched[r] : synced[c] >= started[r]
    /\ stage[r] = "idle" => touched[r] = {} /\ \A k \in Page : page[r][k] = "idle"

\* No row carries a stamp of a time still to come.
StampsFollowClock == \A c \in Customer : synced[c] <= clock + Skew

\* Pages are only under way while the pass is, and the later ones only after
\* page 1 was stored.
PagesFollowStage ==
  \A r \in Run, k \in Page : page[r][k] \in {"todo", "saving"} =>
    /\ stage[r] = "passing"
    /\ k = 1 \/ (page[r][1] = "saved" /\ k \in Expected(r))

\* No other run is passing next to a quiet one.
QuietRunIsAlone ==
  \A r, q \in Run : quiet[r] /\ stage[r] = "passing" /\ stage[q] = "passing" => q = r

\* What a quiet run fetched is what Siigo lists, each record of it is stored,
\* skipped or still to come, and the other rows carry an older stamp.
QuietRunReads ==
  \A r \in Run : quiet[r] /\ stage[r] = "passing" =>
    /\ page[r][1] \in {"saving", "saved"} => total[r] = PageCount
    /\ \A k \in Page :
         /\ page[r][k] = "saving" =>
              \A e \in got[r][k] : e[1] \in Listed(k) /\ e[2] = (e[1] \in enabled)
         /\ page[r][k] \in {"saving", "saved"} => \A c \in Listed(k) :
              \/ c \in Blank \cup touched[r]
              \/ page[r][k] = "saving" /\ <<c, c \in enabled>> \in got[r][k]
    /\ \A c \in touched[r] : c \in active <=> c \in enabled
    /\ \A c \in known \ touched[r] : synced[c] < started[r] + Skew

CustomerInvariant ==
  /\ StampsFollowStart /\ StampsFollowClock /\ PagesFollowStage
  /\ QuietRunIsAlone /\ QuietRunReads

=============================================================================
