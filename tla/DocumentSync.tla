---------------------------- MODULE DocumentSync ----------------------------
(***************************************************************************)
(* Sales and purchase invoices under synchronisation: resolveDates,        *)
(* creditedByInvoice, syncInvoices, syncPurchases and                      *)
(* invoiceStatusWithCredits (src/internal/handler/siigo.go) over the       *)
(* upserts of the PostgreSQL store.                                        *)
(*                                                                         *)
(* A run decides on a window of dates, reads the credit notes page by      *)
(* page, and only then reads the documents, page by page as well.  Every   *)
(* list is counted once, on its first page, and a later page is a position *)
(* in whatever the list holds at the time of that call.  Siigo changes     *)
(* meanwhile, and nothing excludes a second run.                           *)
(* Money is counted in units and a date is a day number.  Retries and the  *)
(* semaphore are in SyncRun: here a page is fetched or given up on.        *)
(* Definitions commented "Variant" are bugs the next definition could have *)
(* had; they are not part of the specification.                            *)
(***************************************************************************)
EXTENDS Integers, FiniteSets

CONSTANTS
  Invoice, Purchase,  \* documents of the two kinds, numbered in Siigo's order
  Date,               \* document -> the day on it
  Total,              \* the amount of a document
  Tolerance,          \* a cent
  Note,               \* credit notes, numbered in Siigo's order
  NoteOf,             \* note -> the invoice it is of, if any
  Worth,              \* note -> its total
  NoInvoice,          \* a note without an invoice
  Beginning,          \* what Siigo may hold at first
  PageSize,           \* siigoPageSize
  MaxPages,           \* bound: pages a list can fill
  Run,                \* bound: runs that may be started
  Window,             \* incrementalDays
  LastDay,            \* bound: days that pass
  MaxEvents           \* bound: changes made in Siigo

Doc  == Invoice \cup Purchase
Kind == {"FV", "FC"}
Page == 1 .. MaxPages

DocsOf(kind) == IF kind = "FV" THEN Invoice ELSE Purchase
KindOf(d)    == IF d \in Invoice THEN "FV" ELSE "FC"

ASSUME DocAssumption ==
  /\ Doc \subseteq Nat /\ IsFiniteSet(Doc) /\ Invoice \cap Purchase = {}
  /\ Date \in [Doc -> Int]
ASSUME NoteAssumption ==
  /\ Note \subseteq Nat /\ IsFiniteSet(Note) /\ NoInvoice \notin Invoice
  /\ NoteOf \in [Note -> Invoice \cup {NoInvoice}] /\ Worth \in [Note -> 0 .. Total]
ASSUME AmountAssumption == Total \in Nat \ {0} /\ Tolerance \in Nat
ASSUME BeginningAssumption ==
  Beginning \subseteq [docs : SUBSET Doc, notes : SUBSET Note, balance : [Doc -> 0 .. Total]]
ASSUME PageAssumption == PageSize \in Nat \ {0} /\ MaxPages \in Nat \ {0}
ASSUME CapacityAssumption ==
  Cardinality(Doc) <= PageSize * MaxPages /\ Cardinality(Note) <= PageSize * MaxPages
ASSUME WindowAssumption == Window \in Nat

VARIABLES
  today,
  issued,    \* documents Siigo lists
  balance,   \* document -> what is unpaid, in Siigo
  notes,     \* credit notes Siigo lists
  events,    \* changes made in Siigo so far
  rows,      \* documents with a row in the store
  stored,    \* document -> balance column
  status,    \* document -> status column
  stage,     \* run -> where its request is
  from, to,  \* run -> the window
  next,      \* run -> page of notes to read next
  last,      \* run -> totalPages of the notes, from page 1
  credited,  \* run -> invoice -> credited
  total,     \* run -> kind -> totalPages, from page 1
  page,      \* run -> kind -> page -> where its goroutine is
  got,       \* run -> kind -> page -> fetched records still to be stored
  errors,    \* run -> result.Errors is not empty
  open,      \* history: reconcile -> rows that were open when it started
  covered,   \* history: run -> invoices the notes covered when it started
  touched,   \* history: run -> documents it stored
  moved,     \* history: run -> lists that changed while it was at them
  quiet      \* history: run -> nothing else happened since it started

siigoVars == <<issued, balance, notes, events>>
rowVars   == <<rows, stored, status>>
noteVars  == <<next, last, credited>>
pageVars  == <<total, page, got>>
windowVars == <<from, to>>
startVars == <<open, covered>>
vars      == <<today, siigoVars, rowVars, stage, windowVars, noteVars, pageVars, errors,
               startVars, touched, moved, quiet>>

-----------------------------------------------------------------------------
Amount    == 0 .. Total
Status    == {"Pendiente", "Parcial", "Completado", "Anulado"}
Stage     == {"idle", "notes", "pages", "refused", "ended", "failed"}
PageState == {"idle", "todo", "saving", "saved", "lost", "dberr"}
Finished  == {"saved", "lost", "dberr"}

\* The list endpoints number the records they hold at the time of the call.
Rank(list, x)  == Cardinality({y \in list : y <= x})
Slice(list, k) == {x \in list : (k - 1) * PageSize < Rank(list, x)
                                /\ Rank(list, x) <= k * PageSize}

PageCount(list) == (Cardinality(list) + PageSize - 1) \div PageSize

\* What the notes of a list credit an invoice, counted unit by unit.
Units(list, d)  == {u \in list \X (1 .. Total) : NoteOf[u[1]] = d /\ u[2] <= Worth[u[1]]}
Credit(list, d) == Cardinality(Units(list, d))

\* invoiceStatus
BalanceStatus(unpaid) ==
  CASE unpaid <= 0    -> "Completado"
    [] unpaid < Total -> "Parcial"
    [] OTHER          -> "Pendiente"

Covers(credit) == Total > 0 /\ credit >= Total - Tolerance

\* Variant: any credit note annuls.
StatusOfAnyNote(d, unpaid, credit) ==
  IF d \in Invoice /\ credit > 0 THEN "Anulado" ELSE BalanceStatus(unpaid)

\* invoiceStatusWithCredits for an invoice, invoiceStatus for a purchase.
StatusOf(d, unpaid, credit) ==
  IF d \in Invoice /\ Covers(credit) THEN "Anulado" ELSE BalanceStatus(unpaid)

CreditOf(amounts, d) == IF d \in Invoice THEN amounts[d] ELSE 0

IsOpen(d) == d \in rows /\ status[d] \in {"Pendiente", "Parcial"}

\* Variant: the UNION of the query misses the purchases.
OpenInvoices == {d \in Invoice : IsOpen(d)}

OpenRows == {d \in Doc : IsOpen(d)}

\* What Siigo lists of a kind for the dates a run asks about; the handlers
\* check the dates again.
InWindow(r, d)   == from[r] <= Date[d] /\ Date[d] <= to[r]
Listing(r, kind) == {d \in issued \cap DocsOf(kind) : InWindow(r, d)}

Active(r)   == stage[r] \in {"notes", "pages"}

\* Variant: the loop ends before the last page.
ExpectedButLast(r, kind) == {k \in Page : k = 1 \/ k < total[r][kind]}

Expected(r, kind) == {k \in Page : k = 1 \/ k <= total[r][kind]}

NoCredit == [d \in Invoice |-> 0]
NoPages  == [kind \in Kind |-> [k \in Page |-> "idle"]]
Nothing  == [kind \in Kind |-> [k \in Page |-> {}]]
NoCount  == [kind \in Kind |-> 0]

TypeOK ==
  /\ today \in Nat /\ issued \subseteq Doc /\ notes \subseteq Note /\ events \in Nat
  /\ balance \in [Doc -> Amount]
  /\ rows \subseteq Doc /\ stored \in [Doc -> Amount] /\ status \in [Doc -> Status]
  /\ stage \in [Run -> Stage]
  /\ from \in [Run -> Int] /\ to \in [Run -> Int]
  /\ next \in [Run -> Nat \ {0}] /\ last \in [Run -> Int]
  /\ credited \in [Run -> [Invoice -> Nat]]
  /\ total \in [Run -> [Kind -> Int]]
  /\ page \in [Run -> [Kind -> [Page -> PageState]]]
  /\ got \in [Run -> [Kind -> [Page -> SUBSET (Doc \X Amount)]]]
  /\ errors \in [Run -> BOOLEAN]
  /\ open \in [Run -> SUBSET Doc] /\ covered \in [Run -> SUBSET Invoice]
  /\ touched \in [Run -> SUBSET Doc] /\ moved \in [Run -> SUBSET (Kind \cup {"NC"})]
  /\ quiet \in [Run -> BOOLEAN]

Lowered(amount, by) == IF by <= amount THEN amount - by ELSE 0

Init ==
  /\ today = 0 /\ events = 0
  /\ \E b \in Beginning :
       issued = b.docs /\ notes = b.notes /\ balance = b.balance
  /\ rows = {} /\ stored = [d \in Doc |-> 0] /\ status = [d \in Doc |-> "Pendiente"]
  /\ stage = [r \in Run |-> "idle"]
  /\ from = [r \in Run |-> 0] /\ to = [r \in Run |-> 0]
  /\ next = [r \in Run |-> 1] /\ last = [r \in Run |-> 0]
  /\ credited = [r \in Run |-> NoCredit]
  /\ total = [r \in Run |-> NoCount] /\ page = [r \in Run |-> NoPages]
  /\ got = [r \in Run |-> Nothing] /\ errors = [r \in Run |-> FALSE]
  /\ open = [r \in Run |-> {}] /\ covered = [r \in Run |-> {}]
  /\ touched = [r \in Run |-> {}] /\ moved = [r \in Run |-> {}]
  /\ quiet = [r \in Run |-> FALSE]

-----------------------------------------------------------------------------
(* Siigo and the calendar *)

Event ==
  /\ events < MaxEvents
  /\ events' = events + 1
  /\ quiet' = [r \in Run |-> FALSE]
  /\ UNCHANGED <<today, rowVars, stage, windowVars, noteVars, pageVars, errors, startVars,
                 touched>>

\* A run is at a list from its first page on.
AtNotes(r)       == stage[r] = "notes" /\ next[r] > 1
AtKind(r, kind) == stage[r] = "pages" /\ page[r][kind][1] \notin {"idle", "todo"}

DocumentMoves(d) ==
  moved' = [r \in Run |-> IF AtKind(r, KindOf(d)) /\ InWindow(r, d)
                          THEN moved[r] \cup {KindOf(d)} ELSE moved[r]]

Issue(d) ==
  /\ d \notin issued
  /\ issued' = issued \cup {d}
  /\ DocumentMoves(d)
  /\ UNCHANGED <<balance, notes>>
  /\ Event

\* Electronic invoices cannot be deleted; a purchase can.
Remove(d) ==
  /\ d \in issued \cap Purchase
  /\ issued' = issued \ {d}
  /\ DocumentMoves(d)
  /\ UNCHANGED <<balance, notes>>
  /\ Event

Pay(d) ==
  /\ d \in issued /\ balance[d] > 0
  /\ balance' = [balance EXCEPT ![d] = @ - 1]
  /\ UNCHANGED <<issued, notes, moved>>
  /\ Event

\* A receipt is annulled: the document is owed again.
Reopen(d) ==
  /\ d \in issued /\ balance[d] + Credit(notes, d) < Total
  /\ balance' = [balance EXCEPT ![d] = @ + 1]
  /\ UNCHANGED <<issued, notes, moved>>
  /\ Event

\* A credit note lowers the balance just as a payment does.
CreditNote(n) ==
  /\ n \notin notes /\ NoteOf[n] \in issued \cup {NoInvoice}
  /\ notes' = notes \cup {n}
  /\ balance' = [d \in Doc |-> IF d = NoteOf[n] THEN Lowered(balance[d], Worth[n])
                               ELSE balance[d]]
  /\ moved' = [r \in Run |-> IF AtNotes(r) THEN moved[r] \cup {"NC"} ELSE moved[r]]
  /\ UNCHANGED issued
  /\ Event

NextDay ==
  /\ today < LastDay
  /\ today' = today + 1
  /\ UNCHANGED <<siigoVars, rowVars, stage, windowVars, noteVars, pageVars, errors, startVars,
                 touched, moved, quiet>>

-----------------------------------------------------------------------------
(* A run: the window *)

StartWindow(r, first, reach) ==
  /\ stage[r] = "idle"
  /\ stage' = [stage EXCEPT ![r] = "notes"]
  /\ from' = [from EXCEPT ![r] = first] /\ to' = [to EXCEPT ![r] = today]
  /\ open' = [open EXCEPT ![r] = reach]
  /\ covered' = [covered EXCEPT ![r] = {d \in Invoice : Covers(Credit(notes, d))}]
  /\ quiet' = [q \in Run |-> q = r /\ \A s \in Run : ~Active(s)]
  /\ UNCHANGED <<today, siigoVars, rowVars, noteVars, pageVars, errors, touched, moved>>

StartIncremental(r) == StartWindow(r, today - Window, {})

\* The user names the first day.
StartBootstrap(r) == \E first \in 0 .. today : StartWindow(r, first, {})

\* Variant: reconcile from the oldest open invoice.
StartReconcileByInvoices(r) ==
  \E d \in OpenInvoices :
    /\ \A e \in OpenInvoices : Date[d] <= Date[e]
    /\ StartWindow(r, Date[d], OpenRows)

\* From the oldest document the store holds as open.
StartReconcile(r) ==
  \E d \in OpenRows :
    /\ \A e \in OpenRows : Date[d] <= Date[e]
    /\ StartWindow(r, Date[d], OpenRows)

\* With nothing open MIN is NULL, the scan into a string fails and the request
\* is answered with an error; the fallback of resolveDates is never reached.
RefuseReconcile(r) ==
  /\ stage[r] = "idle" /\ OpenRows = {}
  /\ stage' = [stage EXCEPT ![r] = "refused"]
  /\ UNCHANGED <<today, siigoVars, rowVars, windowVars, noteVars, pageVars, errors, startVars,
                 touched, moved, quiet>>

-----------------------------------------------------------------------------
(* A run: the credit notes *)

\* The passes start; each asks for its page 1.
LaunchPasses(r) ==
  /\ stage' = [stage EXCEPT ![r] = "pages"]
  /\ page' = [page EXCEPT ![r] =
                [kind \in Kind |-> [k \in Page |-> IF k = 1 THEN "todo" ELSE "idle"]]]

\* creditedByInvoice, one call: the next page of notes is added up.
ReadNotes(r) ==
  LET seen == Slice(notes, next[r]) IN
  /\ stage[r] = "notes"
  /\ credited' = [credited EXCEPT ![r] = [d \in Invoice |-> @[d] + Credit(seen, d)]]
  /\ last' = IF next[r] = 1 THEN [last EXCEPT ![r] = PageCount(notes)] ELSE last
  /\ \/ /\ next[r] < last'[r]
        /\ next' = [next EXCEPT ![r] = @ + 1]
        /\ UNCHANGED <<stage, page>>
     \/ /\ next[r] >= last'[r]
        /\ LaunchPasses(r)
        /\ UNCHANGED next
  /\ UNCHANGED <<today, siigoVars, rowVars, windowVars, total, got, errors, startVars, touched,
                 moved, quiet>>

\* Variant: the failure of a call is not reported.
LoseNotesQuietly(r) ==
  /\ stage[r] = "notes"
  /\ LaunchPasses(r)
  /\ UNCHANGED <<today, siigoVars, rowVars, windowVars, noteVars, total, got, errors, startVars,
                 touched, moved, quiet>>

\* A call failed; there is no retry.  The run records it and goes on with what
\* the pages before it held.
LoseNotes(r) ==
  /\ stage[r] = "notes"
  /\ errors' = [errors EXCEPT ![r] = TRUE]
  /\ LaunchPasses(r)
  /\ UNCHANGED <<today, siigoVars, rowVars, windowVars, noteVars, total, got, startVars,
                 touched, moved, quiet>>

-----------------------------------------------------------------------------
(* A run: the documents *)

\* GetInvoices or GetPurchases answered, at the first attempt or after retries.
FetchPage(r, kind, k) ==
  LET seen == Slice(Listing(r, kind), k) IN
  /\ page[r][kind][k] = "todo"
  /\ got' = [got EXCEPT ![r][kind][k] = {<<d, balance[d]>> : d \in seen}]
  /\ page' = [page EXCEPT ![r][kind][k] = IF seen = {} THEN "saved" ELSE "saving"]
  /\ total' = IF k = 1 THEN [total EXCEPT ![r][kind] = PageCount(Listing(r, kind))]
              ELSE total
  /\ UNCHANGED <<today, siigoVars, rowVars, stage, windowVars, noteVars, errors, startVars,
                 touched, moved, quiet>>

\* Every attempt failed: the page is recorded in result.Errors.
LosePage(r, kind, k) ==
  /\ page[r][kind][k] = "todo"
  /\ page' = [page EXCEPT ![r][kind][k] = "lost"]
  /\ errors' = [errors EXCEPT ![r] = TRUE]
  /\ UNCHANGED <<today, siigoVars, rowVars, stage, windowVars, noteVars, total, got, startVars,
                 touched, moved, quiet>>

\* UpsertInvoice and UpsertPurchase: insert the row or rewrite what comes from
\* Siigo.  The status mixes the notes read first and the page read later.
Upsert(r, d, unpaid) ==
  /\ rows' = rows \cup {d}
  /\ stored' = [stored EXCEPT ![d] = unpaid]
  /\ status' = [status EXCEPT ![d] = StatusOf(d, unpaid, CreditOf(credited[r], d))]
  /\ touched' = [touched EXCEPT ![r] = @ \cup {d}]

\* saveInvoices or savePurchases, the next record of the page.
SaveRecord(r, kind, k) ==
  /\ page[r][kind][k] = "saving"
  /\ \E e \in got[r][kind][k] :
       /\ \A f \in got[r][kind][k] : e[1] <= f[1]
       /\ Upsert(r, e[1], e[2])
       /\ got' = [got EXCEPT ![r][kind][k] = @ \ {e}]
       /\ page' = IF got[r][kind][k] = {e}
                  THEN [page EXCEPT ![r][kind][k] = "saved"] ELSE page
  /\ UNCHANGED <<today, siigoVars, stage, windowVars, noteVars, total, errors, startVars, moved,
                 quiet>>

\* The first store error of a page abandons the rest of it.
FailToSave(r, kind, k) ==
  /\ page[r][kind][k] = "saving"
  /\ page' = [page EXCEPT ![r][kind][k] = "dberr"]
  /\ got' = [got EXCEPT ![r][kind][k] = {}]
  /\ UNCHANGED <<today, siigoVars, rowVars, stage, windowVars, noteVars, total, errors,
                 startVars, touched, moved, quiet>>

\* Page 1 is stored: one goroutine per further page that it announced.
FanOut(r, kind) ==
  /\ page[r][kind][1] = "saved"
  /\ \E k \in Expected(r, kind) : page[r][kind][k] = "idle"
  /\ page' = [page EXCEPT ![r][kind] = [k \in Page |->
                IF k \in Expected(r, kind) /\ @[k] = "idle" THEN "todo" ELSE @[k]]]
  /\ UNCHANGED <<today, siigoVars, rowVars, stage, windowVars, noteVars, total, got, errors,
                 startVars, touched, moved, quiet>>

\* All goroutines of the pass have returned.
Joined(r, kind) ==
  /\ page[r][kind][1] \in Finished
  /\ page[r][kind][1] = "saved" => \A k \in Expected(r, kind) : page[r][kind][k] \in Finished

Broken(r) == \E kind \in Kind, k \in Page : page[r][kind][k] = "dberr"

\* The join: a store error fails the run, errors of Siigo do not.  What the run
\* knew goes with it.
End(r) ==
  /\ stage[r] = "pages"
  /\ \A kind \in Kind : Joined(r, kind)
  /\ stage' = [stage EXCEPT ![r] = IF Broken(r) THEN "failed" ELSE "ended"]
  /\ from' = [from EXCEPT ![r] = 0] /\ to' = [to EXCEPT ![r] = 0]
  /\ next' = [next EXCEPT ![r] = 1] /\ last' = [last EXCEPT ![r] = 0]
  /\ credited' = [credited EXCEPT ![r] = NoCredit]
  /\ total' = [total EXCEPT ![r] = NoCount] /\ page' = [page EXCEPT ![r] = NoPages]
  /\ got' = [got EXCEPT ![r] = Nothing] /\ errors' = [errors EXCEPT ![r] = FALSE]
  /\ open' = [open EXCEPT ![r] = {}] /\ covered' = [covered EXCEPT ![r] = {}]
  /\ touched' = [touched EXCEPT ![r] = {}] /\ moved' = [moved EXCEPT ![r] = {}]
  /\ quiet' = [quiet EXCEPT ![r] = FALSE]
  /\ UNCHANGED <<today, siigoVars, rowVars>>

-----------------------------------------------------------------------------
SiigoStep ==
  \/ \E d \in Doc : Issue(d) \/ Remove(d) \/ Pay(d) \/ Reopen(d)
  \/ \E n \in Note : CreditNote(n)

RunStep(r) ==
  \/ StartIncremental(r)
  \/ StartBootstrap(r)
  \/ StartReconcile(r)
  \/ RefuseReconcile(r)
  \/ ReadNotes(r)
  \/ LoseNotes(r)
  \/ End(r)

PageStep(r, kind, k) ==
  \/ FetchPage(r, kind, k)
  \/ LosePage(r, kind, k)
  \/ SaveRecord(r, kind, k)
  \/ FailToSave(r, kind, k)

Next ==
  \/ SiigoStep
  \/ NextDay
  \/ \E r \in Run : RunStep(r)
  \/ \E r \in Run, kind \in Kind : FanOut(r, kind)
  \/ \E r \in Run, kind \in Kind, k \in Page : PageStep(r, kind, k)

Spec == Init /\ [][Next]_vars

-----------------------------------------------------------------------------
(* Properties *)

\* This step of run r ends it without an error to report, or stores d.
EndsClean(r) == stage[r] = "pages" /\ stage'[r] = "ended" /\ ~errors[r]
Stores(r, d) ==
  /\ d \in touched'[r]
  /\ \E k \in Page : \E e \in got[r][KindOf(d)][k] \ got'[r][KindOf(d)][k] :
       e[1] = d /\ page'[r][KindOf(d)][k] # "dberr"

\* All but a cent of the invoice is credited in Siigo.
Annulled(d) == d \in Invoice /\ Total - Credit(notes, d) <= Tolerance

\* Money owed is written off by mistake for one reason only: a note was issued
\* while the run was between two pages of notes, and another was read twice.
\* Otherwise what a run stores as Anulado is credited in Siigo, whatever page
\* failed, whatever was read first and however runs overlap.
NoFalseAnnulment ==
  [][\A r \in Run, d \in Doc :
       status'[d] = "Anulado" /\ Stores(r, d) => Annulled(d) \/ "NC" \in moved[r]]_vars

\* A clean run during which nothing else happened leaves every document of its
\* window exactly as Siigo has it, annulments included.
QuietRunMirrorsSiigo ==
  [][\A r \in Run : EndsClean(r) /\ quiet[r] =>
       \A d \in issued : InWindow(r, d) =>
         /\ d \in rows /\ stored[d] = balance[d]
         /\ status[d] = IF Annulled(d) THEN "Anulado" ELSE BalanceStatus(balance[d])]_vars

\* A clean reconcile rewrites every document that was open when it started and
\* that Siigo still lists, however old, unless its list changed while the run
\* was at it: none is left Pendiente or Parcial from an earlier reading.
ReconcileReachesOpenRows ==
  [][\A r \in Run : EndsClean(r) =>
       \A d \in open[r] \cap issued : d \in touched[r] \/ KindOf(d) \in moved[r]]_vars

\* An annulment is seen or reported: a run without errors writes another status
\* over an invoice that was annulled when the run started only if the list of
\* notes changed between two of its pages.
AnnulmentSeenOrReported ==
  [][\A r \in Run : \A d \in covered[r] :
       Stores(r, d) /\ ~errors[r] => status'[d] = "Anulado" \/ "NC" \in moved[r]]_vars

\* creditedByInvoice's comment (siigo.go) says that it returns "per invoice id,
\* the total credited against it by credit notes", and that of
\* invoiceStatusWithCredits that "an invoice whose credit notes cover its total
\* is void": no other one is stored as Anulado.
AnnulledIsCredited ==
  [][\A r \in Run, d \in Doc :
       status'[d] = "Anulado" /\ Stores(r, d) => Annulled(d)]_vars

-----------------------------------------------------------------------------
(* The inductive invariants *)

\* The records of a list on its first k pages.
Prefix(list, k) == {x \in list : Rank(list, x) <= k * PageSize}

\* A request that has not begun knows nothing, pages are only under way while
\* the request is at them, and the later ones only after page 1 was stored.
PagesFollowStage ==
  \A r \in Run :
    /\ stage[r] = "idle" => next[r] = 1 /\ credited[r] = NoCredit /\ moved[r] = {}
    /\ stage[r] \in {"idle", "notes"} => touched[r] = {}
    /\ \A kind \in Kind, k \in Page :
         /\ page[r][kind][k] # "idle" =>
              stage[r] = "pages" /\ (k = 1 \/ page[r][kind][1] = "saved")
         /\ page[r][kind][k] = "lost" => errors[r]
         /\ page[r][kind][k] # "saving" => got[r][kind][k] = {}
         /\ \A e \in got[r][kind][k] : e[1] \in DocsOf(kind) /\ InWindow(r, e[1])

\* A window ends today at the latest, no row is of a day to come, and a
\* reconcile's window holds what it was started for.
WindowsHoldRows ==
  /\ \A d \in rows : Date[d] <= today
  /\ \A r \in Run : to[r] <= today /\ \A d \in open[r] : InWindow(r, d)

\* While the list of notes stands still, what is credited is what its pages so
\* far hold; afterwards it is no more than there is, and, without an error, no
\* less than there was when the run started.
CreditsFollowNotes ==
  \A r \in Run :
    /\ \A d \in covered[r] : Covers(Credit(notes, d))
    /\ stage[r] = "notes" /\ "NC" \notin moved[r] =>
         /\ next[r] > 1 => last[r] = PageCount(notes)
         /\ \A d \in Invoice : credited[r][d] = Credit(Prefix(notes, next[r] - 1), d)
    /\ stage[r] = "pages" /\ "NC" \notin moved[r] =>
         /\ \A d \in Invoice : credited[r][d] <= Credit(notes, d)
         /\ ~errors[r] => \A d \in covered[r] : Covers(credited[r][d])

\* While a list of documents stands still, its pages are the ones counted, and
\* each record of a fetched page is stored or still to come.
PagesHoldListing ==
  \A r \in Run, kind \in Kind : stage[r] = "pages" /\ kind \notin moved[r] =>
    /\ page[r][kind][1] \in {"saving", "saved"} =>
         total[r][kind] = PageCount(Listing(r, kind))
    /\ \A k \in Page : page[r][kind][k] \in {"saving", "saved"} =>
         \A d \in Slice(Listing(r, kind), k) :
           \/ d \in touched[r]
           \/ \E unpaid \in Amount : <<d, unpaid>> \in got[r][kind][k]

DocumentInvariant ==
  /\ PagesFollowStage /\ WindowsHoldRows /\ CreditsFollowNotes /\ PagesHoldListing

\* No other run is under way next to a quiet one.
QuietRunIsAlone ==
  \A r, q \in Run : quiet[r] /\ Active(r) /\ Active(q) => q = r

\* What a quiet run has read is what Siigo has, and what it stored is that.
QuietRunReads ==
  \A r \in Run : quiet[r] /\ Active(r) =>
    /\ moved[r] = {}
    /\ stage[r] = "pages" /\ ~errors[r] =>
         \A d \in Invoice : credited[r][d] = Credit(notes, d)
    /\ \A kind \in Kind, k \in Page : \A e \in got[r][kind][k] : e[2] = balance[e[1]]
    /\ \A d \in touched[r] :
         /\ d \in rows /\ stored[d] = balance[d]
         /\ ~errors[r] => status[d] = StatusOf(d, balance[d], CreditOf(credited[r], d))

=============================================================================
