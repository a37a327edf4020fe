---------------------------- MODULE Projections ----------------------------
(***************************************************************************)
(* The two views that say how much money there will be: GetSummary of      *)
(* src/internal/handler/projections.go, with its chart, and GetSummary of  *)
(* src/internal/handler/cashflow.go, for thirty days.                      *)
(*                                                                         *)
(* Each reads the balance, the open invoices, the open purchases, the      *)
(* projections and the pending movements, a statement each, in that order  *)
(* and without a transaction, while the sync and the users go on writing.  *)
(* Then both spread the documents over days (Calendar) and add up, each in *)
(* its own way.  The server runs in UTC: the day of time.Now() and the one *)
(* that Truncate gives are the same.                                       *)
(* Definitions commented "Variant" are bugs the next definition could have *)
(* had; they are not part of the specification.                            *)
(***************************************************************************)
EXTENDS Calendar, FiniteSets

CONSTANTS
  Invoice, Purchase,  \* documents of the two kinds
  Plan,               \* document -> its total, schedule and due day
  Row,                \* rows of the transactions table
  Income,             \* rows of type Ingreso
  Worth,              \* row -> its amount
  LastDay,            \* bound: days that pass
  Month,              \* the thirty days of the cash flow
  Horizon,            \* days the projections may be asked for
  MaxChanges,         \* bound: writes to the tables
  MaxReading          \* bound: views being computed at a time

Doc  == Invoice \cup Purchase
View == {"projections", "cashflow"}

ASSUME KindAssumption ==
  /\ Invoice \cap Purchase = {} /\ Income \subseteq Row
  /\ IsFiniteSet(Doc) /\ IsFiniteSet(Row) /\ IsFiniteSet(Day)
ASSUME DateAssumption ==
  Day \subseteq Int /\ Month \in Horizon /\ Horizon \subseteq Nat \ {0}
ASSUME PlanAssumption ==
  /\ \A d \in Doc :
       /\ Plan[d].total \in Nat /\ Plan[d].due \in Day
       /\ Plan[d].schedule \in Seq([day : Day \cup {NoDay}, value : Nat])
  /\ \A r \in Row : Worth[r] \in Int
ASSUME BoundAssumption == {LastDay, MaxChanges, MaxReading} \subseteq Nat

VARIABLES
  today,
  unpaid,    \* document -> balance column
  annulled,  \* invoices with status Anulado
  agreed,    \* document -> secondary_due_date column
  rows,      \* row -> flow, status and the day its money is expected
  changes,   \* writes so far
  at,        \* view -> what it reads next, or how it ended
  asof,      \* view -> its today
  days,      \* view -> its horizon
  got,       \* view -> what it has read
  reply,     \* view -> its answer
  shaken,    \* history: view -> the money in what was written while it read
  version    \* history: view -> writes before it started, Torn after one while it read

tables  == <<unpaid, annulled, agreed, rows, changes>>
history == <<shaken, version>>
vars    == <<today, tables, at, asof, days, got, reply, history>>

-----------------------------------------------------------------------------
Entry == [flow   : {"movement", "projection"},
          status : {"Pendiente", "Completado", "Anulado"},
          day    : Day]
Reply == [estimate : Int, income : Int, expenses : Int,
          chart    : {<<>>} \cup [1 .. 8 -> [balance : Nat, deficit : Nat]],
          alerts   : SUBSET [of : Doc \cup Row, kind : {"document", "movement", "projection"},
                             day : Day, comes : BOOLEAN, amount : Int]]
Stage == {"idle", "balance", "invoices", "purchases", "projections", "movements", "answered", "failed"}
Torn  == -1

\* Documents that were read, with their balance and agreed date, and rows.
Nothing == [balance |-> 0, docs |-> <<>>, rows |-> {}]
NoReply == [estimate |-> 0, chart |-> <<>>, income |-> 0, expenses |-> 0, alerts |-> {}]
IsKnown(g) ==
  /\ g = [balance |-> g.balance, docs |-> g.docs, rows |-> g.rows]
  /\ g.balance \in Int /\ g.rows \subseteq Row \X Entry /\ DOMAIN g.docs \subseteq Doc
  /\ g.docs \in [DOMAIN g.docs -> [balance : Nat, agreed : Day \cup {NoDay}]]
Reading(v) == at[v] \notin {"idle", "answered", "failed"}

TypeOK ==
  /\ today \in 0 .. LastDay /\ changes \in 0 .. MaxChanges
  /\ DOMAIN unpaid = Doc /\ \A d \in Doc : unpaid[d] \in 0 .. Plan[d].total
  /\ annulled \subseteq Invoice /\ agreed \in [Doc -> Day \cup {NoDay}]
  /\ rows \in [Row -> Entry]
  /\ at \in [View -> Stage] /\ asof \in [View -> 0 .. LastDay] /\ days \in [View -> Horizon]
  /\ DOMAIN got = View /\ \A v \in View : IsKnown(got[v])
  /\ reply \in [View -> Reply]
  /\ shaken \in [View -> Nat] /\ version \in [View -> 0 .. MaxChanges \cup {Torn}]

Init ==
  /\ today = 0
  /\ unpaid \in {u \in [Doc -> UNION {1 .. Plan[d].total : d \in Doc}] :
                   \A d \in Doc : u[d] <= Plan[d].total}
  /\ annulled = {} /\ agreed = [d \in Doc |-> NoDay]
  /\ rows \in [Row -> Entry] /\ changes = 0
  /\ at = [v \in View |-> "idle"]
  /\ asof = [v \in View |-> 0] /\ days = [v \in View |-> Month]
  /\ got = [v \in View |-> Nothing] /\ reply = [v \in View |-> NoReply]
  /\ shaken = [v \in View |-> 0] /\ version = [v \in View |-> 0]

-----------------------------------------------------------------------------
(* Sums *)

Signed(r) == IF r \in Income THEN Worth[r] ELSE -Worth[r]
SumOver(S, f) == SumFunctionOnSet(f, S)

\* What pendingOn is asked about a document, and what it places on the days D.
Pending(d, read) ==
  [total |-> Plan[d].total, balance |-> read.balance, schedule |-> Plan[d].schedule,
   due |-> Plan[d].due, agreed |-> read.agreed]
PlacedOn(d, read, D) == SumOver(D, [day \in D |-> ExpectedOn(Pending(d, read), day)])
DocOn(d, read, D) == IF d \in Invoice THEN PlacedOn(d, read, D) ELSE -PlacedOn(d, read, D)

DocsOn(docs, D) == SumOver(DOMAIN docs, [d \in DOMAIN docs |-> DocOn(d, docs[d], D)])
RowsOn(read, D) ==
  SumOver(read, [e \in read |-> IF e[2].day \in D THEN Signed(e[1]) ELSE 0])

\* What comes in and what goes out on the days D: projInc and projExp.
Incoming(g, D) ==
  DocsOn(Restrict(g.docs, DOMAIN g.docs \cap Invoice), D)
  + RowsOn({e \in g.rows : e[1] \in Income}, D)
Outgoing(g, D) ==
  -(DocsOn(Restrict(g.docs, DOMAIN g.docs \cap Purchase), D)
    + RowsOn({e \in g.rows : e[1] \notin Income}, D))
Flows(g, D) == Incoming(g, D) - Outgoing(g, D)

-----------------------------------------------------------------------------
(* The statements *)

OpenDocs(S) ==
  [d \in {x \in S : unpaid[x] > 0 /\ x \notin annulled} |->
     [balance |-> unpaid[d], agreed |-> agreed[d]]]
RowsWhere(flow, S) == {e \in {<<r, rows[r]>> : r \in Row} : e[2].flow = flow /\ e[2].status \in S}
Due(S, horizon)    == {e \in S : e[2].day <= horizon}

GetCurrentBalance == RowsOn(RowsWhere("movement", {"Completado"}), Day)
GetPendingProjections(horizon) ==
  Due(RowsWhere("projection", {"Pendiente", "Completado"}), horizon)
\* Variant: a movement that was paid is read once more.
GetPendingMovementsAny(horizon) ==
  Due(RowsWhere("movement", {"Pendiente", "Completado"}), horizon)
GetPendingMovements(horizon) == Due(RowsWhere("movement", {"Pendiente"}), horizon)

-----------------------------------------------------------------------------
(* The answers *)

\* Variant: money that is late keeps its negative day.
DaysAwayUnclamped(day, now) == day - now

\* parseDaysAway: what is late is expected today.
DaysAway(day, now) == Larger(0, day - now)

\* buildCheckpoints: the nearest whole day to i * days / 7; never half way.
Checkpoint(i, n) == (2 * i * n + 7) \div 14

Point(running) == [balance |-> Larger(0, running), deficit |-> Larger(0, -running)]

\* The running balance adds up the days from 0 to the checkpoint.
Running(g, now, n) ==
  g.balance + Flows(g, {day \in Day : DaysAway(day, now) \in 0 .. n})

\* A line per day with payments of a document within n days, and one per row.
\* It shows the amount as it is, in the colour of money that comes in or goes out.
DocAlerts(d, read, now, n) ==
  LET expected(day) == ExpectedOn(Pending(d, read), day) IN
  {[of |-> d, kind |-> "document", day |-> day, comes |-> d \in Invoice, amount |-> expected(day)] :
     day \in {x \in Day : expected(x) # 0 /\ DaysAway(x, now) <= n}}
RowAlert(e) ==
  [of |-> e[1], kind |-> e[2].flow, day |-> e[2].day, comes |-> e[1] \in Income, amount |-> Worth[e[1]]]
\* Variant: movements are announced only while they are not late.
RowAlertsAhead(read, now, n) == {RowAlert(e) : e \in {x \in read : x[2].day - now \in 0 .. n}}
RowAlerts(read, now, n) == {RowAlert(e) : e \in {x \in read : DaysAway(x[2].day, now) <= n}}
Alerts(g, now, n) ==
  RowAlerts(g.rows, now, n) \cup UNION {DocAlerts(d, g.docs[d], now, n) : d \in DOMAIN g.docs}

Projected(g, now, n) ==
  LET within == {day \in Day : DaysAway(day, now) <= n} IN
  [estimate |-> g.balance + Incoming(g, within) - Outgoing(g, within),
   income   |-> Incoming(g, within),
   expenses |-> Outgoing(g, within),
   alerts   |-> Alerts(g, now, n),
   chart    |-> [i \in 1 .. 8 |-> Point(Running(g, now, Checkpoint(i - 1, n)))]]

\* Variant: committed movements are left out.
CashFlowUnmoved(g, now) ==
  LET known == {e \in g.rows : e[2].flow = "projection"} IN
  [estimate |-> g.balance + DocsOn(g.docs, {day \in Day : day <= now + Month})
                          + RowsOn(known, Day),
   chart    |-> <<>>, income |-> 0, expenses |-> 0, alerts |-> {}]

\* The statements have dropped the rows beyond the horizon.
CashFlow(g, now) ==
  [estimate |-> g.balance + DocsOn(g.docs, {day \in Day : day <= now + Month})
                          + RowsOn(g.rows, Day),
   chart    |-> <<>>, income |-> 0, expenses |-> 0, alerts |-> {}]

-----------------------------------------------------------------------------
(* Writers *)

Write(amount) ==
  /\ changes < MaxChanges /\ changes' = changes + 1
  /\ shaken' = [v \in View |-> IF Reading(v) THEN shaken[v] + amount ELSE shaken[v]]
  /\ version' = [v \in View |-> IF Reading(v) THEN Torn ELSE version[v]]
  /\ UNCHANGED <<today, at, asof, days, got, reply>>

\* A sync stores what Siigo says of a document (UpsertInvoice, UpsertPurchase).
SyncDocument(d) ==
  \E b \in 0 .. Plan[d].total, A \in {annulled, annulled \cup {d}, annulled \ {d}} :
    /\ A \subseteq Invoice
    /\ Write(Larger(unpaid[d], b))
    /\ unpaid' = [unpaid EXCEPT ![d] = b] /\ annulled' = A
    /\ UNCHANGED <<agreed, rows>>

\* A user agrees on another day, or on none (SetInvoiceSecondaryDueDate).
Agree(d) ==
  \E day \in Day \cup {NoDay} :
    /\ Write(unpaid[d])
    /\ agreed' = [agreed EXCEPT ![d] = day]
    /\ UNCHANGED <<unpaid, annulled, rows>>

\* A user writes a row, or a sync a receipt.  A row that is not there yet, or
\* was deleted, counts as Anulado: no statement of the views reads it.
WriteRow(r) ==
  \E e \in Entry :
    /\ Write(Larger(Worth[r], -Worth[r]))
    /\ rows' = [rows EXCEPT ![r] = e]
    /\ UNCHANGED <<unpaid, annulled, agreed>>

NextDay ==
  /\ today < LastDay /\ today' = today + 1
  /\ UNCHANGED <<tables, at, asof, days, got, reply, history>>

-----------------------------------------------------------------------------
(* Readers *)

Start(v) ==
  /\ at[v] = "idle"
  /\ Cardinality({w \in View : Reading(w)}) < MaxReading
  /\ \E n \in IF v = "cashflow" THEN {Month} ELSE Horizon : days' = [days EXCEPT ![v] = n]
  /\ asof' = [asof EXCEPT ![v] = today]
  /\ at' = [at EXCEPT ![v] = "balance"]
  /\ version' = [version EXCEPT ![v] = changes]
  /\ UNCHANGED <<today, tables, got, reply, shaken>>

\* One statement: from one stage to the next, with what it returned.
Read(v, here, next, result) ==
  /\ at[v] = here /\ at' = [at EXCEPT ![v] = next]
  /\ got' = [got EXCEPT ![v] = result]
  /\ UNCHANGED <<today, tables, asof, days, reply, history>>

ReadBalance(v) ==
  Read(v, "balance", "invoices", [got[v] EXCEPT !.balance = GetCurrentBalance])
ReadInvoices(v) ==
  Read(v, "invoices", "purchases", [got[v] EXCEPT !.docs = OpenDocs(Invoice)])
ReadPurchases(v) ==
  Read(v, "purchases", "projections",
       [got[v] EXCEPT !.docs = [d \in DOMAIN @ \cup DOMAIN OpenDocs(Purchase) |->
                                  IF d \in Purchase THEN OpenDocs(Purchase)[d] ELSE @[d]]])
ReadProjections(v) ==
  Read(v, "projections", "movements",
       [got[v] EXCEPT !.rows = GetPendingProjections(asof[v] + days[v])])

\* The last statement, and the answer.
Answer(v) ==
  LET g == [got[v] EXCEPT !.rows = @ \cup GetPendingMovements(asof[v] + days[v])] IN
  /\ at[v] = "movements" /\ at' = [at EXCEPT ![v] = "answered"]
  /\ reply' = [reply EXCEPT ![v] = IF v = "cashflow" THEN CashFlow(g, asof[v])
                                   ELSE Projected(g, asof[v], days[v])]
  /\ got' = [got EXCEPT ![v] = Nothing]
  /\ UNCHANGED <<today, tables, asof, days, history>>

\* Any statement may fail: 500.
Fail(v) ==
  /\ Reading(v) /\ at' = [at EXCEPT ![v] = "failed"]
  /\ got' = [got EXCEPT ![v] = Nothing]
  /\ UNCHANGED <<today, tables, asof, days, reply, history>>

Next ==
  \/ \E d \in Doc : SyncDocument(d) \/ Agree(d)
  \/ \E r \in Row : WriteRow(r)
  \/ NextDay
  \/ \E v \in View : \/ Start(v) \/ ReadBalance(v) \/ ReadInvoices(v) \/ ReadPurchases(v)
                     \/ ReadProjections(v) \/ Answer(v) \/ Fail(v)

Spec == Init /\ [][Next]_vars

-----------------------------------------------------------------------------
(* Properties *)

\* The chart of the projections ends at the estimate shown above it, whatever is
\* late, beyond the horizon or between two checkpoints: the figure comes from
\* projInc and projExp, the chart from dailyNet (projections.go GetSummary).
ChartEndsAtEstimate ==
  at["projections"] = "answered" =>
    LET last == reply["projections"].chart[8] IN
    last.balance - last.deficit = reply["projections"].estimate

\* The alerts tell where the projected income and expenses come from: those that
\* bring money add up to the one and those that take it to the other, though the
\* list is made by four loops of its own (projections.go GetSummary).
AlertsAddUp ==
  at["projections"] = "answered" =>
    LET r  == reply["projections"]
        up == {a \in r.alerts : a.comes}
    IN  /\ SumOver(up, [a \in up |-> a.amount]) = r.income
        /\ SumOver(r.alerts \ up, [a \in r.alerts \ up |-> a.amount]) = r.expenses

\* Cash flow and projections agree on the same days of the same tables, though
\* one filters documents by date and the other by days away, rows once and
\* twice (the reason cashflow.go gives for reading the pending movements).
ViewsAgree ==
  /\ \A v \in View : at[v] = "answered" /\ version[v] # Torn /\ days[v] = Month
  /\ \A v, w \in View : version[v] = version[w] /\ asof[v] = asof[w]
  => reply["projections"].estimate = reply["cashflow"].estimate

\* The money there is, and the money each document and row adds by a day.
Estimate(horizon) ==
  LET Adds(d) == IF unpaid[d] = 0 \/ d \in annulled THEN 0
                 ELSE DocOn(d, [balance |-> unpaid[d], agreed |-> agreed[d]],
                            {day \in Day : day <= horizon})
      Counts(r) ==
        /\ rows[r].status # "Anulado"
        /\ \/ rows[r].flow = "movement" /\ rows[r].status = "Completado"
           \/ rows[r].day <= horizon
  IN  SumOver(Doc, [d \in Doc |-> Adds(d)])
      + SumOver(Row, [r \in Row |-> IF Counts(r) THEN Signed(r) ELSE 0])

\* An answer is off by no more than the money in what was written while it was
\* being computed: a movement paid between two statements may be counted twice
\* or not at all, and nothing else may be (projections.go, cashflow.go).
OffByWhatWasWritten ==
  [][\A v \in View :
       at[v] # "answered" /\ at'[v] = "answered" =>
         LET off == reply'[v].estimate - Estimate(asof[v] + days[v]) IN
         Larger(off, -off) <= shaken[v]]_vars

=============================================================================
