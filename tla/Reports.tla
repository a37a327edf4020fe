------------------------------ MODULE Reports ------------------------------
(***************************************************************************)
(* The views that say what came in and went out: GetSummary of             *)
(* src/internal/handler/dashboard.go, of reports.go (by month, quarter and *)
(* year) and the bars of cashflow.go, over the totals that                 *)
(* src/internal/repository/postgres/store.go adds up.                      *)
(*                                                                         *)
(* Each view takes the date once and then reads its totals a statement     *)
(* each, without a transaction, while the sync and the users complete and  *)
(* annul rows and midnight may pass.  Its parts come from different        *)
(* statements with different windows of dates, and the reader compares     *)
(* them: a month against its categories, weeks or days, one period against *)
(* the one before.                                                         *)
(*                                                                         *)
(* A date is <<month, day>>, months counted from year 0: month m of year y *)
(* is 12 * y + m - 1.  The server and the database are in UTC.             *)
(* Definitions commented "Variant" are bugs the next definition could have *)
(* had; they are not part of the specification.                            *)
(***************************************************************************)
EXTENDS Integers, Sequences, FiniteSets, Functions

CONSTANTS
  Row,         \* rows of transactions, invoices and purchases
  Movement,    \* those of transactions, not projections
  Expense,     \* those of type Egreso, and purchases
  On,          \* row -> date of a movement, due date (or date) of a document
  Worth,       \* row -> amount
  Today,       \* dates the service may be asked on
  MaxChanges,  \* bound: rows that change status
  MaxNights    \* bound: midnights

\* Nothing checks the sign of an amount a user types.
ASSUME RowAssumption ==
  /\ IsFiniteSet(Row) /\ Movement \subseteq Row /\ Expense \subseteq Row
  /\ Worth \in [Row -> Int]
ASSUME DateAssumption  == On \in [Row -> Nat \X (1 .. 31)] /\ Today \subseteq Nat \X (1 .. 31)
ASSUME BoundAssumption == MaxChanges \in Nat /\ MaxNights \in Nat

VARIABLES
  today,    \* the date
  done,     \* rows with status Completado
  changes,  \* changes so far
  nights,   \* midnights so far
  view,     \* the view being computed
  asof,     \* its time.Now()
  got,      \* what its statements have read, with the date of each
  at,       \* "idle", "reading" or "answered"
  moved     \* history: rows that changed while it read

vars == <<today, done, changes, nights, view, asof, got, at, moved>>

-----------------------------------------------------------------------------
(* Dates *)

Leap(year) == year % 4 = 0
DaysIn(month) ==
  LET m == (month % 12) + 1 IN
  IF m = 2 THEN IF Leap(month \div 12) THEN 29 ELSE 28
  ELSE IF m \in {4, 6, 9, 11} THEN 30 ELSE 31

First(month)   == <<month, 1>>
NotAfter(d, e) == d[1] < e[1] \/ (d[1] = e[1] /\ d[2] <= e[2])
\* Variant: no month ends.
NextNumber(d)  == <<d[1], d[2] + 1>>
NextDay(d)     == IF d[2] < DaysIn(d[1]) THEN <<d[1], d[2] + 1>> ELSE First(d[1] + 1)

\* time.AddDate(0, n, 0): a day the month does not have runs into the next one.
AddMonths(d, n) ==
  LET m == d[1] + n IN
  IF d[2] <= DaysIn(m) THEN <<m, d[2]>> ELSE <<m + 1, d[2] - DaysIn(m)>>

\* Variant: six bars.
FiveDaysBefore(d) ==
  IF d[2] > 5 THEN <<d[1], d[2] - 5>> ELSE <<d[1] - 1, DaysIn(d[1] - 1) + d[2] - 5>>
\* time.AddDate(0, 0, -6)
SixDaysBefore(d) ==
  IF d[2] > 6 THEN <<d[1], d[2] - 6>> ELSE <<d[1] - 1, DaysIn(d[1] - 1) + d[2] - 6>>

QuarterStart(month) == First(month - (month % 3))
YearStart(month)    == First(month - (month % 12))

-----------------------------------------------------------------------------
(* What a view reads and computes *)

Report == {"mensual", "trimestral", "anual"}
View   == Report \cup {"dashboard", "cashflow"}

\* The statements of a view, in order.  The balance is the first of a report and
\* the pending movements the last of the dashboard; cash flow goes on with the
\* statements of Projections.
Statements(v) ==
  CASE v = "dashboard" -> <<"monthly", "categories", "weekly">>
    [] v = "cashflow"  -> <<"monthly", "daily">>
    [] v \in Report    -> <<"monthly", "categories", "previous">>

Read(s) == got[CHOOSE i \in DOMAIN got : Statements(view)[i] = s]

Month == asof[1]

\* Variant: the months start on today's day of the month.
FetchSameDay(v) ==
  CASE v = "dashboard" -> AddMonths(asof, -5)
    [] v = "cashflow"  -> AddMonths(asof, -1)
    [] v \in Report    -> AddMonths(asof, -24)
\* The date from which a view has its monthly totals.
FetchFrom(v) ==
  CASE v = "dashboard" -> First(Month - 5)
    [] v = "cashflow"  -> First(Month - 1)
    [] v \in Report    -> First(Month - 24)

\* Where the period of the categories starts, and the one it is compared with.
PeriodStart(v) ==
  CASE v = "dashboard"  -> First(Month)
    [] v = "mensual"    -> First(AddMonths(asof, -5)[1])
    [] v = "trimestral" -> QuarterStart(Month)
    [] v = "anual"      -> YearStart(Month)
PreviousStart(v) ==
  CASE v = "mensual"    -> First(AddMonths(asof, -11)[1])
    [] v = "trimestral" -> QuarterStart(Month - 3)
    [] v = "anual"      -> YearStart(Month - 12)
\* Variant: the year before is read whole.
PreviousWhole(v) == PeriodStart(v)
PreviousEnd(v) == IF v = "anual" THEN AddMonths(asof, -12) ELSE PeriodStart(v)

Window(rows, from, to) == {r \in rows : NotAfter(from, On[r]) /\ NotAfter(On[r], to)}
Total(rows)            == SumFunctionOnSet(Worth, rows)
Flow(rows, out)        == IF out THEN rows \cap Expense ELSE rows \ Expense
InMonth(rows, month)   == {r \in rows : On[r][1] = month}

\* GetMonthlyTotals, and the lookup of a month in it.
MonthTotal(month, out) ==
  Total(Flow(InMonth(Window(Read("monthly").rows, FetchFrom(view), asof), month), out))

\* GetCategoryTotals of expenses, added over the categories.
Categories(s, from, to) == Flow(Window(Read(s).rows, from, to), TRUE)

\* GetDailyTotals of the seven days of cash flow.
Daily(out) == Flow(Window(Read("daily").rows, SixDaysBefore(asof), asof), out)

\* Variant: movements too only up to the date.
WeeklyToDate(out) ==
  Flow({r \in InMonth(Read("weekly").rows, Month) : NotAfter(On[r], Read("weekly").day)}, out)
\* GetWeeklyTotals: the month by weeks, documents up to the database's date.
Weekly(out) ==
  Flow({r \in InMonth(Read("weekly").rows, Month) :
          r \in Movement \/ NotAfter(On[r], Read("weekly").day)}, out)

\* Months the chart of a view looks up, in order.
ChartMonths(v) ==
  CASE v = "dashboard"  -> [i \in 1 .. 6 |-> AddMonths(First(Month - 5), i - 1)[1]]
    [] v = "cashflow"   -> <<Month - 1, Month>>
    [] v = "mensual"    -> [i \in 1 .. 6 |-> AddMonths(asof, i - 6)[1]]
    [] v = "trimestral" -> [i \in 1 .. (Month % 12) - (Month % 3) + 3 |-> YearStart(Month)[1] + i - 1]
    [] v = "anual"      -> [i \in 1 .. (Month % 12) + 1 |-> YearStart(Month)[1] + i - 1]

\* Months the averages and netPositiveRate of a report look up, latest first.
Lookback(v) ==
  CASE v = "mensual"    -> [i \in 1 .. 6  |-> AddMonths(asof, -i)[1]]
    [] v = "trimestral" -> [i \in 1 .. 12 |-> QuarterStart(Month)[1] - i]
    [] v = "anual"      -> [i \in 1 .. 12 |-> AddMonths(asof, -i)[1]]

-----------------------------------------------------------------------------
TypeOK ==
  /\ today \in Nat \X (1 .. 31) /\ asof \in Nat \X (1 .. 31)
  /\ done \subseteq Row /\ moved \subseteq Row
  /\ changes \in 0 .. MaxChanges /\ nights \in 0 .. MaxNights
  /\ view \in View \cup {"none"} /\ at \in {"idle", "reading", "answered"}
  /\ got # <<>> => Len(got) <= Len(Statements(view))
  /\ \A i \in DOMAIN got : got[i].rows \subseteq Row

Init ==
  /\ today \in Today
  /\ done \in SUBSET Row
  /\ changes = 0 /\ nights = 0
  /\ view = "none" /\ asof = today /\ got = <<>> /\ at = "idle" /\ moved = {}

\* A request arrives.
Ask(v) ==
  /\ at = "idle"
  /\ view' = v /\ asof' = today
  /\ got' = <<>> /\ moved' = {}
  /\ at' = "reading"
  /\ UNCHANGED <<today, done, changes, nights>>

\* The next statement; the answer is given after the last.
ReadNext ==
  /\ at = "reading"
  /\ got' = Append(got, [rows |-> done, day |-> today])
  /\ at' = IF Len(got') = Len(Statements(view)) THEN "answered" ELSE "reading"
  /\ UNCHANGED <<today, done, changes, nights, view, asof, moved>>

\* A statement fails: 500 and no answer.
Fail ==
  /\ at = "reading"
  /\ at' = "idle" /\ got' = <<>> /\ moved' = {}
  /\ view' = "none" /\ asof' = today
  /\ UNCHANGED <<today, done, changes, nights>>

\* The sync or a user completes a row, annuls it, or changes it back.  What they
\* write before the request arrives makes another initial state.
Change(r) ==
  /\ at = "reading"
  /\ changes < MaxChanges
  /\ changes' = changes + 1
  /\ done' = IF r \in done THEN done \ {r} ELSE done \cup {r}
  /\ moved' = moved \cup {r}
  /\ UNCHANGED <<today, nights, view, asof, got, at>>

Midnight ==
  /\ at = "reading"
  /\ nights < MaxNights
  /\ nights' = nights + 1
  /\ today' = NextDay(today)
  /\ UNCHANGED <<done, changes, view, asof, got, at, moved>>

Next ==
  \/ \E v \in View : Ask(v)
  \/ ReadNext \/ Fail
  \/ \E r \in Row : Change(r)
  \/ Midnight

Spec == Init /\ [][Next]_vars

-----------------------------------------------------------------------------
(* Properties *)

Answered(views) == at = "answered" /\ view \in views

\* A difference that is no more than what was written while the view read.
Magnitude(rows) ==
  SumFunctionOnSet([r \in Row |-> IF Worth[r] < 0 THEN -Worth[r] ELSE Worth[r]], rows)
Near(x, y)      == x - y <= Magnitude(moved) /\ y - x <= Magnitude(moved)

\* Counting back from this day never runs over the end of a shorter month.
SafeDay == asof[2] <= 28

Follow(months) == \A i \in 1 .. Len(months) - 1 : months[i + 1] = months[i] + 1
Precede(months) == \A i \in DOMAIN months : months[i] = months[1] - (i - 1)

\* The bars of a chart are successive months that end with the current one (or
\* with its quarter), each with all that the month holds up to the date; and a
\* report's averages are over whole months before the current one.  Of the
\* mensual report this is so up to day 28, of the averages of anual likewise.
MonthsAreWhole ==
  Answered(View) =>
    LET held(m, out) == Total(Flow(InMonth(
                          {r \in Read("monthly").rows : NotAfter(On[r], asof)}, m), out))
    IN
    /\ (SafeDay \/ view # "mensual") =>
         /\ Follow(ChartMonths(view))
         /\ ChartMonths(view)[Len(ChartMonths(view))]
              = IF view = "trimestral" THEN QuarterStart(Month)[1] + 2 ELSE Month
    /\ \A i \in DOMAIN ChartMonths(view), out \in BOOLEAN :
         MonthTotal(ChartMonths(view)[i], out) = held(ChartMonths(view)[i], out)
    /\ (view \in Report /\ (SafeDay \/ view = "trimestral")) =>
         /\ Precede(Lookback(view)) /\ Lookback(view)[1] < Month
         /\ \A i \in DOMAIN Lookback(view), out \in BOOLEAN :
              MonthTotal(Lookback(view)[i], out) = held(Lookback(view)[i], out)

\* The months that make up the period of a view's categories.
PeriodMonths(v) == PeriodStart(v)[1] .. Month

\* The categories of a period add up to the expense its months show, and in the
\* first week of a month the bars of the days to what the month shows, but for
\* what was written while the view read.
PartsAddUp ==
  /\ Answered(Report \cup {"dashboard"}) =>
       Near(Total(Categories("categories", PeriodStart(view), asof)),
            SumFunction([m \in PeriodMonths(view) |-> MonthTotal(m, TRUE)]))
  /\ Answered({"cashflow"}) /\ asof[2] <= 7 =>
       \A out \in BOOLEAN :
         Near(Total(InMonth(Daily(out), Month)), MonthTotal(Month, out))

\* The weeks of the dashboard count completed movements dated later in the month,
\* which its month does not, but no such document; unless midnight passes.
WeeksCountAhead ==
  Answered({"dashboard"}) /\ Read("weekly").day = asof =>
    \A out \in BOOLEAN :
      Near(Total(Weekly(out)) - MonthTotal(Month, out),
           Total(Flow({r \in InMonth(Read("weekly").rows \cap Movement, Month) :
                         ~NotAfter(On[r], asof)}, out)))

\* The two columns of a category table: an expense counts in both only if it is
\* dated the first day of the period, and by month or quarter none between the
\* start of the first and today is left out; by year the first column ends on
\* the day a year before today.
ColumnsMeet ==
  Answered(Report) =>
    LET current  == Categories("categories", PeriodStart(view), asof)
        previous == Categories("previous", PreviousStart(view), PreviousEnd(view))
        both     == Read("categories").rows \cap Read("previous").rows \cap Expense
    IN
    /\ \A r \in current \cap previous : On[r] = PeriodStart(view)
    /\ view # "anual" => Window(both, PreviousStart(view), asof) \subseteq current \cup previous
    /\ view = "anual" /\ SafeDay =>
         previous = {r \in Read("previous").rows \cap Expense :
                       /\ NotAfter(PreviousStart(view), On[r])
                       /\ NotAfter(<<On[r][1] + 12, On[r][2]>>, asof)}
=============================================================================
