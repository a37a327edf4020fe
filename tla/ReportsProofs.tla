---------------------------- MODULE ReportsProofs ----------------------------
(***************************************************************************)
(* Reports for any rows, any amounts of either sign, any dates, and any    *)
(* number of writes and midnights.  The statements of a view differ from   *)
(* one another only in rows that moved while it read (ReadSoFar).  The     *)
(* rest is about sets of dates, and about sums over sets that differ in    *)
(* what moved (CloseTotals).                                               *)
(***************************************************************************)
EXTENDS InstallmentsProofs, Reports

MonthDay == Nat \X (1 .. 31)

\* No month has fewer than 28 days.
LEMMA DaysInRange ==
  ASSUME NEW m PROVE DaysIn(m) \in {28, 29, 30, 31}
BY DEF DaysIn

\* The day after a date is a date.
LEMMA NextDayIsDay ==
  ASSUME NEW d \in MonthDay PROVE NextDay(d) \in MonthDay
BY DaysInRange DEF MonthDay, NextDay, First

\* What the statements have read differs from what is done now, and from one
\* statement to another, in rows that moved.
ReadSoFar ==
  /\ got \in Seq([rows : SUBSET Row, day : MonthDay])
  /\ at = "idle" => got = <<>>
  /\ at # "idle" => view \in View
  /\ at = "reading" => Len(got) < Len(Statements(view))
  /\ at = "answered" => Len(got) = Len(Statements(view))
  /\ \A i \in 1 .. Len(got) : got[i].rows \ done \subseteq moved /\ done \ got[i].rows \subseteq moved
  /\ \A i, j \in 1 .. Len(got) : got[i].rows \ got[j].rows \subseteq moved

ReportInvariant == TypeOK /\ ReadSoFar

\* A view has two or three statements.
LEMMA StatementsCount ==
  \A v \in View : Len(Statements(v)) \in {2, 3}
<1> SUFFICES ASSUME NEW v \in View
             PROVE  Len(Statements(v)) \in {2, 3}
  OBVIOUS
<1>1. CASE v = "dashboard"
  BY <1>1 DEF Statements
<1>2. CASE v = "cashflow"
  BY <1>2 DEF Statements
<1>3. CASE v \in Report
  <2>1. Statements(v) = <<"monthly", "categories", "previous">>
    BY <1>3 DEF Statements, Report
  <2> QED BY <2>1
<1> QED BY <1>1, <1>2, <1>3 DEF View

\* Before any request nothing is read.
LEMMA ReportStart ==
  Init => ReportInvariant
<1> SUFFICES ASSUME Init PROVE ReportInvariant
  OBVIOUS
<1>1. TypeOK
  BY RowAssumption, DateAssumption, BoundAssumption DEF Init, TypeOK
<1>2. ReadSoFar
  BY DEF Init, ReadSoFar
<1> QED BY <1>1, <1>2 DEF ReportInvariant

\* A statement reads what is done; a change adds its row to what moved.
LEMMA ReportStep ==
  ASSUME ReportInvariant, [Next]_vars PROVE ReportInvariant'
<1> USE DEF ReportInvariant
<1>1. ASSUME NEW v \in View, Ask(v) PROVE ReportInvariant'
  <2>1. TypeOK'
    BY <1>1 DEF Ask, TypeOK
  <2>2. ReadSoFar'
    <3>1. Len(Statements(v)) > 0
      BY StatementsCount
    <3>2. View' = View /\ Statements(view)' = Statements(v)
      BY <1>1 DEF Ask, Statements, View, Report
    <3> QED BY <1>1, <3>1, <3>2 DEF Ask, ReadSoFar
  <2> QED BY <2>1, <2>2
<1>2. CASE ReadNext
  <2> DEFINE new == [rows |-> done, day |-> today]
  <2>0. /\ got \in Seq([rows : SUBSET Row, day : MonthDay])
        /\ new \in [rows : SUBSET Row, day : MonthDay]
        /\ got' = Append(got, new) /\ view' = view /\ view \in View
    BY <1>2 DEF ReadNext, ReadSoFar, TypeOK, MonthDay
  <2>a. /\ got' \in Seq([rows : SUBSET Row, day : MonthDay]) /\ Len(got') = Len(got) + 1
        /\ Len(got) \in Nat
        /\ \A i \in 1 .. Len(got) : got'[i] = got[i]
        /\ got'[Len(got) + 1] = new
        /\ DOMAIN got' = 1 .. Len(got) + 1
    BY <2>0
  <2>b. Len(got) < Len(Statements(view)) /\ Len(Statements(view)) \in Nat
    BY <1>2, <2>0, StatementsCount DEF ReadNext, ReadSoFar
  <2>1. TypeOK'
    <3>1. \A i \in DOMAIN got' : got'[i].rows \subseteq Row
      <4>1. \A i \in DOMAIN got' : got'[i] \in [rows : SUBSET Row, day : MonthDay]
        BY <2>a, SeqMembers
      <4> QED BY <4>1
    <3>2. Len(got') <= Len(Statements(view))'
      <4>1. Statements(view)' = Statements(view)
        BY <2>0 DEF Statements, Report
      <4> QED BY <2>a, <2>b, <4>1
    <3> QED BY <1>2, <3>1, <3>2 DEF ReadNext, TypeOK
  <2>2. ReadSoFar'
    <3>1. /\ at' \in {"reading", "answered"}
          /\ at' = "reading" => Len(got') < Len(Statements(view))
          /\ at' = "answered" => Len(got') = Len(Statements(view))
      BY <1>2, <2>a, <2>b DEF ReadNext
    <3>2. \A i \in 1 .. Len(got') : got'[i].rows \ done \subseteq moved /\ done \ got'[i].rows \subseteq moved
      BY <2>a DEF ReadSoFar
    <3>3. \A i, j \in 1 .. Len(got') : got'[i].rows \ got'[j].rows \subseteq moved
      <4> SUFFICES ASSUME NEW i \in 1 .. Len(got'), NEW j \in 1 .. Len(got')
                   PROVE  got'[i].rows \ got'[j].rows \subseteq moved
        OBVIOUS
      <4>1. CASE i = Len(got) + 1
        BY <2>a, <3>2, <4>1
      <4>2. CASE j = Len(got) + 1
        BY <2>a, <3>2, <4>2
      <4>3. CASE i \in 1 .. Len(got) /\ j \in 1 .. Len(got)
        BY <2>a, <4>3 DEF ReadSoFar
      <4> QED BY <2>a, <4>1, <4>2, <4>3
    <3>4. done' = done /\ moved' = moved
      BY <1>2 DEF ReadNext
    <3>5. Statements(view)' = Statements(view) /\ View' = View
      BY <2>0 DEF Statements, View, Report
    <3> QED BY <2>0, <2>a, <3>1, <3>2, <3>3, <3>4, <3>5 DEF ReadSoFar
  <2> QED BY <2>1, <2>2
<1>3. CASE Fail
  BY <1>3 DEF Fail, TypeOK, ReadSoFar
<1>4. ASSUME NEW r \in Row, Change(r) PROVE ReportInvariant'
  <2>0. /\ done' \ done \subseteq {r} /\ done \ done' \subseteq {r} /\ moved' = moved \cup {r}
        /\ got' = got /\ at' = at /\ view' = view /\ done' \subseteq Row
    BY <1>4 DEF Change, TypeOK
  <2>2. View' = View /\ Statements(view)' = Statements(view) 
    BY <2>0 DEF Statements, View, Report
  <2>1. TypeOK'
    <3>1. changes' \in 0 .. MaxChanges
      BY <1>4, BoundAssumption DEF Change, TypeOK
    <3> QED BY <1>4, <2>0, <2>2, <3>1 DEF Change, TypeOK
  <2>3. ReadSoFar'
    BY <2>0, <2>2 DEF ReadSoFar
  <2> QED BY <2>1, <2>3
<1>5. CASE Midnight
  <2>1. today' \in MonthDay
    BY <1>5, NextDayIsDay DEF Midnight, TypeOK, MonthDay
  <2>4. View' = View /\ Statements(view)' = Statements(view)
    BY <1>5 DEF Midnight, Statements, View, Report
  <2>2. TypeOK'
    <3>1. nights' \in 0 .. MaxNights
      BY <1>5, BoundAssumption DEF Midnight, TypeOK
    <3> QED BY <1>5, <2>1, <2>4, <3>1 DEF Midnight, TypeOK, MonthDay
  <2>3. ReadSoFar'
    BY <1>5, <2>4 DEF Midnight, ReadSoFar
  <2> QED BY <2>2, <2>3
<1>6. CASE UNCHANGED vars
  BY <1>6 DEF vars, TypeOK, ReadSoFar, Statements, View, Report
<1> QED BY <1>1, <1>2, <1>3, <1>4, <1>5, <1>6 DEF Next

\* So every answer is made of statements that differ only in what moved.
LEMMA ReportInvariantHolds == Spec => []ReportInvariant
BY ReportStart, ReportStep, PTL DEF Spec

-----------------------------------------------------------------------------
DateFacts ==
  /\ asof \in MonthDay /\ asof = <<asof[1], asof[2]>>
  /\ Month = asof[1] /\ asof[1] \in Nat /\ asof[2] \in 1 .. 31
  /\ \A r \in Row : On[r] \in MonthDay /\ On[r] = <<On[r][1], On[r][2]>>
                    /\ On[r][1] \in Nat /\ On[r][2] \in 1 .. 31

\* Dates, field by field, as the arithmetic needs them.
LEMMA DatesHold == ASSUME ReportInvariant PROVE DateFacts
BY DateAssumption DEF ReportInvariant, TypeOK, DateFacts, Month, MonthDay

\* What an answered view has read, by name.
LEMMA ReadByName ==
  ASSUME ReportInvariant, at = "answered"
  PROVE  /\ view \in View
         /\ Read("monthly") = got[1] /\ got[1].rows \subseteq Row
         /\ \A i \in DOMAIN got : got[i].rows \subseteq Row
         /\ \A i, j \in DOMAIN got : got[i].rows \ got[j].rows \subseteq moved
         /\ view = "dashboard" => /\ Read("categories") = got[2] /\ Read("weekly") = got[3]
                                  /\ DOMAIN got = 1 .. 3
         /\ view = "cashflow"  => Read("daily") = got[2] /\ DOMAIN got = 1 .. 2
         /\ view \in Report  => /\ Read("categories") = got[2] /\ Read("previous") = got[3]
                                  /\ DOMAIN got = 1 .. 3
<1>1. /\ view \in View /\ DOMAIN got = 1 .. Len(Statements(view))
      /\ DOMAIN got = 1 .. Len(got) /\ Len(got) \in Nat
  BY DEF ReportInvariant, ReadSoFar
<1>5. /\ \A i \in DOMAIN got : got[i].rows \subseteq Row
      /\ \A i, j \in DOMAIN got : got[i].rows \ got[j].rows \subseteq moved
  BY <1>1 DEF ReportInvariant, ReadSoFar, TypeOK
<1>2. ASSUME view = "dashboard"
     PROVE  Read("monthly") = got[1] /\ Read("categories") = got[2] /\ Read("weekly") = got[3]
             /\ DOMAIN got = 1 .. 3
  <2>1. Statements(view) = <<"monthly", "categories", "weekly">>
    BY <1>2 DEF Statements, Report
  <2>2. DOMAIN got = 1 .. 3
    BY <1>1, <2>1
  <2>3. /\ \A i \in DOMAIN got : Statements(view)[i] = "monthly" <=> i = 1
        /\ \A i \in DOMAIN got : Statements(view)[i] = "categories" <=> i = 2
        /\ \A i \in DOMAIN got : Statements(view)[i] = "weekly" <=> i = 3
    BY <2>1, <2>2
  <2>4. Read("monthly") = got[1] /\ Read("categories") = got[2] /\ Read("weekly") = got[3]
    BY <2>2, <2>3 DEF Read
  <2> QED BY <2>2, <2>4
<1>3. ASSUME view = "cashflow"
     PROVE  Read("monthly") = got[1] /\ Read("daily") = got[2]
             /\ DOMAIN got = 1 .. 2
  <2>1. Statements(view) = <<"monthly", "daily">>
    BY <1>3 DEF Statements, Report
  <2>2. DOMAIN got = 1 .. 2
    BY <1>1, <2>1
  <2>3. /\ \A i \in DOMAIN got : Statements(view)[i] = "monthly" <=> i = 1
        /\ \A i \in DOMAIN got : Statements(view)[i] = "daily" <=> i = 2
    BY <2>1, <2>2
  <2>4. Read("monthly") = got[1] /\ Read("daily") = got[2]
    BY <2>2, <2>3 DEF Read
  <2> QED BY <2>2, <2>4
<1>4. ASSUME view \in Report
     PROVE  Read("monthly") = got[1] /\ Read("categories") = got[2] /\ Read("previous") = got[3]
             /\ DOMAIN got = 1 .. 3
  <2>1. Statements(view) = <<"monthly", "categories", "previous">>
    BY <1>4 DEF Statements, Report
  <2>2. DOMAIN got = 1 .. 3
    BY <1>1, <2>1
  <2>3. /\ \A i \in DOMAIN got : Statements(view)[i] = "monthly" <=> i = 1
        /\ \A i \in DOMAIN got : Statements(view)[i] = "categories" <=> i = 2
        /\ \A i \in DOMAIN got : Statements(view)[i] = "previous" <=> i = 3
    BY <2>1, <2>2
  <2>4. Read("monthly") = got[1] /\ Read("categories") = got[2] /\ Read("previous") = got[3]
    BY <2>2, <2>3 DEF Read
  <2> QED BY <2>2, <2>4
<1>6. \/ view = "dashboard" /\ view \notin Report
      \/ view = "cashflow" /\ view \notin Report
      \/ view \in Report /\ view # "dashboard" /\ view # "cashflow"
  BY <1>1 DEF View, Report
<1>7. Read("monthly") = got[1] /\ 1 \in DOMAIN got
  BY <1>2, <1>3, <1>4, <1>6
<1> QED BY <1>1, <1>2, <1>3, <1>4, <1>5, <1>7, Zenon

\* From the first of a month on, a month no earlier is there whole.
LEMMA WholeMonth ==
  ASSUME DateFacts, NEW read \in SUBSET Row, NEW start \in Int, NEW m \in Int, start <= m
  PROVE  InMonth(Window(read, First(start), asof), m)
           = InMonth({r \in read : NotAfter(On[r], asof)}, m)
<1>1. \A r \in read : On[r][1] = m => NotAfter(First(start), On[r])
  BY DEF NotAfter, First, DateFacts
<1> QED BY <1>1 DEF InMonth, Window

\* The total of a month, no earlier than those fetched, is of all its rows.
LEMMA MonthTotalIsWhole ==
  ASSUME DateFacts, Read("monthly").rows \subseteq Row,
         NEW start \in Int, FetchFrom(view) = First(start),
         NEW m \in Int, start <= m, NEW outward
  PROVE  MonthTotal(m, outward)
           = Total(Flow(InMonth({r \in Read("monthly").rows : NotAfter(On[r], asof)}, m), outward))
<1>1. InMonth(Window(Read("monthly").rows, First(start), asof), m)
        = InMonth({r \in Read("monthly").rows : NotAfter(On[r], asof)}, m)
  BY WholeMonth
<1> QED BY <1>1, Zenon DEF MonthTotal

\* Months counted from a date: on the day it has, or in the next month.
LEMMA MonthsOn ==
  ASSUME NEW d \in MonthDay, NEW n \in Int
  PROVE  /\ AddMonths(d, n)[1] \in {d[1] + n, d[1] + n + 1}
         /\ d[2] <= 28 => AddMonths(d, n) = <<d[1] + n, d[2]>>
<1>1. d[1] \in Nat /\ d[2] \in 1 .. 31
  BY DEF MonthDay
<1>2. DaysIn(d[1] + n) \in {28, 29, 30, 31}
  BY DaysInRange
<1> QED BY <1>1, <1>2 DEF AddMonths

\* Counted from the first of a month, months do not run over.
LEMMA FirstCounts ==
  ASSUME NEW m \in Int, NEW n \in Int
  PROVE  AddMonths(First(m), n) = <<m + n, 1>> /\ First(m)[1] = m
<1>1. DaysIn(m + n) \in {28, 29, 30, 31}
  BY DaysInRange
<1> QED BY <1>1 DEF AddMonths, First

\* A quarter starts up to two months back and a year up to eleven.
LEMMA QuartersAndYears ==
  ASSUME NEW m \in Nat
  PROVE  /\ QuarterStart(m) = First(m - (m % 3)) /\ m % 3 \in 0 .. 2
         /\ YearStart(m) = First(m - (m % 12)) /\ m % 12 \in 0 .. 11
         /\ m % 3 <= m % 12
         /\ QuarterStart(m)[1] = m - (m % 3) /\ YearStart(m)[1] = m - (m % 12)
<1>1. /\ QuarterStart(m) = First(m - (m % 3)) /\ m % 3 \in 0 .. 2
      /\ YearStart(m) = First(m - (m % 12)) /\ m % 12 \in 0 .. 11
      /\ m % 3 <= m % 12
  BY DEF QuarterStart, YearStart
<1>2. \A k_ \in Int : First(k_)[1] = k_
  BY DEF First
<1> HIDE DEF First, QuarterStart
<1> QED BY <1>1, <1>2

\* The months a chart looks up are among those fetched, one after the other.
ChartIsFetched(start) ==
  /\ FetchFrom(view) = First(start)
  /\ \A i \in DOMAIN ChartMonths(view) : ChartMonths(view)[i] \in Int /\ start <= ChartMonths(view)[i]
  /\ (SafeDay \/ view # "mensual") =>
       /\ Follow(ChartMonths(view))
       /\ ChartMonths(view)[Len(ChartMonths(view))]
            = IF view = "trimestral" THEN QuarterStart(asof[1])[1] + 2 ELSE asof[1]

\* By view: what a chart looks up is what its view has fetched.
LEMMA ChartMonthsFetched ==
  ASSUME DateFacts, view \in View
  PROVE  \E start \in Int : ChartIsFetched(start)
<1>v. /\ Month = asof[1] /\ asof[1] \in Nat /\ asof[2] \in 1 .. 31 /\ asof \in MonthDay
  BY DEF DateFacts
<1>q. PICK third \in 0 .. 2, twelfth \in 0 .. 11 :
        /\ asof[1] % 3 = third /\ QuarterStart(asof[1])[1] = asof[1] - third
        /\ asof[1] % 12 = twelfth /\ YearStart(asof[1])[1] = asof[1] - twelfth
        /\ third <= twelfth
  BY <1>v, QuartersAndYears
<1> DEFINE m == asof[1]
<1>1. CASE view = "dashboard"
  <2> DEFINE chart == [i \in 1 .. 6 |-> m - 6 + i]
  <2>1. ChartMonths(view) = [i \in 1 .. 6 |-> AddMonths(First(m - 5), i - 1)[1]]
        /\ FetchFrom(view) = First(m - 5)
    BY <1>1, <1>v DEF ChartMonths, FetchFrom, Report
  <2>2. \A i \in 1 .. 6 : AddMonths(First(m - 5), i - 1)[1] = m - 6 + i
    <3> SUFFICES ASSUME NEW i \in 1 .. 6
                 PROVE  AddMonths(First(m - 5), i - 1)[1] = m - 6 + i
      OBVIOUS
    <3>1. m - 5 \in Int /\ i - 1 \in Int
      BY <1>v
    <3>2. AddMonths(First(m - 5), i - 1) = <<(m - 5) + (i - 1), 1>>
      BY <3>1, FirstCounts
    <3> QED BY <1>v, <3>2
  <2>3. ChartMonths(view) = chart
    BY <2>1, <2>2
  <2>4. Follow(chart) /\ Len(chart) = 6 /\ chart[6] = m /\ \A i \in 1 .. 6 : m - 5 <= chart[i]
    BY <1>v DEF Follow
  <2>5. ChartIsFetched(m - 5)
    <3>1. DOMAIN chart = 1 .. 6 /\ \A i \in 1 .. 6 : chart[i] \in Int
      BY <1>v
    <3> HIDE DEF chart
    <3> QED BY <1>1, <2>1, <2>3, <2>4, <3>1 DEF ChartIsFetched
  <2> QED BY <1>v, <2>5
<1>2. CASE view = "cashflow"
  <2>1. ChartMonths(view) = <<m - 1, m>> /\ FetchFrom(view) = First(m - 1)
    BY <1>2, <1>v DEF ChartMonths, FetchFrom, Report
  <2>5. ChartIsFetched(m - 1)
    <3> DEFINE chart == <<m - 1, m>>
    <3>1. /\ DOMAIN chart = 1 .. 2 /\ Len(chart) = 2 /\ chart[1] = m - 1 /\ chart[2] = m
      OBVIOUS
    <3>2. \A i \in 1 .. 2 : chart[i] \in Int /\ m - 1 <= chart[i]
      BY <1>v, <3>1
    <3>3. Follow(chart)
      BY <1>v, <3>1 DEF Follow
    <3>4. ChartMonths(view) = chart
      BY <2>1
    <3> HIDE DEF chart
    <3> QED BY <1>2, <2>1, <3>1, <3>2, <3>3, <3>4 DEF ChartIsFetched
  <2> QED BY <1>v, <2>5
<1>3. CASE view = "mensual"
  <2>1. ChartMonths(view) = [i \in 1 .. 6 |-> AddMonths(asof, i - 6)[1]]
        /\ FetchFrom(view) = First(m - 24)
    BY <1>3, <1>v DEF ChartMonths, FetchFrom, Report
  <2>2. \A i \in 1 .. 6 : /\ AddMonths(asof, i - 6)[1] \in {m + (i - 6), m + (i - 6) + 1}
                          /\ asof[2] <= 28 => AddMonths(asof, i - 6)[1] = m + (i - 6)
    BY <1>v, MonthsOn
  <2>3. \A i \in DOMAIN ChartMonths(view) :
           ChartMonths(view)[i] \in Int /\ m - 24 <= ChartMonths(view)[i]
    BY <1>v, <2>1, <2>2
  <2>4. ASSUME SafeDay
        PROVE  /\ Follow(ChartMonths(view))
               /\ ChartMonths(view)[Len(ChartMonths(view))] = m
    BY <1>v, <2>1, <2>2, <2>4 DEF Follow, SafeDay
  <2>5. ChartIsFetched(m - 24)
    BY <1>3, <2>1, <2>3, <2>4 DEF ChartIsFetched
  <2> QED BY <1>v, <2>5
<1>4. CASE view = "trimestral"
  <2> DEFINE n == (m % 12) - (m % 3) + 3
  <2>1. ChartMonths(view) = [i \in 1 .. n |-> YearStart(m)[1] + i - 1]
        /\ FetchFrom(view) = First(m - 24)
    BY <1>4, <1>v DEF ChartMonths, FetchFrom, Report
  <2>2. n \in Nat /\ n >= 1 /\ YearStart(m)[1] = m - (m % 12) /\ m % 12 \in 0 .. 11
    BY <1>q
  <2>3. /\ Follow(ChartMonths(view))
        /\ ChartMonths(view)[Len(ChartMonths(view))] = QuarterStart(m)[1] + 2
        /\ \A i \in DOMAIN ChartMonths(view) :
              ChartMonths(view)[i] \in Int /\ m - 24 <= ChartMonths(view)[i]
    <3> DEFINE y == YearStart(m)[1]
    <3>1. /\ DOMAIN ChartMonths(view) = 1 .. n /\ Len(ChartMonths(view)) = n
          /\ \A i \in 1 .. n : ChartMonths(view)[i] = y + i - 1
      BY <2>1, <2>2
    <3>2. y \in Int /\ m - 11 <= y /\ y + n - 1 = QuarterStart(m)[1] + 2
      <4>1. asof[1] \in Int /\ third \in 0 .. 2 /\ twelfth \in 0 .. 11
        BY <1>v
      <4>2. QuarterStart(asof[1])[1] = asof[1] - third /\ y = asof[1] - twelfth /\ n = twelfth - third + 3
        BY <1>q
      <4> HIDE DEF y, n
      <4> QED BY <4>1, <4>2
    <3> HIDE DEF y, n
    <3>3. Follow(ChartMonths(view))
      BY <2>2, <3>1, <3>2 DEF Follow
    <3>4. ChartMonths(view)[n] = y + n - 1
      BY <2>2, <3>1
    <3>5. \A i \in 1 .. n : y + i - 1 \in Int /\ m - 24 <= y + i - 1
      BY <1>v, <2>2, <3>2
    <3> QED BY <3>1, <3>2, <3>3, <3>4, <3>5
  <2>5. ChartIsFetched(m - 24)
    BY <1>4, <2>1, <2>3 DEF ChartIsFetched
  <2> QED BY <1>v, <2>5
<1>5. CASE view = "anual"
  <2> DEFINE n == (m % 12) + 1
  <2>1. ChartMonths(view) = [i \in 1 .. n |-> YearStart(m)[1] + i - 1]
        /\ FetchFrom(view) = First(m - 24)
    BY <1>5, <1>v DEF ChartMonths, FetchFrom, Report
  <2>2. n \in Nat /\ n >= 1 /\ YearStart(m)[1] = m - (m % 12) /\ m % 12 \in 0 .. 11
    BY <1>q
  <2>3. /\ Follow(ChartMonths(view))
        /\ ChartMonths(view)[Len(ChartMonths(view))] = m
        /\ \A i \in DOMAIN ChartMonths(view) :
              ChartMonths(view)[i] \in Int /\ m - 24 <= ChartMonths(view)[i]
    <3> DEFINE y == YearStart(m)[1]
    <3>1. /\ DOMAIN ChartMonths(view) = 1 .. n /\ Len(ChartMonths(view)) = n
          /\ \A i \in 1 .. n : ChartMonths(view)[i] = y + i - 1
      BY <2>1, <2>2
    <3>2. y \in Int /\ m - 11 <= y /\ y + n - 1 = m
      <4>1. asof[1] \in Int /\ twelfth \in 0 .. 11
        BY <1>v
      <4>2. y = asof[1] - twelfth /\ n = twelfth + 1
        BY <1>q
      <4> HIDE DEF y, n
      <4> QED BY <4>1, <4>2
    <3> HIDE DEF y, n
    <3>3. Follow(ChartMonths(view))
      BY <2>2, <3>1, <3>2 DEF Follow
    <3>4. ChartMonths(view)[n] = y + n - 1
      BY <2>2, <3>1
    <3>5. \A i \in 1 .. n : y + i - 1 \in Int /\ m - 24 <= y + i - 1
      BY <1>v, <2>2, <3>2
    <3> QED BY <3>1, <3>2, <3>3, <3>4, <3>5
  <2>5. ChartIsFetched(m - 24)
    BY <1>5, <2>1, <2>3 DEF ChartIsFetched
  <2> QED BY <1>v, <2>5
<1> QED BY <1>1, <1>2, <1>3, <1>4, <1>5 DEF View, Report

\* So are those of the averages of a report, and they come before the current month.
LEMMA LookbackFetched ==
  ASSUME DateFacts, view \in Report, SafeDay \/ view = "trimestral"
  PROVE  /\ FetchFrom(view) = First(asof[1] - 24)
         /\ Precede(Lookback(view)) /\ Lookback(view)[1] < asof[1]
         /\ \A i \in DOMAIN Lookback(view) :
              Lookback(view)[i] \in Int /\ asof[1] - 24 <= Lookback(view)[i]
<1>v. /\ Month = asof[1] /\ asof[1] \in Nat /\ asof[2] \in 1 .. 31 /\ asof \in MonthDay
  BY DEF DateFacts
<1>q. PICK third \in 0 .. 2, twelfth \in 0 .. 11 :
        /\ asof[1] % 3 = third /\ QuarterStart(asof[1])[1] = asof[1] - third
        /\ asof[1] % 12 = twelfth /\ YearStart(asof[1])[1] = asof[1] - twelfth
        /\ third <= twelfth
  BY <1>v, QuartersAndYears
<1> DEFINE m == asof[1]
<1>0. FetchFrom(view) = First(m - 24)
  BY <1>v DEF FetchFrom, Report
<1>1. CASE view = "mensual"
  <2>1. Lookback(view) = [i \in 1 .. 6 |-> AddMonths(asof, -i)[1]]
    BY <1>1 DEF Lookback
  <2>2. \A i \in 1 .. 6 : AddMonths(asof, -i)[1] = m + (-i)
    BY <1>1, <1>v, MonthsOn DEF SafeDay
  <2> QED BY <1>0, <1>v, <2>1, <2>2 DEF Precede
<1>2. CASE view = "trimestral"
  <2>1. Lookback(view) = [i \in 1 .. 12 |-> QuarterStart(m)[1] - i]
    BY <1>2, <1>v DEF Lookback
  <2> DEFINE q == QuarterStart(m)[1]
  <2>2a. QuarterStart(asof[1])[1] = asof[1] - third
    BY <1>q
  <2>2b. m - third \in Int /\ m - 2 <= m - third /\ m - third <= m
    <3>1. asof[1] \in Int /\ third \in 0 .. 2
      BY <1>v
    <3> QED BY <3>1
  <2>2. q \in Int /\ m - 2 <= q /\ q <= m
    BY <2>2a, <2>2b
  <2>3. Lookback(view) = [i \in 1 .. 12 |-> q - i]
    BY <2>1
  <2> HIDE DEF q
  <2> QED BY <1>0, <1>v, <2>2, <2>3 DEF Precede
<1>3. CASE view = "anual"
  <2>1. Lookback(view) = [i \in 1 .. 12 |-> AddMonths(asof, -i)[1]]
    BY <1>3 DEF Lookback
  <2>2. \A i \in 1 .. 12 : AddMonths(asof, -i)[1] = m + (-i)
    BY <1>3, <1>v, MonthsOn DEF SafeDay
  <2> QED BY <1>0, <1>v, <2>1, <2>2 DEF Precede
<1> QED BY <1>1, <1>2, <1>3 DEF Report

\* Whatever the rows, the amounts and the date.
LEMMA InvariantGivesWholeMonths ==
  ASSUME ReportInvariant PROVE MonthsAreWhole
<1> SUFFICES ASSUME Answered(View) PROVE MonthsAreWhole
  BY DEF MonthsAreWhole
<1>0. at = "answered" /\ view \in View /\ DateFacts
  BY DatesHold DEF Answered
<1>1. Read("monthly").rows \subseteq Row /\ asof[1] = Month
  BY <1>0, ReadByName DEF DateFacts
<1> DEFINE held(m, outward) == Total(Flow(InMonth(
              {r \in Read("monthly").rows : NotAfter(On[r], asof)}, m), outward))
<1>2. PICK start \in Int : ChartIsFetched(start)
  BY <1>0, ChartMonthsFetched
<1>3. ASSUME NEW i \in DOMAIN ChartMonths(view), NEW outward \in BOOLEAN
      PROVE  MonthTotal(ChartMonths(view)[i], outward) = held(ChartMonths(view)[i], outward)
  BY <1>0, <1>1, <1>2, MonthTotalIsWhole DEF ChartIsFetched
<1>4. ASSUME view \in Report, SafeDay \/ view = "trimestral"
      PROVE  /\ Precede(Lookback(view)) /\ Lookback(view)[1] < Month
             /\ \A i \in DOMAIN Lookback(view), outward \in BOOLEAN :
                  MonthTotal(Lookback(view)[i], outward) = held(Lookback(view)[i], outward)
  <2>1. asof[1] - 24 \in Int
    BY <1>0 DEF DateFacts
  <2>2. \A i \in DOMAIN Lookback(view), outward \in BOOLEAN :
           MonthTotal(Lookback(view)[i], outward) = held(Lookback(view)[i], outward)
    <3> HIDE DEF held
    <3> SUFFICES ASSUME NEW i \in DOMAIN Lookback(view), NEW outward \in BOOLEAN
                 PROVE  MonthTotal(Lookback(view)[i], outward) = held(Lookback(view)[i], outward)
      OBVIOUS
    <3> QED BY <1>0, <1>1, <1>4, <2>1, LookbackFetched, MonthTotalIsWhole DEF held
  <2> QED BY <1>0, <1>1, <1>4, <2>2, LookbackFetched
<1> HIDE DEF held
<1> QED BY <1>1, <1>2, <1>3, <1>4 DEF MonthsAreWhole, ChartIsFetched, held

\* Where the two columns of a report start and end.
LEMMA ColumnDates ==
  ASSUME DateFacts, view \in Report
  PROVE  \E p \in Int, q \in Int :
           /\ PeriodStart(view) = First(p) /\ PreviousStart(view) = First(q)
           /\ p <= asof[1]
           /\ view # "anual" => PreviousEnd(view) = First(p)
           /\ view = "anual" =>
                \/ PreviousEnd(view) = <<asof[1] - 12, asof[2]>>
                \/ PreviousEnd(view)[1] \in Int /\ PreviousEnd(view)[1] < p
           /\ view = "anual" /\ SafeDay => PreviousEnd(view) = <<asof[1] - 12, asof[2]>>
           /\ asof[1] - 11 <= p
<1>v. /\ Month = asof[1] /\ asof[1] \in Int /\ asof[1] \in Nat /\ asof[2] \in 1 .. 31
      /\ asof \in MonthDay
  BY DEF DateFacts
<1>1. CASE view = "mensual"
  <2>1. /\ PeriodStart(view) = First(AddMonths(asof, -5)[1])
        /\ PreviousStart(view) = First(AddMonths(asof, -11)[1])
        /\ PreviousEnd(view) = First(AddMonths(asof, -5)[1])
    BY <1>1 DEF PeriodStart, PreviousStart, PreviousEnd
  <2>2. /\ AddMonths(asof, -5)[1] \in {asof[1] + (-5), asof[1] + (-5) + 1}
        /\ AddMonths(asof, -11)[1] \in {asof[1] + (-11), asof[1] + (-11) + 1}
    BY <1>v, MonthsOn
  <2>3. /\ AddMonths(asof, -5)[1] \in Int /\ AddMonths(asof, -5)[1] <= asof[1]
        /\ asof[1] - 11 <= AddMonths(asof, -5)[1]
        /\ AddMonths(asof, -11)[1] \in Int
    BY <1>v, <2>2
  <2> QED BY <1>1, <2>1, <2>3
<1>2. CASE view = "trimestral"
  <2> DEFINE p == asof[1] - (asof[1] % 3)
             q == (asof[1] - 3) - ((asof[1] - 3) % 3)
  <2>1. /\ PeriodStart(view) = First(p) /\ PreviousStart(view) = First(q)
        /\ PreviousEnd(view) = First(p)
    BY <1>2, <1>v DEF PeriodStart, PreviousStart, PreviousEnd, QuarterStart
  <2>2. p \in Int /\ q \in Int /\ p <= asof[1] /\ asof[1] - 11 <= p
    <3>1. asof[1] \in Nat
      BY <1>v
    <3> QED BY <3>1
  <2> HIDE DEF p, q
  <2> QED BY <1>2, <2>1, <2>2
<1>3. CASE view = "anual"
  <2> DEFINE p == asof[1] - (asof[1] % 12)
             q == (asof[1] - 12) - ((asof[1] - 12) % 12)
             end == PreviousEnd(view)
  <2>1. /\ PeriodStart(view) = First(p) /\ PreviousStart(view) = First(q)
        /\ end = AddMonths(asof, -12)
    BY <1>3, <1>v DEF PeriodStart, PreviousStart, PreviousEnd, YearStart
  <2>2. p \in Int /\ q \in Int /\ p <= asof[1] /\ asof[1] - 11 <= p
    <3>1. asof[1] \in Nat
      BY <1>v
    <3> QED BY <3>1
  <2>3. \/ end = <<asof[1] - 12, asof[2]>>
        \/ end[1] \in Int /\ end[1] < p
    <3>1. CASE asof[2] <= DaysIn(asof[1] + (-12))
      <4>1. end = <<asof[1] + (-12), asof[2]>>
        BY <2>1, <3>1 DEF AddMonths
      <4> QED BY <1>v, <4>1
    <3>2. CASE ~(asof[2] <= DaysIn(asof[1] + (-12)))
      <4>1. end[1] = asof[1] + (-12) + 1
        BY <2>1, <3>2 DEF AddMonths
      <4>2. DaysIn(asof[1] + (-12)) # 31
        BY <1>v, <3>2, DaysInRange
      <4>3. asof[1] % 12 # 11
        <5> SUFFICES ASSUME asof[1] % 12 = 11 PROVE FALSE
          OBVIOUS
        <5>1. asof[1] \in Nat
          BY <1>v
        <5>2. (asof[1] + (-12)) % 12 = 11
          BY <5>1
        <5>3. ((asof[1] + (-12)) % 12) + 1 = 12
          BY <5>2
        <5> QED BY <4>2, <5>3 DEF DaysIn
      <4>4. asof[1] - 11 < p
        <5>1. asof[1] \in Nat
          BY <1>v
        <5> QED BY <4>3, <5>1
      <4>5. end[1] = asof[1] - 11 /\ end[1] \in Int
        BY <1>v, <4>1
      <4> QED BY <4>4, <4>5
    <3> QED BY <3>1, <3>2
  <2>4. SafeDay => end = <<asof[1] - 12, asof[2]>>
    <3> SUFFICES ASSUME SafeDay PROVE end = <<asof[1] - 12, asof[2]>>
      OBVIOUS
    <3>1. AddMonths(asof, -12) = <<asof[1] + (-12), asof[2]>>
      BY <1>v, MonthsOn DEF SafeDay
    <3> QED BY <1>v, <2>1, <3>1
  <2> HIDE DEF p, q
  <2> QED BY <1>3, <2>1, <2>2, <2>3, <2>4
<1> QED BY <1>1, <1>2, <1>3 DEF Report

\* A date is in both columns only if both start and end on it.
LEMMA InvariantGivesMeetingColumns ==
  ASSUME ReportInvariant PROVE ColumnsMeet
<1> SUFFICES ASSUME Answered(Report) PROVE ColumnsMeet
  BY DEF ColumnsMeet
<1>0. at = "answered" /\ view \in Report /\ DateFacts
  BY DatesHold DEF Answered
<1>a. /\ asof = <<asof[1], asof[2]>> /\ asof[1] \in Nat /\ asof[2] \in 1 .. 31
  BY <1>0 DEF DateFacts
<1>1. /\ Read("categories").rows \subseteq Row /\ Read("previous").rows \subseteq Row
  BY <1>0, ReadByName
<1>b. \A r \in Row : /\ On[r] = <<On[r][1], On[r][2]>> /\ On[r][1] \in Nat /\ On[r][2] \in 1 .. 31
  BY <1>0 DEF DateFacts
<1> DEFINE C == Read("categories").rows
           P == Read("previous").rows
           start == PeriodStart(view)
           before == PreviousStart(view)
           end == PreviousEnd(view)
           current == Categories("categories", start, asof)
           previous == Categories("previous", before, end)
<1>2. PICK p \in Int, q \in Int :
        /\ start = First(p) /\ before = First(q) /\ p <= asof[1]
        /\ view # "anual" => end = First(p)
        /\ view = "anual" =>
             \/ end = <<asof[1] - 12, asof[2]>>
             \/ end[1] \in Int /\ end[1] < p
        /\ view = "anual" /\ SafeDay => end = <<asof[1] - 12, asof[2]>>
        /\ asof[1] - 11 <= p
  BY <1>0, ColumnDates
<1>3. /\ current = {r \in C \cap Expense : NotAfter(start, On[r]) /\ NotAfter(On[r], asof)}
      /\ previous = {r \in P \cap Expense : NotAfter(before, On[r]) /\ NotAfter(On[r], end)}
  BY DEF Categories, Flow, Window
<1> HIDE DEF C, P, start, before, end, current, previous
<1>s. C \subseteq Row /\ P \subseteq Row
  BY <1>1 DEF C, P
<1>4. ASSUME NEW r \in current \cap previous PROVE On[r] = start
  <2>1. r \in Row /\ NotAfter(start, On[r]) /\ NotAfter(On[r], end)
    BY <1>3, <1>4, <1>s
  <2>r. On[r] = <<On[r][1], On[r][2]>> /\ On[r][1] \in Nat /\ On[r][2] \in 1 .. 31
    BY <1>b, <2>1
  <2>2. CASE view # "anual"
    <3>1. start = <<p, 1>> /\ end = <<p, 1>>
      BY <1>2, <2>2 DEF First
    <3>2. On[r][1] = p /\ On[r][2] = 1
      BY <2>1, <2>r, <3>1 DEF NotAfter
    <3> QED BY <2>r, <3>1, <3>2
  <2>3. CASE view = "anual"
    <3>1. start = <<p, 1>> /\ end[1] \in Int /\ end[1] < p
      <4>1. end = <<asof[1] - 12, asof[2]>> => end[1] \in Int /\ end[1] < p
        BY <1>2, <1>a, <2>3
      <4> QED BY <1>2, <2>3, <4>1 DEF First
    <3>2. p <= On[r][1] /\ (On[r][1] < end[1] \/ On[r][1] = end[1])
      BY <2>1, <2>r, <3>1 DEF NotAfter
    <3>3. FALSE
      BY <2>r, <3>1, <3>2
    <3> QED BY <3>3
  <2> QED BY <2>2, <2>3
<1>5. ASSUME view # "anual"
      PROVE  Window(C \cap P \cap Expense, before, asof) \subseteq current \cup previous
  <2> SUFFICES ASSUME NEW r \in Window(C \cap P \cap Expense, before, asof)
               PROVE  r \in current \cup previous
    OBVIOUS
  <2>1. /\ r \in C /\ r \in P /\ r \in Expense /\ r \in Row
        /\ NotAfter(before, On[r]) /\ NotAfter(On[r], asof)
    BY <1>s DEF Window
  <2>2. start = end /\ start = <<p, 1>>
    BY <1>2, <1>5 DEF First
  <2>r. On[r] = <<On[r][1], On[r][2]>> /\ On[r][1] \in Nat /\ On[r][2] \in 1 .. 31
    BY <1>b, <2>1
  <2>3. NotAfter(start, On[r]) \/ NotAfter(On[r], start)
    BY <2>2, <2>r DEF NotAfter
  <2> QED BY <1>3, <2>1, <2>2, <2>3
<1>6. ASSUME view = "anual", SafeDay
      PROVE  previous = {r \in P \cap Expense :
                           /\ NotAfter(before, On[r])
                           /\ NotAfter(<<On[r][1] + 12, On[r][2]>>, asof)}
  <2>1. end = <<asof[1] - 12, asof[2]>>
    BY <1>2, <1>6
  <2>2. ASSUME NEW r \in P
        PROVE  NotAfter(On[r], end) <=> NotAfter(<<On[r][1] + 12, On[r][2]>>, asof)
    <3>1. On[r][1] \in Nat /\ On[r][2] \in 1 .. 31
      BY <1>b, <1>s
    <3> QED BY <1>a, <2>1, <3>1 DEF NotAfter
  <2> QED BY <1>3, <2>2
<1> QED BY <1>4, <1>5, <1>6 DEF ColumnsMeet, C, P, start, before, end, current, previous

\* There are finitely many rows, each worth an integer.
LEMMA RowsAreFinite ==
  IsFiniteSet(Row) /\ \A r \in Row : Worth[r] \in Int
BY RowAssumption

\* Totals over rows that differ only in what moved are near.
LEMMA CloseTotals ==
  ASSUME ReportInvariant,
         NEW A, NEW B, A \subseteq Row, B \subseteq Row, A \ B \subseteq moved, B \ A \subseteq moved
  PROVE  Near(Total(A), Total(B)) /\ Total(A) \in Int /\ Total(B) \in Int
<1> DEFINE size == [r \in Row |-> IF Worth[r] < 0 THEN -Worth[r] ELSE Worth[r]]
<1>1. moved \subseteq Row /\ IsFiniteSet(Row) /\ \A r \in Row : Worth[r] \in Int
  <2>1. moved \subseteq Row
    BY DEF ReportInvariant, TypeOK
  <2> QED BY <2>1, RowsAreFinite
<1>2. IsFiniteSet(A) /\ IsFiniteSet(B) /\ IsFiniteSet(moved)
  BY <1>1, FS_Subset
<1>3. \A y \in Row : /\ Worth[y] \in Int /\ size[y] \in Nat
                     /\ Worth[y] <= size[y] /\ -Worth[y] <= size[y]
  BY <1>1
<1>e. Magnitude(moved) = SumFunctionOnSet(size, moved)
  BY DEF Magnitude
<1> HIDE DEF size
<1>4. \A y \in A \cup B \cup moved : /\ Worth[y] \in Int /\ size[y] \in Nat
                     /\ Worth[y] <= size[y] /\ -Worth[y] <= size[y]
  BY <1>1, <1>3
<1>5. \A y \in B \cup A \cup moved : /\ Worth[y] \in Int /\ size[y] \in Nat
                     /\ Worth[y] <= size[y] /\ -Worth[y] <= size[y]
  BY <1>1, <1>3
<1>6. /\ SumFunctionOnSet(Worth, A) - SumFunctionOnSet(Worth, B) <= SumFunctionOnSet(size, moved)
      /\ SumFunctionOnSet(Worth, A) \in Int /\ SumFunctionOnSet(Worth, B) \in Int
  BY <1>2, <1>4, SumDiffers
<1>7. SumFunctionOnSet(Worth, B) - SumFunctionOnSet(Worth, A) <= SumFunctionOnSet(size, moved)
  BY <1>2, <1>5, SumDiffers
<1>8. Total(A) = SumFunctionOnSet(Worth, A) /\ Total(B) = SumFunctionOnSet(Worth, B)
  BY DEF Total
<1> QED BY <1>e, <1>6, <1>7, <1>8 DEF Near

\* A period starts with a month that was fetched.
LEMMA PeriodIsFetched ==
  ASSUME DateFacts, view \in Report \cup {"dashboard"}
  PROVE  \E p \in Int, start \in Int :
           /\ PeriodStart(view) = First(p) /\ p <= asof[1]
           /\ FetchFrom(view) = First(start) /\ start <= p
<1>v. Month = asof[1] /\ asof[1] \in Int
  BY DEF DateFacts
<1>1. CASE view = "dashboard"
  <2>1. PeriodStart(view) = First(asof[1]) /\ FetchFrom(view) = First(asof[1] - 5)
    BY <1>1, <1>v DEF PeriodStart, FetchFrom, Report
  <2>2. asof[1] - 5 \in Int /\ asof[1] - 5 <= asof[1] /\ asof[1] <= asof[1]
    BY <1>v
  <2> QED BY <1>v, <2>1, <2>2
<1>2. CASE view \in Report
  <2>1. FetchFrom(view) = First(asof[1] - 24)
    BY <1>2, <1>v DEF FetchFrom, Report
  <2>2. PICK p \in Int : PeriodStart(view) = First(p) /\ p <= asof[1] /\ asof[1] - 11 <= p
    BY <1>2, ColumnDates
  <2>3. asof[1] - 24 \in Int /\ asof[1] - 24 <= p
    BY <1>v, <2>2
  <2> QED BY <2>1, <2>2, <2>3
<1> QED BY <1>1, <1>2

\* The months of a period partition what is dated in it.
LEMMA MonthsMakePeriod ==
  ASSUME DateFacts, Read("monthly").rows \subseteq Row,
         NEW p \in Int, NEW start \in Int, p <= asof[1], start <= p,
         PeriodStart(view) = First(p), FetchFrom(view) = First(start)
  PROVE  SumFunction([m \in PeriodMonths(view) |-> MonthTotal(m, TRUE)])
           = Total(Flow(Window(Read("monthly").rows, First(p), asof), TRUE))
<1> DEFINE rows == Read("monthly").rows
           S == Flow(Window(rows, First(p), asof), TRUE)
           K == p .. asof[1]
           part == [r \in Row |-> On[r][1]]
           sums == [m \in K |-> SumFunctionOnSet(Worth, {y \in S : part[y] = m})]
           totals == [m \in PeriodMonths(view) |-> MonthTotal(m, TRUE)]
<1>a. /\ asof = <<asof[1], asof[2]>> /\ asof[1] \in Int /\ asof[2] \in 1 .. 31 /\ Month = asof[1]
      /\ \A r \in Row : On[r] = <<On[r][1], On[r][2]>> /\ On[r][1] \in Nat /\ On[r][2] \in 1 .. 31
  BY DEF DateFacts
<1>1. PeriodMonths(view) = K
  BY <1>a DEF PeriodMonths, First
<1>2. IsFiniteSet(S) /\ IsFiniteSet(K) /\ S \subseteq Row /\ \A y \in S : Worth[y] \in Int
  <2>1. S \subseteq Row
    BY DEF Flow, Window
  <2>2. IsFiniteSet(S) /\ \A y \in S : Worth[y] \in Int
    <3> HIDE DEF S
    <3> QED BY <2>1, FS_Subset, RowsAreFinite
  <2>3. IsFiniteSet(K)
    BY <1>a, FS_Interval
  <2> QED BY <2>1, <2>2, <2>3
<1>3. \A y \in S : part[y] \in K
  <2> SUFFICES ASSUME NEW y \in S PROVE part[y] \in K
    OBVIOUS
  <2>1. NotAfter(First(p), On[y]) /\ NotAfter(On[y], asof) /\ y \in Row
    BY DEF Flow, Window
  <2>2. p <= On[y][1] /\ On[y][1] <= asof[1]
    BY <1>a, <2>1 DEF NotAfter, First
  <2> QED BY <1>a, <2>1, <2>2
<1>4. ASSUME NEW m \in K
      PROVE  MonthTotal(m, TRUE) = SumFunctionOnSet(Worth, {y \in S : part[y] = m})
  <2>1. m \in Int /\ p <= m /\ start <= m
    BY <1>a
  <2>2. MonthTotal(m, TRUE)
          = Total(Flow(InMonth(Window(rows, First(p), asof), m), TRUE))
    <3>1. InMonth(Window(rows, First(p), asof), m)
            = InMonth({r \in rows : NotAfter(On[r], asof)}, m)
      BY <2>1, WholeMonth
    <3>2. MonthTotal(m, TRUE)
            = Total(Flow(InMonth({r \in rows : NotAfter(On[r], asof)}, m), TRUE))
      BY <2>1, MonthTotalIsWhole
    <3> QED BY <3>1, <3>2, Zenon
  <2>3. Flow(InMonth(Window(rows, First(p), asof), m), TRUE) = {y \in S : part[y] = m}
    BY DEF Flow, InMonth, Window
  <2>4. Total({y \in S : part[y] = m}) = SumFunctionOnSet(Worth, {y \in S : part[y] = m})
    BY DEF Total
  <2> HIDE DEF S, part, K, rows
  <2> QED BY <2>2, <2>3, <2>4, Zenon
<1>5. totals = sums /\ DOMAIN sums = K
  BY <1>1, <1>4
<1> HIDE DEF S, part, K
<1>6. SumFunctionOnSet(sums, K) = SumFunctionOnSet(Worth, S)
  BY <1>2, <1>3, SumByParts
<1> HIDE DEF sums, totals
<1>7. SumFunction(totals) = SumFunctionOnSet(sums, K)
  <2>1. SumFunction(totals) = SumFunction(sums)
    BY <1>5, Zenon
  <2>2. SumFunction(sums) = SumFunctionOnSet(sums, DOMAIN sums)
    BY Zenon DEF SumFunction
  <2> QED BY <1>5, <2>1, <2>2, Zenon
<1>8. Total(S) = SumFunctionOnSet(Worth, S)
  BY DEF Total
<1>9. SumFunction(totals) = Total(S)
  BY <1>6, <1>7, <1>8, Zenon
<1> QED BY <1>9 DEF totals, S, rows

\* The categories and the months, the days and the month, are over the same dates.
LEMMA InvariantAddsUpParts ==
  ASSUME ReportInvariant PROVE PartsAddUp
<1>1. ASSUME Answered(Report \cup {"dashboard"})
      PROVE  Near(Total(Categories("categories", PeriodStart(view), asof)),
                    SumFunction([m \in PeriodMonths(view) |-> MonthTotal(m, TRUE)]))
  <2>0. at = "answered" /\ view \in Report \cup {"dashboard"} /\ DateFacts
    BY <1>1, DatesHold DEF Answered
  <2>1. /\ Read("monthly") = got[1] /\ Read("categories") = got[2]
        /\ got[1].rows \subseteq Row /\ got[2].rows \subseteq Row
        /\ got[1].rows \ got[2].rows \subseteq moved /\ got[2].rows \ got[1].rows \subseteq moved
    <3>1. DOMAIN got = 1 .. 3 /\ Read("monthly") = got[1] /\ Read("categories") = got[2]
      BY <2>0, ReadByName, Zenon
    <3>2. 1 \in DOMAIN got /\ 2 \in DOMAIN got
      BY <3>1
    <3> QED BY <2>0, <3>1, <3>2, ReadByName, Zenon
  <2>2. PICK p \in Int, start \in Int :
          /\ PeriodStart(view) = First(p) /\ p <= asof[1]
          /\ FetchFrom(view) = First(start) /\ start <= p
    BY <2>0, PeriodIsFetched
  <2> DEFINE A == Flow(Window(got[2].rows, First(p), asof), TRUE)
             B == Flow(Window(got[1].rows, First(p), asof), TRUE)
  <2>3. A \subseteq Row /\ B \subseteq Row /\ A \ B \subseteq moved /\ B \ A \subseteq moved
    BY <2>1 DEF Flow, Window
  <2>4. Categories("categories", PeriodStart(view), asof) = A
    BY <2>1, <2>2, Zenon DEF Categories
  <2>5. SumFunction([m \in PeriodMonths(view) |-> MonthTotal(m, TRUE)]) = Total(B)
    <3>1. Read("monthly").rows \subseteq Row
      BY <2>1
    <3>2. SumFunction([m \in PeriodMonths(view) |-> MonthTotal(m, TRUE)])
           = Total(Flow(Window(Read("monthly").rows, First(p), asof), TRUE))
      BY <2>0, <2>2, <3>1, MonthsMakePeriod
    <3> QED BY <2>1, <3>2, Zenon
  <2> HIDE DEF A, B
  <2>6. Near(Total(A), Total(B))
    BY <2>3, CloseTotals
  <2> QED BY <2>4, <2>5, <2>6, Zenon
<1>2. ASSUME Answered({"cashflow"}), asof[2] <= 7, NEW outward \in BOOLEAN
      PROVE  Near(Total(InMonth(Daily(outward), Month)), MonthTotal(Month, outward))
  <2>0. at = "answered" /\ view = "cashflow" /\ DateFacts
    BY <1>2, DatesHold DEF Answered
  <2>a. /\ asof = <<asof[1], asof[2]>> /\ asof[1] \in Int /\ asof[2] \in 1 .. 31 /\ Month = asof[1]
        /\ \A r \in Row : On[r] = <<On[r][1], On[r][2]>> /\ On[r][1] \in Nat /\ On[r][2] \in 1 .. 31
    BY <2>0 DEF DateFacts
  <2>1. /\ Read("monthly") = got[1] /\ Read("daily") = got[2]
        /\ got[1].rows \subseteq Row /\ got[2].rows \subseteq Row
        /\ got[1].rows \ got[2].rows \subseteq moved /\ got[2].rows \ got[1].rows \subseteq moved
    <3>1. DOMAIN got = 1 .. 2 /\ Read("monthly") = got[1] /\ Read("daily") = got[2]
      BY <2>0, ReadByName, Zenon
    <3>2. 1 \in DOMAIN got /\ 2 \in DOMAIN got
      BY <3>1
    <3> QED BY <2>0, <3>1, <3>2, ReadByName, Zenon
  <2> DEFINE A == InMonth(Daily(outward), Month)
             B == Flow(InMonth({r \in got[1].rows : NotAfter(On[r], asof)}, Month), outward)
  <2>2. \A r \in Row : On[r][1] = asof[1] => NotAfter(SixDaysBefore(asof), On[r])
    <3> SUFFICES ASSUME NEW r \in Row, On[r][1] = asof[1]
                 PROVE  NotAfter(SixDaysBefore(asof), On[r])
      OBVIOUS
    <3>1. CASE asof[2] > 6
      <4>1. SixDaysBefore(asof) = <<asof[1], 1>>
        BY <1>2, <2>a, <3>1 DEF SixDaysBefore
      <4> QED BY <2>a, <4>1 DEF NotAfter
    <3>2. CASE ~(asof[2] > 6)
      <4>1. SixDaysBefore(asof)[1] = asof[1] - 1
        BY <3>2 DEF SixDaysBefore
      <4> QED BY <2>a, <4>1 DEF NotAfter
    <3> QED BY <3>1, <3>2
  <2>3. A \subseteq Row /\ B \subseteq Row /\ A \ B \subseteq moved /\ B \ A \subseteq moved
    BY <2>1, <2>2, <2>a DEF Flow, Window, Daily, InMonth
  <2>4. MonthTotal(Month, outward) = Total(B)
    <3>1. FetchFrom(view) = First(asof[1] - 1) /\ asof[1] - 1 \in Int /\ asof[1] - 1 <= asof[1]
      BY <2>0, <2>a DEF FetchFrom, Report
    <3>2. Read("monthly").rows \subseteq Row
      BY <2>1
    <3>3. MonthTotal(asof[1], outward)
           = Total(Flow(InMonth({r \in Read("monthly").rows : NotAfter(On[r], asof)}, asof[1]), outward))
      BY <2>0, <2>a, <3>1, <3>2, MonthTotalIsWhole
    <3> QED BY <2>1, <2>a, <3>3, Zenon
  <2> HIDE DEF A, B
  <2>6. Near(Total(A), Total(B))
    BY <2>3, CloseTotals
  <2> QED BY <2>4, <2>6, Zenon DEF A
<1> QED BY <1>1, <1>2, Zenon DEF PartsAddUp

\* The weeks are the month up to the date, and the movements later in it.
LEMMA InvariantCountsAhead ==
  ASSUME ReportInvariant PROVE WeeksCountAhead
<1> SUFFICES ASSUME Answered({"dashboard"}), Read("weekly").day = asof, NEW outward \in BOOLEAN
             PROVE  Near(Total(Weekly(outward)) - MonthTotal(Month, outward),
                           Total(Flow({r \in InMonth(Read("weekly").rows \cap Movement, Month) :
                                             ~NotAfter(On[r], asof)}, outward)))
  BY Zenon DEF WeeksCountAhead
<1>0. at = "answered" /\ view = "dashboard" /\ DateFacts
  BY DatesHold DEF Answered
<1>a. asof[1] \in Int /\ Month = asof[1]
  BY <1>0 DEF DateFacts
<1>1. /\ Read("monthly") = got[1] /\ Read("weekly") = got[3]
      /\ got[1].rows \subseteq Row /\ got[3].rows \subseteq Row
      /\ got[1].rows \ got[3].rows \subseteq moved /\ got[3].rows \ got[1].rows \subseteq moved
  <2>1. DOMAIN got = 1 .. 3 /\ Read("monthly") = got[1] /\ Read("weekly") = got[3]
    BY <1>0, ReadByName, Zenon
  <2>2. 1 \in DOMAIN got /\ 3 \in DOMAIN got
    BY <2>1
  <2> QED BY <1>0, <2>1, <2>2, ReadByName, Zenon
<1> DEFINE later == Flow({r \in InMonth(got[3].rows \cap Movement, Month) :
                              ~NotAfter(On[r], asof)}, outward)
           sofar == Flow(InMonth({r \in got[3].rows : NotAfter(On[r], asof)}, Month), outward)
           month == Flow(InMonth({r \in got[1].rows : NotAfter(On[r], asof)}, Month), outward)
<1>2. /\ Weekly(outward) = later \cup sofar /\ later \cap sofar = {}
      /\ later \subseteq Row /\ sofar \subseteq Row /\ month \subseteq Row
      /\ sofar \ month \subseteq moved /\ month \ sofar \subseteq moved
  <2>1. Read("weekly").rows = got[3].rows
    BY <1>1
  <2> QED BY <1>1, <2>1 DEF Weekly, Flow, InMonth
<1>3. MonthTotal(Month, outward) = Total(month)
  <2>1. FetchFrom(view) = First(asof[1] - 5) /\ asof[1] - 5 \in Int /\ asof[1] - 5 <= asof[1]
    BY <1>0, <1>a DEF FetchFrom, Report
  <2>2. Read("monthly").rows \subseteq Row
    BY <1>1
  <2>3. MonthTotal(asof[1], outward)
         = Total(Flow(InMonth({r \in Read("monthly").rows : NotAfter(On[r], asof)}, asof[1]), outward))
    BY <1>0, <1>a, <2>1, <2>2, MonthTotalIsWhole
  <2> QED BY <1>1, <1>a, <2>3, Zenon
<1>n. later = Flow({r \in InMonth(Read("weekly").rows \cap Movement, Month) :
                        ~NotAfter(On[r], asof)}, outward)
  BY <1>1, Zenon
<1> HIDE DEF later, sofar, month
<1>4. Total(later \cup sofar) = Total(later) + Total(sofar) /\ Total(later) \in Int
  <2>1. IsFiniteSet(later) /\ IsFiniteSet(sofar)
    BY <1>2, RowsAreFinite, FS_Subset
  <2>2. (\A y \in later \cup sofar : Worth[y] \in Int) /\ (\A y \in later : Worth[y] \in Int)
    BY <1>2, RowsAreFinite
  <2>3. SumFunctionOnSet(Worth, later \cup sofar)
          = SumFunctionOnSet(Worth, later) + SumFunctionOnSet(Worth, sofar)
    BY <1>2, <2>1, <2>2, SumUnion
  <2>4. SumFunctionOnSet(Worth, later) \in Int
    BY <2>1, <2>2, SumInt
  <2> QED BY <2>3, <2>4, Zenon DEF Total
<1>5. /\ Near(Total(sofar), Total(month))
      /\ Total(sofar) \in Int /\ Total(month) \in Int
  BY <1>2, CloseTotals
<1>6. Total(Weekly(outward)) = Total(later) + Total(sofar)
  BY <1>2, <1>4, Zenon
<1>7. (Total(Weekly(outward)) - Total(month)) - Total(later) = Total(sofar) - Total(month)
      /\ Total(later) - (Total(Weekly(outward)) - Total(month)) = Total(month) - Total(sofar)
  BY <1>4, <1>5, <1>6
<1>8. Near(Total(Weekly(outward)) - Total(month), Total(later))
  BY <1>5, <1>7, Zenon DEF Near
<1> QED BY <1>3, <1>8, <1>n, Zenon

\* TypeOK of Reports, whatever the rows, amounts of either sign and dates.
THEOREM ReportTypesHold == Spec => []TypeOK
<1>1. ReportInvariant => TypeOK
  BY DEF ReportInvariant
<1> QED BY <1>1, ReportInvariantHolds, PTL

\* MonthsAreWhole (GetSummary of dashboard.go, reports.go and cashflow.go).
THEOREM MonthsAreWholeHolds == Spec => []MonthsAreWhole
BY ReportInvariantHolds, InvariantGivesWholeMonths, PTL

\* PartsAddUp, whichever rows are written while a view reads.
THEOREM PartsAddUpHolds == Spec => []PartsAddUp
BY ReportInvariantHolds, InvariantAddsUpParts, PTL

\* WeeksCountAhead (GetWeeklyTotals against GetMonthlyTotals).
THEOREM WeeksCountAheadHolds == Spec => []WeeksCountAhead
BY ReportInvariantHolds, InvariantCountsAhead, PTL

\* ColumnsMeet (the two periods that reports.go compares).
THEOREM ColumnsMeetHolds == Spec => []ColumnsMeet
BY ReportInvariantHolds, InvariantGivesMeetingColumns, PTL
=============================================================================
