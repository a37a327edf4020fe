----------------------------- MODULE MCReports -----------------------------
(* Reports on a small instance: March 2026, asked for in its first week, in    *)
(* its middle and on its last day.                                             *)
EXTENDS Reports

CONSTANTS newyear, october, ahead, invoice, purchase, february, lastyear

Rows      == {newyear, october, ahead, invoice, purchase, february, lastyear}
Movements == Rows \ {october, invoice, purchase}
Expenses  == Rows \ {invoice, february}

\* The date in year 2026, or in one before it.
Date(m, d, back) == <<12 * (2026 - back) + m - 1, d>>
Dates == [r \in Rows |->
  CASE r = newyear  -> Date(1, 1, 0)   \* first day of the quarter and the year
    [] r = october  -> Date(10, 1, 1)  \* first day of the six months
    [] r = ahead    -> Date(3, 20, 0)
    [] r = invoice  -> Date(3, 20, 0)
    [] r = purchase -> Date(3, 1, 0)   \* first day of the month
    [] r = february -> Date(2, 27, 0)
    [] r = lastyear -> Date(3, 10, 1)]
Worths == [r \in Rows |->
  CASE r = newyear -> -1 [] r = october -> 2 [] r = ahead -> 4 [] r = invoice -> 8
    [] r = purchase -> 16 [] r = february -> 32 [] r = lastyear -> 64]
Asked == {Date(3, 7, 0), Date(3, 15, 0), Date(3, 31, 0)}
=============================================================================
