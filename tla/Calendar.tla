------------------------------ MODULE Calendar ------------------------------
(***************************************************************************)
(* On which days the unpaid balance of a document is expected: what        *)
(* pendingOn (src/internal/handler/duedates.go) and PendingInstallments    *)
(* (src/internal/domain/models.go) compute, stated without their loop.     *)
(*                                                                         *)
(* Lay the installments of a document end to end.  What was paid covers    *)
(* the beginning; what is owed is the stretch of length balance after it.  *)
(* An installment owes the part of it that lies in the stretch, and what   *)
(* of the stretch lies beyond the last one is owed on the due date.        *)
(* Amounts are whole cents.                                                *)
(***************************************************************************)
EXTENDS Integers, Sequences, Functions

CONSTANTS
  Day,   \* the days money may be expected on
  NoDay  \* a date that is not set

ASSUME DayAssumption == NoDay \notin Day

Larger(a, b)  == IF a > b THEN a ELSE b
Smaller(a, b) == IF a < b THEN a ELSE b

\* A document: total, balance, schedule (a sequence of installments with a day
\* and a value), its due day, and the day agreed for it, if any.
PaidOf(d) == Larger(0, d.total - d.balance)
EndOf(d)  == PaidOf(d) + d.balance

\* What of the stretch that is owed lies between a and b.
Overlap(d, a, b) == Larger(0, Smaller(b, EndOf(d)) - Larger(a, PaidOf(d)))

DayOf(d, k)     == IF d.schedule[k].day = NoDay THEN d.due ELSE d.schedule[k].day
Before(d, k)    == SumFunctionOnSet([i \in DOMAIN d.schedule |-> d.schedule[i].value], 1 .. k - 1)
Share(d, k)     == Overlap(d, Before(d, k), Before(d, k + 1))
Scheduled(d, K) == SumFunctionOnSet([k \in DOMAIN d.schedule |-> Share(d, k)], K)
Residual(d)     == d.balance - Scheduled(d, DOMAIN d.schedule)

\* What is expected of a document on a day.
ExpectedOn(d, day) ==
  IF d.balance <= 0 THEN 0
  ELSE IF d.agreed # NoDay THEN IF day = d.agreed THEN d.balance ELSE 0
  ELSE Scheduled(d, {k \in DOMAIN d.schedule : DayOf(d, k) = day})
       + (IF day = d.due THEN Residual(d) ELSE 0)

=============================================================================
