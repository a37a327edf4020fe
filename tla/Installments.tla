---------------------------- MODULE Installments ----------------------------
(***************************************************************************)
(* pendingOn (src/internal/handler/duedates.go) and the loop of            *)
(* domain.PendingInstallments (src/internal/domain/models.go), one         *)
(* iteration per step.  Cash flow, projections and their alerts all spread *)
(* the money of a document by it.  Calendar states what it must compute.   *)
(* What specifications usually call Init, Next and Spec is named after the *)
(* loop, so that Reports or Projections can be extended beside it.         *)
(* Definitions commented "Variant" are bugs the next definition could have *)
(* had; they are not part of the specification.                            *)
(***************************************************************************)
EXTENDS Calendar

CONSTANTS
  Amount,    \* totals and values of installments, in cents
  Balance,   \* balances Siigo may report
  MaxLength  \* bound: installments of a document

ASSUME AmountAssumption == Amount \subseteq Nat /\ Balance \subseteq Int
ASSUME LengthAssumption == MaxLength \in Nat

Installment == [day : Day \cup {NoDay}, value : Amount]
Schedule    == UNION {[1 .. n -> Installment] : n \in 0 .. MaxLength}
Document    == [total : Amount, balance : Balance, schedule : Schedule,
                due : Day, agreed : Day \cup {NoDay}]
Payment     == [day : Day, value : Int]

VARIABLES
  doc,        \* the document asked about
  stage,      \* "start", "loop" or "done"
  k,          \* the installment looked at next
  paid,       \* what is left of the paid amount
  remaining,  \* what is left of the balance
  out,        \* the result
  seen,       \* history: what the installments looked at add up to
  placed      \* history: what the result adds up to

loopVars == <<doc, stage, k, paid, remaining, out, seen, placed>>

LoopTypeOK ==
  /\ doc \in Document
  /\ stage \in {"start", "loop", "done"}
  /\ k \in 1 .. Len(doc.schedule) + 1
  /\ paid \in Nat /\ remaining \in Nat /\ seen \in Nat
  /\ out \in Seq([day : Day, value : Nat]) /\ placed \in Nat

LoopInit ==
  /\ doc \in Document
  /\ stage = "start" /\ k = 1 /\ paid = 0 /\ remaining = 0
  /\ out = <<>> /\ seen = 0 /\ placed = 0

-----------------------------------------------------------------------------
Pay(day, value) ==
  /\ out' = Append(out, [day |-> day, value |-> value])
  /\ placed' = placed + value

\* Nothing is owed.
Settled ==
  /\ stage = "start" /\ doc.balance <= 0
  /\ stage' = "done"
  /\ UNCHANGED <<doc, k, paid, remaining, out, seen, placed>>

\* pendingOn: an agreed date replaces the schedule.
Agreed ==
  /\ stage = "start" /\ doc.balance > 0 /\ doc.agreed # NoDay
  /\ Pay(doc.agreed, doc.balance)
  /\ stage' = "done"
  /\ UNCHANGED <<doc, k, paid, remaining, seen>>

\* No schedule: a lump sum on the due date.
LumpSum ==
  /\ stage = "start" /\ doc.balance > 0 /\ doc.agreed = NoDay
  /\ doc.schedule = <<>>
  /\ Pay(doc.due, doc.balance)
  /\ stage' = "done"
  /\ UNCHANGED <<doc, k, paid, remaining, seen>>

Begin ==
  /\ stage = "start" /\ doc.balance > 0 /\ doc.agreed = NoDay
  /\ doc.schedule # <<>>
  /\ stage' = "loop"
  /\ paid' = PaidOf(doc) /\ remaining' = doc.balance
  /\ UNCHANGED <<doc, k, out, seen, placed>>

Value   == doc.schedule[k].value
Looking == stage = "loop" /\ k <= Len(doc.schedule) /\ remaining > 0
Look    == k' = k + 1 /\ seen' = seen + Value
Covered == paid > 0 /\ paid >= Value

\* The paid amount covers this installment.
Skip ==
  /\ Looking /\ Covered
  /\ Look
  /\ paid' = paid - Value
  /\ UNCHANGED <<doc, stage, remaining, out, placed>>

\* Variant: what was paid of this installment is taken off the next one too.
PlaceKeepingPaid ==
  LET unpaid == Smaller(Value - paid, remaining) IN
  /\ Looking /\ ~Covered
  /\ Look
  /\ Pay(DayOf(doc, k), unpaid)
  /\ remaining' = remaining - unpaid
  /\ UNCHANGED <<doc, stage, paid>>

\* It covers a part of it at most; the rest is owed on the installment's day.
Place ==
  LET unpaid == Smaller(Value - paid, remaining) IN
  /\ Looking /\ ~Covered
  /\ Look
  /\ Pay(DayOf(doc, k), unpaid)
  /\ remaining' = remaining - unpaid
  /\ paid' = 0
  /\ UNCHANGED <<doc, stage>>

\* Variant: the loop is all there is.
LeaveIt ==
  /\ stage = "loop" /\ ~Looking
  /\ stage' = "done"
  /\ UNCHANGED <<doc, k, paid, remaining, out, seen, placed>>

\* Variant: what the schedule does not reach is added on its last day.
LeaveOnLastDay ==
  /\ stage = "loop" /\ ~Looking
  /\ stage' = "done"
  /\ IF remaining > 0 THEN Pay(DayOf(doc, Len(doc.schedule)), remaining)
                      ELSE UNCHANGED <<out, placed>>
  /\ UNCHANGED <<doc, k, paid, remaining, seen>>

\* What the schedule does not reach is owed on the due date.
Leave ==
  /\ stage = "loop" /\ ~Looking
  /\ stage' = "done"
  /\ \/ remaining > 0 /\ Pay(doc.due, remaining)
     \/ remaining = 0 /\ UNCHANGED <<out, placed>>
  /\ UNCHANGED <<doc, k, paid, remaining, seen>>

-----------------------------------------------------------------------------
\* EffectiveDueDate, as the query computes it: COALESCE of the agreed date, the
\* due date and the date of the document (one of the last two is "due" here).
EffectiveDay(d) == IF d.agreed # NoDay THEN d.agreed ELSE d.due

\* Variant: a document is placed by its effective day alone.
ListedByDay(d, window) == EffectiveDay(d) \in window
\* GetPeriodData lists an open document for the days of a window.
Listed(d, window) ==
  \/ EffectiveDay(d) \in window
  \/ d.agreed = NoDay /\ \E n \in DOMAIN d.schedule : d.schedule[n].day \in window

LoopNext == Settled \/ Agreed \/ LumpSum \/ Begin \/ Skip \/ Place \/ Leave

LoopSpec == LoopInit /\ [][LoopNext]_loopVars

-----------------------------------------------------------------------------
(* Properties *)

\* What is placed on days is exactly what is owed, whatever the schedule adds
\* up to and whatever was paid: projections and cash flow neither lose money of
\* a document nor invent it (PendingInstallments, pendingOn).
OwedIsPlaced == stage = "done" => placed = Larger(0, doc.balance)

\* Payments settle the earliest installments: each one is charged with the part
\* of it that lies after what was paid and before what is owed ends.
PaidSettlesEarliest ==
  [][k' = k + 1 => placed' - placed = Overlap(doc, seen, seen')]_loopVars

\* The cash flow of a period is made of the documents its query lists: whatever
\* is expected on a day of the period belongs to a listed document, though the
\* query chooses rows by their columns and the payments are placed afterwards.
PeriodHoldsPayments ==
  stage = "done" =>
    \A window \in SUBSET Day :
      (\E i \in DOMAIN out : out[i].day \in window) => Listed(doc, window)

\* The loop computes what Calendar says, day by day.
MatchesCalendar ==
  stage = "done" =>
    \A day \in Day :
      ExpectedOn(doc, day) =
        SumFunctionOnSet([i \in DOMAIN out |-> out[i].value],
                         {i \in DOMAIN out : out[i].day = day})

-----------------------------------------------------------------------------
(* The inductive invariant *)

\* What of the stretch that is owed has been passed.
LoopInvariant ==
  /\ stage = "start" => placed = 0 /\ seen = 0 /\ out = <<>>
  /\ stage = "loop" =>
       /\ doc.balance > 0
       /\ paid = Larger(0, PaidOf(doc) - seen)
       /\ placed = Overlap(doc, 0, seen)
       /\ remaining = doc.balance - placed

=============================================================================
