-------------------------- MODULE ProjectionsProofs --------------------------
(***************************************************************************)
(* Theorems about Projections, for any documents, plans, rows, days and    *)
(* horizons, and amounts of rows of either sign.                           *)
(*                                                                         *)
(* The argument: both views compute the balance plus what documents and    *)
(* rows add by the horizon; at every stage that sum over what a view has   *)
(* read is as far from the same sum over the tables as was written since.  *)
(***************************************************************************)
EXTENDS InstallmentsProofs, Projections

USE DEF Larger, Smaller

-----------------------------------------------------------------------------
(* What is expected of a document in all *)

\* The installments up to the n-th owe what of the stretch they cover.
LEMMA SharesTelescope ==
  ASSUME NEW p, WellFormed(p), p.balance \in Nat
  PROVE  \A n \in 0 .. Len(p.schedule) :
           Scheduled(p, 1 .. n) = Overlap(p, 0, Before(p, n + 1))
<1> DEFINE N == Len(p.schedule)
           G == {n \in Nat : n <= N => Scheduled(p, 1 .. n) = Overlap(p, 0, Before(p, n + 1))}
<1>0. N \in Nat /\ p.total \in Int /\ 1 \in 1 .. N + 1 /\ PaidOf(p) \in Nat
      /\ EndOf(p) = PaidOf(p) + p.balance
  BY ScheduleFields DEF WellFormed, PaidOf, EndOf
<1>1. 0 \in G
  <2>1. 1 .. 0 = {} /\ 0 + 1 = 1
    OBVIOUS
  <2>2. Scheduled(p, {}) = 0
    BY SumEmpty DEF Scheduled
  <2>3. Before(p, 1) = 0
    BY <1>0, BeforeGrows
  <2>4. Overlap(p, 0, 0) = 0
    BY <1>0 DEF Overlap
  <2>5. Scheduled(p, 1 .. 0) = 0 /\ Before(p, 0 + 1) = 0
    BY <2>1, <2>2, <2>3
  <2> QED BY <2>4, <2>5
<1>2. ASSUME NEW n \in Nat, n \in G PROVE n + 1 \in G
  <2> SUFFICES ASSUME n + 1 <= N
               PROVE  Scheduled(p, 1 .. n + 1) = Overlap(p, 0, Before(p, n + 2))
    OBVIOUS
  <2>1. /\ n + 1 \in 1 .. N /\ n + 1 \in 1 .. N + 1 /\ n + 1 \in Nat
        /\ 1 .. n \in SUBSET (1 .. N) /\ n + 1 \notin 1 .. n
        /\ 1 .. n + 1 = (1 .. n) \cup {n + 1}
        /\ (n + 1) + 1 = n + 2
    BY <1>0
  <2>2. Scheduled(p, (1 .. n) \cup {n + 1}) = Scheduled(p, 1 .. n) + Share(p, n + 1)
    BY <2>1, ScheduledStep
  <2>3. Scheduled(p, 1 .. n) = Overlap(p, 0, Before(p, n + 1))
    BY <1>0, <1>2
  <2>4. /\ Before(p, n + 1) \in Nat /\ p.schedule[n + 1].value \in Nat
        /\ Before(p, n + 2) = Before(p, n + 1) + p.schedule[n + 1].value
    <3>1. /\ Before(p, n + 1) \in Nat
          /\ n + 1 <= N => Before(p, (n + 1) + 1) = Before(p, n + 1) + p.schedule[n + 1].value
      BY <2>1, BeforeGrows
    <3>2. p.schedule[n + 1].value \in Nat
      BY <2>1, ScheduleFields
    <3> QED BY <2>1, <3>1, <3>2
  <2>5. Share(p, n + 1) = Overlap(p, Before(p, n + 1), Before(p, n + 2))
    BY <2>1 DEF Share
  <2>6. \A a, v \in Nat : Overlap(p, 0, a + v) = Overlap(p, 0, a) + Overlap(p, a, a + v)
    BY <1>0 DEF Overlap
  <2>7. Overlap(p, 0, Before(p, n + 2))
          = Overlap(p, 0, Before(p, n + 1)) + Overlap(p, Before(p, n + 1), Before(p, n + 2))
    <3> DEFINE a == Before(p, n + 1)
               v == p.schedule[n + 1].value
    <3>1. a \in Nat /\ v \in Nat /\ Before(p, n + 2) = a + v
      BY <2>4, Zenon
    <3> HIDE DEF a, v
    <3>2. Overlap(p, 0, a + v) = Overlap(p, 0, a) + Overlap(p, a, a + v)
      BY <2>6, <3>1
    <3>3. Overlap(p, 0, Before(p, n + 2)) = Overlap(p, 0, a) + Overlap(p, a, Before(p, n + 2))
      BY <3>1, <3>2, Zenon
    <3> QED BY <3>3, Zenon DEF a
  <2> QED BY <2>1, <2>2, <2>3, <2>5, <2>7, Zenon
<1>3. Nat \subseteq G
  <2> HIDE DEF G
  <2> QED BY <1>1, <1>2, NatSetInduction
<1> QED
  <2> TAKE n \in 0 .. N
  <2>1. n \in G
    BY <1>0, <1>3
  <2> QED BY <1>0, <2>1

\* Together the installments owe no more than the balance.
LEMMA ResidualIsNat ==
  ASSUME NEW p, WellFormed(p), p.balance \in Nat
  PROVE  /\ Residual(p) \in Nat /\ Scheduled(p, DOMAIN p.schedule) \in Nat
         /\ Scheduled(p, DOMAIN p.schedule) + Residual(p) = p.balance
<1> DEFINE N == Len(p.schedule)
<1>1. N \in Nat /\ DOMAIN p.schedule = 1 .. N /\ N \in 0 .. N /\ N + 1 \in 1 .. N + 1
      /\ p.total \in Int
  BY ScheduleFields DEF WellFormed
<1>2. Scheduled(p, 1 .. N) = Overlap(p, 0, Before(p, N + 1))
  BY <1>1, SharesTelescope
<1>3. Before(p, N + 1) \in Nat
  BY <1>1, BeforeGrows
<1>4. \A b \in Nat : Overlap(p, 0, b) \in 0 .. p.balance
  BY <1>1 DEF Overlap, EndOf, PaidOf
<1>5. Scheduled(p, DOMAIN p.schedule) \in 0 .. p.balance
  BY <1>1, <1>2, <1>3, <1>4
<1> QED BY <1>5 DEF Residual

ExpectedOf(p) == [day \in Day |-> ExpectedOn(p, day)]

\* What is expected of a document on the days there are adds up to its balance.
LEMMA ExpectedInAll ==
  ASSUME NEW p, WellFormed(p), p.balance \in Nat, IsFiniteSet(Day)
  PROVE  /\ \A day \in Day : ExpectedOn(p, day) \in Nat
         /\ SumFunctionOnSet(ExpectedOf(p), Day) = p.balance
<1> DEFINE E == ExpectedOf(p)
<1>1. p.due \in Day /\ (p.agreed # NoDay => p.agreed \in Day)
  BY DEF WellFormed
<1>2. CASE p.balance = 0
  <2>1. \A day \in Day : ExpectedOn(p, day) = 0
    BY <1>2 DEF ExpectedOn
  <2>2. \A day \in Day : E[day] = 0
    BY <2>1 DEF ExpectedOf
  <2> QED BY <1>2, <2>1, <2>2, SumZero
<1>3. CASE p.balance # 0 /\ p.agreed # NoDay
  <2>1. \A day \in Day : ExpectedOn(p, day) = IF day = p.agreed THEN p.balance ELSE 0
    BY <1>3 DEF ExpectedOn
  <2>2. \A day \in Day : E[day] = IF day = p.agreed THEN p.balance ELSE 0
    BY <2>1 DEF ExpectedOf
  <2> HIDE DEF E
  <2>3. \A day \in Day : E[day] \in Int /\ (day # p.agreed => E[day] = 0)
    BY <2>2
  <2>4. SumFunctionOnSet(E, Day \ {p.agreed}) = 0
    <3>1. IsFiniteSet(Day \ {p.agreed})
      BY FS_RemoveElement
    <3> QED BY <2>3, <3>1, SumZero
  <2>5. SumFunctionOnSet(E, Day) = E[p.agreed] + SumFunctionOnSet(E, Day \ {p.agreed})
    BY <1>1, <1>3, <2>3, SumRemove
  <2>6. E[p.agreed] = p.balance
    BY <1>1, <1>3, <2>2
  <2> QED BY <2>1, <2>4, <2>5, <2>6 DEF E
<1>4. CASE p.balance # 0 /\ p.agreed = NoDay
  <2> DEFINE K == DOMAIN p.schedule
             part == [n \in K |-> DayOf(p, n)]
             S == [day \in Day |-> Scheduled(p, {n \in K : DayOf(p, n) = day})]
             R == [day \in Day |-> IF day = p.due THEN Residual(p) ELSE 0]
  <2>1. /\ K = 1 .. Len(p.schedule) /\ Len(p.schedule) \in Nat /\ IsFiniteSet(K)
        /\ \A n \in K : part[n] \in Day
    <3>1. K = 1 .. Len(p.schedule) /\ Len(p.schedule) \in Nat
      BY ScheduleFields
    <3>2. IsFiniteSet(1 .. Len(p.schedule))
      BY <3>1, FS_Interval
    <3> QED BY <3>1, <3>2, ScheduleFields
  <2>2. Residual(p) \in Nat /\ Scheduled(p, K) \in Nat /\ Scheduled(p, K) + Residual(p) = p.balance
    BY ResidualIsNat
  <2>3. \A n \in K : ShareOf(p)[n] = Share(p, n) /\ ShareOf(p)[n] \in Nat
    BY <2>1, ShareIsNat DEF ShareOf
  <2>4. \A L : Scheduled(p, L) = SumFunctionOnSet(ShareOf(p), L)
    BY DEF Scheduled, ShareOf
  <2>5. SumFunctionOnSet(S, Day) = Scheduled(p, K) /\ \A day \in Day : S[day] \in Nat
    <3> DEFINE f == ShareOf(p)
               T == [day \in Day |-> SumFunctionOnSet(f, {n \in K : part[n] = day})]
    <3>1. \A day \in Day : {n \in K : part[n] = day} = {n \in K : DayOf(p, n) = day}
      OBVIOUS
    <3>2. \A day \in Day : S[day] = SumFunctionOnSet(f, {n \in K : part[n] = day})
      BY <2>4, <3>1
    <3>3. S = T
      BY <3>2
    <3>4. \A n \in K : f[n] \in Int /\ f[n] \in Nat
      BY <2>3
    <3> HIDE DEF f, part, S, K
    <3>5. ASSUME NEW day \in Day PROVE S[day] \in Nat
      <4>1. IsFiniteSet({n \in K : part[n] = day})
        BY <2>1, FS_Subset
      <4> QED BY <3>2, <3>4, <4>1, SumNat
    <3>6. SumFunctionOnSet(T, Day) = SumFunctionOnSet(f, K)
      BY <2>1, <3>4, SumByParts, SMTT(40)
    <3> QED BY <2>4, <3>3, <3>5, <3>6 DEF f
  <2>6. SumFunctionOnSet(R, Day) = Residual(p) /\ \A day \in Day : R[day] \in Nat
    <3>1. \A day \in Day : R[day] \in Int /\ R[day] \in Nat /\ (day # p.due => R[day] = 0)
      BY <2>2
    <3>2. R[p.due] = Residual(p)
      BY <1>1
    <3> HIDE DEF R
    <3>3. SumFunctionOnSet(R, Day \ {p.due}) = 0
      <4>1. IsFiniteSet(Day \ {p.due})
        BY FS_RemoveElement
      <4> QED BY <3>1, <4>1, SumZero
    <3>4. SumFunctionOnSet(R, Day) = R[p.due] + SumFunctionOnSet(R, Day \ {p.due})
      BY <1>1, <3>1, SumRemove
    <3> QED BY <2>2, <3>1, <3>2, <3>3, <3>4
  <2>7. \A day \in Day : ExpectedOn(p, day) = S[day] + R[day]
    BY <1>4 DEF ExpectedOn
  <2>8. \A day \in Day : E[day] = S[day] + R[day]
    BY <2>7 DEF ExpectedOf
  <2> HIDE DEF S, R, E
  <2>9. \A day \in Day : S[day] \in Int /\ R[day] \in Int
    BY <2>5, <2>6
  <2>10. SumFunctionOnSet(E, Day) = SumFunctionOnSet(S, Day) + SumFunctionOnSet(R, Day)
    BY <2>8, <2>9, SumPlus
  <2>11. SumFunctionOnSet(E, Day) = p.balance
    BY <2>2, <2>5, <2>6, <2>10
  <2>12. \A day \in Day : ExpectedOn(p, day) \in Nat
    BY <2>5, <2>6, <2>7
  <2> QED BY <2>11, <2>12 DEF E
<1> QED BY <1>2, <1>3, <1>4

-----------------------------------------------------------------------------
(* Sums of documents and of rows *)

\* Two functions that differ at one element differ in their sums by that much.
LEMMA SumChange ==
  ASSUME NEW f, NEW g, NEW S, IsFiniteSet(S), NEW x \in S,
         \A y \in S : f[y] \in Int /\ g[y] \in Int /\ (y # x => f[y] = g[y])
  PROVE  /\ SumFunctionOnSet(f, S) \in Int /\ SumFunctionOnSet(g, S) \in Int
         /\ SumFunctionOnSet(f, S) - SumFunctionOnSet(g, S) = f[x] - g[x]
<1>1. /\ IsFiniteSet(S \ {x}) /\ \A y \in S : f[y] \in Int /\ g[y] \in Int
      /\ \A y \in S \ {x} : f[y] = g[y] /\ f[y] \in Int
  BY FS_RemoveElement
<1>2. SumFunctionOnSet(f, S) = f[x] + SumFunctionOnSet(f, S \ {x})
  BY <1>1, SumRemove
<1>3. SumFunctionOnSet(g, S) = g[x] + SumFunctionOnSet(g, S \ {x})
  BY <1>1, SumRemove
<1>4. SumFunctionOnSet(f, S \ {x}) = SumFunctionOnSet(g, S \ {x})
  BY <1>1, SumSame
<1>5. SumFunctionOnSet(f, S \ {x}) \in Int
  BY <1>1, SumInt
<1> QED BY <1>1, <1>2, <1>3, <1>4, <1>5

\* The amount of a row, with its sign, is a number.
LEMMA SignedInt == \A r \in Row : Signed(r) \in Int
  BY PlanAssumption DEF Signed

\* The days there are up to one.
Until(h) == {day \in Day : day <= h}

\* What was read of a document can be spread over days.
LEMMA PendingWellFormed ==
  ASSUME NEW d \in Doc, NEW read, read.balance \in Nat, read.agreed \in Day \cup {NoDay}
  PROVE  WellFormed(Pending(d, read)) /\ Pending(d, read).balance = read.balance
<1>1. /\ Plan[d].total \in Nat /\ Plan[d].due \in Day
      /\ Plan[d].schedule \in Seq([day : Day \cup {NoDay}, value : Nat])
  BY PlanAssumption
<1> QED BY <1>1 DEF Pending, WellFormed

\* What is placed of it on some days is between nothing and its balance.
LEMMA PlacedBounds ==
  ASSUME NEW d \in Doc, NEW read, read.balance \in Nat, read.agreed \in Day \cup {NoDay},
         NEW D \in SUBSET Day
  PROVE  /\ PlacedOn(d, read, D) \in Nat /\ PlacedOn(d, read, D) <= read.balance
         /\ DocOn(d, read, D) \in Int
         /\ \A day \in Day : ExpectedOn(Pending(d, read), day) \in Nat
<1> DEFINE p == Pending(d, read)
           f == ExpectedOf(p)
           g == [day \in D |-> ExpectedOn(p, day)]
<1>1. IsFiniteSet(Day) /\ IsFiniteSet(D)
  BY KindAssumption, FS_Subset
<1>2. /\ \A day \in Day : ExpectedOn(p, day) \in Nat
      /\ SumFunctionOnSet(f, Day) = read.balance
  <2>1. WellFormed(p) /\ p.balance = read.balance
    BY PendingWellFormed
  <2> HIDE DEF p
  <2> QED BY <1>1, <2>1, ExpectedInAll
<1> HIDE DEF p
<1>3. \A day \in Day : f[day] \in Nat /\ f[day] \in Int
  BY <1>2 DEF ExpectedOf
<1>4. \A day \in D : g[day] = f[day] /\ g[day] \in Int
  BY <1>2 DEF ExpectedOf
<1>5. PlacedOn(d, read, D) = SumFunctionOnSet(g, D)
  BY DEF PlacedOn, SumOver, p
<1> HIDE DEF f, g
<1>6. SumFunctionOnSet(g, D) = SumFunctionOnSet(f, D)
  BY <1>1, <1>4, SumSame
<1>7. SumFunctionOnSet(f, D) <= SumFunctionOnSet(f, Day)
  BY <1>1, <1>3, SumSubset
<1>8. SumFunctionOnSet(f, D) \in Nat
  BY <1>1, <1>3, SumNat
<1>9. PlacedOn(d, read, D) \in Nat /\ PlacedOn(d, read, D) <= read.balance
  BY <1>2, <1>5, <1>6, <1>7, <1>8
<1> QED BY <1>2, <1>9 DEF DocOn, p

\* What was read of documents.
Owed(docs) ==
  /\ DOMAIN docs \subseteq Doc
  /\ \A d \in DOMAIN docs : docs[d].balance \in Nat /\ docs[d].agreed \in Day \cup {NoDay}

DocOf(docs, D) == [d \in DOMAIN docs |-> DocOn(d, docs[d], D)]

\* Such documents are finitely many, and each adds a number.
LEMMA DocsFinite ==
  ASSUME NEW docs, Owed(docs), NEW D \in SUBSET Day
  PROVE  /\ IsFiniteSet(DOMAIN docs)
         /\ \A d \in DOMAIN docs : DocOf(docs, D)[d] = DocOn(d, docs[d], D) /\ DocOf(docs, D)[d] \in Int
         /\ DocsOn(docs, D) = SumFunctionOnSet(DocOf(docs, D), DOMAIN docs)
         /\ DocsOn(docs, D) \in Int
<1>1. IsFiniteSet(DOMAIN docs)
  BY KindAssumption, FS_Subset DEF Owed
<1>2. \A d \in DOMAIN docs : DocOn(d, docs[d], D) \in Int
  BY PlacedBounds DEF Owed
<1>3. \A d \in DOMAIN docs : DocOf(docs, D)[d] = DocOn(d, docs[d], D) /\ DocOf(docs, D)[d] \in Int
  BY <1>2 DEF DocOf
<1>4. DocsOn(docs, D) = SumFunctionOnSet(DocOf(docs, D), DOMAIN docs)
  BY DEF DocsOn, SumOver, DocOf
<1>5. SumFunctionOnSet(DocOf(docs, D), DOMAIN docs) \in Int
  BY <1>1, <1>3, SumInt
<1> QED BY <1>1, <1>3, <1>4, <1>5

\* A part of the documents adds its part of the sum.
LEMMA DocsPart ==
  ASSUME NEW docs, Owed(docs), NEW D \in SUBSET Day, NEW part, Owed(part),
         DOMAIN part \subseteq DOMAIN docs, \A d \in DOMAIN part : part[d] = docs[d]
  PROVE  DocsOn(part, D) = SumFunctionOnSet(DocOf(docs, D), DOMAIN part)
<1>1. \A d \in DOMAIN part : DocOf(part, D)[d] = DocOf(docs, D)[d]
  BY DEF DocOf
<1>2. /\ IsFiniteSet(DOMAIN part) /\ \A d \in DOMAIN part : DocOf(part, D)[d] \in Int
      /\ DocsOn(part, D) = SumFunctionOnSet(DocOf(part, D), DOMAIN part)
  BY DocsFinite
<1> QED BY <1>1, <1>2, SumSame

\* Invoices and purchases read one after the other add up.
LEMMA DocsTwoParts ==
  ASSUME NEW docs, Owed(docs), NEW D \in SUBSET Day, NEW a, Owed(a), NEW b, Owed(b),
         \A d : d \in DOMAIN docs <=> d \in DOMAIN a \/ d \in DOMAIN b,
         \A d \in DOMAIN a : d \notin DOMAIN b,
         \A d \in DOMAIN a : a[d] = docs[d], \A d \in DOMAIN b : b[d] = docs[d]
  PROVE  DocsOn(docs, D) = DocsOn(a, D) + DocsOn(b, D)
<1>1. DocsOn(a, D) = SumFunctionOnSet(DocOf(docs, D), DOMAIN a)
  BY DocsPart
<1>2. DocsOn(b, D) = SumFunctionOnSet(DocOf(docs, D), DOMAIN b)
  BY DocsPart
<1>3. /\ IsFiniteSet(DOMAIN a) /\ IsFiniteSet(DOMAIN b)
      /\ \A d \in DOMAIN a \cup DOMAIN b : DocOf(docs, D)[d] \in Int
      /\ DocsOn(docs, D) = SumFunctionOnSet(DocOf(docs, D), DOMAIN docs)
  BY DocsFinite
<1>4. DOMAIN docs = DOMAIN a \cup DOMAIN b /\ DOMAIN a \cap DOMAIN b = {}
  OBVIOUS
<1>5. SumFunctionOnSet(DocOf(docs, D), DOMAIN a \cup DOMAIN b)
        = SumFunctionOnSet(DocOf(docs, D), DOMAIN a) + SumFunctionOnSet(DocOf(docs, D), DOMAIN b)
  BY <1>3, <1>4, SumUnion
<1> QED BY <1>1, <1>2, <1>3, <1>4, <1>5, Zenon

RowOf(read, D) == [e \in read |-> IF e[2].day \in D THEN Signed(e[1]) ELSE 0]

\* What was read of rows adds a number.
LEMMA RowsFinite ==
  ASSUME NEW read, read \subseteq Row \X Entry, IsFiniteSet(read), NEW D
  PROVE  /\ \A e \in read : RowOf(read, D)[e] \in Int
         /\ RowsOn(read, D) = SumFunctionOnSet(RowOf(read, D), read)
         /\ RowsOn(read, D) \in Int
<1>1. \A e \in read : RowOf(read, D)[e] \in Int
  BY SignedInt DEF RowOf
<1>2. RowsOn(read, D) = SumFunctionOnSet(RowOf(read, D), read)
  BY DEF RowsOn, SumOver, RowOf
<1>3. SumFunctionOnSet(RowOf(read, D), read) \in Int
  BY <1>1, SumInt
<1> QED BY <1>1, <1>2, <1>3

\* Rows read in two statements add up.
LEMMA RowsTwoParts ==
  ASSUME NEW a, a \subseteq Row \X Entry, IsFiniteSet(a),
         NEW b, b \subseteq Row \X Entry, IsFiniteSet(b), \A e \in a : e \notin b, NEW D
  PROVE  RowsOn(a \cup b, D) = RowsOn(a, D) + RowsOn(b, D)
<1> DEFINE f == RowOf(a \cup b, D)
<1>1. IsFiniteSet(a \cup b) /\ a \cup b \subseteq Row \X Entry
  BY FS_Union
<1>2. (\A e \in a \cup b : f[e] \in Int) /\ RowsOn(a \cup b, D) = SumFunctionOnSet(f, a \cup b)
  BY <1>1, RowsFinite
<1>3. \A e \in a : RowOf(a, D)[e] = f[e] /\ RowOf(a, D)[e] \in Int
  BY <1>2 DEF RowOf
<1>4. \A e \in b : RowOf(b, D)[e] = f[e] /\ RowOf(b, D)[e] \in Int
  BY <1>2 DEF RowOf
<1> HIDE DEF f
<1>5. RowsOn(a, D) = SumFunctionOnSet(f, a)
  <2>1. SumFunctionOnSet(RowOf(a, D), a) = SumFunctionOnSet(f, a)
    BY <1>3, SumSame
  <2> QED BY <2>1, RowsFinite
<1>6. RowsOn(b, D) = SumFunctionOnSet(f, b)
  <2>1. SumFunctionOnSet(RowOf(b, D), b) = SumFunctionOnSet(f, b)
    BY <1>4, SumSame
  <2> QED BY <2>1, RowsFinite
<1>7. SumFunctionOnSet(f, a \cup b) = SumFunctionOnSet(f, a) + SumFunctionOnSet(f, b)
  <2>1. a \cap b = {}
    OBVIOUS
  <2> QED BY <1>2, <2>1, SumUnion
<1> QED BY <1>2, <1>5, <1>6, <1>7

-----------------------------------------------------------------------------
(* The answers, from what was read *)

\* What a view has read, of documents and of rows.
Sound(g) == IsKnown(g) /\ IsFiniteSet(g.rows)

\* What the view makes of it by a day.
Forecast(g, h) == g.balance + DocsOn(g.docs, Until(h)) + RowsOn(g.rows, Until(h))

\* The parts of what a view has read.
LEMMA SoundFields ==
  ASSUME NEW g, Sound(g)
  PROVE  Owed(g.docs) /\ g.balance \in Int /\ g.rows \subseteq Row \X Entry /\ IsFiniteSet(g.rows)
<1>1. \A d \in DOMAIN g.docs : g.docs[d] \in [balance : Nat, agreed : Day \cup {NoDay}]
  BY DEF Sound, IsKnown
<1> QED BY <1>1 DEF Sound, IsKnown, Owed

\* A value read is a number.
LEMMA ForecastInt ==
  ASSUME NEW g, Sound(g), NEW h
  PROVE  /\ Forecast(g, h) \in Int /\ DocsOn(g.docs, Until(h)) \in Int
         /\ RowsOn(g.rows, Until(h)) \in Int
<1>1. Until(h) \in SUBSET Day
  BY DEF Until
<1>2. DocsOn(g.docs, Until(h)) \in Int
  BY <1>1, SoundFields, DocsFinite
<1>3. RowsOn(g.rows, Until(h)) \in Int
  BY SoundFields, RowsFinite
<1> QED BY <1>2, <1>3, SoundFields DEF Forecast

\* A part of what was read of documents is as well formed.
LEMMA RestrictOwed ==
  ASSUME NEW docs, Owed(docs), NEW S \in SUBSET DOMAIN docs
  PROVE  /\ Owed(Restrict(docs, S)) /\ DOMAIN Restrict(docs, S) = S
         /\ \A d \in S : Restrict(docs, S)[d] = docs[d]
BY DEF Restrict, Owed

\* What comes in less what goes out is what documents and rows add, and all of
\* these are numbers.
LEMMA FlowsAddUp ==
  ASSUME NEW g, Sound(g), NEW D \in SUBSET Day
  PROVE  /\ Incoming(g, D) \in Int /\ Outgoing(g, D) \in Int
         /\ Incoming(g, D) - Outgoing(g, D) = DocsOn(g.docs, D) + RowsOn(g.rows, D)
<1> DEFINE I == Restrict(g.docs, DOMAIN g.docs \cap Invoice)
           O == Restrict(g.docs, DOMAIN g.docs \cap Purchase)
           in == {e \in g.rows : e[1] \in Income}
           go == {e \in g.rows : e[1] \notin Income}
<1>1. /\ Owed(g.docs) /\ g.rows \subseteq Row \X Entry /\ IsFiniteSet(g.rows)
  BY SoundFields
<1>2. DocsOn(g.docs, D) = DocsOn(I, D) + DocsOn(O, D)
  <2>1. /\ Owed(I) /\ DOMAIN I = DOMAIN g.docs \cap Invoice /\ \A d \in DOMAIN I : I[d] = g.docs[d]
    <3>1. DOMAIN g.docs \cap Invoice \in SUBSET DOMAIN g.docs
      OBVIOUS
    <3> QED BY <1>1, <3>1, RestrictOwed
  <2>2. /\ Owed(O) /\ DOMAIN O = DOMAIN g.docs \cap Purchase /\ \A d \in DOMAIN O : O[d] = g.docs[d]
    <3>1. DOMAIN g.docs \cap Purchase \in SUBSET DOMAIN g.docs
      OBVIOUS
    <3> QED BY <1>1, <3>1, RestrictOwed
  <2> HIDE DEF I, O
  <2>3. /\ \A d : d \in DOMAIN g.docs <=> d \in DOMAIN I \/ d \in DOMAIN O
        /\ \A d \in DOMAIN I : d \notin DOMAIN O
    BY <1>1, <2>1, <2>2, KindAssumption DEF Owed, Doc
  <2>4. /\ \A d \in DOMAIN I : I[d] = g.docs[d]
        /\ \A d \in DOMAIN O : O[d] = g.docs[d]
        /\ Owed(I) /\ Owed(O)
    BY <2>1, <2>2
  <2> QED BY <1>1, <2>3, <2>4, DocsTwoParts
<1>3. DocsOn(I, D) \in Int /\ DocsOn(O, D) \in Int
  <2>1. /\ DOMAIN g.docs \cap Invoice \in SUBSET DOMAIN g.docs
        /\ DOMAIN g.docs \cap Purchase \in SUBSET DOMAIN g.docs
    OBVIOUS
  <2>2. Owed(I) /\ Owed(O)
    BY <1>1, <2>1, RestrictOwed
  <2> QED BY <2>2, DocsFinite
<1>4. /\ in \subseteq Row \X Entry /\ go \subseteq Row \X Entry
      /\ IsFiniteSet(in) /\ IsFiniteSet(go) /\ \A e \in in : e \notin go
  <2>1. in \subseteq g.rows /\ go \subseteq g.rows
    OBVIOUS
  <2>2. IsFiniteSet(in) /\ IsFiniteSet(go)
    BY <1>1, <2>1, FS_Subset
  <2> QED BY <1>1, <2>1, <2>2
<1>9. in \cup go = g.rows
  OBVIOUS
<1> HIDE DEF I, O, in, go
<1>5. RowsOn(in \cup go, D) = RowsOn(in, D) + RowsOn(go, D)
  BY <1>4, RowsTwoParts
<1>6. RowsOn(in, D) \in Int /\ RowsOn(go, D) \in Int
  BY <1>4, RowsFinite
<1>7. /\ Incoming(g, D) = DocsOn(I, D) + RowsOn(in, D)
      /\ Outgoing(g, D) = -(DocsOn(O, D) + RowsOn(go, D))
  BY DEF Incoming, Outgoing, I, O, in, go
<1>8. RowsOn(g.rows, D) = RowsOn(in, D) + RowsOn(go, D)
  BY <1>5, <1>9, Zenon
<1> QED BY <1>2, <1>3, <1>6, <1>7, <1>8

\* Within n days of today, late money included, is up to n days after today.
LEMMA WithinHorizon ==
  ASSUME NEW now \in Int, NEW n \in Nat
  PROVE  /\ {day \in Day : DaysAway(day, now) <= n} = Until(now + n)
         /\ {day \in Day : DaysAway(day, now) \in 0 .. n} = Until(now + n)
<1>1. \A day \in Day : day \in Int
  BY DateAssumption
<1>2. \A day \in Day : DaysAway(day, now) <= n <=> day <= now + n
  BY <1>1 DEF DaysAway
<1>3. \A day \in Day : DaysAway(day, now) \in 0 .. n <=> day <= now + n
  BY <1>1 DEF DaysAway
<1> QED BY <1>2, <1>3 DEF Until

\* The last of the eight points is the horizon.
LEMMA LastCheckpoint ==
  ASSUME NEW n \in Nat PROVE Checkpoint(8 - 1, n) = n
BY DEF Checkpoint

\* What the projections answer.
LEMMA ProjectedValue ==
  ASSUME NEW g, Sound(g), NEW now \in Nat, NEW n \in Nat
  PROVE  LET r == Projected(g, now, n) IN
         /\ r \in Reply
         /\ r.estimate = Forecast(g, now + n)
         /\ r.income = Incoming(g, Until(now + n)) /\ r.expenses = Outgoing(g, Until(now + n))
         /\ r.alerts = Alerts(g, now, n)
         /\ r.chart[8].balance - r.chart[8].deficit = r.estimate
<1> DEFINE U == Until(now + n)
           reach(i) == {day \in Day : DaysAway(day, now) \in 0 .. Checkpoint(i - 1, n)}
           chart == [i \in 1 .. 8 |-> Point(Running(g, now, Checkpoint(i - 1, n)))]
<1>1. {day \in Day : DaysAway(day, now) <= n} = U
  BY WithinHorizon
<1>2. Projected(g, now, n) =
        [estimate |-> g.balance + Incoming(g, U) - Outgoing(g, U),
         income |-> Incoming(g, U), expenses |-> Outgoing(g, U),
         alerts |-> Alerts(g, now, n), chart |-> chart]
  BY <1>1, Zenon DEF Projected
<1>3. g.balance \in Int
  BY SoundFields
<1>4. \A D \in SUBSET Day :
        /\ Incoming(g, D) \in Int /\ Outgoing(g, D) \in Int
        /\ Incoming(g, D) - Outgoing(g, D) = DocsOn(g.docs, D) + RowsOn(g.rows, D)
  BY FlowsAddUp
<1>5. U \in SUBSET Day
  BY DEF Until
<1>6. g.balance + Incoming(g, U) - Outgoing(g, U) = Forecast(g, now + n)
  <2>1. DocsOn(g.docs, U) \in Int /\ RowsOn(g.rows, U) \in Int
    BY ForecastInt
  <2> QED BY <1>3, <1>4, <1>5, <2>1 DEF Forecast
<1>7. \A i \in 1 .. 8 :
        /\ Running(g, now, Checkpoint(i - 1, n)) \in Int
        /\ Point(Running(g, now, Checkpoint(i - 1, n))) \in [balance : Nat, deficit : Nat]
  <2> TAKE i \in 1 .. 8
  <2>1. reach(i) \in SUBSET Day
    OBVIOUS
  <2>2. Running(g, now, Checkpoint(i - 1, n)) = g.balance + (Incoming(g, reach(i)) - Outgoing(g, reach(i)))
    BY DEF Running, Flows
  <2>3. Running(g, now, Checkpoint(i - 1, n)) \in Int
    <3> HIDE DEF reach
    <3> QED BY <1>3, <1>4, <2>1, <2>2
  <2> QED BY <2>3 DEF Point
<1>8. Running(g, now, Checkpoint(8 - 1, n)) = Forecast(g, now + n)
  <2>1. {day \in Day : DaysAway(day, now) \in 0 .. n} = U
    BY WithinHorizon
  <2>2. Running(g, now, n) = g.balance + (Incoming(g, U) - Outgoing(g, U))
    BY <2>1, Zenon DEF Running, Flows
  <2>3. Incoming(g, U) \in Int /\ Outgoing(g, U) \in Int
    BY <1>4, <1>5
  <2>4. Running(g, now, n) = Forecast(g, now + n)
    BY <1>3, <1>6, <2>2, <2>3
  <2> QED BY <2>4, LastCheckpoint, Zenon
<1>9. chart[8].balance - chart[8].deficit = Forecast(g, now + n)
  <2>1. chart[8] = Point(Forecast(g, now + n))
    BY <1>8
  <2>2. Forecast(g, now + n) \in Int
    BY ForecastInt
  <2> HIDE DEF chart
  <2> QED BY <2>1, <2>2 DEF Point
<1>10. chart \in [1 .. 8 -> [balance : Nat, deficit : Nat]]
  BY <1>7
<1>11. Alerts(g, now, n) \subseteq
         [of : Doc \cup Row, kind : {"document", "movement", "projection"},
          day : Day, comes : BOOLEAN, amount : Int]
  <2> DEFINE A == [of : Doc \cup Row, kind : {"document", "movement", "projection"},
                   day : Day, comes : BOOLEAN, amount : Int]
  <2>1. ASSUME NEW d \in DOMAIN g.docs PROVE DocAlerts(d, g.docs[d], now, n) \subseteq A
    <3>1. d \in Doc /\ \A day \in Day : ExpectedOn(Pending(d, g.docs[d]), day) \in Nat
      BY SoundFields, PlacedBounds DEF Owed
    <3>2. ASSUME NEW x \in DocAlerts(d, g.docs[d], now, n) PROVE x \in A
      <4>1. PICK day \in Day :
              x = [of |-> d, kind |-> "document", day |-> day, comes |-> d \in Invoice,
                   amount |-> ExpectedOn(Pending(d, g.docs[d]), day)]
        BY <3>2 DEF DocAlerts
      <4> QED BY <3>1, <4>1
    <3> QED BY <3>2
  <2>2. RowAlerts(g.rows, now, n) \subseteq A
    <3>1. \A e \in g.rows : e[1] \in Row /\ e[2] \in Entry /\ Worth[e[1]] \in Int
      BY SoundFields, PlanAssumption
    <3>2. \A e \in g.rows : RowAlert(e) \in A
      BY <3>1 DEF RowAlert, Entry
    <3> QED BY <3>2 DEF RowAlerts
  <2> HIDE DEF A
  <2>3. ASSUME NEW x \in Alerts(g, now, n) PROVE x \in A
    <3>1. x \in RowAlerts(g.rows, now, n) \/ \E d \in DOMAIN g.docs : x \in DocAlerts(d, g.docs[d], now, n)
      BY <2>3 DEF Alerts
    <3> QED BY <2>1, <2>2, <3>1
  <2> QED BY <2>3 DEF A
<1>12. Forecast(g, now + n) \in Int /\ Incoming(g, U) \in Int /\ Outgoing(g, U) \in Int
  BY <1>4, <1>5, ForecastInt
<1> HIDE DEF chart, U
<1> DEFINE r == Projected(g, now, n)
<1>13. /\ r.estimate = Forecast(g, now + n) /\ r.income = Incoming(g, U) /\ r.expenses = Outgoing(g, U)
       /\ r.alerts = Alerts(g, now, n) /\ r.chart = chart
  BY <1>2, <1>6
<1>14. r \in Reply
  BY <1>2, <1>6, <1>10, <1>11, <1>12 DEF Reply
<1> HIDE DEF r
<1> QED BY <1>9, <1>13, <1>14 DEF r, U

\* What the cash flow answers.
LEMMA CashFlowValue ==
  ASSUME NEW g, Sound(g), NEW now \in Nat, \A e \in g.rows : e[2].day <= now + Month
  PROVE  CashFlow(g, now) \in Reply /\ CashFlow(g, now).estimate = Forecast(g, now + Month)
<1> DEFINE U == Until(now + Month)
<1>1. \A e \in g.rows : e \in Row \X Entry
  BY SoundFields
<1>2. \A e \in g.rows : RowOf(g.rows, Day)[e] = RowOf(g.rows, U)[e]
  BY <1>1 DEF RowOf, Until, Entry
<1>3. RowsOn(g.rows, Day) = RowsOn(g.rows, U)
  <2>1. /\ RowsOn(g.rows, Day) = SumFunctionOnSet(RowOf(g.rows, Day), g.rows)
        /\ RowsOn(g.rows, U) = SumFunctionOnSet(RowOf(g.rows, U), g.rows)
        /\ IsFiniteSet(g.rows) /\ \A e \in g.rows : RowOf(g.rows, Day)[e] \in Int
    BY SoundFields, RowsFinite
  <2>2. SumFunctionOnSet(RowOf(g.rows, Day), g.rows) = SumFunctionOnSet(RowOf(g.rows, U), g.rows)
    <3> HIDE DEF U
    <3> QED BY <1>2, <2>1, SumSame
  <2> QED BY <2>1, <2>2
<1>4. CashFlow(g, now).estimate = Forecast(g, now + Month)
  <2>1. CashFlow(g, now).estimate = g.balance + DocsOn(g.docs, U) + RowsOn(g.rows, Day)
    BY DEF CashFlow, Until
  <2> QED BY <1>3, <2>1, Zenon DEF Forecast
<1>5. Forecast(g, now + Month) \in Int
  BY ForecastInt
<1> QED BY <1>4, <1>5 DEF CashFlow, Reply

-----------------------------------------------------------------------------
(* What a view has read so far, and what the tables say of the same *)

\* What each document adds by a day, from the columns balance, status and agreed date.
AddedBy(U, N, G, h) ==
  [d \in Doc |-> IF U[d] = 0 \/ d \in N THEN 0
                 ELSE DocOn(d, [balance |-> U[d], agreed |-> G[d]], Until(h))]

\* The documents and the rows whose statements a view has behind it.
DocsAt(s) ==
  IF s = "purchases" THEN Invoice
  ELSE IF s \in {"projections", "movements", "answered"} THEN Doc ELSE {}
RowsAt(R, s, h) ==
  {r \in Row :
     \/ /\ s \in {"invoices", "purchases", "projections", "movements", "answered"}
        /\ R[r].flow = "movement" /\ R[r].status = "Completado"
     \/ /\ s \in {"movements", "answered"}
        /\ R[r].flow = "projection" /\ R[r].status # "Anulado" /\ R[r].day <= h
     \/ /\ s = "answered"
        /\ R[r].flow = "movement" /\ R[r].status = "Pendiente" /\ R[r].day <= h}

DocTotal(A, S) == SumFunctionOnSet([d \in Doc |-> IF d \in S THEN A[d] ELSE 0], Doc)
RowTotal(S)    == SumFunctionOnSet([r \in Row |-> IF r \in S THEN Signed(r) ELSE 0], Row)
Tables(s, h)   == DocTotal(AddedBy(unpaid, annulled, agreed, h), DocsAt(s))
                  + RowTotal(RowsAt(rows, s, h))

\* A document adds no more than its balance, to the one side or to the other.
LEMMA AddedBounds ==
  ASSUME NEW U, NEW N, NEW G, NEW h, NEW d \in Doc, U[d] \in Nat, G[d] \in Day \cup {NoDay}
  PROVE  LET a == AddedBy(U, N, G, h)[d] IN
         /\ a \in Int
         /\ d \in Invoice => 0 <= a /\ a <= U[d]
         /\ d \notin Invoice => -U[d] <= a /\ a <= 0
<1> DEFINE read == [balance |-> U[d], agreed |-> G[d]]
<1>1. read.balance = U[d] /\ read.agreed = G[d] /\ Until(h) \in SUBSET Day
  BY DEF Until
<1>2. AddedBy(U, N, G, h)[d] = IF U[d] = 0 \/ d \in N THEN 0 ELSE DocOn(d, read, Until(h))
  BY DEF AddedBy
<1> HIDE DEF read
<1>3. PlacedOn(d, read, Until(h)) \in Nat /\ PlacedOn(d, read, Until(h)) <= U[d]
  BY <1>1, PlacedBounds
<1> QED BY <1>2, <1>3 DEF DocOn

\* Sums over documents when one of them changes, when none is read, and in two parts.
LEMMA DocTotalFacts ==
  ASSUME NEW A, \A d \in Doc : A[d] \in Int
  PROVE  /\ \A S : DocTotal(A, S) \in Int
         /\ DocTotal(A, {}) = 0
         /\ DocTotal(A, Doc) = DocTotal(A, Invoice) + DocTotal(A, Purchase)
<1>0. IsFiniteSet(Doc)
  BY KindAssumption
<1>1. ASSUME NEW S PROVE DocTotal(A, S) \in Int
  <2> DEFINE f == [d \in Doc |-> IF d \in S THEN A[d] ELSE 0]
  <2>1. \A d \in Doc : f[d] \in Int
    OBVIOUS
  <2> HIDE DEF f
  <2>2. SumFunctionOnSet(f, Doc) \in Int
    BY <1>0, <2>1, SumInt
  <2> QED BY <2>2 DEF DocTotal, f
<1>2. DocTotal(A, {}) = 0
  <2> DEFINE f == [d \in Doc |-> IF d \in {} THEN A[d] ELSE 0]
  <2>1. \A d \in Doc : f[d] = 0
    OBVIOUS
  <2> HIDE DEF f
  <2>2. SumFunctionOnSet(f, Doc) = 0
    BY <1>0, <2>1, SumZero
  <2> QED BY <2>2 DEF DocTotal, f
<1>3. DocTotal(A, Doc) = DocTotal(A, Invoice) + DocTotal(A, Purchase)
  <2> DEFINE f == [d \in Doc |-> IF d \in Invoice THEN A[d] ELSE 0]
             g == [d \in Doc |-> IF d \in Purchase THEN A[d] ELSE 0]
             a == [d \in Doc |-> IF d \in Doc THEN A[d] ELSE 0]
  <2>1. \A d \in Doc : f[d] \in Int /\ g[d] \in Int /\ a[d] = f[d] + g[d]
    BY KindAssumption DEF Doc
  <2> HIDE DEF f, g, a
  <2>2. SumFunctionOnSet(a, Doc) = SumFunctionOnSet(f, Doc) + SumFunctionOnSet(g, Doc)
    BY <1>0, <2>1, SumPlus
  <2> QED BY <2>2 DEF DocTotal, f, g, a
<1> QED BY <1>1, <1>2, <1>3

\* When one document changes, the sum moves by no more than it does.
LEMMA DocTotalChange ==
  ASSUME NEW A, NEW B, \A d \in Doc : A[d] \in Int /\ B[d] \in Int, NEW x \in Doc,
         \A d \in Doc : d # x => A[d] = B[d], NEW amount \in Nat,
         A[x] - B[x] <= amount, B[x] - A[x] <= amount, NEW S
  PROVE  /\ DocTotal(A, S) - DocTotal(B, S) <= amount
         /\ DocTotal(B, S) - DocTotal(A, S) <= amount
<1> DEFINE f == [d \in Doc |-> IF d \in S THEN A[d] ELSE 0]
           g == [d \in Doc |-> IF d \in S THEN B[d] ELSE 0]
<1>1. /\ \A d \in Doc : f[d] \in Int /\ g[d] \in Int /\ (d # x => f[d] = g[d])
      /\ f[x] - g[x] <= amount /\ g[x] - f[x] <= amount
      /\ f[x] \in Int /\ g[x] \in Int
  OBVIOUS
<1>2. IsFiniteSet(Doc)
  BY KindAssumption
<1> HIDE DEF f, g
<1>3. /\ SumFunctionOnSet(f, Doc) \in Int /\ SumFunctionOnSet(g, Doc) \in Int
      /\ SumFunctionOnSet(f, Doc) - SumFunctionOnSet(g, Doc) = f[x] - g[x]
  BY <1>1, <1>2, SumChange
<1>4. /\ SumFunctionOnSet(f, Doc) - SumFunctionOnSet(g, Doc) <= amount
      /\ SumFunctionOnSet(g, Doc) - SumFunctionOnSet(f, Doc) <= amount
  BY <1>1, <1>3
<1> QED BY <1>4 DEF DocTotal, f, g

\* The same for rows.
LEMMA RowTotalFacts ==
  /\ \A S : RowTotal(S) \in Int
  /\ RowTotal({}) = 0
  /\ \A S, T : (\A r \in S : r \notin T) => RowTotal(S \cup T) = RowTotal(S) + RowTotal(T)
<1>0. IsFiniteSet(Row)
  BY KindAssumption
<1>1. ASSUME NEW S PROVE RowTotal(S) \in Int
  <2> DEFINE f == [r \in Row |-> IF r \in S THEN Signed(r) ELSE 0]
  <2>1. \A r \in Row : f[r] \in Int
    BY SignedInt
  <2> HIDE DEF f
  <2>2. SumFunctionOnSet(f, Row) \in Int
    BY <1>0, <2>1, SumInt
  <2> QED BY <2>2 DEF RowTotal, f
<1>2. RowTotal({}) = 0
  <2> DEFINE f == [r \in Row |-> IF r \in {} THEN Signed(r) ELSE 0]
  <2>1. \A r \in Row : f[r] = 0
    OBVIOUS
  <2> HIDE DEF f
  <2>2. SumFunctionOnSet(f, Row) = 0
    BY <1>0, <2>1, SumZero
  <2> QED BY <2>2 DEF RowTotal, f
<1>3. ASSUME NEW S, NEW T, \A r \in S : r \notin T
      PROVE  RowTotal(S \cup T) = RowTotal(S) + RowTotal(T)
  <2> DEFINE f == [r \in Row |-> IF r \in S THEN Signed(r) ELSE 0]
             g == [r \in Row |-> IF r \in T THEN Signed(r) ELSE 0]
             a == [r \in Row |-> IF r \in S \cup T THEN Signed(r) ELSE 0]
  <2>1. \A r \in Row : f[r] \in Int /\ g[r] \in Int /\ a[r] = f[r] + g[r]
    BY <1>3, SignedInt
  <2> HIDE DEF f, g, a
  <2>2. SumFunctionOnSet(a, Row) = SumFunctionOnSet(f, Row) + SumFunctionOnSet(g, Row)
    BY <1>0, <2>1, SumPlus
  <2> QED BY <2>2 DEF RowTotal, f, g, a
<1> QED BY <1>1, <1>2, <1>3

\* The same for rows: one row moves the sum by no more than its amount.
LEMMA RowTotalChange ==
  ASSUME NEW S, NEW T, NEW x \in Row, \A r \in Row : r # x => (r \in S <=> r \in T)
  PROVE  LET amount == Larger(Worth[x], -Worth[x]) IN
         /\ RowTotal(S) - RowTotal(T) <= amount /\ RowTotal(T) - RowTotal(S) <= amount
<1> DEFINE f == [r \in Row |-> IF r \in S THEN Signed(r) ELSE 0]
           g == [r \in Row |-> IF r \in T THEN Signed(r) ELSE 0]
           amount == Larger(Worth[x], -Worth[x])
<1>0. Worth[x] \in Int
  BY PlanAssumption
<1>1. \A r \in Row : f[r] \in Int /\ g[r] \in Int /\ (r # x => f[r] = g[r])
  BY SignedInt
<1>2. f[x] - g[x] <= amount /\ g[x] - f[x] <= amount /\ amount \in Int /\ f[x] \in Int /\ g[x] \in Int
  BY <1>0 DEF Signed
<1>3. IsFiniteSet(Row)
  BY KindAssumption
<1> HIDE DEF f, g, amount
<1>4. /\ SumFunctionOnSet(f, Row) \in Int /\ SumFunctionOnSet(g, Row) \in Int
      /\ SumFunctionOnSet(f, Row) - SumFunctionOnSet(g, Row) = f[x] - g[x]
  BY <1>1, <1>3, SumChange
<1>5. /\ SumFunctionOnSet(f, Row) - SumFunctionOnSet(g, Row) <= amount
      /\ SumFunctionOnSet(g, Row) - SumFunctionOnSet(f, Row) <= amount
  BY <1>2, <1>4
<1> QED BY <1>5 DEF RowTotal, f, g, amount


-----------------------------------------------------------------------------
(* The statements, and the tables they read *)

\* The columns the statements read are what TypeOK says.
TablesOK ==
  /\ \A d \in Doc : unpaid[d] \in Nat /\ agreed[d] \in Day \cup {NoDay}
  /\ \A r \in Row : rows[r] \in Entry

\* They are where the types hold.
LEMMA TablesAreTyped == ASSUME TypeOK PROVE TablesOK
<1>1. \A d \in Doc : unpaid[d] \in Nat
  BY PlanAssumption DEF TypeOK
<1> QED BY <1>1 DEF TypeOK, TablesOK

\* The statements for documents leave out only those that add nothing.
LEMMA OpenDocsValue ==
  ASSUME TablesOK, NEW S \in SUBSET Doc, NEW h
  PROVE  /\ Owed(OpenDocs(S)) /\ DOMAIN OpenDocs(S) \subseteq S
         /\ \A d \in DOMAIN OpenDocs(S) :
              OpenDocs(S)[d] \in [balance : Nat, agreed : Day \cup {NoDay}]
         /\ DocsOn(OpenDocs(S), Until(h)) = DocTotal(AddedBy(unpaid, annulled, agreed, h), S)
<1> DEFINE O == OpenDocs(S)
           D == {x \in S : unpaid[x] > 0 /\ x \notin annulled}
           A == AddedBy(unpaid, annulled, agreed, h)
           f == [d \in Doc |-> IF d \in S THEN A[d] ELSE 0]
           U == Until(h)
<1>1. /\ DOMAIN O = D /\ \A d \in D : O[d] = [balance |-> unpaid[d], agreed |-> agreed[d]]
  BY DEF OpenDocs
<1>2. \A d \in Doc : unpaid[d] \in Nat /\ agreed[d] \in Day \cup {NoDay}
  BY DEF TablesOK
<1>3. Owed(O) /\ \A d \in D : O[d] \in [balance : Nat, agreed : Day \cup {NoDay}]
  <2> HIDE DEF O, D
  <2>0. D \subseteq Doc
    BY DEF D
  <2>1. \A d \in D : O[d].balance \in Nat /\ O[d].agreed \in Day \cup {NoDay}
                     /\ O[d] \in [balance : Nat, agreed : Day \cup {NoDay}]
    BY <1>1, <1>2, <2>0
  <2> QED BY <1>1, <2>0, <2>1 DEF Owed
<1>4. U \in SUBSET Day /\ D \in SUBSET Doc /\ D \subseteq Doc
  BY DEF Until
<1>5. \A d \in Doc : A[d] \in Int
  BY <1>2, AddedBounds
<1>6. \A d \in D : DocOf(O, U)[d] = A[d]
  BY <1>1, <1>2, <1>4 DEF DocOf, AddedBy
<1>7. \A d \in Doc \ D : d \in S => A[d] = 0
  BY <1>2 DEF AddedBy
<1> HIDE DEF O, A, U
<1>8. \A d \in Doc : f[d] \in Int
  BY <1>5
<1>9. (\A d \in D : DocOf(O, U)[d] = f[d] /\ DocOf(O, U)[d] \in Int) /\ \A d \in Doc \ D : f[d] = 0
  BY <1>4, <1>5, <1>6, <1>7
<1>10. DOMAIN O \subseteq S
  BY <1>1
<1>11. IsFiniteSet(Doc) /\ IsFiniteSet(D)
  BY <1>4, KindAssumption, FS_Subset
<1> HIDE DEF f, D
<1>12. SumFunctionOnSet(DocOf(O, U), D) = SumFunctionOnSet(f, D)
  BY <1>9, <1>11, SumSame
<1>13. SumFunctionOnSet(f, Doc) = SumFunctionOnSet(f, D)
  BY <1>4, <1>8, <1>9, <1>11, SumDrop
<1>14. DocsOn(O, U) = SumFunctionOnSet(DocOf(O, U), D)
  BY <1>1, <1>3, <1>4, DocsFinite
<1>15. DocsOn(O, U) = DocTotal(A, S)
  BY <1>12, <1>13, <1>14 DEF DocTotal, f
<1> QED BY <1>1, <1>3, <1>10, <1>15 DEF O, A, U

\* The rows of some ids as a statement returns them.
RowSet(S) == {<<r, rows[r]>> : r \in S}

\* They add what the tables say, if their days are among those asked about.
LEMMA RowSetValue ==
  ASSUME TablesOK, NEW S \in SUBSET Row, NEW D, \A r \in S : rows[r].day \in D
  PROVE  /\ RowSet(S) \subseteq Row \X Entry /\ IsFiniteSet(RowSet(S))
         /\ RowsOn(RowSet(S), D) = RowTotal(S)
<1> DEFINE L == RowSet(S)
           name == [r \in S |-> <<r, rows[r]>>]
           f == [r \in Row |-> IF r \in S THEN Signed(r) ELSE 0]
<1>1. \A r \in Row : rows[r] \in Entry
  BY DEF TablesOK
<1>2. L = ImageOf(name, S)
  BY DEF RowSet, ImageOf
<1>3. IsFiniteSet(Row) /\ IsFiniteSet(S)
  BY KindAssumption, FS_Subset
<1>4. \A r \in Row : f[r] \in Int
  BY SignedInt
<1>5. \A r, q \in S : name[r] = name[q] => r = q
  OBVIOUS
<1>6. \A r \in S : /\ name[r] \in Row \X Entry /\ name[r] \in L /\ name[r][1] = r
                   /\ name[r][2].day \in D
  BY <1>1 DEF RowSet
<1>7. L \subseteq Row \X Entry
  BY <1>1 DEF RowSet
<1> HIDE DEF L
<1>8. \A r \in S : f[r] \in Int /\ RowOf(L, D)[name[r]] = f[r]
  BY <1>4, <1>6 DEF RowOf
<1>9. \A r \in Row \ S : f[r] = 0
  OBVIOUS
<1> HIDE DEF f, name
<1>10. IsFiniteSet(L) /\ SumFunctionOnSet(RowOf(L, D), L) = SumFunctionOnSet(f, S)
  <2> DEFINE g == RowOf(L, D)
  <2>1. \A r \in S : f[r] \in Int /\ g[name[r]] = f[r]
    BY <1>8
  <2> HIDE DEF g
  <2>2. IsFiniteSet(ImageOf(name, S))
    BY <1>3, <1>5, <2>1, SumImage
  <2>3. SumFunctionOnSet(g, ImageOf(name, S)) = SumFunctionOnSet(f, S)
    BY <1>3, <1>5, <2>1, SumImage
  <2>4. SumFunctionOnSet(g, L) = SumFunctionOnSet(f, S)
    BY <1>2, <2>3, Zenon
  <2> QED BY <1>2, <2>2, <2>4 DEF g
<1>11. SumFunctionOnSet(f, Row) = SumFunctionOnSet(f, S)
  BY <1>3, <1>4, <1>9, SumDrop
<1>12. RowsOn(L, D) = SumFunctionOnSet(RowOf(L, D), L)
  BY <1>7, <1>10, RowsFinite
<1>13. RowsOn(L, D) = RowTotal(S)
  BY <1>10, <1>11, <1>12 DEF RowTotal, f
<1> QED BY <1>7, <1>10, <1>13 DEF L

\* Each statement on rows adds what the tables say of the rows it is about.
LEMMA RowStatements ==
  ASSUME TablesOK, NEW h
  PROVE  /\ GetCurrentBalance \in Int
         /\ GetCurrentBalance = RowTotal(RowsAt(rows, "invoices", h))
         /\ LET read == GetPendingProjections(h) IN
            /\ read \subseteq Row \X Entry /\ IsFiniteSet(read)
            /\ \A e \in read : e[2].flow = "projection" /\ e[2].day <= h /\ e[2] = rows[e[1]]
            /\ RowTotal(RowsAt(rows, "movements", h))
                 = RowTotal(RowsAt(rows, "projections", h)) + RowsOn(read, Until(h))
         /\ LET read == GetPendingMovements(h) IN
            /\ read \subseteq Row \X Entry /\ IsFiniteSet(read)
            /\ \A e \in read : e[2].flow = "movement" /\ e[2].day <= h /\ e[2] = rows[e[1]]
            /\ RowTotal(RowsAt(rows, "answered", h))
                 = RowTotal(RowsAt(rows, "movements", h)) + RowsOn(read, Until(h))
<1> DEFINE C == {r \in Row : rows[r].flow = "movement" /\ rows[r].status = "Completado"}
           P == {r \in Row : /\ rows[r].flow = "projection" /\ rows[r].status # "Anulado"
                             /\ rows[r].day <= h}
           M == {r \in Row : /\ rows[r].flow = "movement" /\ rows[r].status = "Pendiente"
                             /\ rows[r].day <= h}
<1>1. \A r \in Row : /\ rows[r].flow \in {"movement", "projection"}
                     /\ rows[r].status \in {"Pendiente", "Completado", "Anulado"}
                     /\ rows[r].day \in Day
  BY DEF TablesOK, Entry
<1>2. RowsAt(rows, "invoices", h) = C /\ RowsAt(rows, "projections", h) = C
  BY DEF RowsAt
<1>3. RowsAt(rows, "movements", h) = C \cup P
  BY DEF RowsAt
<1>4. RowsAt(rows, "answered", h) = (C \cup P) \cup M
  BY DEF RowsAt
<1>5. RowsWhere("movement", {"Completado"}) = RowSet(C)
  BY DEF RowsWhere, RowSet
<1>6. GetPendingProjections(h) = RowSet(P)
  <2>1. \A r \in Row : rows[r].status \in {"Pendiente", "Completado"} <=> rows[r].status # "Anulado"
    BY <1>1
  <2> QED BY <2>1 DEF GetPendingProjections, Due, RowsWhere, RowSet
<1>7. GetPendingMovements(h) = RowSet(M)
  BY DEF GetPendingMovements, Due, RowsWhere, RowSet
<1>8. \A e \in RowSet(P) : e[2].flow = "projection" /\ e[2].day <= h /\ e[2] = rows[e[1]]
  BY DEF RowSet
<1>9. \A e \in RowSet(M) : e[2].flow = "movement" /\ e[2].day <= h /\ e[2] = rows[e[1]]
  BY DEF RowSet
<1>10. /\ C \in SUBSET Row /\ P \in SUBSET Row /\ M \in SUBSET Row
       /\ \A r \in C : rows[r].day \in Day /\ r \notin P
       /\ \A r \in P : rows[r].day \in Until(h)
       /\ \A r \in M : rows[r].day \in Until(h)
       /\ \A r \in C \cup P : r \notin M
  BY <1>1 DEF Until
<1> HIDE DEF C, P, M
<1>11. RowsOn(RowSet(C), Day) = RowTotal(C) /\ RowTotal(C) \in Int
  BY <1>10, RowSetValue, RowTotalFacts
<1>12. /\ RowSet(P) \subseteq Row \X Entry /\ IsFiniteSet(RowSet(P))
       /\ RowsOn(RowSet(P), Until(h)) = RowTotal(P)
  BY <1>10, RowSetValue
<1>13. /\ RowSet(M) \subseteq Row \X Entry /\ IsFiniteSet(RowSet(M))
       /\ RowsOn(RowSet(M), Until(h)) = RowTotal(M)
  BY <1>10, RowSetValue
<1>14. RowTotal(C \cup P) = RowTotal(C) + RowTotal(P)
  BY <1>10, RowTotalFacts
<1>15. RowTotal((C \cup P) \cup M) = RowTotal(C \cup P) + RowTotal(M)
  BY <1>10, RowTotalFacts
<1>16. GetCurrentBalance = RowTotal(C)
  BY <1>5, <1>11 DEF GetCurrentBalance
<1>17. GetCurrentBalance \in Int /\ GetCurrentBalance = RowTotal(RowsAt(rows, "invoices", h))
  BY <1>2, <1>11, <1>16
<1>18. RowTotal(RowsAt(rows, "movements", h))
         = RowTotal(RowsAt(rows, "projections", h)) + RowsOn(RowSet(P), Until(h))
  BY <1>2, <1>3, <1>12, <1>14
<1>19. RowTotal(RowsAt(rows, "answered", h))
         = RowTotal(RowsAt(rows, "movements", h)) + RowsOn(RowSet(M), Until(h))
  BY <1>3, <1>4, <1>13, <1>15
<1>20. QED
  BY <1>6, <1>7, <1>8, <1>9, <1>12, <1>13, <1>17, <1>18, <1>19, Zenon

\* At the end, the tables say what the estimate says.
LEMMA TablesAreEstimate ==
  ASSUME TablesOK, NEW h PROVE Tables("answered", h) = Estimate(h)
<1> DEFINE A == AddedBy(unpaid, annulled, agreed, h)
           D == [d \in Doc |-> IF d \in Doc THEN A[d] ELSE 0]
           R == [r \in Row |-> IF r \in RowsAt(rows, "answered", h) THEN Signed(r) ELSE 0]
           Adds(d) == IF unpaid[d] = 0 \/ d \in annulled THEN 0
                      ELSE DocOn(d, [balance |-> unpaid[d], agreed |-> agreed[d]],
                                 {day \in Day : day <= h})
           Counts(r) ==
             /\ rows[r].status # "Anulado"
             /\ \/ rows[r].flow = "movement" /\ rows[r].status = "Completado"
                \/ rows[r].day <= h
<1>1. D = [d \in Doc |-> Adds(d)]
  BY DEF AddedBy, Until
<1>2. \A r \in Row : r \in RowsAt(rows, "answered", h) <=> Counts(r)
  <2>1. \A r \in Row : /\ rows[r].flow \in {"movement", "projection"}
                       /\ rows[r].status \in {"Pendiente", "Completado", "Anulado"}
    BY DEF TablesOK, Entry
  <2> QED BY <2>1 DEF RowsAt
<1>3. R = [r \in Row |-> IF Counts(r) THEN Signed(r) ELSE 0]
  BY <1>2
<1>4. Estimate(h) = SumFunctionOnSet([d \in Doc |-> Adds(d)], Doc)
                    + SumFunctionOnSet([r \in Row |-> IF Counts(r) THEN Signed(r) ELSE 0], Row)
  BY Zenon DEF Estimate, SumOver
<1>5. Tables("answered", h) = SumFunctionOnSet(D, Doc) + SumFunctionOnSet(R, Row)
  <2>1. DocsAt("answered") = Doc
    BY DEF DocsAt
  <2> QED BY <2>1, Zenon DEF Tables, DocTotal, RowTotal
<1> HIDE DEF D, R, Adds, Counts
<1> QED BY <1>1, <1>3, <1>4, <1>5, Zenon

-----------------------------------------------------------------------------
(* A statement moves what a view has read as it moves what it should have *)

\* What a view has read is about the statements it has behind it.
ReadUpTo(g, s, h) ==
  /\ Sound(g)
  /\ s = "balance" => g = Nothing
  /\ DOMAIN g.docs \subseteq DocsAt(s)
  /\ s # "movements" => g.rows = {}
  /\ \A e \in g.rows : e[2].flow = "projection" /\ e[2].day <= h
  /\ \A e, f \in g.rows : e[1] = f[1] => e = f

\* How far it is from the tables.
Off(g, s, h) == Forecast(g, h) - Tables(s, h)

\* What the tables say of any statements is a number.
LEMMA TablesInt ==
  ASSUME TablesOK, NEW s, NEW h
  PROVE  /\ Tables(s, h) \in Int
         /\ \A S : DocTotal(AddedBy(unpaid, annulled, agreed, h), S) \in Int
         /\ \A S : RowTotal(S) \in Int
<1>1. \A d \in Doc : AddedBy(unpaid, annulled, agreed, h)[d] \in Int
  BY AddedBounds DEF TablesOK
<1>2. \A S : DocTotal(AddedBy(unpaid, annulled, agreed, h), S) \in Int
  BY <1>1, DocTotalFacts
<1> QED BY <1>2, RowTotalFacts DEF Tables

\* Nothing has been read, and nothing adds up to nothing.
LEMMA NothingSound ==
  /\ Sound(Nothing) /\ \A h : Forecast(Nothing, h) = 0
  /\ \A docs, D : DOMAIN docs = {} => DocsOn(docs, D) = 0
  /\ \A D : RowsOn({}, D) = 0
<1>1. ASSUME NEW docs, NEW D, DOMAIN docs = {} PROVE DocsOn(docs, D) = 0
  BY <1>1, SumEmpty DEF DocsOn, SumOver
<1>2. ASSUME NEW D PROVE RowsOn({}, D) = 0
  BY SumEmpty DEF RowsOn, SumOver
<1>3. DOMAIN Nothing.docs = {} /\ Nothing.rows = {} /\ Nothing.balance = 0
  BY DEF Nothing
<1>4. \A h : Forecast(Nothing, h) = 0
  <2> TAKE h
  <2>1. DocsOn(Nothing.docs, Until(h)) = 0 /\ RowsOn(Nothing.rows, Until(h)) = 0
    BY <1>1, <1>2, <1>3, Zenon
  <2> QED BY <1>3, <2>1 DEF Forecast
<1>5. Sound(Nothing)
  <2>1. Nothing.docs \in [DOMAIN Nothing.docs -> [balance : Nat, agreed : Day \cup {NoDay}]]
    BY DEF Nothing
  <2>2. Nothing = [balance |-> Nothing.balance, docs |-> Nothing.docs, rows |-> Nothing.rows]
    BY DEF Nothing
  <2>3. IsFiniteSet({})
    BY FS_EmptySet
  <2> QED BY <1>3, <2>1, <2>2, <2>3 DEF Sound, IsKnown
<1> QED BY <1>1, <1>2, <1>4, <1>5

\* The balance.
LEMMA BalanceStep ==
  ASSUME TablesOK, NEW h, NEW g, ReadUpTo(g, "balance", h)
  PROVE  LET new == [g EXCEPT !.balance = GetCurrentBalance] IN
         ReadUpTo(new, "invoices", h) /\ Off(new, "invoices", h) = Off(g, "balance", h)
<1> DEFINE new == [g EXCEPT !.balance = GetCurrentBalance]
           A == AddedBy(unpaid, annulled, agreed, h)
<1>1. g = Nothing
  BY DEF ReadUpTo
<1>2. new = [balance |-> GetCurrentBalance, docs |-> <<>>, rows |-> {}]
  <2>1. \A x : [Nothing EXCEPT !.balance = x] = [balance |-> x, docs |-> <<>>, rows |-> {}]
    BY DEF Nothing
  <2> QED BY <1>1, <2>1, Zenon
<1>3. GetCurrentBalance \in Int /\ GetCurrentBalance = RowTotal(RowsAt(rows, "invoices", h))
  BY RowStatements
<1>4. /\ new.balance = GetCurrentBalance /\ new.docs = <<>> /\ new.rows = {}
      /\ new = [balance |-> new.balance, docs |-> new.docs, rows |-> new.rows]
  BY <1>2
<1> HIDE DEF new
<1>5. Sound(new) /\ DOMAIN new.docs = {}
  <2>1. new.docs \in [DOMAIN new.docs -> [balance : Nat, agreed : Day \cup {NoDay}]]
        /\ DOMAIN new.docs = {}
    BY <1>4
  <2> QED BY <1>3, <1>4, <2>1, FS_EmptySet DEF Sound, IsKnown
<1>6. Forecast(new, h) = RowTotal(RowsAt(rows, "invoices", h))
  BY <1>3, <1>4, <1>5, NothingSound DEF Forecast
<1>7. Forecast(g, h) = 0
  BY <1>1, NothingSound
<1>8. /\ DocsAt("balance") = {} /\ DocsAt("invoices") = {} /\ RowsAt(rows, "balance", h) = {}
  BY DEF DocsAt, RowsAt
<1>9. DocTotal(A, {}) = 0 /\ RowTotal({}) = 0
  <2>1. \A d \in Doc : A[d] \in Int
    BY AddedBounds DEF TablesOK
  <2> HIDE DEF A
  <2> QED BY <2>1, DocTotalFacts, RowTotalFacts
<1>10. Tables("balance", h) = 0 /\ Tables("invoices", h) = RowTotal(RowsAt(rows, "invoices", h))
  <2>1. Tables("balance", h) = DocTotal(A, {}) + RowTotal({})
    BY <1>8, Zenon DEF Tables
  <2>2. Tables("invoices", h) = DocTotal(A, {}) + RowTotal(RowsAt(rows, "invoices", h))
    BY <1>8, Zenon DEF Tables
  <2> HIDE DEF A
  <2> QED BY <1>3, <1>9, <2>1, <2>2
<1>11. Off(new, "invoices", h) = Off(g, "balance", h)
  BY <1>3, <1>6, <1>7, <1>10 DEF Off
<1>12. ReadUpTo(new, "invoices", h)
  BY <1>4, <1>5 DEF ReadUpTo
<1> QED BY <1>11, <1>12 DEF new

\* The invoices.
LEMMA InvoicesStep ==
  ASSUME TablesOK, NEW h, NEW g, ReadUpTo(g, "invoices", h)
  PROVE  LET new == [g EXCEPT !.docs = OpenDocs(Invoice)] IN
         ReadUpTo(new, "purchases", h) /\ Off(new, "purchases", h) = Off(g, "invoices", h)
<1> DEFINE new == [g EXCEPT !.docs = OpenDocs(Invoice)]
           A == AddedBy(unpaid, annulled, agreed, h)
           O == OpenDocs(Invoice)
<1>1. /\ g = [balance |-> g.balance, docs |-> g.docs, rows |-> g.rows] /\ Sound(g)
      /\ g.rows = {} /\ DOMAIN g.docs = {} /\ g.balance \in Int
  BY DEF ReadUpTo, Sound, IsKnown, DocsAt
<1>2. /\ new.balance = g.balance /\ new.docs = O /\ new.rows = g.rows
      /\ new = [balance |-> new.balance, docs |-> new.docs, rows |-> new.rows]
  <2> HIDE DEF O
  <2>1. new = [balance |-> g.balance, docs |-> O, rows |-> g.rows]
    BY <1>1 DEF O
  <2> QED BY <2>1
<1>3. /\ Owed(O) /\ DOMAIN O \subseteq Invoice
      /\ \A d \in DOMAIN O : O[d] \in [balance : Nat, agreed : Day \cup {NoDay}]
      /\ DocsOn(O, Until(h)) = DocTotal(A, Invoice)
  <2>1. Invoice \in SUBSET Doc
    BY DEF Doc
  <2> QED BY <2>1, OpenDocsValue
<1>4. O = [d \in DOMAIN O |-> O[d]]
  BY DEF OpenDocs
<1> HIDE DEF new, O
<1>5. Sound(new)
  BY <1>1, <1>2, <1>3, <1>4 DEF Sound, IsKnown, Owed
<1>6. ReadUpTo(new, "purchases", h)
  BY <1>1, <1>2, <1>3, <1>5 DEF ReadUpTo, DocsAt
<1>7. Forecast(g, h) = g.balance
  <2>1. DocsOn(g.docs, Until(h)) = 0 /\ RowsOn(g.rows, Until(h)) = 0
    BY <1>1, NothingSound, Zenon
  <2> QED BY <1>1, <2>1 DEF Forecast
<1>8. Forecast(new, h) = g.balance + DocTotal(A, Invoice)
  <2>1. DocTotal(A, Invoice) \in Int /\ RowsOn({}, Until(h)) = 0
    BY TablesInt, NothingSound
  <2> QED BY <1>1, <1>2, <1>3, <2>1 DEF Forecast
<1>9. /\ DocsAt("invoices") = {} /\ DocsAt("purchases") = Invoice
      /\ RowsAt(rows, "invoices", h) = RowsAt(rows, "purchases", h)
  BY DEF DocsAt, RowsAt
<1>10. DocTotal(A, {}) = 0 /\ DocTotal(A, Invoice) \in Int
       /\ RowTotal(RowsAt(rows, "purchases", h)) \in Int
  <2>1. \A d \in Doc : A[d] \in Int
    BY AddedBounds DEF TablesOK
  <2> HIDE DEF A
  <2> QED BY <2>1, DocTotalFacts, RowTotalFacts
<1>11. Tables("purchases", h) = Tables("invoices", h) + DocTotal(A, Invoice)
       /\ Tables("invoices", h) \in Int
  BY <1>9, <1>10 DEF Tables
<1>12. Off(new, "purchases", h) = Off(g, "invoices", h)
  BY <1>1, <1>7, <1>8, <1>10, <1>11 DEF Off
<1> QED BY <1>6, <1>12 DEF new

\* The purchases.
LEMMA PurchasesStep ==
  ASSUME TablesOK, NEW h, NEW g, ReadUpTo(g, "purchases", h)
  PROVE  LET new == [g EXCEPT !.docs =
                       [d \in DOMAIN @ \cup DOMAIN OpenDocs(Purchase) |->
                          IF d \in Purchase THEN OpenDocs(Purchase)[d] ELSE @[d]]]
         IN  ReadUpTo(new, "projections", h) /\ Off(new, "projections", h) = Off(g, "purchases", h)
<1> DEFINE O == OpenDocs(Purchase)
           J == [d \in DOMAIN g.docs \cup DOMAIN O |-> IF d \in Purchase THEN O[d] ELSE g.docs[d]]
           new == [g EXCEPT !.docs = J]
           A == AddedBy(unpaid, annulled, agreed, h)
           U == Until(h)
<1>1. /\ g = [balance |-> g.balance, docs |-> g.docs, rows |-> g.rows] /\ Sound(g)
      /\ g.rows = {} /\ DOMAIN g.docs \subseteq Invoice /\ g.balance \in Int
      /\ g.docs \in [DOMAIN g.docs -> [balance : Nat, agreed : Day \cup {NoDay}]]
      /\ Owed(g.docs)
  BY SoundFields DEF ReadUpTo, Sound, IsKnown, DocsAt
<1>2. /\ new.balance = g.balance /\ new.docs = J /\ new.rows = g.rows
      /\ new = [balance |-> new.balance, docs |-> new.docs, rows |-> new.rows]
  <2>1. \A x : [g EXCEPT !.docs = x] = [balance |-> g.balance, docs |-> x, rows |-> g.rows]
    BY <1>1
  <2> HIDE DEF J
  <2>2. new = [balance |-> g.balance, docs |-> J, rows |-> g.rows]
    BY <2>1, Zenon
  <2> QED BY <2>2
<1>3. /\ Owed(O) /\ DOMAIN O \subseteq Purchase
      /\ \A d \in DOMAIN O : O[d] \in [balance : Nat, agreed : Day \cup {NoDay}]
      /\ DocsOn(O, U) = DocTotal(A, Purchase)
  <2>1. Purchase \in SUBSET Doc
    BY DEF Doc
  <2> QED BY <2>1, OpenDocsValue
<1>4. U \in SUBSET Day
  BY DEF Until
<1> HIDE DEF O, A, U
<1>5. /\ DOMAIN J = DOMAIN g.docs \cup DOMAIN O
      /\ \A d \in DOMAIN g.docs : J[d] = g.docs[d] /\ d \notin DOMAIN O
      /\ \A d \in DOMAIN O : J[d] = O[d]
  BY <1>1, <1>3, KindAssumption
<1>6. /\ \A d \in DOMAIN J : J[d] \in [balance : Nat, agreed : Day \cup {NoDay}]
      /\ J = [d \in DOMAIN J |-> J[d]]
  <2>1. \A d \in DOMAIN g.docs \cup DOMAIN O : J[d] \in [balance : Nat, agreed : Day \cup {NoDay}]
    <3> HIDE DEF J
    <3> QED BY <1>1, <1>3, <1>5
  <2> QED BY <2>1
<1> HIDE DEF J
<1>7. DOMAIN J \subseteq Doc
  BY <1>1, <1>3, <1>5 DEF Doc
<1>8. Owed(J)
  BY <1>6, <1>7 DEF Owed
<1>9. DocsOn(J, U) = DocsOn(g.docs, U) + DocsOn(O, U)
  BY <1>1, <1>3, <1>4, <1>5, <1>8, DocsTwoParts
<1> HIDE DEF new
<1>10. Sound(new)
  BY <1>1, <1>2, <1>6, <1>7 DEF Sound, IsKnown
<1>11. ReadUpTo(new, "projections", h)
  BY <1>1, <1>2, <1>7, <1>10 DEF ReadUpTo, DocsAt
<1>12. /\ Forecast(new, h) = Forecast(g, h) + DocTotal(A, Purchase)
       /\ Forecast(g, h) \in Int /\ DocTotal(A, Purchase) \in Int
  <2>1. Forecast(g, h) \in Int /\ DocsOn(g.docs, U) \in Int /\ RowsOn(g.rows, U) \in Int
    BY <1>1, ForecastInt DEF U
  <2>2. DocTotal(A, Purchase) \in Int
    BY TablesInt DEF A
  <2> QED BY <1>1, <1>2, <1>3, <1>9, <2>1, <2>2 DEF Forecast, U
<1>13. /\ DocsAt("projections") = Doc /\ DocsAt("purchases") = Invoice
       /\ RowsAt(rows, "projections", h) = RowsAt(rows, "purchases", h)
  BY DEF DocsAt, RowsAt
<1>14. /\ DocTotal(A, Doc) = DocTotal(A, Invoice) + DocTotal(A, Purchase)
       /\ DocTotal(A, Invoice) \in Int /\ RowTotal(RowsAt(rows, "purchases", h)) \in Int
  <2>1. \A d \in Doc : A[d] \in Int
    BY AddedBounds DEF TablesOK, A
  <2> QED BY <2>1, DocTotalFacts, RowTotalFacts
<1>15. Tables("projections", h) = Tables("purchases", h) + DocTotal(A, Purchase)
       /\ Tables("purchases", h) \in Int
  BY <1>12, <1>13, <1>14 DEF Tables, A
<1>16. Off(new, "projections", h) = Off(g, "purchases", h)
  BY <1>12, <1>15 DEF Off
<1> QED BY <1>11, <1>16 DEF new, J, O

\* The projections.
LEMMA ProjectionsStep ==
  ASSUME TablesOK, NEW h, NEW g, ReadUpTo(g, "projections", h)
  PROVE  LET new == [g EXCEPT !.rows = GetPendingProjections(h)] IN
         ReadUpTo(new, "movements", h) /\ Off(new, "movements", h) = Off(g, "projections", h)
<1> DEFINE P == GetPendingProjections(h)
           new == [g EXCEPT !.rows = P]
           A == AddedBy(unpaid, annulled, agreed, h)
           U == Until(h)
<1>1. /\ g = [balance |-> g.balance, docs |-> g.docs, rows |-> g.rows] /\ Sound(g)
      /\ g.rows = {} /\ DOMAIN g.docs \subseteq Doc /\ g.balance \in Int
      /\ g.docs \in [DOMAIN g.docs -> [balance : Nat, agreed : Day \cup {NoDay}]]
  BY DEF ReadUpTo, Sound, IsKnown, DocsAt
<1>2. /\ P \subseteq Row \X Entry /\ IsFiniteSet(P)
      /\ \A e \in P : e[2].flow = "projection" /\ e[2].day <= h /\ e[2] = rows[e[1]]
      /\ RowTotal(RowsAt(rows, "movements", h))
           = RowTotal(RowsAt(rows, "projections", h)) + RowsOn(P, U)
  BY RowStatements
<1> HIDE DEF P
<1>3. /\ new.balance = g.balance /\ new.docs = g.docs /\ new.rows = P
      /\ new = [balance |-> new.balance, docs |-> new.docs, rows |-> new.rows]
  <2>1. \A x : [g EXCEPT !.rows = x] = [balance |-> g.balance, docs |-> g.docs, rows |-> x]
    BY <1>1
  <2>2. new = [balance |-> g.balance, docs |-> g.docs, rows |-> P]
    BY <2>1, Zenon
  <2> QED BY <2>2
<1>4. \A e, f \in P : e[1] = f[1] => e = f
  <2> TAKE e \in P
  <2> TAKE f \in P
  <2> HAVE e[1] = f[1]
  <2>1. e \in Row \X Entry /\ f \in Row \X Entry /\ e[2] = f[2]
    BY <1>2
  <2> QED BY <2>1
<1> HIDE DEF new, A, U
<1>5. Sound(new)
  BY <1>1, <1>2, <1>3 DEF Sound, IsKnown
<1>6. ReadUpTo(new, "movements", h)
  BY <1>1, <1>2, <1>3, <1>4, <1>5 DEF ReadUpTo, DocsAt
<1>7. /\ Forecast(new, h) = Forecast(g, h) + RowsOn(P, U) /\ RowsOn(P, U) \in Int
      /\ Forecast(g, h) \in Int
  <2>1. DocsOn(g.docs, U) \in Int /\ Forecast(g, h) \in Int
    BY <1>1, ForecastInt DEF U
  <2>2. RowsOn(P, U) \in Int
    BY <1>3, <1>5, ForecastInt DEF U
  <2>3. RowsOn(g.rows, U) = 0
    BY <1>1, NothingSound, Zenon
  <2>4. Forecast(new, h) = g.balance + DocsOn(g.docs, U) + RowsOn(P, U)
    BY <1>3, Zenon DEF Forecast, U
  <2>5. Forecast(g, h) = g.balance + DocsOn(g.docs, U) + RowsOn(g.rows, U)
    BY DEF Forecast, U
  <2> QED BY <1>1, <2>1, <2>2, <2>3, <2>4, <2>5
<1>8. Tables("movements", h) = Tables("projections", h) + RowsOn(P, U)
      /\ Tables("projections", h) \in Int
  <2>1. DocsAt("projections") = Doc /\ DocsAt("movements") = Doc
    BY DEF DocsAt
  <2>2. /\ DocTotal(A, Doc) \in Int /\ RowTotal(RowsAt(rows, "projections", h)) \in Int
    BY TablesInt DEF A
  <2>3. /\ Tables("movements", h) = DocTotal(A, Doc) + RowTotal(RowsAt(rows, "movements", h))
        /\ Tables("projections", h) = DocTotal(A, Doc) + RowTotal(RowsAt(rows, "projections", h))
    BY <2>1 DEF Tables, A
  <2> QED BY <1>2, <1>7, <2>2, <2>3
<1>9. Off(new, "movements", h) = Off(g, "projections", h)
  BY <1>7, <1>8 DEF Off
<1> QED BY <1>6, <1>9 DEF new, P

\* The pending movements, and with them all that is answered from.
LEMMA MovementsStep ==
  ASSUME TablesOK, NEW h, NEW g, ReadUpTo(g, "movements", h)
  PROVE  LET new == [g EXCEPT !.rows = @ \cup GetPendingMovements(h)] IN
         /\ Sound(new) /\ \A e \in new.rows : e[2].day <= h
         /\ \A e, f \in new.rows : e[1] = f[1] /\ e[2].flow = f[2].flow => e = f
         /\ Forecast(new, h) - Estimate(h) = Off(g, "movements", h)
         /\ Estimate(h) \in Int
<1> DEFINE M == GetPendingMovements(h)
           J == g.rows \cup M
           new == [g EXCEPT !.rows = J]
           A == AddedBy(unpaid, annulled, agreed, h)
           U == Until(h)
<1>1. /\ g = [balance |-> g.balance, docs |-> g.docs, rows |-> g.rows] /\ Sound(g)
      /\ DOMAIN g.docs \subseteq Doc /\ g.balance \in Int
      /\ g.docs \in [DOMAIN g.docs -> [balance : Nat, agreed : Day \cup {NoDay}]]
      /\ g.rows \subseteq Row \X Entry /\ IsFiniteSet(g.rows)
      /\ \A e \in g.rows : e[2].flow = "projection" /\ e[2].day <= h
      /\ \A e, f \in g.rows : e[1] = f[1] => e = f
  BY DEF ReadUpTo, Sound, IsKnown, DocsAt
<1>2. /\ M \subseteq Row \X Entry /\ IsFiniteSet(M)
      /\ \A e \in M : e[2].flow = "movement" /\ e[2].day <= h /\ e[2] = rows[e[1]]
      /\ RowTotal(RowsAt(rows, "answered", h))
           = RowTotal(RowsAt(rows, "movements", h)) + RowsOn(M, U)
  BY RowStatements
<1> HIDE DEF M
<1>3. /\ new.balance = g.balance /\ new.docs = g.docs /\ new.rows = J
      /\ new = [balance |-> new.balance, docs |-> new.docs, rows |-> new.rows]
  <2>1. \A x : [g EXCEPT !.rows = x] = [balance |-> g.balance, docs |-> g.docs, rows |-> x]
    BY <1>1
  <2> HIDE DEF J
  <2>2. new = [balance |-> g.balance, docs |-> g.docs, rows |-> J]
    BY <2>1, Zenon
  <2> QED BY <2>2
<1>4. \A e, f \in J : e[1] = f[1] /\ e[2].flow = f[2].flow => e = f
  <2> TAKE e \in J
  <2> TAKE f \in J
  <2> HAVE e[1] = f[1] /\ e[2].flow = f[2].flow
  <2>1. CASE e \in g.rows
    <3>1. f \in g.rows
      BY <1>1, <1>2, <2>1
    <3> QED BY <1>1, <2>1, <3>1
  <2>2. CASE e \in M
    <3>1. f \in M
      BY <1>1, <1>2, <2>2
    <3>2. e \in Row \X Entry /\ f \in Row \X Entry /\ e[2] = f[2]
      BY <1>2, <2>2, <3>1
    <3> QED BY <3>2
  <2> QED BY <2>1, <2>2
<1>5. /\ J \subseteq Row \X Entry /\ IsFiniteSet(J) /\ \A e \in J : e[2].day <= h
      /\ \A e \in g.rows : e \notin M
  BY <1>1, <1>2, FS_Union
<1>6. RowsOn(J, U) = RowsOn(g.rows, U) + RowsOn(M, U)
  BY <1>1, <1>2, <1>5, RowsTwoParts
<1> HIDE DEF new, A, U, J
<1>7. Sound(new)
  BY <1>1, <1>3, <1>5 DEF Sound, IsKnown
<1>8. /\ Forecast(new, h) = Forecast(g, h) + RowsOn(M, U) /\ RowsOn(M, U) \in Int
      /\ Forecast(g, h) \in Int
  <2>1. DocsOn(g.docs, U) \in Int /\ Forecast(g, h) \in Int /\ RowsOn(g.rows, U) \in Int
    BY <1>1, ForecastInt DEF U
  <2>2. RowsOn(M, U) \in Int
    BY <1>2, RowsFinite
  <2>4. Forecast(new, h) = g.balance + DocsOn(g.docs, U) + RowsOn(J, U)
    BY <1>3, Zenon DEF Forecast, U
  <2>5. Forecast(g, h) = g.balance + DocsOn(g.docs, U) + RowsOn(g.rows, U)
    BY DEF Forecast, U
  <2> QED BY <1>1, <1>6, <2>1, <2>2, <2>4, <2>5
<1>9. Tables("answered", h) = Tables("movements", h) + RowsOn(M, U)
      /\ Tables("movements", h) \in Int
  <2>1. DocsAt("answered") = Doc /\ DocsAt("movements") = Doc
    BY DEF DocsAt
  <2>2. /\ DocTotal(A, Doc) \in Int /\ RowTotal(RowsAt(rows, "movements", h)) \in Int
    BY TablesInt DEF A
  <2>3. /\ Tables("movements", h) = DocTotal(A, Doc) + RowTotal(RowsAt(rows, "movements", h))
        /\ Tables("answered", h) = DocTotal(A, Doc) + RowTotal(RowsAt(rows, "answered", h))
    BY <2>1 DEF Tables, A
  <2> QED BY <1>2, <1>8, <2>2, <2>3
<1>10. Tables("answered", h) = Estimate(h)
  BY TablesAreEstimate
<1>11. Forecast(new, h) - Estimate(h) = Off(g, "movements", h) /\ Estimate(h) \in Int
  BY <1>8, <1>9, <1>10 DEF Off
<1> QED BY <1>3, <1>4, <1>5, <1>7, <1>11 DEF new, J, M

-----------------------------------------------------------------------------
(* The inductive invariant *)

\* What a view holds is what the statements behind it returned.
ReadsSound ==
  \A v \in View :
    /\ Reading(v) => ReadUpTo(got[v], at[v], asof[v] + days[v])
    /\ ~Reading(v) => got[v] = Nothing
    /\ v = "cashflow" => days[v] = Month

\* It is as far from the tables as was written since the view started.
ReadsClose ==
  \A v \in View : Reading(v) =>
    LET off == Off(got[v], at[v], asof[v] + days[v]) IN
    -shaken[v] <= off /\ off <= shaken[v]

\* A view nothing was written under answers what the tables say, until they change.
ReadsDated ==
  \A v \in View :
    /\ version[v] <= changes
    /\ Reading(v) /\ version[v] # Torn => version[v] = changes /\ shaken[v] = 0
    /\ at[v] = "idle" => shaken[v] = 0
    /\ at[v] = "answered" /\ version[v] = changes
         => reply[v].estimate = Estimate(asof[v] + days[v])

\* The days a view looks at are numbers.
LEMMA HorizonInt ==
  ASSUME TypeOK, NEW v \in View
  PROVE  /\ asof[v] \in Nat /\ days[v] \in Nat /\ asof[v] + days[v] \in Nat /\ shaken[v] \in Nat
         /\ version[v] \in Int /\ changes \in Nat
<1>1. asof[v] \in 0 .. LastDay /\ days[v] \in Horizon
  BY DEF TypeOK
<1>2. asof[v] \in Nat /\ days[v] \in Nat /\ LastDay \in Nat /\ MaxChanges \in Nat
  <2>1. LastDay \in Nat /\ MaxChanges \in Nat
    BY BoundAssumption
  <2>2. days[v] \in Nat
    BY <1>1, DateAssumption
  <2> QED BY <1>1, <2>1, <2>2
<1>3. shaken[v] \in Nat /\ version[v] \in Int /\ changes \in Nat
  BY <1>2 DEF TypeOK, Torn
<1> QED BY <1>2, <1>3

\* What a view answers, from the statements behind it.
LEMMA AnswerValue ==
  ASSUME TypeOK, ReadsSound, NEW v \in View, at[v] = "movements"
  PROVE  LET h == asof[v] + days[v]
             g == [got[v] EXCEPT !.rows = @ \cup GetPendingMovements(h)]
             r == IF v = "cashflow" THEN CashFlow(g, asof[v]) ELSE Projected(g, asof[v], days[v])
         IN  /\ Sound(g) /\ r \in Reply /\ r.estimate = Forecast(g, h)
             /\ \A e, f \in g.rows : e[1] = f[1] /\ e[2].flow = f[2].flow => e = f
             /\ r.estimate - Estimate(h) = Off(got[v], "movements", h)
             /\ Estimate(h) \in Int /\ r.estimate \in Int
<1> DEFINE h == asof[v] + days[v]
           g == [got[v] EXCEPT !.rows = @ \cup GetPendingMovements(h)]
           r == IF v = "cashflow" THEN CashFlow(g, asof[v]) ELSE Projected(g, asof[v], days[v])
<1>1. ReadUpTo(got[v], "movements", h)
  BY DEF ReadsSound, Reading
<1>2. /\ Sound(g) /\ \A e \in g.rows : e[2].day <= h
      /\ \A e, f \in g.rows : e[1] = f[1] /\ e[2].flow = f[2].flow => e = f
      /\ Forecast(g, h) - Estimate(h) = Off(got[v], "movements", h)
      /\ Estimate(h) \in Int
  <2>1. TablesOK
    BY TablesAreTyped
  <2> HIDE DEF h
  <2> QED BY <1>1, <2>1, MovementsStep
<1>3. asof[v] \in Nat /\ days[v] \in Nat
  BY HorizonInt
<1>4. v = "cashflow" => h = asof[v] + Month
  BY DEF ReadsSound
<1> HIDE DEF g
<1>5. r \in Reply /\ r.estimate = Forecast(g, h)
  <2>1. CASE v = "cashflow"
    <3>1. CashFlow(g, asof[v]) \in Reply /\ CashFlow(g, asof[v]).estimate = Forecast(g, asof[v] + Month)
      <4>1. \A e \in g.rows : e[2].day <= asof[v] + Month
        BY <1>2, <1>4, <2>1
      <4> QED BY <1>2, <1>3, <4>1, CashFlowValue
    <3> QED BY <1>4, <2>1, <3>1
  <2>2. CASE v # "cashflow"
    <3>1. LET q == Projected(g, asof[v], days[v]) IN
          q \in Reply /\ q.estimate = Forecast(g, asof[v] + days[v])
      BY <1>2, <1>3, ProjectedValue
    <3> QED BY <2>2, <3>1
  <2> QED BY <2>1, <2>2
<1>6. Forecast(g, h) \in Int
  BY <1>2, ForecastInt
<1> QED BY <1>2, <1>5, <1>6 DEF g

\* A write keeps the views where they are.
LEMMA WriteKeepsTypes ==
  ASSUME TypeOK, ReadsSound, NEW amount \in Nat, Write(amount)
  PROVE  /\ today' = today /\ changes' \in 0 .. MaxChanges
         /\ at' = at /\ asof' = asof /\ days' = days /\ got' = got /\ reply' = reply
         /\ shaken' \in [View -> Nat] /\ version' \in [View -> 0 .. MaxChanges \cup {Torn}]
         /\ ReadsSound'
<1>1. changes' \in 0 .. MaxChanges
  BY BoundAssumption DEF TypeOK, Write
<1>2. at' = at /\ asof' = asof /\ days' = days /\ got' = got /\ reply' = reply /\ today' = today
  BY DEF Write
<1>3. shaken' \in [View -> Nat]
  BY DEF TypeOK, Write
<1>4. version' \in [View -> 0 .. MaxChanges \cup {Torn}]
  BY DEF TypeOK, Write
<1>5. ReadsSound'
  BY <1>2 DEF ReadsSound, Reading
<1> QED BY <1>1, <1>2, <1>3, <1>4, <1>5

\* The amounts written are numbers.
LEMMA AmountsNat ==
  ASSUME TypeOK
  PROVE  /\ \A d \in Doc : \A b \in 0 .. Plan[d].total : Larger(unpaid[d], b) \in Nat /\ b \in Nat
         /\ \A d \in Doc : unpaid[d] \in Nat
         /\ \A r \in Row : Larger(Worth[r], -Worth[r]) \in Nat
<1>1. \A d \in Doc : Plan[d].total \in Nat /\ unpaid[d] \in 0 .. Plan[d].total
  BY PlanAssumption DEF TypeOK
<1>2. \A r \in Row : Worth[r] \in Int
  BY PlanAssumption
<1> QED BY <1>1, <1>2

\* One statement keeps the types, if what it returns is about its stage.
LEMMA ReadKeepsTypes ==
  ASSUME TypeOK, ReadsSound, NEW v \in View, NEW here \in Stage, NEW next \in Stage, NEW result,
         here \notin {"idle", "answered", "failed"}, next \notin {"idle", "answered", "failed"},
         Read(v, here, next, result), ReadUpTo(result, next, asof[v] + days[v])
  PROVE  TypeOK' /\ ReadsSound'
<1>1. /\ at[v] = here /\ at' = [at EXCEPT ![v] = next] /\ got' = [got EXCEPT ![v] = result]
      /\ today' = today /\ tables' = tables /\ asof' = asof /\ days' = days /\ reply' = reply
      /\ history' = history
  BY DEF Read
<1>2. at \in [View -> Stage] /\ DOMAIN got = View
  BY DEF TypeOK
<1>3. /\ at'[v] = next /\ \A w \in View : w # v => at'[w] = at[w] /\ got'[w] = got[w]
      /\ got'[v] = result /\ at' \in [View -> Stage] /\ DOMAIN got' = View
  BY <1>1, <1>2
<1>4. IsKnown(result)
  BY DEF ReadUpTo, Sound
<1>5. \A w \in View : IsKnown(got'[w])
  BY <1>3, <1>4 DEF TypeOK
<1>6. TypeOK'
  BY <1>1, <1>3, <1>5 DEF TypeOK, tables, history
<1>7. ASSUME NEW w \in View
      PROVE  /\ Reading(w)' => ReadUpTo(got'[w], at'[w], asof'[w] + days'[w])
             /\ ~Reading(w)' => got'[w] = Nothing
             /\ w = "cashflow" => days'[w] = Month
  <2>1. CASE w = v
    BY <1>1, <1>3, <2>1 DEF ReadsSound, Reading
  <2>2. CASE w # v
    BY <1>1, <1>3, <2>2 DEF ReadsSound, Reading
  <2> QED BY <2>1, <2>2
<1>8. ReadsSound'
  BY <1>7 DEF ReadsSound
<1> QED BY <1>6, <1>8

\* A view that ends lets go of what it has read.
LEMMA EndKeepsTypes ==
  ASSUME TypeOK, ReadsSound, NEW v \in View, NEW s \in {"answered", "failed"},
         at' = [at EXCEPT ![v] = s], got' = [got EXCEPT ![v] = Nothing],
         reply' \in [View -> Reply], UNCHANGED <<today, tables, asof, days, history>>
  PROVE  TypeOK' /\ ReadsSound'
<1>1. at \in [View -> Stage] /\ DOMAIN got = View /\ s \in Stage
  BY DEF TypeOK, Stage
<1>2. /\ at'[v] = s /\ \A w \in View : w # v => at'[w] = at[w] /\ got'[w] = got[w]
      /\ got'[v] = Nothing /\ at' \in [View -> Stage] /\ DOMAIN got' = View
  BY <1>1
<1>3. IsKnown(Nothing)
  BY NothingSound DEF Sound
<1>4. \A w \in View : IsKnown(got'[w])
  BY <1>2, <1>3 DEF TypeOK
<1>5. TypeOK'
  BY <1>2, <1>4 DEF TypeOK, tables, history
<1>6. ASSUME NEW w \in View
      PROVE  /\ Reading(w)' => ReadUpTo(got'[w], at'[w], asof'[w] + days'[w])
             /\ ~Reading(w)' => got'[w] = Nothing
             /\ w = "cashflow" => days'[w] = Month
  <2>1. CASE w = v
    BY <1>2, <2>1 DEF ReadsSound, Reading
  <2>2. CASE w # v
    BY <1>2, <2>2 DEF ReadsSound, Reading
  <2> QED BY <2>1, <2>2
<1>7. ReadsSound'
  BY <1>6 DEF ReadsSound
<1> QED BY <1>5, <1>7

\* Initially no view has read anything.
LEMMA InitSound == ASSUME Init PROVE TypeOK /\ ReadsSound
<1>1. /\ today \in 0 .. LastDay /\ changes \in 0 .. MaxChanges /\ Month \in Horizon /\ 0 \in 0 .. LastDay
      /\ 0 \in 0 .. MaxChanges
  BY BoundAssumption, DateAssumption DEF Init
<1>2. DOMAIN unpaid = Doc /\ \A d \in Doc : unpaid[d] \in 0 .. Plan[d].total
  <2>1. /\ unpaid \in [Doc -> UNION {1 .. Plan[d].total : d \in Doc}]
        /\ \A d \in Doc : unpaid[d] <= Plan[d].total
    BY DEF Init
  <2>2. \A d \in Doc : unpaid[d] \in Int /\ 1 <= unpaid[d] /\ Plan[d].total \in Nat
    <3> TAKE d \in Doc
    <3>1. unpaid[d] \in UNION {1 .. Plan[e].total : e \in Doc}
      BY <2>1
    <3>2. PICK e \in Doc : unpaid[d] \in 1 .. Plan[e].total
      BY <3>1
    <3>3. Plan[e].total \in Nat /\ Plan[d].total \in Nat
      BY PlanAssumption
    <3> QED BY <3>2, <3>3
  <2> QED BY <2>1, <2>2
<1>3. NoReply \in Reply
  BY DEF NoReply, Reply
<1>4. IsKnown(Nothing)
  BY NothingSound DEF Sound
<1>5. /\ annulled \subseteq Invoice /\ agreed \in [Doc -> Day \cup {NoDay}] /\ rows \in [Row -> Entry]
      /\ at \in [View -> Stage] /\ asof \in [View -> 0 .. LastDay] /\ days \in [View -> Horizon]
      /\ shaken \in [View -> Nat] /\ version \in [View -> 0 .. MaxChanges \cup {Torn}]
  BY <1>1 DEF Init, Stage
<1>6. DOMAIN got = View /\ (\A v \in View : IsKnown(got[v])) /\ reply \in [View -> Reply]
  BY <1>3, <1>4 DEF Init
<1>7. TypeOK
  BY <1>1, <1>2, <1>5, <1>6 DEF TypeOK
<1>8. ReadsSound
  BY DEF Init, ReadsSound, Reading
<1> QED BY <1>7, <1>8

\* Each step keeps the types, and what the views hold about their statements.
LEMMA StepSound == ASSUME TypeOK, ReadsSound, [Next]_vars PROVE TypeOK' /\ ReadsSound'
<1>0. TablesOK
  BY TablesAreTyped
<1>1. ASSUME NEW d \in Doc, SyncDocument(d) PROVE TypeOK' /\ ReadsSound'
  <2>1. PICK b \in 0 .. Plan[d].total, A \in {annulled, annulled \cup {d}, annulled \ {d}} :
          /\ A \subseteq Invoice /\ Write(Larger(unpaid[d], b))
          /\ unpaid' = [unpaid EXCEPT ![d] = b] /\ annulled' = A /\ UNCHANGED <<agreed, rows>>
    BY <1>1 DEF SyncDocument
  <2> DEFINE amount == Larger(unpaid[d], b)
  <2>2. amount \in Nat /\ b \in Nat
    BY AmountsNat
  <2> HIDE DEF amount
  <2>3. Write(amount)
    BY <2>1 DEF amount
  <2>4. /\ today' = today /\ changes' \in 0 .. MaxChanges
        /\ at' = at /\ asof' = asof /\ days' = days /\ got' = got /\ reply' = reply
        /\ shaken' \in [View -> Nat] /\ version' \in [View -> 0 .. MaxChanges \cup {Torn}]
        /\ ReadsSound'
    BY <2>2, <2>3, WriteKeepsTypes
  <2>5. DOMAIN unpaid' = Doc /\ \A x \in Doc : unpaid'[x] \in 0 .. Plan[x].total
    BY <2>1 DEF TypeOK
  <2> QED BY <2>1, <2>4, <2>5 DEF TypeOK
<1>2. ASSUME NEW d \in Doc, Agree(d) PROVE TypeOK' /\ ReadsSound'
  <2>1. PICK day \in Day \cup {NoDay} :
          /\ Write(unpaid[d]) /\ agreed' = [agreed EXCEPT ![d] = day]
          /\ UNCHANGED <<unpaid, annulled, rows>>
    BY <1>2 DEF Agree
  <2>2. unpaid[d] \in Nat
    BY AmountsNat
  <2>3. /\ today' = today /\ changes' \in 0 .. MaxChanges
        /\ at' = at /\ asof' = asof /\ days' = days /\ got' = got /\ reply' = reply
        /\ shaken' \in [View -> Nat] /\ version' \in [View -> 0 .. MaxChanges \cup {Torn}]
        /\ ReadsSound'
    BY <2>1, <2>2, WriteKeepsTypes
  <2>4. agreed' \in [Doc -> Day \cup {NoDay}]
    BY <2>1 DEF TypeOK
  <2> QED BY <2>1, <2>3, <2>4 DEF TypeOK
<1>3. ASSUME NEW r \in Row, WriteRow(r) PROVE TypeOK' /\ ReadsSound'
  <2>1. PICK e \in Entry :
          /\ Write(Larger(Worth[r], -Worth[r])) /\ rows' = [rows EXCEPT ![r] = e]
          /\ UNCHANGED <<unpaid, annulled, agreed>>
    BY <1>3 DEF WriteRow
  <2> DEFINE amount == Larger(Worth[r], -Worth[r])
  <2>2. amount \in Nat
    BY AmountsNat
  <2> HIDE DEF amount
  <2>3. Write(amount)
    BY <2>1 DEF amount
  <2>4. /\ today' = today /\ changes' \in 0 .. MaxChanges
        /\ at' = at /\ asof' = asof /\ days' = days /\ got' = got /\ reply' = reply
        /\ shaken' \in [View -> Nat] /\ version' \in [View -> 0 .. MaxChanges \cup {Torn}]
        /\ ReadsSound'
    BY <2>2, <2>3, WriteKeepsTypes
  <2>5. rows' \in [Row -> Entry]
    BY <2>1 DEF TypeOK
  <2> QED BY <2>1, <2>4, <2>5 DEF TypeOK
<1>4. ASSUME NextDay PROVE TypeOK' /\ ReadsSound'
  <2>1. today' \in 0 .. LastDay
    BY <1>4, BoundAssumption DEF NextDay, TypeOK
  <2> QED BY <1>4, <2>1 DEF NextDay, TypeOK, tables, history, ReadsSound, Reading
<1>5. ASSUME NEW v \in View, Start(v) PROVE TypeOK' /\ ReadsSound'
  <2>1. PICK n \in IF v = "cashflow" THEN {Month} ELSE Horizon : days' = [days EXCEPT ![v] = n]
    BY <1>5 DEF Start
  <2>2. /\ at[v] = "idle" /\ asof' = [asof EXCEPT ![v] = today] /\ at' = [at EXCEPT ![v] = "balance"]
        /\ version' = [version EXCEPT ![v] = changes] /\ UNCHANGED <<today, tables, got, reply, shaken>>
    BY <1>5 DEF Start
  <2>3. /\ days' \in [View -> Horizon] /\ at' \in [View -> Stage] /\ asof' \in [View -> 0 .. LastDay]
        /\ version' \in [View -> 0 .. MaxChanges \cup {Torn}]
        /\ at'[v] = "balance" /\ days'[v] = n
        /\ \A w \in View : w # v => at'[w] = at[w] /\ asof'[w] = asof[w] /\ days'[w] = days[w]
    BY <2>1, <2>2, DateAssumption DEF TypeOK, Stage
  <2>4. TypeOK'
    BY <2>2, <2>3 DEF TypeOK, tables
  <2>5. got' = got /\ got[v] = Nothing /\ ReadUpTo(Nothing, "balance", asof'[v] + days'[v])
    BY <2>2, NothingSound DEF ReadsSound, Reading, ReadUpTo, Nothing
  <2>6. ASSUME NEW w \in View
        PROVE  /\ Reading(w)' => ReadUpTo(got'[w], at'[w], asof'[w] + days'[w])
               /\ ~Reading(w)' => got'[w] = Nothing
               /\ w = "cashflow" => days'[w] = Month
    <3>1. CASE w = v
      BY <2>1, <2>3, <2>5, <3>1 DEF Reading
    <3>2. CASE w # v
      BY <2>3, <2>5, <3>2 DEF ReadsSound, Reading
    <3> QED BY <3>1, <3>2
  <2> QED BY <2>4, <2>6 DEF ReadsSound
<1>6. ASSUME NEW v \in View, ReadBalance(v) PROVE TypeOK' /\ ReadsSound'
  <2> DEFINE new == [got[v] EXCEPT !.balance = GetCurrentBalance]
  <2>1. Read(v, "balance", "invoices", new)
    BY <1>6 DEF ReadBalance
  <2>2. ReadUpTo(got[v], "balance", asof[v] + days[v])
    BY <2>1 DEF ReadsSound, Reading, Read
  <2>3. ReadUpTo(new, "invoices", asof[v] + days[v])
    BY <1>0, <2>2, BalanceStep
  <2> HIDE DEF new
  <2> QED BY <2>1, <2>3, ReadKeepsTypes DEF Stage
<1>7. ASSUME NEW v \in View, ReadInvoices(v) PROVE TypeOK' /\ ReadsSound'
  <2> DEFINE new == [got[v] EXCEPT !.docs = OpenDocs(Invoice)]
  <2>1. Read(v, "invoices", "purchases", new)
    BY <1>7 DEF ReadInvoices
  <2>2. ReadUpTo(got[v], "invoices", asof[v] + days[v])
    BY <2>1 DEF ReadsSound, Reading, Read
  <2>3. ReadUpTo(new, "purchases", asof[v] + days[v])
    BY <1>0, <2>2, InvoicesStep
  <2> HIDE DEF new
  <2> QED BY <2>1, <2>3, ReadKeepsTypes DEF Stage
<1>8. ASSUME NEW v \in View, ReadPurchases(v) PROVE TypeOK' /\ ReadsSound'
  <2> DEFINE new == [got[v] EXCEPT !.docs =
                       [d \in DOMAIN @ \cup DOMAIN OpenDocs(Purchase) |->
                          IF d \in Purchase THEN OpenDocs(Purchase)[d] ELSE @[d]]]
  <2>1. Read(v, "purchases", "projections", new)
    BY <1>8 DEF ReadPurchases
  <2>2. ReadUpTo(got[v], "purchases", asof[v] + days[v])
    BY <2>1 DEF ReadsSound, Reading, Read
  <2>3. ReadUpTo(new, "projections", asof[v] + days[v])
    BY <1>0, <2>2, PurchasesStep
  <2> HIDE DEF new
  <2> QED BY <2>1, <2>3, ReadKeepsTypes DEF Stage
<1>9. ASSUME NEW v \in View, ReadProjections(v) PROVE TypeOK' /\ ReadsSound'
  <2> DEFINE new == [got[v] EXCEPT !.rows = GetPendingProjections(asof[v] + days[v])]
  <2>1. Read(v, "projections", "movements", new)
    BY <1>9 DEF ReadProjections
  <2>2. ReadUpTo(got[v], "projections", asof[v] + days[v])
    BY <2>1 DEF ReadsSound, Reading, Read
  <2>3. ReadUpTo(new, "movements", asof[v] + days[v])
    BY <1>0, <2>2, ProjectionsStep
  <2> HIDE DEF new
  <2> QED BY <2>1, <2>3, ReadKeepsTypes DEF Stage
<1>10. ASSUME NEW v \in View, Answer(v) PROVE TypeOK' /\ ReadsSound'
  <2> DEFINE g == [got[v] EXCEPT !.rows = @ \cup GetPendingMovements(asof[v] + days[v])]
             r == IF v = "cashflow" THEN CashFlow(g, asof[v]) ELSE Projected(g, asof[v], days[v])
  <2>1. /\ at[v] = "movements" /\ at' = [at EXCEPT ![v] = "answered"]
        /\ reply' = [reply EXCEPT ![v] = r] /\ got' = [got EXCEPT ![v] = Nothing]
        /\ UNCHANGED <<today, tables, asof, days, history>>
    BY <1>10 DEF Answer
  <2>2. r \in Reply
    BY <2>1, AnswerValue
  <2> HIDE DEF r
  <2>3. reply' \in [View -> Reply]
    BY <2>1, <2>2 DEF TypeOK
  <2> QED BY <2>1, <2>3, EndKeepsTypes
<1>11. ASSUME NEW v \in View, Fail(v) PROVE TypeOK' /\ ReadsSound'
  <2>1. /\ at' = [at EXCEPT ![v] = "failed"] /\ got' = [got EXCEPT ![v] = Nothing]
        /\ UNCHANGED <<today, tables, asof, days, reply, history>>
    BY <1>11 DEF Fail
  <2>2. reply' \in [View -> Reply]
    BY <2>1 DEF TypeOK
  <2> QED BY <2>1, <2>2, EndKeepsTypes
<1>12. CASE UNCHANGED vars
  BY <1>12 DEF vars, TypeOK, tables, history, ReadsSound, Reading
<1> QED BY <1>1, <1>2, <1>3, <1>4, <1>5, <1>6, <1>7, <1>8, <1>9, <1>10, <1>11, <1>12 DEF Next

\* Every value has its type: balances stay within their documents, what a view
\* has read is about rows and documents there are, and an answer is made of
\* numbers, whatever the views read and whoever writes meanwhile.
THEOREM ProjectionTypesHold == Spec => []TypeOK
<1>1. TypeOK /\ ReadsSound /\ [Next]_vars => TypeOK' /\ ReadsSound'
  BY StepSound
<1>2. Init => TypeOK /\ ReadsSound
  BY InitSound
<1> QED BY <1>1, <1>2, PTL DEF Spec

-----------------------------------------------------------------------------
(* How far a write moves the tables *)

\* A write to a document moves what documents add by no more than its balance,
\* the old one or the new one.
LEMMA DocWriteMoves ==
  ASSUME NEW U, NEW N, NEW G, NEW V, NEW M, NEW H, NEW h, NEW S, NEW x \in Doc,
         \A d \in Doc : U[d] \in Nat /\ G[d] \in Day \cup {NoDay}
                        /\ V[d] \in Nat /\ H[d] \in Day \cup {NoDay},
         \A d \in Doc : d # x => U[d] = V[d] /\ (d \in N <=> d \in M) /\ G[d] = H[d],
         NEW amount \in Nat, U[x] <= amount, V[x] <= amount
  PROVE  /\ DocTotal(AddedBy(V, M, H, h), S) - DocTotal(AddedBy(U, N, G, h), S) <= amount
         /\ DocTotal(AddedBy(U, N, G, h), S) - DocTotal(AddedBy(V, M, H, h), S) <= amount
         /\ DocTotal(AddedBy(V, M, H, h), S) \in Int
<1> DEFINE A == AddedBy(U, N, G, h)
           B == AddedBy(V, M, H, h)
<1>1. \A d \in Doc : A[d] \in Int /\ B[d] \in Int
  BY AddedBounds
<1>2. \A d \in Doc : d # x => A[d] = B[d]
  BY DEF AddedBy
<1>3. A[x] - B[x] <= amount /\ B[x] - A[x] <= amount
  <2>1. /\ x \in Invoice => 0 <= A[x] /\ A[x] <= U[x]
        /\ x \notin Invoice => -U[x] <= A[x] /\ A[x] <= 0
    BY AddedBounds
  <2>2. /\ x \in Invoice => 0 <= B[x] /\ B[x] <= V[x]
        /\ x \notin Invoice => -V[x] <= B[x] /\ B[x] <= 0
    BY AddedBounds
  <2>3. A[x] \in Int /\ B[x] \in Int /\ U[x] \in Nat /\ V[x] \in Nat
    BY <1>1
  <2> HIDE DEF A, B
  <2> QED BY <2>1, <2>2, <2>3
<1> HIDE DEF A, B
<1>4. DocTotal(A, S) - DocTotal(B, S) <= amount /\ DocTotal(B, S) - DocTotal(A, S) <= amount
  BY <1>1, <1>2, <1>3, DocTotalChange
<1>5. DocTotal(B, S) \in Int
  BY <1>1, DocTotalFacts
<1> QED BY <1>4, <1>5 DEF A, B

\* Each writer moves what the tables say by no more than the amount it writes,
\* whichever statements and days are asked about.
LEMMA WritersMove ==
  ASSUME TypeOK, TypeOK',
         \/ \E d \in Doc : SyncDocument(d) \/ Agree(d)
         \/ \E r \in Row : WriteRow(r)
  PROVE  \E amount \in Nat :
           /\ Write(amount)
           /\ \A s, h : /\ Tables(s, h)' - Tables(s, h) <= amount
                        /\ Tables(s, h) - Tables(s, h)' <= amount
                        /\ Tables(s, h)' \in Int
<1>0. TablesOK /\ TablesOK'
  <2>1. TablesOK
    BY TablesAreTyped
  <2>2. TablesOK'
    BY TablesAreTyped, PTL
  <2> QED BY <2>1, <2>2
<1>1. ASSUME NEW x \in Doc, NEW amount \in Nat, unpaid[x] <= amount, unpaid'[x] <= amount, rows' = rows,
             \A d \in Doc : d # x =>
               unpaid[d] = unpaid'[d] /\ (d \in annulled <=> d \in annulled') /\ agreed[d] = agreed'[d],
             NEW s, NEW h
      PROVE  /\ Tables(s, h)' - Tables(s, h) <= amount /\ Tables(s, h) - Tables(s, h)' <= amount
             /\ Tables(s, h)' \in Int
  <2> DEFINE A == DocTotal(AddedBy(unpaid, annulled, agreed, h), DocsAt(s))
             B == DocTotal(AddedBy(unpaid', annulled', agreed', h), DocsAt(s))
             R == RowTotal(RowsAt(rows, s, h))
  <2>1. Tables(s, h) = A + R /\ Tables(s, h)' = B + R
    BY <1>1 DEF Tables
  <2>2. \A d \in Doc : /\ unpaid[d] \in Nat /\ agreed[d] \in Day \cup {NoDay}
                       /\ unpaid'[d] \in Nat /\ agreed'[d] \in Day \cup {NoDay}
    BY <1>0 DEF TablesOK
  <2>3. B - A <= amount /\ A - B <= amount /\ B \in Int
    BY <1>1, <2>2, DocWriteMoves
  <2>4. A \in Int /\ R \in Int
    BY <1>0, TablesInt
  <2> HIDE DEF A, B, R
  <2> QED BY <2>1, <2>3, <2>4
<1>2. ASSUME NEW d \in Doc, SyncDocument(d)
      PROVE  \E amount \in Nat : /\ Write(amount)
               /\ \A s, h : /\ Tables(s, h)' - Tables(s, h) <= amount
                            /\ Tables(s, h) - Tables(s, h)' <= amount /\ Tables(s, h)' \in Int
  <2>1. PICK b \in 0 .. Plan[d].total, A \in {annulled, annulled \cup {d}, annulled \ {d}} :
          /\ Write(Larger(unpaid[d], b))
          /\ unpaid' = [unpaid EXCEPT ![d] = b] /\ annulled' = A /\ UNCHANGED <<agreed, rows>>
    BY <1>2 DEF SyncDocument
  <2> DEFINE amount == Larger(unpaid[d], b)
  <2>2. amount \in Nat /\ b \in Nat /\ unpaid[d] \in Nat
    BY AmountsNat
  <2>3. unpaid[d] <= amount /\ b <= amount
    BY <2>2
  <2> HIDE DEF amount
  <2>4. /\ unpaid'[d] = b /\ rows' = rows
        /\ \A x \in Doc : x # d =>
             unpaid[x] = unpaid'[x] /\ (x \in annulled <=> x \in annulled') /\ agreed[x] = agreed'[x]
    BY <2>1 DEF TypeOK
  <2>5. \A s, h : /\ Tables(s, h)' - Tables(s, h) <= amount
                  /\ Tables(s, h) - Tables(s, h)' <= amount /\ Tables(s, h)' \in Int
    BY <1>1, <2>2, <2>3, <2>4
  <2> QED BY <2>1, <2>2, <2>5 DEF amount
<1>3. ASSUME NEW d \in Doc, Agree(d)
      PROVE  \E amount \in Nat : /\ Write(amount)
               /\ \A s, h : /\ Tables(s, h)' - Tables(s, h) <= amount
                            /\ Tables(s, h) - Tables(s, h)' <= amount /\ Tables(s, h)' \in Int
  <2>1. PICK day \in Day \cup {NoDay} :
          /\ Write(unpaid[d]) /\ agreed' = [agreed EXCEPT ![d] = day]
          /\ UNCHANGED <<unpaid, annulled, rows>>
    BY <1>3 DEF Agree
  <2>2. unpaid[d] \in Nat /\ unpaid[d] <= unpaid[d]
    BY AmountsNat
  <2>3. /\ unpaid'[d] = unpaid[d] /\ rows' = rows
        /\ \A x \in Doc : x # d =>
             unpaid[x] = unpaid'[x] /\ (x \in annulled <=> x \in annulled') /\ agreed[x] = agreed'[x]
    BY <2>1 DEF TypeOK
  <2>4. \A s, h : /\ Tables(s, h)' - Tables(s, h) <= unpaid[d]
                  /\ Tables(s, h) - Tables(s, h)' <= unpaid[d] /\ Tables(s, h)' \in Int
    BY <1>1, <2>2, <2>3
  <2> QED BY <2>1, <2>2, <2>4
<1>4. ASSUME NEW r \in Row, WriteRow(r)
      PROVE  \E amount \in Nat : /\ Write(amount)
               /\ \A s, h : /\ Tables(s, h)' - Tables(s, h) <= amount
                            /\ Tables(s, h) - Tables(s, h)' <= amount /\ Tables(s, h)' \in Int
  <2>1. PICK e \in Entry :
          /\ Write(Larger(Worth[r], -Worth[r])) /\ rows' = [rows EXCEPT ![r] = e]
          /\ UNCHANGED <<unpaid, annulled, agreed>>
    BY <1>4 DEF WriteRow
  <2> DEFINE amount == Larger(Worth[r], -Worth[r])
  <2>2. amount \in Nat
    BY AmountsNat
  <2>3. ASSUME NEW s, NEW h
        PROVE  /\ Tables(s, h)' - Tables(s, h) <= amount /\ Tables(s, h) - Tables(s, h)' <= amount
               /\ Tables(s, h)' \in Int
    <3> DEFINE A == DocTotal(AddedBy(unpaid, annulled, agreed, h), DocsAt(s))
               R == RowTotal(RowsAt(rows, s, h))
               Q == RowTotal(RowsAt(rows', s, h))
    <3>1. Tables(s, h) = A + R /\ Tables(s, h)' = A + Q
      BY <2>1 DEF Tables
    <3>2. \A x \in Row : x # r => (x \in RowsAt(rows, s, h) <=> x \in RowsAt(rows', s, h))
      <4>1. \A x \in Row : x # r => rows'[x] = rows[x]
        BY <2>1 DEF TypeOK
      <4> QED BY <4>1 DEF RowsAt
    <3>3. R - Q <= amount /\ Q - R <= amount
      BY <3>2, RowTotalChange
    <3>4. A \in Int /\ R \in Int /\ Q \in Int
      BY <1>0, TablesInt
    <3> HIDE DEF A, R, Q, amount
    <3> QED BY <2>2, <3>1, <3>3, <3>4
  <2> HIDE DEF amount
  <2>4. Write(amount)
    BY <2>1 DEF amount
  <2> QED BY <2>2, <2>3, <2>4
<1> QED BY <1>2, <1>3, <1>4

-----------------------------------------------------------------------------
(* How far a view is from the tables *)

\* The tables as a function of the columns, so that two states compare.
TablesOf(U, N, G, R, s, h) == DocTotal(AddedBy(U, N, G, h), DocsAt(s)) + RowTotal(RowsAt(R, s, h))

\* A write moves a view away from the tables by no more than its amount.
LEMMA WriteKeepsClose ==
  ASSUME TypeOK, TypeOK', ReadsSound, ReadsClose,
         \/ \E d \in Doc : SyncDocument(d) \/ Agree(d)
         \/ \E r \in Row : WriteRow(r)
  PROVE  ReadsClose'
<1>1. PICK amount \in Nat :
        /\ Write(amount)
        /\ \A s, h : /\ Tables(s, h)' - Tables(s, h) <= amount
                     /\ Tables(s, h) - Tables(s, h)' <= amount
                     /\ Tables(s, h)' \in Int
  BY WritersMove
<1>2. /\ at' = at /\ asof' = asof /\ days' = days /\ got' = got
      /\ shaken' = [v \in View |-> IF Reading(v) THEN shaken[v] + amount ELSE shaken[v]]
  BY <1>1 DEF Write
<1>3. ASSUME NEW v \in View, Reading(v)'
      PROVE  -shaken'[v] <= Off(got[v], at[v], asof[v] + days[v])'
             /\ Off(got[v], at[v], asof[v] + days[v])' <= shaken'[v]
  <2> DEFINE h == asof[v] + days[v]
             F == Forecast(got[v], h)
             S == TablesOf(unpaid, annulled, agreed, rows, at[v], h)
             T == TablesOf(unpaid', annulled', agreed', rows', at[v], h)
  <2>1. Reading(v)
    BY <1>2, <1>3 DEF Reading
  <2>2. F \in Int /\ S \in Int /\ T \in Int /\ T - S <= amount /\ S - T <= amount
    <3>1. ReadUpTo(got[v], at[v], h)
      BY <2>1 DEF ReadsSound
    <3>2. F \in Int
      BY <3>1, ForecastInt DEF ReadUpTo
    <3>3. TablesOK
      BY TablesAreTyped
    <3>4. S \in Int
      BY <3>3, TablesInt DEF Tables, TablesOf
    <3>5. T - S <= amount /\ S - T <= amount /\ T \in Int
      BY <1>1 DEF Tables, TablesOf
    <3> QED BY <3>2, <3>4, <3>5
  <2>3. -shaken[v] <= F - S /\ F - S <= shaken[v]
    BY <2>1 DEF ReadsClose, Off, Tables, TablesOf
  <2>4. Off(got[v], at[v], h)' = F - T
    BY <1>2 DEF Off, Forecast, Tables, TablesOf
  <2>5. shaken'[v] = shaken[v] + amount /\ shaken[v] \in Nat
    BY <1>2, <2>1, HorizonInt
  <2> HIDE DEF F, S, T
  <2> QED BY <2>2, <2>3, <2>4, <2>5
<1> QED BY <1>3 DEF ReadsClose

\* A statement keeps the distance.
LEMMA ReadKeepsClose ==
  ASSUME TypeOK, ReadsClose, NEW v \in View, NEW here, NEW next, NEW result,
         here \notin {"idle", "answered", "failed"}, Read(v, here, next, result),
         LET h == asof[v] + days[v] IN Off(result, next, h) = Off(got[v], here, h)
  PROVE  ReadsClose'
<1>1. /\ at[v] = here /\ at' = [at EXCEPT ![v] = next] /\ got' = [got EXCEPT ![v] = result]
      /\ UNCHANGED <<tables, asof, days, history>>
  BY DEF Read
<1>2. /\ at'[v] = next /\ got'[v] = result
      /\ \A w \in View : w # v => at'[w] = at[w] /\ got'[w] = got[w]
  BY <1>1 DEF TypeOK
<1>3. unpaid' = unpaid /\ annulled' = annulled /\ agreed' = agreed /\ rows' = rows /\ asof' = asof
      /\ days' = days /\ shaken' = shaken
  BY <1>1 DEF tables, history
<1>4. ASSUME NEW w \in View, Reading(w)'
      PROVE  -shaken'[w] <= Off(got[w], at[w], asof[w] + days[w])'
             /\ Off(got[w], at[w], asof[w] + days[w])' <= shaken'[w]
  <2>1. Off(got[w], at[w], asof[w] + days[w])' = Off(got'[w], at'[w], asof[w] + days[w])
    BY <1>3 DEF Off, Forecast, Tables
  <2>2. CASE w = v
    <3>1. Reading(v)
      BY <1>1 DEF Reading
    <3>2. Off(got'[v], at'[v], asof[v] + days[v]) = Off(got[v], at[v], asof[v] + days[v])
      BY <1>1, <1>2
    <3>3. /\ -shaken[v] <= Off(got[v], at[v], asof[v] + days[v])
          /\ Off(got[v], at[v], asof[v] + days[v]) <= shaken[v]
      BY <3>1 DEF ReadsClose
    <3> QED BY <1>3, <2>1, <2>2, <3>2, <3>3
  <2>3. CASE w # v
    <3>1. Reading(w) /\ at'[w] = at[w] /\ got'[w] = got[w]
      BY <1>2, <1>4, <2>3 DEF Reading
    <3>2. /\ -shaken[w] <= Off(got[w], at[w], asof[w] + days[w])
          /\ Off(got[w], at[w], asof[w] + days[w]) <= shaken[w]
      BY <3>1 DEF ReadsClose
    <3> QED BY <1>3, <2>1, <3>1, <3>2
  <2> QED BY <2>2, <2>3
<1> QED BY <1>4 DEF ReadsClose

\* Where no view starts reading or goes on, the distances stay.
LEMMA RestKeepsClose ==
  ASSUME ReadsClose, UNCHANGED <<tables, history>>,
         \A w \in View : Reading(w)' =>
           /\ Reading(w) /\ at'[w] = at[w] /\ got'[w] = got[w]
           /\ asof'[w] = asof[w] /\ days'[w] = days[w]
  PROVE  ReadsClose'
<1>1. unpaid' = unpaid /\ annulled' = annulled /\ agreed' = agreed /\ rows' = rows /\ shaken' = shaken
  BY DEF tables, history
<1>2. ASSUME NEW w \in View, Reading(w)'
      PROVE  -shaken'[w] <= Off(got[w], at[w], asof[w] + days[w])'
             /\ Off(got[w], at[w], asof[w] + days[w])' <= shaken'[w]
  <2>1. Off(got[w], at[w], asof[w] + days[w])' = Off(got[w], at[w], asof[w] + days[w])
    BY <1>1, <1>2 DEF Off, Forecast, Tables
  <2>2. /\ -shaken[w] <= Off(got[w], at[w], asof[w] + days[w])
        /\ Off(got[w], at[w], asof[w] + days[w]) <= shaken[w]
    BY <1>2 DEF ReadsClose
  <2> QED BY <1>1, <2>1, <2>2
<1> QED BY <1>2 DEF ReadsClose

\* Each step keeps the distance within what was written.
LEMMA StepClose ==
  ASSUME TypeOK, TypeOK', ReadsSound, ReadsClose, [Next]_vars PROVE ReadsClose'
<1>0. TablesOK
  BY TablesAreTyped
<1>1. CASE (\E d \in Doc : SyncDocument(d) \/ Agree(d)) \/ \E r \in Row : WriteRow(r)
  BY <1>1, WriteKeepsClose
<1>2. CASE NextDay
  <2>1. UNCHANGED <<tables, at, asof, days, got, reply, history>>
    BY <1>2 DEF NextDay
  <2> QED BY <2>1, RestKeepsClose DEF Reading
<1>3. ASSUME NEW v \in View, Start(v) PROVE ReadsClose'
  <2>1. /\ at[v] = "idle" /\ asof' = [asof EXCEPT ![v] = today] /\ at' = [at EXCEPT ![v] = "balance"]
        /\ UNCHANGED <<tables, got, shaken>>
        /\ \E n \in IF v = "cashflow" THEN {Month} ELSE Horizon : days' = [days EXCEPT ![v] = n]
    BY <1>3 DEF Start
  <2>2. /\ at'[v] = "balance" /\ got'[v] = Nothing
        /\ \A w \in View : w # v => at'[w] = at[w] /\ asof'[w] = asof[w] /\ days'[w] = days[w]
        /\ got' = got /\ shaken' = shaken
        /\ unpaid' = unpaid /\ annulled' = annulled /\ agreed' = agreed /\ rows' = rows
    BY <2>1 DEF TypeOK, ReadsSound, Reading, tables
  <2>3. ASSUME NEW w \in View, Reading(w)'
        PROVE  -shaken'[w] <= Off(got[w], at[w], asof[w] + days[w])'
               /\ Off(got[w], at[w], asof[w] + days[w])' <= shaken'[w]
    <3>1. Off(got[w], at[w], asof[w] + days[w])' = Off(got'[w], at'[w], asof'[w] + days'[w])
      BY <2>2 DEF Off, Forecast, Tables
    <3>2. CASE w = v
      <4> DEFINE h == asof'[v] + days'[v]
                 A == AddedBy(unpaid, annulled, agreed, h)
      <4>1. Forecast(Nothing, h) = 0
        BY NothingSound
      <4>2. Tables("balance", h) = 0
        <5>1. DocsAt("balance") = {} /\ RowsAt(rows, "balance", h) = {}
          BY DEF DocsAt, RowsAt
        <5>2. \A d \in Doc : A[d] \in Int
          BY <1>0, AddedBounds DEF TablesOK
        <5>3. Tables("balance", h) = DocTotal(A, {}) + RowTotal({})
          BY <5>1, Zenon DEF Tables
        <5> HIDE DEF A
        <5> QED BY <5>2, <5>3, DocTotalFacts, RowTotalFacts
      <4>3. Off(got'[v], at'[v], h) = 0
        BY <2>2, <4>1, <4>2 DEF Off
      <4>4. shaken[v] \in Nat
        BY HorizonInt
      <4> QED BY <2>2, <3>1, <3>2, <4>3, <4>4
    <3>3. CASE w # v
      <4>1. Reading(w) /\ Off(got'[w], at'[w], asof'[w] + days'[w]) = Off(got[w], at[w], asof[w] + days[w])
        BY <2>2, <2>3, <3>3 DEF Reading
      <4>2. /\ -shaken[w] <= Off(got[w], at[w], asof[w] + days[w])
            /\ Off(got[w], at[w], asof[w] + days[w]) <= shaken[w]
        BY <4>1 DEF ReadsClose
      <4> QED BY <2>2, <3>1, <4>1, <4>2
    <3> QED BY <3>2, <3>3
  <2> QED BY <2>3 DEF ReadsClose
<1>4. ASSUME NEW v \in View, ReadBalance(v) PROVE ReadsClose'
  <2> DEFINE new == [got[v] EXCEPT !.balance = GetCurrentBalance]
             h == asof[v] + days[v]
  <2>1. Read(v, "balance", "invoices", new)
    BY <1>4 DEF ReadBalance
  <2>2. ReadUpTo(got[v], "balance", h)
    BY <2>1 DEF ReadsSound, Reading, Read
  <2>3. Off(new, "invoices", h) = Off(got[v], "balance", h)
    BY <1>0, <2>2, BalanceStep
  <2> HIDE DEF new
  <2> QED BY <2>1, <2>3, ReadKeepsClose
<1>5. ASSUME NEW v \in View, ReadInvoices(v) PROVE ReadsClose'
  <2> DEFINE new == [got[v] EXCEPT !.docs = OpenDocs(Invoice)]
             h == asof[v] + days[v]
  <2>1. Read(v, "invoices", "purchases", new)
    BY <1>5 DEF ReadInvoices
  <2>2. ReadUpTo(got[v], "invoices", h)
    BY <2>1 DEF ReadsSound, Reading, Read
  <2>3. Off(new, "purchases", h) = Off(got[v], "invoices", h)
    BY <1>0, <2>2, InvoicesStep
  <2> HIDE DEF new
  <2> QED BY <2>1, <2>3, ReadKeepsClose
<1>6. ASSUME NEW v \in View, ReadPurchases(v) PROVE ReadsClose'
  <2> DEFINE new == [got[v] EXCEPT !.docs =
                       [d \in DOMAIN @ \cup DOMAIN OpenDocs(Purchase) |->
                          IF d \in Purchase THEN OpenDocs(Purchase)[d] ELSE @[d]]]
             h == asof[v] + days[v]
  <2>1. Read(v, "purchases", "projections", new)
    BY <1>6 DEF ReadPurchases
  <2>2. ReadUpTo(got[v], "purchases", h)
    BY <2>1 DEF ReadsSound, Reading, Read
  <2>3. Off(new, "projections", h) = Off(got[v], "purchases", h)
    BY <1>0, <2>2, PurchasesStep
  <2> HIDE DEF new
  <2> QED BY <2>1, <2>3, ReadKeepsClose
<1>7. ASSUME NEW v \in View, ReadProjections(v) PROVE ReadsClose'
  <2> DEFINE h == asof[v] + days[v]
             new == [got[v] EXCEPT !.rows = GetPendingProjections(h)]
  <2>1. Read(v, "projections", "movements", new)
    BY <1>7 DEF ReadProjections
  <2>2. ReadUpTo(got[v], "projections", h)
    BY <2>1 DEF ReadsSound, Reading, Read
  <2>3. Off(new, "movements", h) = Off(got[v], "projections", h)
    BY <1>0, <2>2, ProjectionsStep
  <2> HIDE DEF new
  <2> QED BY <2>1, <2>3, ReadKeepsClose
<1>8. ASSUME NEW v \in View, Answer(v) \/ Fail(v) PROVE ReadsClose'
  <2>1. PICK s \in {"answered", "failed"} :
          /\ at' = [at EXCEPT ![v] = s] /\ got' = [got EXCEPT ![v] = Nothing]
          /\ UNCHANGED <<tables, asof, days, history>>
    BY <1>8 DEF Answer, Fail
  <2>2. ASSUME NEW w \in View, Reading(w)'
        PROVE  Reading(w) /\ at'[w] = at[w] /\ got'[w] = got[w]
    BY <2>1, <2>2 DEF TypeOK, Reading
  <2> QED BY <2>1, <2>2, RestKeepsClose
<1>9. CASE UNCHANGED vars
  <2>1. UNCHANGED <<tables, at, asof, days, got, history>>
    BY <1>9 DEF vars
  <2> QED BY <2>1, RestKeepsClose DEF Reading
<1> QED BY <1>1, <1>2, <1>3, <1>4, <1>5, <1>6, <1>7, <1>8, <1>9 DEF Next

\* A view has an answer because it had it, or because it answers now.
LEMMA WhoAnswers ==
  ASSUME TypeOK, [Next]_vars, NEW v \in View, at'[v] = "answered"
  PROVE  \/ /\ at[v] = "answered" /\ reply'[v] = reply[v]
            /\ asof'[v] = asof[v] /\ days'[v] = days[v] /\ version'[v] = version[v]
         \/ Answer(v)
<1>1. CASE (\E d \in Doc : SyncDocument(d) \/ Agree(d)) \/ \E r \in Row : WriteRow(r)
  <2>1. PICK amount : Write(amount)
    BY <1>1 DEF SyncDocument, Agree, WriteRow
  <2>2. at' = at /\ reply' = reply /\ asof' = asof /\ days' = days
        /\ version' = [w \in View |-> IF Reading(w) THEN Torn ELSE version[w]]
    BY <2>1 DEF Write
  <2> QED BY <2>2 DEF Reading
<1>2. CASE NextDay
  BY <1>2 DEF NextDay, history
<1>3. ASSUME NEW w \in View, Start(w)
      PROVE  at[v] = "answered" /\ reply'[v] = reply[v] /\ asof'[v] = asof[v] /\ days'[v] = days[v]
             /\ version'[v] = version[v]
  <2>1. at' = [at EXCEPT ![w] = "balance"] /\ asof' = [asof EXCEPT ![w] = today]
        /\ version' = [version EXCEPT ![w] = changes] /\ reply' = reply
        /\ \E n : days' = [days EXCEPT ![w] = n]
    BY <1>3 DEF Start
  <2>2. w # v
    BY <2>1 DEF TypeOK
  <2> QED BY <2>1, <2>2 DEF TypeOK
<1>4. ASSUME NEW w \in View,
             ReadBalance(w) \/ ReadInvoices(w) \/ ReadPurchases(w) \/ ReadProjections(w)
      PROVE  at[v] = "answered" /\ reply'[v] = reply[v] /\ asof'[v] = asof[v] /\ days'[v] = days[v]
             /\ version'[v] = version[v]
  <2>1. PICK next \in {"invoices", "purchases", "projections", "movements"} :
          /\ at' = [at EXCEPT ![w] = next] /\ UNCHANGED <<asof, days, reply, history>>
    BY <1>4 DEF ReadBalance, ReadInvoices, ReadPurchases, ReadProjections, Read
  <2>2. w # v
    BY <2>1 DEF TypeOK
  <2> QED BY <2>1, <2>2 DEF TypeOK, history
<1>5. ASSUME NEW w \in View, Answer(w), w # v
      PROVE  at[v] = "answered" /\ reply'[v] = reply[v] /\ asof'[v] = asof[v] /\ days'[v] = days[v]
             /\ version'[v] = version[v]
  <2>1. \E r : reply' = [reply EXCEPT ![w] = r]
    BY <1>5 DEF Answer
  <2>2. at' = [at EXCEPT ![w] = "answered"] /\ UNCHANGED <<asof, days, history>>
    BY <1>5 DEF Answer
  <2> QED BY <1>5, <2>1, <2>2 DEF TypeOK, history
<1>6. ASSUME NEW w \in View, Fail(w)
      PROVE  at[v] = "answered" /\ reply'[v] = reply[v] /\ asof'[v] = asof[v] /\ days'[v] = days[v]
             /\ version'[v] = version[v]
  <2>1. at' = [at EXCEPT ![w] = "failed"] /\ UNCHANGED <<asof, days, reply, history>>
    BY <1>6 DEF Fail
  <2>2. w # v
    BY <2>1 DEF TypeOK
  <2> QED BY <2>1, <2>2 DEF TypeOK, history
<1>7. CASE UNCHANGED vars
  BY <1>7 DEF vars, history
<1> QED BY <1>1, <1>2, <1>3, <1>4, <1>5, <1>6, <1>7 DEF Next

\* The reply of a view that answers.
LEMMA AnswerReply ==
  ASSUME TypeOK, ReadsSound, NEW v \in View, Answer(v)
  PROVE  LET h == asof[v] + days[v] IN
         /\ at[v] = "movements" /\ Reading(v)
         /\ UNCHANGED <<tables, asof, days, history>>
         /\ \E g : /\ Sound(g)
                   /\ \A e, f \in g.rows : e[1] = f[1] /\ e[2].flow = f[2].flow => e = f
                   /\ reply'[v] = IF v = "cashflow" THEN CashFlow(g, asof[v])
                                  ELSE Projected(g, asof[v], days[v])
         /\ reply'[v].estimate - Estimate(h) = Off(got[v], at[v], h)
         /\ reply'[v].estimate \in Int /\ Estimate(h) \in Int
<1> DEFINE h == asof[v] + days[v]
           g == [got[v] EXCEPT !.rows = @ \cup GetPendingMovements(h)]
           r == IF v = "cashflow" THEN CashFlow(g, asof[v]) ELSE Projected(g, asof[v], days[v])
<1>1. /\ at[v] = "movements" /\ reply' = [reply EXCEPT ![v] = r]
      /\ UNCHANGED <<tables, asof, days, history>>
  BY DEF Answer
<1>2. /\ Sound(g) /\ \A e, f \in g.rows : e[1] = f[1] /\ e[2].flow = f[2].flow => e = f
      /\ r.estimate - Estimate(h) = Off(got[v], "movements", h)
      /\ Estimate(h) \in Int /\ r.estimate \in Int
  BY <1>1, AnswerValue
<1>3. \E q : /\ Sound(q)
             /\ \A e, f \in q.rows : e[1] = f[1] /\ e[2].flow = f[2].flow => e = f
             /\ r = IF v = "cashflow" THEN CashFlow(q, asof[v]) ELSE Projected(q, asof[v], days[v])
  <2> HIDE DEF g
  <2> QED BY <1>2
<1> HIDE DEF r
<1>4. reply'[v] = r
  BY <1>1 DEF TypeOK
<1>5. Reading(v)
  BY <1>1 DEF Reading
<1> QED BY <1>1, <1>2, <1>3, <1>4, <1>5

\* What every step keeps: the types, what the views hold, how far they are.
ReadingInv == TypeOK /\ ReadsSound /\ ReadsClose

\* Together these are inductive.
LEMMA ReadingInvHolds == Spec => []ReadingInv
<1>1. Init => ReadingInv
  <2>1. Init => ReadsClose
    BY DEF Init, ReadsClose, Reading
  <2> QED BY <2>1, InitSound DEF ReadingInv
<1>2. ReadingInv /\ [Next]_vars => ReadingInv'
  BY StepSound, StepClose DEF ReadingInv
<1> QED BY <1>1, <1>2, PTL DEF Spec

\* An answer is off by no more than the money in what was written while it was
\* being computed, for any documents, rows and days: the distance that every
\* statement keeps and every write moves by its amount is what the answer has
\* (projections.go, cashflow.go).
THEOREM OffByWhatWasWrittenHolds == Spec => OffByWhatWasWritten
<1>1. ASSUME ReadingInv, [Next]_vars, NEW v \in View, at[v] # "answered", at'[v] = "answered"
      PROVE  LET off == reply'[v].estimate - Estimate(asof[v] + days[v]) IN
             Larger(off, -off) <= shaken[v]
  <2> DEFINE off == reply'[v].estimate - Estimate(asof[v] + days[v])
  <2>1. Answer(v)
    BY <1>1, WhoAnswers DEF ReadingInv
  <2>2. /\ Reading(v) /\ off = Off(got[v], at[v], asof[v] + days[v]) /\ off \in Int
    BY <1>1, <2>1, AnswerReply DEF ReadingInv
  <2>3. -shaken[v] <= off /\ off <= shaken[v]
    BY <1>1, <2>2 DEF ReadingInv, ReadsClose
  <2>4. shaken[v] \in Nat
    BY <1>1, HorizonInt DEF ReadingInv
  <2> HIDE DEF off
  <2>5. Larger(off, -off) <= shaken[v]
    BY <2>2, <2>3, <2>4
  <2> QED BY <2>5 DEF off
<1>2. ReadingInv /\ [Next]_vars =>
        [\A v \in View :
           at[v] # "answered" /\ at'[v] = "answered" =>
             LET off == reply'[v].estimate - Estimate(asof[v] + days[v]) IN
             Larger(off, -off) <= shaken[v]]_vars
  BY <1>1, Zenon
<1> QED BY <1>2, ReadingInvHolds, PTL DEF Spec, OffByWhatWasWritten

\* The chart ends at the estimate, for any horizon, plans and days: the last of
\* its points is the horizon, and the flows of the days up to it are projInc
\* less projExp (projections.go GetSummary).
THEOREM ChartEndsAtEstimateHolds == Spec => []ChartEndsAtEstimate
<1>1. Init => ChartEndsAtEstimate
  BY DEF Init, ChartEndsAtEstimate, View
<1>2. ReadingInv /\ ChartEndsAtEstimate /\ [Next]_vars => ChartEndsAtEstimate'
  <2> SUFFICES ASSUME ReadingInv, ChartEndsAtEstimate, [Next]_vars, at'["projections"] = "answered"
               PROVE  reply'["projections"].chart[8].balance - reply'["projections"].chart[8].deficit
                        = reply'["projections"].estimate
    BY DEF ChartEndsAtEstimate
  <2> DEFINE v == "projections"
  <2>1. v \in View
    BY DEF View
  <2>2. CASE at[v] = "answered" /\ reply'[v] = reply[v]
    BY <2>2 DEF ChartEndsAtEstimate
  <2>3. CASE Answer(v)
    <3>1. PICK g : Sound(g) /\ reply'[v] = Projected(g, asof[v], days[v])
      BY <2>1, <2>3, AnswerReply DEF ReadingInv
    <3>2. asof[v] \in Nat /\ days[v] \in Nat
      BY <2>1, HorizonInt DEF ReadingInv
    <3> HIDE DEF v
    <3>3. LET r == Projected(g, asof[v], days[v]) IN r.chart[8].balance - r.chart[8].deficit = r.estimate
      BY <3>1, <3>2, ProjectedValue
    <3> QED BY <3>1, <3>3 DEF v
  <2> QED BY <2>1, <2>2, <2>3, WhoAnswers DEF ReadingInv
<1> QED BY <1>1, <1>2, ReadingInvHolds, PTL DEF Spec

\* Nothing was written under a view that still has the version it started with,
\* and until the tables change they say what it answered.
LEMMA StepDated ==
  ASSUME ReadingInv, ReadingInv', ReadsDated, [Next]_vars PROVE ReadsDated'
<1>0. \A v \in View : version[v] \in Int /\ changes \in Nat /\ shaken[v] \in Nat
  BY HorizonInt DEF ReadingInv
<1>1. CASE (\E d \in Doc : SyncDocument(d) \/ Agree(d)) \/ \E r \in Row : WriteRow(r)
  <2>1. PICK amount : Write(amount)
    BY <1>1 DEF SyncDocument, Agree, WriteRow
  <2>2. /\ at' = at /\ changes' = changes + 1
        /\ shaken' = [v \in View |-> IF Reading(v) THEN shaken[v] + amount ELSE shaken[v]]
        /\ version' = [v \in View |-> IF Reading(v) THEN Torn ELSE version[v]]
    BY <2>1 DEF Write
  <2>3. ASSUME NEW v \in View
        PROVE  /\ version'[v] < changes'
               /\ Reading(v)' => version'[v] = Torn
               /\ at'[v] = "idle" => shaken'[v] = 0
    BY <1>0, <2>2 DEF ReadsDated, Reading, Torn
  <2>4. \A v \in View : version'[v] <= changes' /\ version'[v] # changes'
    BY <1>0, <2>2, <2>3 DEF Torn, Reading
  <2> QED BY <2>3, <2>4 DEF ReadsDated
<1>2. ASSUME tables' = tables, changes' = changes,
             \A v \in View :
               \/ /\ version'[v] = version[v] /\ shaken'[v] = shaken[v]
                  /\ Reading(v)' => Reading(v)
                  /\ at'[v] = "idle" => at[v] = "idle"
                  /\ at'[v] = "answered" =>
                       \/ /\ at[v] = "answered" /\ reply'[v] = reply[v]
                          /\ asof'[v] = asof[v] /\ days'[v] = days[v]
                       \/ Answer(v)
               \/ at[v] = "idle" /\ at'[v] = "balance" /\ version'[v] = changes /\ shaken'[v] = shaken[v]
      PROVE  ReadsDated'
  <2>1. ASSUME NEW h PROVE Estimate(h)' = Estimate(h)
    BY <1>2 DEF Estimate, tables
  <2>2. ASSUME NEW v \in View, at'[v] = "answered", version'[v] = changes'
        PROVE  reply'[v].estimate = Estimate(asof'[v] + days'[v])
    <3>1. version[v] = changes
      BY <1>2, <2>2
    <3>2. CASE at[v] = "answered" /\ reply'[v] = reply[v] /\ asof'[v] = asof[v] /\ days'[v] = days[v]
      BY <3>1, <3>2 DEF ReadsDated
    <3>3. CASE Answer(v)
      <4> DEFINE h == asof[v] + days[v]
      <4>1. /\ Reading(v) /\ reply'[v].estimate - Estimate(h) = Off(got[v], at[v], h)
            /\ reply'[v].estimate \in Int /\ Estimate(h) \in Int
            /\ asof'[v] = asof[v] /\ days'[v] = days[v]
        BY <3>3, AnswerReply DEF ReadingInv
      <4>2. shaken[v] = 0
        BY <1>0, <3>1, <4>1 DEF ReadsDated, Torn
      <4>3. /\ -shaken[v] <= Off(got[v], at[v], h) /\ Off(got[v], at[v], h) <= shaken[v]
        BY <4>1 DEF ReadingInv, ReadsClose
      <4> HIDE DEF h
      <4>4. reply'[v].estimate = Estimate(h)
        BY <4>1, <4>2, <4>3
      <4> QED BY <4>1, <4>4 DEF h
    <3> QED BY <1>2, <2>2, <3>2, <3>3
  <2>3. ASSUME NEW v \in View
        PROVE  /\ version'[v] <= changes'
               /\ Reading(v)' /\ version'[v] # Torn => version'[v] = changes' /\ shaken'[v] = 0
               /\ at'[v] = "idle" => shaken'[v] = 0
    BY <1>0, <1>2 DEF ReadsDated
  <2>4. \A v \in View : at'[v] = "answered" /\ version'[v] = changes'
          => reply'[v].estimate = Estimate(asof[v] + days[v])'
    <3> TAKE v \in View
    <3>1. Estimate(asof[v] + days[v])' = Estimate(asof'[v] + days'[v])
      BY <1>2 DEF Estimate, tables
    <3> QED BY <2>2, <3>1
  <2> QED BY <2>3, <2>4 DEF ReadsDated
<1>3. CASE NextDay \/ UNCHANGED vars
  <2>1. UNCHANGED <<tables, at, asof, days, got, reply, history>>
    BY <1>3 DEF NextDay, vars
  <2> QED BY <1>2, <2>1 DEF Reading, tables, history
<1>4. ASSUME NEW v \in View, Start(v) PROVE ReadsDated'
  <2>1. /\ at[v] = "idle" /\ at' = [at EXCEPT ![v] = "balance"] /\ asof' = [asof EXCEPT ![v] = today]
        /\ version' = [version EXCEPT ![v] = changes] /\ UNCHANGED <<tables, reply, shaken>>
        /\ \E n : days' = [days EXCEPT ![v] = n]
    BY <1>4 DEF Start
  <2>2. \A w \in View : w # v =>
          /\ version'[w] = version[w] /\ shaken'[w] = shaken[w] /\ at'[w] = at[w]
          /\ reply'[w] = reply[w] /\ asof'[w] = asof[w] /\ days'[w] = days[w]
    BY <2>1 DEF ReadingInv, TypeOK
  <2>3. at'[v] = "balance" /\ version'[v] = changes /\ shaken'[v] = shaken[v]
    BY <2>1 DEF ReadingInv, TypeOK
  <2>4. \A w \in View :
          \/ /\ version'[w] = version[w] /\ shaken'[w] = shaken[w]
             /\ Reading(w)' => Reading(w)
             /\ at'[w] = "idle" => at[w] = "idle"
             /\ at'[w] = "answered" =>
                  \/ /\ at[w] = "answered" /\ reply'[w] = reply[w]
                     /\ asof'[w] = asof[w] /\ days'[w] = days[w]
                  \/ Answer(w)
          \/ at[w] = "idle" /\ at'[w] = "balance" /\ version'[w] = changes /\ shaken'[w] = shaken[w]
    BY <2>1, <2>2, <2>3 DEF Reading
  <2> QED BY <1>2, <2>1, <2>4 DEF tables
<1>5. ASSUME NEW v \in View, NEW s, s # "idle",
             s \notin {"answered", "failed"} \/ s = "failed" \/ Answer(v), Reading(v),
             at' = [at EXCEPT ![v] = s], UNCHANGED <<tables, asof, days, history>>,
             \A w \in View : w # v => reply'[w] = reply[w]
      PROVE  ReadsDated'
  <2>1. at'[v] = s /\ \A w \in View : w # v => at'[w] = at[w]
    BY <1>5 DEF ReadingInv, TypeOK
  <2>2. \A w \in View :
          /\ version'[w] = version[w] /\ shaken'[w] = shaken[w]
          /\ Reading(w)' => Reading(w)
          /\ at'[w] = "idle" => at[w] = "idle"
          /\ at'[w] = "answered" =>
               \/ /\ at[w] = "answered" /\ reply'[w] = reply[w]
                  /\ asof'[w] = asof[w] /\ days'[w] = days[w]
               \/ Answer(w)
    BY <1>5, <2>1 DEF Reading, history
  <2> QED BY <1>2, <1>5, <2>2 DEF tables
<1>6. ASSUME NEW v \in View,
             ReadBalance(v) \/ ReadInvoices(v) \/ ReadPurchases(v) \/ ReadProjections(v)
      PROVE  ReadsDated'
  <2>1. PICK next \in {"invoices", "purchases", "projections", "movements"} :
          /\ at' = [at EXCEPT ![v] = next] /\ UNCHANGED <<tables, asof, days, reply, history>>
          /\ Reading(v)
    BY <1>6 DEF ReadBalance, ReadInvoices, ReadPurchases, ReadProjections, Read, Reading
  <2> QED BY <1>5, <2>1
<1>7. ASSUME NEW v \in View, Fail(v) PROVE ReadsDated'
  <2>1. /\ at' = [at EXCEPT ![v] = "failed"] /\ UNCHANGED <<tables, asof, days, reply, history>>
        /\ Reading(v)
    BY <1>7 DEF Fail
  <2> QED BY <1>5, <2>1
<1>8. ASSUME NEW v \in View, Answer(v) PROVE ReadsDated'
  <2>1. /\ at' = [at EXCEPT ![v] = "answered"] /\ UNCHANGED <<tables, asof, days, history>>
        /\ Reading(v)
    BY <1>8 DEF Answer, Reading
  <2>2. \E r : reply' = [reply EXCEPT ![v] = r]
    BY <1>8 DEF Answer
  <2>3. \A w \in View : w # v => reply'[w] = reply[w]
    BY <2>2 DEF ReadingInv, TypeOK
  <2> QED BY <1>5, <1>8, <2>1, <2>3
<1> QED BY <1>1, <1>3, <1>4, <1>6, <1>7, <1>8 DEF Next

\* Cash flow and projections agree for any tables: two views with one version
\* were both answered before the tables changed, so both say what the tables
\* said (cashflow.go, projections.go GetSummary).
THEOREM ViewsAgreeHolds == Spec => []ViewsAgree
<1>1. Init => ReadsDated /\ ViewsAgree
  BY DEF Init, ReadsDated, ViewsAgree, Reading, View
<1>2. ReadingInv /\ ReadingInv' /\ ReadsDated /\ ViewsAgree /\ [Next]_vars => ReadsDated' /\ ViewsAgree'
  <2> SUFFICES ASSUME ReadingInv, ReadingInv', ReadsDated, ViewsAgree, [Next]_vars
               PROVE  ReadsDated' /\ ViewsAgree'
    OBVIOUS
  <2>1. ReadsDated'
    BY StepDated
  <2>2. ASSUME \A v \in View : at'[v] = "answered" /\ version'[v] # Torn /\ days'[v] = Month,
               \A v, w \in View : version'[v] = version'[w] /\ asof'[v] = asof'[w]
        PROVE  reply'["projections"].estimate = reply'["cashflow"].estimate
    <3>0. "projections" \in View /\ "cashflow" \in View
      BY DEF View
    <3>1. \A v \in View :
            \/ /\ at[v] = "answered" /\ reply'[v] = reply[v]
               /\ asof'[v] = asof[v] /\ days'[v] = days[v] /\ version'[v] = version[v]
            \/ Answer(v)
      BY <2>2, WhoAnswers DEF ReadingInv
    <3>2. CASE \A v \in View :
                 /\ at[v] = "answered" /\ reply'[v] = reply[v]
                 /\ asof'[v] = asof[v] /\ days'[v] = days[v] /\ version'[v] = version[v]
      BY <2>2, <3>0, <3>2 DEF ViewsAgree
    <3>3. ASSUME NEW v \in View, Answer(v)
          PROVE  reply'["projections"].estimate = reply'["cashflow"].estimate
      <4>1. Reading(v) /\ version' = version /\ changes' = changes
        BY <3>3, AnswerReply DEF ReadingInv, history, tables
      <4>2. version'[v] = changes'
        BY <2>2, <4>1 DEF ReadsDated
      <4>3. \A w \in View : at'[w] = "answered" /\ version'[w] = changes'
        BY <2>2, <4>2
      <4>4. \A w \in View : reply'[w].estimate = Estimate(asof[w] + days[w])'
        BY <2>1, <4>3 DEF ReadsDated
      <4>5. \A w \in View : Estimate(asof[w] + days[w])' = Estimate(asof[v] + days[v])'
        <5> TAKE w \in View
        <5>1. asof'[w] = asof'[v] /\ days'[w] = days'[v]
          BY <2>2
        <5> QED BY <5>1 DEF Estimate
      <4> QED BY <3>0, <4>4, <4>5, Zenon
    <3> QED BY <3>1, <3>2, <3>3
  <2>3. ViewsAgree'
    BY <2>2 DEF ViewsAgree
  <2> QED BY <2>1, <2>3
<1> QED BY <1>1, <1>2, ReadingInvHolds, PTL DEF Spec

-----------------------------------------------------------------------------
(* What the alerts add up to *)

AmountOf(A) == [a \in A |-> a.amount]

\* A sum of opposites is the opposite of the sum.
LEMMA SumOpposite ==
  ASSUME NEW f, NEW g, NEW S, IsFiniteSet(S), \A y \in S : f[y] \in Int /\ g[y] = -f[y]
  PROVE  /\ SumFunctionOnSet(g, S) = -SumFunctionOnSet(f, S)
         /\ SumFunctionOnSet(f, S) \in Int
<1> DEFINE z == [y \in S |-> 0]
<1>1. \A y \in S : f[y] \in Int /\ g[y] \in Int /\ z[y] = f[y] + g[y] /\ z[y] = 0
  OBVIOUS
<1> HIDE DEF z
<1>2. SumFunctionOnSet(z, S) = SumFunctionOnSet(f, S) + SumFunctionOnSet(g, S)
  BY <1>1, SumPlus
<1>3. SumFunctionOnSet(z, S) = 0
  BY <1>1, SumZero
<1>4. SumFunctionOnSet(f, S) \in Int /\ SumFunctionOnSet(g, S) \in Int
  BY <1>1, SumInt
<1> QED BY <1>2, <1>3, <1>4

\* The lines about rows whose day is in D.
RowLines(read, D) == {RowAlert(e) : e \in {x \in read : x[2].day \in D}}
WorthOf(read, D)  == [e \in read |-> IF e[2].day \in D THEN Worth[e[1]] ELSE 0]

\* They add up to the amounts of the rows: no two rows give the same line.
LEMMA RowLinesAddUp ==
  ASSUME NEW read, read \subseteq Row \X Entry, IsFiniteSet(read), NEW D,
         \A e, f \in read : e[1] = f[1] /\ e[2].flow = f[2].flow => e = f
  PROVE  LET L == RowLines(read, D) IN
         /\ IsFiniteSet(L)
         /\ \A a \in L : a.amount \in Int /\ a.kind \in {"movement", "projection"}
         /\ SumFunctionOnSet(AmountOf(L), L) = SumFunctionOnSet(WorthOf(read, D), read)
         /\ \A e \in read : WorthOf(read, D)[e] \in Int
<1> DEFINE L == RowLines(read, D)
           E == {x \in read : x[2].day \in D}
           name == [e \in E |-> RowAlert(e)]
           w == WorthOf(read, D)
<1>1. IsFiniteSet(E) /\ E \subseteq read /\ L = ImageOf(name, E)
  <2>1. E \subseteq read
    OBVIOUS
  <2>2. L = ImageOf(name, E)
    BY DEF RowLines, ImageOf
  <2> QED BY <2>1, <2>2, FS_Subset
<1>2. \A e \in read : e[1] \in Row /\ e[2] \in Entry /\ Worth[e[1]] \in Int
  BY PlanAssumption
<1>3. \A e \in read : w[e] \in Int /\ (e \notin E => w[e] = 0) /\ (e \in E => w[e] = Worth[e[1]])
  BY <1>2 DEF WorthOf
<1>4. \A e \in E : /\ name[e] \in L /\ name[e] = RowAlert(e) /\ name[e].amount = Worth[e[1]]
                   /\ name[e].of = e[1] /\ name[e].kind = e[2].flow
  BY DEF RowAlert, RowLines
<1>5. \A e, f \in E : name[e] = name[f] => e = f
  BY <1>1, <1>4
<1>6. \A a \in L : a.amount \in Int /\ a.kind \in {"movement", "projection"}
  BY <1>2 DEF RowLines, RowAlert, Entry
<1> HIDE DEF L, E, name, w
<1>7. \A e \in E : w[e] \in Int /\ AmountOf(L)[name[e]] = w[e]
  BY <1>1, <1>3, <1>4 DEF AmountOf
<1>8. /\ IsFiniteSet(ImageOf(name, E))
      /\ SumFunctionOnSet(AmountOf(L), ImageOf(name, E)) = SumFunctionOnSet(w, E)
  <2> DEFINE g == AmountOf(L)
  <2>1. \A e \in E : w[e] \in Int /\ g[name[e]] = w[e]
    BY <1>7
  <2> HIDE DEF g
  <2>2. /\ IsFiniteSet(ImageOf(name, E))
        /\ SumFunctionOnSet(g, ImageOf(name, E)) = SumFunctionOnSet(w, E)
    BY <1>1, <1>5, <2>1, SumImage
  <2> QED BY <2>2 DEF g
<1>10. SumFunctionOnSet(w, read) = SumFunctionOnSet(w, E)
  BY <1>1, <1>3, SumDrop
<1>11. IsFiniteSet(L) /\ SumFunctionOnSet(AmountOf(L), L) = SumFunctionOnSet(w, read)
  BY <1>1, <1>8, <1>10, Zenon
<1> QED BY <1>3, <1>6, <1>11 DEF L, w

\* The lines about documents, a line per day of D with payments.
DocLine(docs, d, day) ==
  [of |-> d, kind |-> "document", day |-> day, comes |-> d \in Invoice,
   amount |-> ExpectedOn(Pending(d, docs[d]), day)]
PaidDays(docs, D) ==
  {p \in (DOMAIN docs) \X D : ExpectedOn(Pending(p[1], docs[p[1]]), p[2]) # 0}
DocLines(docs, D) == {DocLine(docs, p[1], p[2]) : p \in PaidDays(docs, D)}
PlacedOf(docs, D) == [d \in DOMAIN docs |-> PlacedOn(d, docs[d], D)]

\* They add up to what is placed of the documents on those days.
LEMMA DocLinesAddUp ==
  ASSUME NEW docs, Owed(docs), NEW D \in SUBSET Day
  PROVE  LET L == DocLines(docs, D) IN
         /\ IsFiniteSet(L)
         /\ \A a \in L : a.amount \in Int /\ a.kind = "document"
         /\ SumFunctionOnSet(AmountOf(L), L) = SumFunctionOnSet(PlacedOf(docs, D), DOMAIN docs)
         /\ \A d \in DOMAIN docs : PlacedOf(docs, D)[d] \in Int
<1> DEFINE L == DocLines(docs, D)
           K == DOMAIN docs
           All == K \X D
           P == PaidDays(docs, D)
           e == [p \in All |-> ExpectedOn(Pending(p[1], docs[p[1]]), p[2])]
           part == [p \in All |-> p[1]]
           name == [p \in All |-> DocLine(docs, p[1], p[2])]
<1>1. IsFiniteSet(K) /\ IsFiniteSet(D) /\ IsFiniteSet(All)
  <2>1. IsFiniteSet(K) /\ IsFiniteSet(D)
    BY KindAssumption, FS_Subset DEF Owed
  <2> HIDE DEF K
  <2> QED BY <2>1, FS_Product
<1>2. P \subseteq All /\ IsFiniteSet(P)
  <2>1. P \subseteq All
    BY DEF PaidDays
  <2> HIDE DEF P, All
  <2> QED BY <1>1, <2>1, FS_Subset
<1>3. \A d \in K : /\ PlacedOn(d, docs[d], D) \in Int
                   /\ \A day \in Day : ExpectedOn(Pending(d, docs[d]), day) \in Nat
  BY PlacedBounds DEF Owed
<1>4. \A d \in K, day \in D :
        /\ <<d, day>> \in All /\ e[<<d, day>>] = ExpectedOn(Pending(d, docs[d]), day)
        /\ e[<<d, day>>] \in Int /\ part[<<d, day>>] = d
  BY <1>3
<1>5. \A p \in All : /\ e[p] \in Int /\ part[p] \in K /\ (p \notin P => e[p] = 0)
                     /\ p = <<p[1], p[2]>> /\ part[p] = p[1] /\ p[2] \in D
  BY <1>3 DEF PaidDays
<1>6. \A p \in P : /\ name[p] = DocLine(docs, p[1], p[2]) /\ name[p].of = p[1] /\ name[p].day = p[2]
                   /\ name[p].amount = e[p] /\ name[p].kind = "document"
  BY <1>2 DEF DocLine
<1>7. L = ImageOf(name, P)
  <2>1. \A p \in P : name[p] = DocLine(docs, p[1], p[2])
    BY <1>6
  <2> HIDE DEF name
  <2> QED BY <2>1 DEF DocLines, ImageOf
<1>8. \A p \in P : name[p] \in L
  BY <1>7 DEF ImageOf
<1>9. \A d \in K : PlacedOn(d, docs[d], D)
                     = SumFunctionOnSet([day \in D |-> ExpectedOn(Pending(d, docs[d]), day)], D)
  BY DEF PlacedOn, SumOver
<1> HIDE DEF L, All, P, e, part, name, K
<1>10. \A p, q \in P : name[p] = name[q] => p = q
  BY <1>2, <1>5, <1>6
<1>11. \A p \in P : e[p] \in Int /\ AmountOf(L)[name[p]] = e[p]
  BY <1>2, <1>5, <1>6, <1>8 DEF AmountOf
<1>12. /\ IsFiniteSet(ImageOf(name, P))
       /\ SumFunctionOnSet(AmountOf(L), ImageOf(name, P)) = SumFunctionOnSet(e, P)
  <2> DEFINE g == AmountOf(L)
  <2>1. \A p \in P : e[p] \in Int /\ g[name[p]] = e[p]
    BY <1>11
  <2> HIDE DEF g
  <2>2. /\ IsFiniteSet(ImageOf(name, P))
        /\ SumFunctionOnSet(g, ImageOf(name, P)) = SumFunctionOnSet(e, P)
    BY <1>2, <1>10, <2>1, SumImage, SMTT(40)
  <2> QED BY <2>2 DEF g
<1>13. SumFunctionOnSet(e, All) = SumFunctionOnSet(e, P)
  BY <1>1, <1>2, <1>5, SumDrop
<1> DEFINE T == [d \in K |-> SumFunctionOnSet(e, {p \in All : part[p] = d})]
<1>14. SumFunctionOnSet(T, K) = SumFunctionOnSet(e, All)
  BY <1>1, <1>5, SumByParts
<1>15. ASSUME NEW d \in K
       PROVE  SumFunctionOnSet(e, {p \in All : part[p] = d}) = PlacedOn(d, docs[d], D)
  <2> DEFINE x == [day \in D |-> ExpectedOn(Pending(d, docs[d]), day)]
             tag == [day \in D |-> <<d, day>>]
  <2>1. {p \in All : part[p] = d} = ImageOf(tag, D)
    <3>1. \A p \in All : part[p] = d => p[2] \in D /\ p = tag[p[2]]
      BY <1>5
    <3>2. \A day \in D : tag[day] \in All /\ part[tag[day]] = d
      BY <1>4
    <3> HIDE DEF tag
    <3> QED BY <3>1, <3>2 DEF ImageOf
  <2>2. \A day \in D : x[day] \in Int /\ e[tag[day]] = x[day]
    BY <1>4
  <2>3. \A day, late \in D : tag[day] = tag[late] => day = late
    OBVIOUS
  <2>4. PlacedOn(d, docs[d], D) = SumFunctionOnSet(x, D)
    BY <1>9
  <2> HIDE DEF x, tag
  <2>5. SumFunctionOnSet(e, ImageOf(tag, D)) = SumFunctionOnSet(x, D)
    BY <1>1, <2>2, <2>3, SumImage
  <2> QED BY <2>1, <2>4, <2>5, Zenon
<1>16. \A d \in K : T[d] = PlacedOf(docs, D)[d] /\ T[d] \in Int /\ PlacedOf(docs, D)[d] \in Int
  BY <1>3, <1>15 DEF PlacedOf, K
<1> HIDE DEF T
<1>17. SumFunctionOnSet(T, K) = SumFunctionOnSet(PlacedOf(docs, D), K)
  BY <1>1, <1>16, SumSame
<1>18. IsFiniteSet(L) /\ SumFunctionOnSet(AmountOf(L), L) = SumFunctionOnSet(PlacedOf(docs, D), K)
  BY <1>7, <1>12, <1>13, <1>14, <1>17, Zenon
<1>19. \A a \in L : a.amount \in Int /\ a.kind = "document"
  BY <1>2, <1>5, <1>6, <1>7 DEF ImageOf
<1> QED BY <1>16, <1>18, <1>19 DEF L, K

\* Lines about documents and about rows are different lines, and add up.
LEMMA LinesAddUp ==
  ASSUME NEW docs, Owed(docs), NEW D \in SUBSET Day,
         NEW read, read \subseteq Row \X Entry, IsFiniteSet(read),
         \A e, f \in read : e[1] = f[1] /\ e[2].flow = f[2].flow => e = f
  PROVE  LET L == DocLines(docs, D) \cup RowLines(read, D) IN
         SumFunctionOnSet(AmountOf(L), L)
           = SumFunctionOnSet(PlacedOf(docs, D), DOMAIN docs)
             + SumFunctionOnSet(WorthOf(read, D), read)
<1> DEFINE A == DocLines(docs, D)
           B == RowLines(read, D)
           f == AmountOf(A \cup B)
<1>1. /\ IsFiniteSet(A) /\ \A a \in A : a.amount \in Int /\ a.kind = "document"
      /\ SumFunctionOnSet(AmountOf(A), A) = SumFunctionOnSet(PlacedOf(docs, D), DOMAIN docs)
  BY DocLinesAddUp
<1>2. /\ IsFiniteSet(B) /\ \A b \in B : b.amount \in Int /\ b.kind \in {"movement", "projection"}
      /\ SumFunctionOnSet(AmountOf(B), B) = SumFunctionOnSet(WorthOf(read, D), read)
  BY RowLinesAddUp
<1> HIDE DEF A, B
<1>3. A \cap B = {}
  BY <1>1, <1>2
<1>4. /\ \A a \in A : AmountOf(A)[a] = f[a] /\ AmountOf(A)[a] \in Int
      /\ \A b \in B : AmountOf(B)[b] = f[b] /\ AmountOf(B)[b] \in Int
      /\ \A a \in A \cup B : f[a] \in Int
  BY <1>1, <1>2 DEF AmountOf
<1> HIDE DEF f
<1>5. SumFunctionOnSet(f, A \cup B) = SumFunctionOnSet(f, A) + SumFunctionOnSet(f, B)
  BY <1>1, <1>2, <1>3, <1>4, SumUnion
<1>6. SumFunctionOnSet(AmountOf(A), A) = SumFunctionOnSet(f, A)
  BY <1>1, <1>4, SumSame
<1>7. SumFunctionOnSet(AmountOf(B), B) = SumFunctionOnSet(f, B)
  BY <1>2, <1>4, SumSame
<1>8. SumFunctionOnSet(f, A \cup B)
        = SumFunctionOnSet(PlacedOf(docs, D), DOMAIN docs) + SumFunctionOnSet(WorthOf(read, D), read)
  BY <1>1, <1>2, <1>5, <1>6, <1>7, Zenon
<1> QED BY <1>8 DEF f, A, B

\* The lines of the alerts about some documents and some rows.
LEMMA AlertLines ==
  ASSUME NEW g, Sound(g), NEW now \in Nat, NEW n \in Nat,
         NEW S \in SUBSET DOMAIN g.docs, NEW T \in SUBSET g.rows
  PROVE  LET D == Until(now + n)
             docs == Restrict(g.docs, S)
         IN  \A x : x \in DocLines(docs, D) \cup RowLines(T, D) <=>
                      \/ \E d \in S : x \in DocAlerts(d, g.docs[d], now, n)
                      \/ \E e \in T : DaysAway(e[2].day, now) <= n /\ x = RowAlert(e)
<1> DEFINE D == Until(now + n)
           docs == Restrict(g.docs, S)
<1>1. Owed(g.docs) /\ g.rows \subseteq Row \X Entry
  BY SoundFields
<1>2. DOMAIN docs = S /\ \A d \in S : docs[d] = g.docs[d]
  BY <1>1, RestrictOwed
<1>3. {day \in Day : DaysAway(day, now) <= n} = D
  BY WithinHorizon
<1>4. \A day \in Day : DaysAway(day, now) <= n <=> day \in D
  BY <1>3
<1>5. \A day \in D : day \in Day
  BY DEF Until
<1>6. \A e \in T : e[2].day \in Day
  BY <1>1 DEF Entry
<1> HIDE DEF D, docs
<1>7. ASSUME NEW x
      PROVE  x \in DocLines(docs, D) <=> \E d \in S : x \in DocAlerts(d, g.docs[d], now, n)
  <2>1. x \in DocLines(docs, D) <=>
          \E d \in S : \E day \in D : /\ ExpectedOn(Pending(d, docs[d]), day) # 0
                                      /\ x = DocLine(docs, d, day)
    <3>1. ASSUME x \in DocLines(docs, D)
          PROVE  \E d \in S : \E day \in D : /\ ExpectedOn(Pending(d, docs[d]), day) # 0
                                             /\ x = DocLine(docs, d, day)
      <4>1. PICK p \in PaidDays(docs, D) : x = DocLine(docs, p[1], p[2])
        BY <3>1 DEF DocLines
      <4>2. p[1] \in S /\ p[2] \in D /\ ExpectedOn(Pending(p[1], docs[p[1]]), p[2]) # 0
        BY <1>2 DEF PaidDays
      <4> QED BY <4>1, <4>2
    <3>2. ASSUME NEW d \in S, NEW day \in D, ExpectedOn(Pending(d, docs[d]), day) # 0,
                 x = DocLine(docs, d, day)
          PROVE  x \in DocLines(docs, D)
      <4>1. <<d, day>> \in PaidDays(docs, D)
        BY <1>2, <3>2 DEF PaidDays
      <4>2. x = DocLine(docs, <<d, day>>[1], <<d, day>>[2])
        BY <3>2
      <4> QED BY <4>1, <4>2 DEF DocLines
    <3> QED BY <3>1, <3>2
  <2>2. \A d \in S : x \in DocAlerts(d, g.docs[d], now, n) <=>
          \E day \in D : /\ ExpectedOn(Pending(d, docs[d]), day) # 0
                         /\ x = DocLine(docs, d, day)
    <3> TAKE d \in S
    <3>1. x \in DocAlerts(d, g.docs[d], now, n) <=>
            \E day \in Day :
              /\ ExpectedOn(Pending(d, g.docs[d]), day) # 0 /\ DaysAway(day, now) <= n
              /\ x = [of |-> d, kind |-> "document", day |-> day, comes |-> d \in Invoice,
                      amount |-> ExpectedOn(Pending(d, g.docs[d]), day)]
      BY DEF DocAlerts
    <3>2. docs[d] = g.docs[d]
      BY <1>2
    <3> QED BY <1>4, <1>5, <3>1, <3>2 DEF DocLine
  <2> QED BY <2>1, <2>2
<1>8. ASSUME NEW x
      PROVE  x \in RowLines(T, D) <=> \E e \in T : DaysAway(e[2].day, now) <= n /\ x = RowAlert(e)
  BY <1>4, <1>6 DEF RowLines
<1>9. \A x : x \in DocLines(docs, D) \cup RowLines(T, D) <=>
               \/ \E d \in S : x \in DocAlerts(d, g.docs[d], now, n)
               \/ \E e \in T : DaysAway(e[2].day, now) <= n /\ x = RowAlert(e)
  BY <1>7, <1>8
<1> QED BY <1>9 DEF D, docs

\* What the alerts of an answer add up to, in and out.
LEMMA AlertsValue ==
  ASSUME NEW g, Sound(g), NEW now \in Nat, NEW n \in Nat,
         \A e, f \in g.rows : e[1] = f[1] /\ e[2].flow = f[2].flow => e = f
  PROVE  LET alerts == Alerts(g, now, n)
             up == {a \in alerts : a.comes}
             D  == Until(now + n)
         IN  /\ SumFunctionOnSet(AmountOf(up), up) = Incoming(g, D)
             /\ SumFunctionOnSet(AmountOf(alerts \ up), alerts \ up) = Outgoing(g, D)
<1> DEFINE D == Until(now + n)
           S == DOMAIN g.docs \cap Invoice
           Q == DOMAIN g.docs \cap Purchase
           I == Restrict(g.docs, S)
           O == Restrict(g.docs, Q)
           in == {e \in g.rows : e[1] \in Income}
           go == {e \in g.rows : e[1] \notin Income}
           alerts == Alerts(g, now, n)
           up == {a \in alerts : a.comes}
           dn == alerts \ up
<1>1. /\ Owed(g.docs) /\ g.rows \subseteq Row \X Entry /\ IsFiniteSet(g.rows) /\ D \in SUBSET Day
  BY SoundFields DEF Until
<1>2. /\ Owed(I) /\ DOMAIN I = S /\ Owed(O) /\ DOMAIN O = Q
      /\ S \in SUBSET DOMAIN g.docs /\ Q \in SUBSET DOMAIN g.docs
  <2>1. S \in SUBSET DOMAIN g.docs /\ Q \in SUBSET DOMAIN g.docs
    OBVIOUS
  <2> HIDE DEF S, Q
  <2> QED BY <1>1, <2>1, RestrictOwed
<1>3. /\ \A d \in DOMAIN g.docs : d \in S \/ d \in Q
      /\ \A d \in S : d \in Invoice
      /\ \A d \in Q : d \notin Invoice
  BY <1>1, KindAssumption DEF Owed, Doc
<1>4. /\ in \in SUBSET g.rows /\ go \in SUBSET g.rows /\ IsFiniteSet(in) /\ IsFiniteSet(go)
      /\ in \subseteq Row \X Entry /\ go \subseteq Row \X Entry
      /\ \A e \in in : e[1] \in Income /\ e \in g.rows
      /\ \A e \in go : e[1] \notin Income /\ e \in g.rows
      /\ \A e \in g.rows : e \in in \/ e \in go
  <2>1. in \subseteq g.rows /\ go \subseteq g.rows
    OBVIOUS
  <2>2. IsFiniteSet(in) /\ IsFiniteSet(go)
    BY <1>1, <2>1, FS_Subset
  <2> QED BY <1>1, <2>1, <2>2
<1>5. \A x : x \in alerts <=> \/ \E d \in DOMAIN g.docs : x \in DocAlerts(d, g.docs[d], now, n)
                              \/ \E e \in g.rows : DaysAway(e[2].day, now) <= n /\ x = RowAlert(e)
  BY DEF Alerts, RowAlerts
<1>6. /\ \A d, x : x \in DocAlerts(d, g.docs[d], now, n) => (x.comes <=> d \in Invoice)
      /\ \A e : RowAlert(e).comes <=> e[1] \in Income
  <2>1. ASSUME NEW d, NEW x \in DocAlerts(d, g.docs[d], now, n) PROVE x.comes <=> d \in Invoice
    <3>1. PICK day : x = [of |-> d, kind |-> "document", day |-> day, comes |-> d \in Invoice,
                          amount |-> ExpectedOn(Pending(d, g.docs[d]), day)]
      BY DEF DocAlerts
    <3>2. x.comes = (d \in Invoice)
      BY <3>1
    <3> QED BY <3>2, Zenon
  <2>2. ASSUME NEW e PROVE RowAlert(e).comes <=> e[1] \in Income
    <3>1. RowAlert(e).comes = (e[1] \in Income)
      BY DEF RowAlert
    <3> QED BY <3>1, Zenon
  <2> QED BY <2>1, <2>2
<1>7. /\ Incoming(g, D) = DocsOn(I, D) + RowsOn(in, D)
      /\ Outgoing(g, D) = -(DocsOn(O, D) + RowsOn(go, D))
  BY DEF Incoming, Outgoing
<1> HIDE DEF D, S, Q, I, O, in, go, alerts
<1>8. \A x : x \in DocLines(I, D) \cup RowLines(in, D) <=>
               \/ \E d \in S : x \in DocAlerts(d, g.docs[d], now, n)
               \/ \E e \in in : DaysAway(e[2].day, now) <= n /\ x = RowAlert(e)
  BY <1>2, <1>4, AlertLines DEF I, D
<1>9. \A x : x \in DocLines(O, D) \cup RowLines(go, D) <=>
               \/ \E d \in Q : x \in DocAlerts(d, g.docs[d], now, n)
               \/ \E e \in go : DaysAway(e[2].day, now) <= n /\ x = RowAlert(e)
  BY <1>2, <1>4, AlertLines DEF O, D
<1>10. up = DocLines(I, D) \cup RowLines(in, D)
  <2>0. \A x : x \in up <=> x \in alerts /\ x.comes
    OBVIOUS
  <2>1. ASSUME NEW x, x \in up PROVE x \in DocLines(I, D) \cup RowLines(in, D)
    <3>1. CASE \E d \in DOMAIN g.docs : x \in DocAlerts(d, g.docs[d], now, n)
      <4>1. PICK d \in DOMAIN g.docs : x \in DocAlerts(d, g.docs[d], now, n)
        BY <3>1
      <4>2. d \in S
        BY <1>3, <1>6, <2>0, <2>1, <4>1
      <4> QED BY <1>8, <4>1, <4>2
    <3>2. CASE \E e \in g.rows : DaysAway(e[2].day, now) <= n /\ x = RowAlert(e)
      <4>1. PICK e \in g.rows : DaysAway(e[2].day, now) <= n /\ x = RowAlert(e)
        BY <3>2
      <4>2. e \in in
        BY <1>4, <1>6, <2>0, <2>1, <4>1
      <4> QED BY <1>8, <4>1, <4>2
    <3> QED BY <1>5, <2>0, <2>1, <3>1, <3>2
  <2>2. ASSUME NEW x, x \in DocLines(I, D) \cup RowLines(in, D) PROVE x \in up
    <3>1. CASE \E d \in S : x \in DocAlerts(d, g.docs[d], now, n)
      <4>1. PICK d \in S : x \in DocAlerts(d, g.docs[d], now, n)
        BY <3>1
      <4>2. d \in DOMAIN g.docs /\ x.comes
        BY <1>2, <1>3, <1>6, <4>1
      <4> QED BY <1>5, <2>0, <4>1, <4>2
    <3>2. CASE \E e \in in : DaysAway(e[2].day, now) <= n /\ x = RowAlert(e)
      <4>1. PICK e \in in : DaysAway(e[2].day, now) <= n /\ x = RowAlert(e)
        BY <3>2
      <4>2. e \in g.rows /\ x.comes
        BY <1>4, <1>6, <4>1
      <4> QED BY <1>5, <2>0, <4>1, <4>2
    <3> QED BY <1>8, <2>2, <3>1, <3>2
  <2> HIDE DEF up
  <2> QED BY <2>1, <2>2
<1>11. dn = DocLines(O, D) \cup RowLines(go, D)
  <2>0. \A x : x \in dn <=> x \in alerts /\ ~x.comes
    OBVIOUS
  <2>1. ASSUME NEW x, x \in dn PROVE x \in DocLines(O, D) \cup RowLines(go, D)
    <3>1. CASE \E d \in DOMAIN g.docs : x \in DocAlerts(d, g.docs[d], now, n)
      <4>1. PICK d \in DOMAIN g.docs : x \in DocAlerts(d, g.docs[d], now, n)
        BY <3>1
      <4>2. d \in Q
        BY <1>3, <1>6, <2>0, <2>1, <4>1
      <4> QED BY <1>9, <4>1, <4>2
    <3>2. CASE \E e \in g.rows : DaysAway(e[2].day, now) <= n /\ x = RowAlert(e)
      <4>1. PICK e \in g.rows : DaysAway(e[2].day, now) <= n /\ x = RowAlert(e)
        BY <3>2
      <4>2. e \in go
        BY <1>4, <1>6, <2>0, <2>1, <4>1
      <4> QED BY <1>9, <4>1, <4>2
    <3> QED BY <1>5, <2>0, <2>1, <3>1, <3>2
  <2>2. ASSUME NEW x, x \in DocLines(O, D) \cup RowLines(go, D) PROVE x \in dn
    <3>1. CASE \E d \in Q : x \in DocAlerts(d, g.docs[d], now, n)
      <4>1. PICK d \in Q : x \in DocAlerts(d, g.docs[d], now, n)
        BY <3>1
      <4>2. d \in DOMAIN g.docs /\ ~x.comes
        BY <1>2, <1>3, <1>6, <4>1
      <4> QED BY <1>5, <2>0, <4>1, <4>2
    <3>2. CASE \E e \in go : DaysAway(e[2].day, now) <= n /\ x = RowAlert(e)
      <4>1. PICK e \in go : DaysAway(e[2].day, now) <= n /\ x = RowAlert(e)
        BY <3>2
      <4>2. e \in g.rows /\ ~x.comes
        BY <1>4, <1>6, <4>1
      <4> QED BY <1>5, <2>0, <4>1, <4>2
    <3> QED BY <1>9, <2>2, <3>1, <3>2
  <2> HIDE DEF dn
  <2> QED BY <2>1, <2>2
<1>12. /\ DocsOn(I, D) = SumFunctionOnSet(PlacedOf(I, D), DOMAIN I)
       /\ RowsOn(in, D) = SumFunctionOnSet(WorthOf(in, D), in)
       /\ DocsOn(I, D) \in Int /\ RowsOn(in, D) \in Int
  <2>1. /\ IsFiniteSet(DOMAIN I) /\ DocsOn(I, D) \in Int
        /\ \A d \in DOMAIN I : DocOf(I, D)[d] = DocOn(d, I[d], D) /\ DocOf(I, D)[d] \in Int
        /\ DocsOn(I, D) = SumFunctionOnSet(DocOf(I, D), DOMAIN I)
    BY <1>1, <1>2, DocsFinite
  <2>2. \A d \in DOMAIN I : DocOf(I, D)[d] = PlacedOf(I, D)[d]
    BY <1>2, <1>3, <2>1 DEF PlacedOf, DocOn
  <2>3. SumFunctionOnSet(DocOf(I, D), DOMAIN I) = SumFunctionOnSet(PlacedOf(I, D), DOMAIN I)
    BY <2>1, <2>2, SumSame
  <2>4. /\ RowsOn(in, D) \in Int /\ RowsOn(in, D) = SumFunctionOnSet(RowOf(in, D), in)
        /\ \A e \in in : RowOf(in, D)[e] \in Int
    BY <1>4, RowsFinite
  <2>5. \A e \in in : RowOf(in, D)[e] = WorthOf(in, D)[e]
    BY <1>4 DEF RowOf, WorthOf, Signed
  <2>6. SumFunctionOnSet(RowOf(in, D), in) = SumFunctionOnSet(WorthOf(in, D), in)
    BY <1>4, <2>4, <2>5, SumSame
  <2> QED BY <2>1, <2>3, <2>4, <2>6, Zenon
<1>13. /\ DocsOn(O, D) = -SumFunctionOnSet(PlacedOf(O, D), DOMAIN O)
       /\ RowsOn(go, D) = -SumFunctionOnSet(WorthOf(go, D), go)
       /\ SumFunctionOnSet(PlacedOf(O, D), DOMAIN O) \in Int
       /\ SumFunctionOnSet(WorthOf(go, D), go) \in Int
  <2>1. /\ IsFiniteSet(DOMAIN O)
        /\ \A d \in DOMAIN O : DocOf(O, D)[d] = DocOn(d, O[d], D)
        /\ DocsOn(O, D) = SumFunctionOnSet(DocOf(O, D), DOMAIN O)
    BY <1>1, <1>2, DocsFinite
  <2>2. \A d \in DOMAIN O : PlacedOf(O, D)[d] \in Int
    BY <1>1, <1>2, DocLinesAddUp
  <2>3. \A d \in DOMAIN O : DocOf(O, D)[d] = -PlacedOf(O, D)[d]
    BY <1>2, <1>3, <2>1 DEF PlacedOf, DocOn
  <2>4. /\ SumFunctionOnSet(DocOf(O, D), DOMAIN O) = -SumFunctionOnSet(PlacedOf(O, D), DOMAIN O)
        /\ SumFunctionOnSet(PlacedOf(O, D), DOMAIN O) \in Int
    BY <2>1, <2>2, <2>3, SumOpposite
  <2>5. RowsOn(go, D) = SumFunctionOnSet(RowOf(go, D), go)
    BY <1>4, RowsFinite
  <2>6. \A e \in go : WorthOf(go, D)[e] \in Int /\ RowOf(go, D)[e] = -WorthOf(go, D)[e]
    BY <1>4, PlanAssumption DEF RowOf, WorthOf, Signed
  <2>7. /\ SumFunctionOnSet(RowOf(go, D), go) = -SumFunctionOnSet(WorthOf(go, D), go)
        /\ SumFunctionOnSet(WorthOf(go, D), go) \in Int
    BY <1>4, <2>6, SumOpposite
  <2> QED BY <2>1, <2>4, <2>5, <2>7, Zenon
<1>14. SumFunctionOnSet(AmountOf(up), up) = Incoming(g, D)
  <2>1. \A e, f \in in : e[1] = f[1] /\ e[2].flow = f[2].flow => e = f
    BY <1>4
  <2> DEFINE L == DocLines(I, D) \cup RowLines(in, D)
  <2>2. SumFunctionOnSet(AmountOf(L), L)
          = SumFunctionOnSet(PlacedOf(I, D), DOMAIN I) + SumFunctionOnSet(WorthOf(in, D), in)
    BY <1>1, <1>2, <1>4, <2>1, LinesAddUp
  <2> HIDE DEF L, up
  <2>3. up = L
    BY <1>10 DEF L
  <2> QED BY <1>7, <1>12, <2>2, <2>3, Zenon
<1>15. SumFunctionOnSet(AmountOf(dn), dn) = Outgoing(g, D)
  <2>1. \A e, f \in go : e[1] = f[1] /\ e[2].flow = f[2].flow => e = f
    BY <1>4
  <2> DEFINE L == DocLines(O, D) \cup RowLines(go, D)
             a == SumFunctionOnSet(PlacedOf(O, D), DOMAIN O)
             b == SumFunctionOnSet(WorthOf(go, D), go)
  <2>2. SumFunctionOnSet(AmountOf(L), L) = a + b
    BY <1>1, <1>2, <1>4, <2>1, LinesAddUp
  <2>3. Outgoing(g, D) = -(DocsOn(O, D) + RowsOn(go, D))
    BY <1>7
  <2>4. DocsOn(O, D) = -a /\ RowsOn(go, D) = -b /\ a \in Int /\ b \in Int
    BY <1>13
  <2> HIDE DEF L, a, b, dn
  <2>5. Outgoing(g, D) = a + b
    BY <2>3, <2>4
  <2>6. dn = L
    BY <1>11 DEF L
  <2> QED BY <2>2, <2>5, <2>6, Zenon
<1> QED BY <1>14, <1>15 DEF D, alerts

\* The alerts account for the projected income and expenses, for any plans, rows
\* and horizon: a document has a line per day with payments, a row has one, and
\* no two are the same line (projections.go GetSummary).
THEOREM AlertsAddUpHolds == Spec => []AlertsAddUp
<1>1. Init => AlertsAddUp
  BY DEF Init, AlertsAddUp, View
<1>2. ReadingInv /\ AlertsAddUp /\ [Next]_vars => AlertsAddUp'
  <2> DEFINE v == "projections"
             Adds(r) == LET up == {a \in r.alerts : a.comes} IN
                        /\ SumOver(up, [a \in up |-> a.amount]) = r.income
                        /\ SumOver(r.alerts \ up, [a \in r.alerts \ up |-> a.amount]) = r.expenses
  <2>0. AlertsAddUp <=> (at[v] = "answered" => Adds(reply[v]))
    BY DEF AlertsAddUp
  <2>1. AlertsAddUp' <=> (at'[v] = "answered" => Adds(reply'[v]))
    BY DEF AlertsAddUp
  <2> SUFFICES ASSUME ReadingInv, AlertsAddUp, [Next]_vars, at'[v] = "answered"
               PROVE  Adds(reply'[v])
    BY <2>1
  <2>2. v \in View
    BY DEF View
  <2> HIDE DEF Adds, v
  <2>3. CASE at[v] = "answered" /\ reply'[v] = reply[v]
    BY <2>0, <2>3
  <2>4. CASE Answer(v)
    <3>1. PICK g : /\ Sound(g) /\ reply'[v] = Projected(g, asof[v], days[v])
                   /\ \A e, f \in g.rows : e[1] = f[1] /\ e[2].flow = f[2].flow => e = f
      BY <2>2, <2>4, AnswerReply DEF ReadingInv, v
    <3>2. asof[v] \in Nat /\ days[v] \in Nat
      BY <2>2, HorizonInt DEF ReadingInv
    <3> DEFINE r == Projected(g, asof[v], days[v])
               D == Until(asof[v] + days[v])
               X == Alerts(g, asof[v], days[v])
               Y == {a \in X : a.comes}
    <3>3. r.income = Incoming(g, D) /\ r.expenses = Outgoing(g, D) /\ r.alerts = X
      BY <3>1, <3>2, ProjectedValue
    <3>4. /\ SumFunctionOnSet(AmountOf(Y), Y) = Incoming(g, D)
          /\ SumFunctionOnSet(AmountOf(X \ Y), X \ Y) = Outgoing(g, D)
      BY <3>1, <3>2, AlertsValue
    <3> HIDE DEF r, D, X
    <3>5. Adds(r)
      BY <3>3, <3>4, Zenon DEF Adds, SumOver, AmountOf
    <3> QED BY <3>1, <3>5 DEF r
  <2> QED BY <2>2, <2>3, <2>4, WhoAnswers DEF ReadingInv
<1> QED BY <1>1, <1>2, ReadingInvHolds, PTL DEF Spec
=============================================================================
