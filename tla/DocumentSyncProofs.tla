------------------------- MODULE DocumentSyncProofs -------------------------
(***************************************************************************)
(* Theorems about DocumentSync, for any documents, notes, dates, amounts,  *)
(* tolerance, page size, runs and window.                                  *)
(***************************************************************************)
EXTENDS DocumentSync, FiniteSetTheorems, TLAPS

USE DocAssumption, NoteAssumption, AmountAssumption, PageAssumption, WindowAssumption
USE DEF siigoVars, rowVars, noteVars, pageVars, windowVars, startVars, Doc

-----------------------------------------------------------------------------
(* What notes credit *)

LEMMA CreditType ==
  ASSUME NEW list \in SUBSET Note, NEW d
  PROVE  IsFiniteSet(Units(list, d)) /\ Credit(list, d) \in Nat
<1>1. IsFiniteSet(list) /\ IsFiniteSet(1 .. Total)
  <2>1. 1 \in Int /\ Total \in Int
    OBVIOUS
  <2> QED BY <2>1, FS_Subset, FS_Interval
<1>2. IsFiniteSet(list \X (1 .. Total))
  BY <1>1, FS_Product
<1>3. Units(list, d) \in SUBSET (list \X (1 .. Total))
  BY DEF Units
<1>4. IsFiniteSet(Units(list, d))
  BY <1>2, <1>3, FS_Subset
<1> QED BY <1>4, FS_CardinalityType DEF Credit

\* More notes credit no less.
LEMMA CreditGrows ==
  ASSUME NEW list \in SUBSET Note, NEW more \in SUBSET Note, list \subseteq more, NEW d
  PROVE  Credit(list, d) <= Credit(more, d)
<1>1. Units(list, d) \in SUBSET Units(more, d)
  BY DEF Units
<1> QED BY <1>1, CreditType, FS_Subset DEF Credit

\* Notes that are not the same ones add up.
LEMMA CreditAdds ==
  ASSUME NEW first \in SUBSET Note, NEW second \in SUBSET Note, first \cap second = {}, NEW d
  PROVE  Credit(first \cup second, d) = Credit(first, d) + Credit(second, d)
<1>1. Units(first \cup second, d) = Units(first, d) \cup Units(second, d)
  BY DEF Units
<1>2. Units(first, d) \cap Units(second, d) = {}
  BY DEF Units
<1>3. Cardinality(Units(first, d) \cap Units(second, d)) = 0
  BY <1>2, FS_EmptySet
<1>4. IsFiniteSet(Units(first, d)) /\ Credit(first, d) \in Nat
      /\ IsFiniteSet(Units(second, d)) /\ Credit(second, d) \in Nat
  BY CreditType
<1>5. Cardinality(Units(first, d) \cup Units(second, d))
        = Cardinality(Units(first, d)) + Cardinality(Units(second, d))
          - Cardinality(Units(first, d) \cap Units(second, d))
  BY <1>4, FS_Union
<1>6. Credit(first \cup second, d) = Credit(first, d) + Credit(second, d) - 0
  BY <1>1, <1>3, <1>5 DEF Credit
<1> QED BY <1>4, <1>6

LEMMA CreditOfNone == ASSUME NEW d PROVE Credit({}, d) = 0
<1>1. Units({}, d) = {}
  BY DEF Units
<1> QED BY <1>1, FS_EmptySet DEF Credit

-----------------------------------------------------------------------------
(* The pages of a list *)

\* Division by the page size, as the page numbers need it.
LEMMA Division ==
  ASSUME NEW n \in Nat, NEW p \in Nat \ {0}
  PROVE  /\ n \div p \in Nat
         /\ (n \div p) * p <= n /\ n < (n \div p + 1) * p
OBVIOUS

\* More whole pages hold at least as much.
LEMMA MorePages ==
  ASSUME NEW i \in Int, NEW j \in Int, NEW p \in Nat, i <= j
  PROVE  i * p <= j * p
<1>1. (j - i) * p >= 0
  OBVIOUS
<1>2. (j - i) * p = j * p - i * p
  OBVIOUS
<1> QED BY <1>1, <1>2

\* Ranks count from 1 to the length of the list.
LEMMA RankType ==
  ASSUME NEW list \in SUBSET Nat, IsFiniteSet(list), NEW x \in list
  PROVE  Rank(list, x) \in Nat \ {0} /\ Rank(list, x) <= Cardinality(list)
<1> DEFINE before == {y \in list : y <= x}
<1>1. before \in SUBSET list /\ x \in before
  OBVIOUS
<1>2. IsFiniteSet(before) /\ Cardinality(before) <= Cardinality(list)
  BY <1>1, FS_Subset
<1>3. Cardinality(before) \in Nat /\ Cardinality(before) # 0
  BY <1>1, <1>2, FS_CardinalityType, FS_EmptySet
<1> QED BY <1>2, <1>3 DEF Rank

\* The pages announced hold the whole list.
LEMMA PageCountHolds ==
  ASSUME NEW list \in SUBSET Nat, IsFiniteSet(list)
  PROVE  PageCount(list) \in Nat /\ Cardinality(list) \in Nat
         /\ Cardinality(list) <= PageCount(list) * PageSize
<1>1. Cardinality(list) \in Nat
  BY FS_CardinalityType
<1> DEFINE n == Cardinality(list) + PageSize - 1
           t == n \div PageSize
<1>2. n \in Nat
  BY <1>1
<1> HIDE DEF n
<1>3. t \in Nat /\ n < (t + 1) * PageSize
  BY <1>2, Division
<1>4. t = PageCount(list)
  BY DEF PageCount, n
<1> HIDE DEF t
<1>5. (t + 1) * PageSize = t * PageSize + PageSize /\ t * PageSize \in Nat
  BY <1>3
<1>6. n = Cardinality(list) + PageSize - 1
  BY DEF n
<1>7. Cardinality(list) <= t * PageSize
  BY <1>1, <1>3, <1>5, <1>6
<1> QED BY <1>1, <1>3, <1>4, <1>7

\* The first k pages are the pages before and one more.
LEMMA PrefixNext ==
  ASSUME NEW list \in SUBSET Nat, IsFiniteSet(list), NEW k \in Nat \ {0}
  PROVE  /\ Prefix(list, k) = Prefix(list, k - 1) \cup Slice(list, k)
         /\ Prefix(list, k - 1) \cap Slice(list, k) = {}
<1>1. \A x \in list : Rank(list, x) \in Nat
  BY RankType
<1>2. (k - 1) * PageSize \in Int /\ k * PageSize \in Int
      /\ (k - 1) * PageSize <= k * PageSize
  BY MorePages
<1> DEFINE lo == (k - 1) * PageSize
           hi == k * PageSize
<1>3. lo \in Int /\ hi \in Int /\ lo <= hi
  BY <1>2
<1>4. /\ Prefix(list, k) = {x \in list : Rank(list, x) <= hi}
      /\ Prefix(list, k - 1) = {x \in list : Rank(list, x) <= lo}
      /\ Slice(list, k) = {x \in list : lo < Rank(list, x) /\ Rank(list, x) <= hi}
  BY DEF Prefix, Slice
<1> HIDE DEF lo, hi
<1>5. ASSUME NEW x \in list
      PROVE  /\ Rank(list, x) <= hi
                  <=> Rank(list, x) <= lo \/ (lo < Rank(list, x) /\ Rank(list, x) <= hi)
             /\ ~(Rank(list, x) <= lo /\ lo < Rank(list, x))
  <2>1. Rank(list, x) \in Nat
    BY <1>1
  <2> QED BY <1>3, <2>1
<1> QED BY <1>4, <1>5

\* No page holds nothing; all pages announced hold everything.
LEMMA PrefixEnds ==
  ASSUME NEW list \in SUBSET Nat, IsFiniteSet(list)
  PROVE  /\ Prefix(list, 0) = {}
         /\ \A k \in Int : PageCount(list) <= k => Prefix(list, k) = list
<1>1. \A x \in list : Rank(list, x) \in Nat \ {0} /\ Rank(list, x) <= Cardinality(list)
  BY RankType
<1>2. 0 * PageSize = 0
  OBVIOUS
<1>3. Prefix(list, 0) = {}
  <2>1. \A x \in list : ~(Rank(list, x) <= 0 * PageSize)
    BY <1>1, <1>2
  <2> QED BY <2>1 DEF Prefix
<1>4. ASSUME NEW k \in Int, PageCount(list) <= k PROVE Prefix(list, k) = list
  <2>1. PageCount(list) \in Nat /\ Cardinality(list) \in Nat
        /\ Cardinality(list) <= PageCount(list) * PageSize
    BY PageCountHolds
  <2>2. PageCount(list) * PageSize <= k * PageSize
    BY <1>4, <2>1, MorePages
  <2>3. PageCount(list) * PageSize \in Int /\ k * PageSize \in Int
    BY <2>1
  <2> HIDE DEF PageCount
  <2>4. \A x \in list : Rank(list, x) <= k * PageSize
    BY <1>1, <2>1, <2>2, <2>3
  <2> QED BY <2>4 DEF Prefix
<1> QED BY <1>3, <1>4

\* The record of rank n is on a page, and that page is among the announced ones.
LEMMA PageOfRank ==
  ASSUME NEW p \in Nat \ {0}, NEW n \in Nat \ {0}, NEW m \in Nat, n <= m
  PROVE  \E k \in Nat \ {0} : /\ (k - 1) * p < n /\ n <= k * p
                              /\ k <= (m + p - 1) \div p
<1> DEFINE k == (n + p - 1) \div p
           t == (m + p - 1) \div p
<1>1. k \in Nat /\ k * p <= n + p - 1 /\ n + p - 1 < (k + 1) * p
  BY Division, SMTT(40)
<1>2. t \in Nat /\ m + p - 1 < (t + 1) * p
  BY Division, SMTT(40)
<1> HIDE DEF k, t
<1>3. (k - 1) * p = k * p - p /\ (k + 1) * p = k * p + p
  BY <1>1
<1>4. (k - 1) * p < n /\ n <= k * p
  BY <1>1, <1>3
<1>5. k # 0
  <2>1. 0 * p = 0
    OBVIOUS
  <2> QED BY <1>4, <2>1
<1>6. k <= t
  <2> SUFFICES ASSUME t + 1 <= k PROVE FALSE
    BY <1>1, <1>2
  <2>1. (t + 1) * p <= k * p
    BY <1>1, <1>2, MorePages
  <2> QED BY <1>1, <1>2, <2>1
<1>7. k \in Nat \ {0} /\ k <= (m + p - 1) \div p
  BY <1>1, <1>5, <1>6 DEF t
<1> QED BY <1>4, <1>7

\* Every document of a listing is on one of the pages page 1 announces, and the
\* model has room for that page.
LEMMA PagesCover ==
  ASSUME NEW list \in SUBSET Doc, NEW d \in list
  PROVE  \E k \in Page : d \in Slice(list, k) /\ k <= PageCount(list)
<1>1. IsFiniteSet(list) /\ Cardinality(list) <= Cardinality(Doc) /\ list \in SUBSET Nat
  BY FS_Subset
<1>2. Cardinality(list) \in Nat /\ Cardinality(Doc) \in Nat
  BY <1>1, FS_CardinalityType
<1>3. Rank(list, d) \in Nat \ {0} /\ Rank(list, d) <= Cardinality(list)
  BY <1>1, RankType
<1>4. PICK k \in Nat \ {0} :
        /\ (k - 1) * PageSize < Rank(list, d) /\ Rank(list, d) <= k * PageSize
        /\ k <= PageCount(list)
  BY <1>2, <1>3, PageOfRank DEF PageCount
<1>5. k <= MaxPages
  <2> SUFFICES ASSUME MaxPages <= k - 1 PROVE FALSE
    OBVIOUS
  <2>1. MaxPages * PageSize <= (k - 1) * PageSize
    BY MorePages
  <2>2. Cardinality(Doc) <= MaxPages * PageSize
    BY CapacityAssumption
  <2>3. MaxPages * PageSize \in Int /\ (k - 1) * PageSize \in Int
    OBVIOUS
  <2> QED BY <1>1, <1>2, <1>3, <1>4, <2>1, <2>2, <2>3
<1> QED BY <1>4, <1>5 DEF Page, Slice

-----------------------------------------------------------------------------
(* Types *)

\* The status stored is one the tables know.
LEMMA StatusType ==
  ASSUME NEW d, NEW unpaid \in Amount, NEW credit PROVE StatusOf(d, unpaid, credit) \in Status
BY DEF StatusOf, BalanceStatus, Status, Amount

\* What Siigo lists is a finite set of documents of the kind, all of the window.
LEMMA ListingType ==
  ASSUME NEW r \in Run, NEW kind \in Kind
  PROVE  /\ Listing(r, kind) \in SUBSET Doc /\ Listing(r, kind) \in SUBSET Nat
         /\ IsFiniteSet(Listing(r, kind))
         /\ Listing(r, kind) \subseteq DocsOf(kind)
         /\ \A d \in Listing(r, kind) : InWindow(r, d) /\ KindOf(d) = kind
<1>1. Listing(r, kind) \in SUBSET Doc
  BY DEF Listing, DocsOf, Kind
<1>2. IsFiniteSet(Listing(r, kind))
  BY <1>1, FS_Subset
<1> QED BY <1>1, <1>2 DEF Listing, DocsOf, KindOf, Kind

\* Every variable keeps its type; a row is only held for a document of Siigo.
THEOREM TypeCorrect == Spec => []TypeOK
<1>1. Init => TypeOK
  <2> SUFFICES ASSUME Init PROVE TypeOK
    OBVIOUS
  <2>1. errors \in [Run -> BOOLEAN] /\ quiet \in [Run -> BOOLEAN]
    BY Zenon DEF Init
  <2>2. PICK b \in Beginning : issued = b.docs /\ notes = b.notes /\ balance = b.balance
    BY DEF Init
  <2>3. issued \subseteq Doc /\ notes \subseteq Note /\ balance \in [Doc -> Amount]
    BY <2>2, BeginningAssumption DEF Amount
  <2>4. /\ stored \in [Doc -> Amount] /\ status \in [Doc -> Status] /\ rows \subseteq Doc
        /\ stage \in [Run -> Stage] /\ from \in [Run -> Int] /\ to \in [Run -> Int]
        /\ next \in [Run -> Nat \ {0}] /\ last \in [Run -> Int]
    BY DEF Init, Amount, Status, Stage
  <2>5. NoCredit \in [Invoice -> Nat] /\ NoCount \in [Kind -> Int]
        /\ NoPages \in [Kind -> [Page -> PageState]]
        /\ Nothing \in [Kind -> [Page -> SUBSET (Doc \X Amount)]]
    BY DEF NoCredit, NoCount, NoPages, Nothing, PageState
  <2>6. /\ credited \in [Run -> [Invoice -> Nat]] /\ total \in [Run -> [Kind -> Int]]
        /\ page \in [Run -> [Kind -> [Page -> PageState]]]
        /\ got \in [Run -> [Kind -> [Page -> SUBSET (Doc \X Amount)]]]
    BY <2>5 DEF Init
  <2>7. /\ open \in [Run -> SUBSET Doc] /\ covered \in [Run -> SUBSET Invoice]
        /\ touched \in [Run -> SUBSET Doc] /\ moved \in [Run -> SUBSET (Kind \cup {"NC"})]
        /\ today \in Nat /\ events \in Nat
    BY DEF Init
  <2> QED BY <2>1, <2>3, <2>4, <2>6, <2>7 DEF TypeOK
<1>2. TypeOK /\ [Next]_vars => TypeOK'
  <2> SUFFICES ASSUME TypeOK, [Next]_vars PROVE TypeOK'
    OBVIOUS
  <2> USE DEF TypeOK
  <2>0. ASSUME Event
        PROVE  /\ quiet' \in [Run -> BOOLEAN] /\ events' \in Nat
               /\ UNCHANGED <<today, rowVars, stage, windowVars, noteVars, pageVars, errors,
                              startVars, touched>>
    <3>1. quiet' \in [Run -> BOOLEAN]
      BY <2>0, Zenon DEF Event
    <3>2. events' \in Nat
      BY <2>0 DEF Event
    <3> QED BY <2>0, <3>1, <3>2 DEF Event
  <2>1. ASSUME NEW d \in Doc, Issue(d) \/ Remove(d) PROVE TypeOK'
    <3>1. KindOf(d) \in Kind
      BY DEF KindOf, Kind
    <3>2. moved' \in [Run -> SUBSET (Kind \cup {"NC"})]
      <4>1. moved' = [q \in Run |-> IF AtKind(q, KindOf(d)) /\ InWindow(q, d)
                                   THEN moved[q] \cup {KindOf(d)} ELSE moved[q]]
        BY <2>1 DEF Issue, Remove, DocumentMoves
      <4>2. \A q \in Run : moved[q] \cup {KindOf(d)} \in SUBSET (Kind \cup {"NC"})
        BY <3>1
      <4> QED BY <4>1, <4>2
    <3>3. Event /\ issued' \subseteq Doc /\ UNCHANGED <<balance, notes>>
      BY <2>1 DEF Issue, Remove
    <3> QED BY <2>0, <3>2, <3>3
  <2>2. ASSUME NEW d \in Doc, Pay(d) PROVE TypeOK'
    <3>1. Event /\ balance' \in [Doc -> Amount] /\ UNCHANGED <<issued, notes, moved>>
      BY <2>2 DEF Pay, Amount
    <3> QED BY <2>0, <3>1
  <2>3. ASSUME NEW d \in Doc, Reopen(d) PROVE TypeOK'
    <3>1. Credit(notes, d) \in Nat
      BY CreditType
    <3>2. balance' \in [Doc -> Amount]
      BY <2>3, <3>1 DEF Reopen, Amount
    <3>3. Event /\ UNCHANGED <<issued, notes, moved>>
      BY <2>3 DEF Reopen
    <3> QED BY <2>0, <3>2, <3>3
  <2>4. ASSUME NEW n \in Note, CreditNote(n) PROVE TypeOK'
    <3>1. \A d \in Doc : Lowered(balance[d], Worth[n]) \in Amount
      BY DEF Lowered, Amount
    <3>2. balance' \in [Doc -> Amount]
      BY <2>4, <3>1 DEF CreditNote
    <3>3. moved' \in [Run -> SUBSET (Kind \cup {"NC"})]
      BY <2>4 DEF CreditNote
    <3>4. Event /\ notes' \subseteq Note /\ UNCHANGED issued
      BY <2>4 DEF CreditNote
    <3> QED BY <2>0, <3>2, <3>3, <3>4
  <2>5. CASE NextDay
    <3>1. today' \in Nat
      BY <2>5 DEF NextDay
    <3> QED BY <2>5, <3>1 DEF NextDay
  <2>6. ASSUME NEW r \in Run, NEW first \in Int, NEW reach \in SUBSET Doc,
               StartWindow(r, first, reach)
        PROVE  TypeOK'
    <3>1. {d \in Invoice : Covers(Credit(notes, d))} \in SUBSET Invoice
      OBVIOUS
    <3>2. open' \in [Run -> SUBSET Doc] /\ covered' \in [Run -> SUBSET Invoice]
      BY <2>6, <3>1 DEF StartWindow
    <3>3. quiet' \in [Run -> BOOLEAN]
      BY <2>6, Zenon DEF StartWindow
    <3>4. stage' \in [Run -> Stage] /\ from' \in [Run -> Int] /\ to' \in [Run -> Int]
      BY <2>6 DEF StartWindow, Stage
    <3> QED BY <2>6, <3>2, <3>3, <3>4 DEF StartWindow
  <2>7. ASSUME NEW r \in Run, StartIncremental(r) \/ StartBootstrap(r) \/ StartReconcile(r)
        PROVE  TypeOK'
    <3>1. CASE StartIncremental(r)
      <4>1. today - Window \in Int /\ {} \in SUBSET Doc
        OBVIOUS
      <4> QED BY <3>1, <2>6, <4>1 DEF StartIncremental
    <3>2. CASE StartBootstrap(r)
      <4>1. PICK first \in 0 .. today : StartWindow(r, first, {})
        BY <3>2 DEF StartBootstrap
      <4>2. first \in Int
        OBVIOUS
      <4> QED BY <2>6, <4>1, <4>2
    <3>3. CASE StartReconcile(r)
      BY <3>3, <2>6 DEF StartReconcile, OpenRows
    <3> QED BY <2>7, <3>1, <3>2, <3>3
  <2>8. ASSUME NEW r \in Run, RefuseReconcile(r) PROVE TypeOK'
    BY <2>8 DEF RefuseReconcile, Stage
  <2>9. ASSUME NEW r \in Run, LaunchPasses(r)
        PROVE  stage' \in [Run -> Stage] /\ page' \in [Run -> [Kind -> [Page -> PageState]]]
    BY <2>9 DEF LaunchPasses, Stage, PageState
  <2>10. ASSUME NEW r \in Run, ReadNotes(r) PROVE TypeOK'
    <3>1. Slice(notes, next[r]) \in SUBSET Note /\ IsFiniteSet(notes) /\ notes \in SUBSET Nat
      BY FS_Subset DEF Slice
    <3>2. \A d \in Invoice : Credit(Slice(notes, next[r]), d) \in Nat
      BY <3>1, CreditType
    <3>3. credited' \in [Run -> [Invoice -> Nat]]
      BY <2>10, <3>2 DEF ReadNotes
    <3>4. last' \in [Run -> Int]
      BY <2>10, <3>1, PageCountHolds DEF ReadNotes
    <3>5. next' \in [Run -> Nat \ {0}]
      <4>1. next' = [next EXCEPT ![r] = @ + 1] \/ next' = next
        BY <2>10 DEF ReadNotes
      <4>2. next[r] + 1 \in Nat \ {0}
        OBVIOUS
      <4>3. [next EXCEPT ![r] = next[r] + 1] \in [Run -> Nat \ {0}]
        BY <4>2
      <4> QED BY <4>1, <4>3
    <3>6. stage' \in [Run -> Stage] /\ page' \in [Run -> [Kind -> [Page -> PageState]]]
      BY <2>9, <2>10 DEF ReadNotes
    <3> QED BY <2>10, <3>3, <3>4, <3>5, <3>6 DEF ReadNotes
  <2>11. ASSUME NEW r \in Run, LoseNotes(r) PROVE TypeOK'
    <3>1. errors' \in [Run -> BOOLEAN]
      BY <2>11 DEF LoseNotes
    <3> QED BY <2>9, <2>11, <3>1 DEF LoseNotes
  <2>12. ASSUME NEW r \in Run, NEW kind \in Kind, NEW k \in Page, FetchPage(r, kind, k)
         PROVE  TypeOK'
    <3>1. Listing(r, kind) \in SUBSET Doc /\ PageCount(Listing(r, kind)) \in Nat
      BY ListingType, PageCountHolds
    <3>2. {<<d, balance[d]>> : d \in Slice(Listing(r, kind), k)} \in SUBSET (Doc \X Amount)
      BY <3>1 DEF Slice
    <3>3. got' \in [Run -> [Kind -> [Page -> SUBSET (Doc \X Amount)]]]
      BY <2>12, <3>2 DEF FetchPage
    <3>4. page' \in [Run -> [Kind -> [Page -> PageState]]]
      BY <2>12 DEF FetchPage, PageState
    <3>5. total' \in [Run -> [Kind -> Int]]
      BY <2>12, <3>1 DEF FetchPage
    <3> QED BY <2>12, <3>3, <3>4, <3>5 DEF FetchPage
  <2>13. ASSUME NEW r \in Run, NEW kind \in Kind, NEW k \in Page, LosePage(r, kind, k)
         PROVE  TypeOK'
    BY <2>13 DEF LosePage, PageState
  <2>14. ASSUME NEW r \in Run, NEW kind \in Kind, NEW k \in Page, SaveRecord(r, kind, k)
         PROVE  TypeOK'
    <3>1. PICK e \in got[r][kind][k] :
            /\ Upsert(r, e[1], e[2])
            /\ got' = [got EXCEPT ![r][kind][k] = @ \ {e}]
            /\ page' = IF got[r][kind][k] = {e}
                       THEN [page EXCEPT ![r][kind][k] = "saved"] ELSE page
      BY <2>14 DEF SaveRecord
    <3>2. e[1] \in Doc /\ e[2] \in Amount
      OBVIOUS
    <3>3. StatusOf(e[1], e[2], CreditOf(credited[r], e[1])) \in Status
      BY <3>2, StatusType
    <3>4. stored' \in [Doc -> Amount] /\ status' \in [Doc -> Status] /\ rows' \subseteq Doc
          /\ touched' \in [Run -> SUBSET Doc]
      BY <3>1, <3>2, <3>3 DEF Upsert
    <3>5. got' \in [Run -> [Kind -> [Page -> SUBSET (Doc \X Amount)]]]
          /\ page' \in [Run -> [Kind -> [Page -> PageState]]]
      BY <3>1 DEF PageState
    <3> QED BY <2>14, <3>4, <3>5 DEF SaveRecord
  <2>15. ASSUME NEW r \in Run, NEW kind \in Kind, NEW k \in Page, FailToSave(r, kind, k)
         PROVE  TypeOK'
    BY <2>15 DEF FailToSave, PageState
  <2>16. ASSUME NEW r \in Run, NEW kind \in Kind, FanOut(r, kind) PROVE TypeOK'
    <3>1. page' \in [Run -> [Kind -> [Page -> PageState]]]
      BY <2>16 DEF FanOut, PageState
    <3> QED BY <2>16, <3>1 DEF FanOut
  <2>17. ASSUME NEW r \in Run, End(r) PROVE TypeOK'
    <3>1. NoCredit \in [Invoice -> Nat] /\ NoCount \in [Kind -> Int]
          /\ NoPages \in [Kind -> [Page -> PageState]]
          /\ Nothing \in [Kind -> [Page -> SUBSET (Doc \X Amount)]]
      BY DEF NoCredit, NoCount, NoPages, Nothing, PageState
    <3>2. /\ credited' \in [Run -> [Invoice -> Nat]] /\ total' \in [Run -> [Kind -> Int]]
          /\ page' \in [Run -> [Kind -> [Page -> PageState]]]
          /\ got' \in [Run -> [Kind -> [Page -> SUBSET (Doc \X Amount)]]]
      BY <2>17, <3>1 DEF End
    <3>3. errors' \in [Run -> BOOLEAN] /\ quiet' \in [Run -> BOOLEAN]
      BY <2>17 DEF End
    <3>4. stage' \in [Run -> Stage] /\ from' \in [Run -> Int] /\ to' \in [Run -> Int]
          /\ next' \in [Run -> Nat \ {0}] /\ last' \in [Run -> Int]
      BY <2>17 DEF End, Stage
    <3>5. /\ open' \in [Run -> SUBSET Doc] /\ covered' \in [Run -> SUBSET Invoice]
          /\ touched' \in [Run -> SUBSET Doc] /\ moved' \in [Run -> SUBSET (Kind \cup {"NC"})]
      BY <2>17 DEF End
    <3> QED BY <2>17, <3>2, <3>3, <3>4, <3>5 DEF End
  <2>18. CASE UNCHANGED vars
    BY <2>18 DEF vars
  <2> QED
    BY <2>1, <2>2, <2>3, <2>4, <2>5, <2>7, <2>8, <2>10, <2>11, <2>12, <2>13, <2>14, <2>15,
       <2>16, <2>17, <2>18
    DEF Next, SiigoStep, RunStep, PageStep
<1> QED BY <1>1, <1>2, PTL DEF Spec

-----------------------------------------------------------------------------
(* What the steps do *)

\* A change in Siigo writes no row and no run.  Notes are only added, and a list
\* that a run is at does not change without being counted as moved.
LEMMA SiigoSteps ==
  ASSUME TypeOK, SiigoStep
  PROVE  /\ notes \subseteq notes'
         /\ UNCHANGED <<today, rowVars, stage, windowVars, noteVars, pageVars, errors,
                        startVars, touched>>
         /\ \A r \in Run :
              /\ quiet'[r] = FALSE
              /\ moved[r] \subseteq moved'[r]
              /\ ~AtNotes(r) => "NC" \notin moved'[r] \/ "NC" \in moved[r]
              /\ stage[r] = "idle" => moved'[r] = moved[r]
              /\ AtNotes(r) /\ "NC" \notin moved'[r] => notes' = notes
              /\ \A kind \in Kind : AtKind(r, kind) /\ kind \notin moved'[r] =>
                   Listing(r, kind)' = Listing(r, kind)
<1> USE DEF TypeOK
<1>1. Event
  BY DEF SiigoStep, Issue, Remove, Pay, Reopen, CreditNote
<1>2. UNCHANGED <<today, rowVars, stage, windowVars, noteVars, pageVars, errors, startVars,
                  touched>>
      /\ \A r \in Run : quiet'[r] = FALSE
  BY <1>1 DEF Event
<1>3. ASSUME NEW d \in Doc, Issue(d) \/ Remove(d) PROVE
        /\ notes' = notes
        /\ \A r \in Run : moved'[r] = IF AtKind(r, KindOf(d)) /\ InWindow(r, d)
                                      THEN moved[r] \cup {KindOf(d)} ELSE moved[r]
        /\ issued' \ {d} = issued \ {d}
  <2>1. moved' = [r \in Run |-> IF AtKind(r, KindOf(d)) /\ InWindow(r, d)
                                THEN moved[r] \cup {KindOf(d)} ELSE moved[r]]
    BY <1>3 DEF Issue, Remove, DocumentMoves
  <2> QED BY <1>3, <2>1 DEF Issue, Remove
<1>4. ASSUME NEW d \in Doc, Issue(d) \/ Remove(d), NEW r \in Run, NEW kind \in Kind,
             AtKind(r, kind), kind \notin moved'[r]
      PROVE  Listing(r, kind)' = Listing(r, kind)
  <2>1. UNCHANGED <<from, to>>
    BY <1>2
  <2>2. \A e \in Doc : InWindow(r, e)' = InWindow(r, e)
    BY <2>1 DEF InWindow
  <2>3. issued' \ {d} = issued \ {d} /\ issued' \subseteq Doc
    BY <1>3, <1>4 DEF Issue, Remove
  <2>4. ~(kind = KindOf(d) /\ InWindow(r, d))
    BY <1>3, <1>4
  <2>5. d \in DocsOf(kind) => kind = KindOf(d)
    BY DEF DocsOf, KindOf, Kind
  <2> QED BY <2>2, <2>3, <2>4, <2>5 DEF Listing
<1>5. ASSUME NEW d \in Doc, Pay(d) \/ Reopen(d) PROVE UNCHANGED <<issued, notes, moved>>
  BY <1>5 DEF Pay, Reopen
<1>6. ASSUME NEW n \in Note, CreditNote(n)
      PROVE  /\ notes \subseteq notes' /\ UNCHANGED issued
             /\ \A r \in Run : moved'[r] = IF AtNotes(r) THEN moved[r] \cup {"NC"} ELSE moved[r]
  BY <1>6 DEF CreditNote
<1>7. UNCHANGED issued => \A r \in Run, kind \in Kind : Listing(r, kind)' = Listing(r, kind)
  BY <1>2 DEF Listing, InWindow
<1>8. ASSUME NEW r \in Run
      PROVE  /\ stage[r] = "idle" => ~AtNotes(r) /\ \A kind \in Kind : ~AtKind(r, kind)
             /\ \A d \in Doc : KindOf(d) \in Kind /\ KindOf(d) # "NC"
  BY DEF AtNotes, AtKind, KindOf, Kind
<1>9. CASE \E d \in Doc : Issue(d) \/ Remove(d)
  <2>1. PICK d \in Doc : Issue(d) \/ Remove(d)
    BY <1>9
  <2>2. KindOf(d) \in Kind /\ KindOf(d) # "NC"
    BY <1>8 DEF KindOf, Kind
  <2>3. notes' = notes
    BY <1>3, <2>1
  <2>4. \A r \in Run : moved'[r] = IF AtKind(r, KindOf(d)) /\ InWindow(r, d)
                                   THEN moved[r] \cup {KindOf(d)} ELSE moved[r]
    BY <1>3, <2>1
  <2>5. \A r \in Run, kind \in Kind : AtKind(r, kind) /\ kind \notin moved'[r] =>
                                        Listing(r, kind)' = Listing(r, kind)
    BY <1>4, <2>1
  <2>6. \A r \in Run : stage[r] = "idle" => ~AtKind(r, KindOf(d))
    BY <1>8, <2>2
  <2>7. ASSUME NEW r \in Run
        PROVE  /\ moved[r] \subseteq moved'[r]
               /\ "NC" \notin moved'[r] \/ "NC" \in moved[r]
               /\ stage[r] = "idle" => moved'[r] = moved[r]
    <3>1. moved'[r] = moved[r] \/ moved'[r] = moved[r] \cup {KindOf(d)}
      BY <2>4
    <3> QED BY <2>2, <2>4, <2>6, <3>1
  <2> HIDE DEF TypeOK
  <2> QED BY <1>2, <2>3, <2>5, <2>7
<1>10. CASE \E d \in Doc : Pay(d) \/ Reopen(d)
  BY <1>2, <1>5, <1>7, <1>10
<1>11. CASE \E n \in Note : CreditNote(n)
  BY <1>2, <1>6, <1>7, <1>8, <1>11
<1> QED BY <1>9, <1>10, <1>11 DEF SiigoStep

LEMMA Starts ==
  ASSUME NEW r \in Run, StartIncremental(r) \/ StartBootstrap(r) \/ StartReconcile(r)
  PROVE  /\ stage[r] = "idle" /\ stage' = [stage EXCEPT ![r] = "notes"]
         /\ to' = [to EXCEPT ![r] = today]
         /\ covered' = [covered EXCEPT ![r] = {d \in Invoice : Covers(Credit(notes, d))}]
         /\ quiet' = [q \in Run |-> q = r /\ \A s \in Run : ~Active(s)]
         /\ UNCHANGED <<today, siigoVars, rowVars, noteVars, pageVars, errors, touched, moved>>
BY DEF StartIncremental, StartBootstrap, StartReconcile, StartWindow

\* A step of one page leaves everything but that page, the rows and the errors.
LEMMA PageSteps ==
  ASSUME TypeOK, NEW r \in Run, NEW kind \in Kind, NEW k \in Page, PageStep(r, kind, k)
  PROVE  /\ UNCHANGED <<today, siigoVars, stage, windowVars, noteVars, startVars, moved, quiet>>
         /\ page[r][kind][k] \in {"todo", "saving"}
         /\ page'[r][kind][k] \in {"saving", "saved", "lost", "dberr"}
         /\ \A q \in Run : errors[q] => errors'[q]
         /\ \A q \in Run : touched[q] \subseteq touched'[q]
         /\ \A q \in Run \ {r} : touched'[q] = touched[q] /\ errors'[q] = errors[q]
                                 /\ total'[q] = total[q] /\ page'[q] = page[q] /\ got'[q] = got[q]
         /\ \A t \in Kind, j \in Page : t # kind \/ j # k =>
              page'[r][t][j] = page[r][t][j] /\ got'[r][t][j] = got[r][t][j]
         /\ \A t \in Kind : t # kind \/ k # 1 => total'[r][t] = total[r][t]
<1> USE DEF TypeOK
<1>1. CASE FetchPage(r, kind, k)
  BY <1>1 DEF FetchPage
<1>2. CASE LosePage(r, kind, k)
  BY <1>2 DEF LosePage
<1>3. CASE SaveRecord(r, kind, k)
  <2>1. PICK e \in got[r][kind][k] :
          /\ Upsert(r, e[1], e[2])
          /\ got' = [got EXCEPT ![r][kind][k] = @ \ {e}]
          /\ page' = IF got[r][kind][k] = {e}
                     THEN [page EXCEPT ![r][kind][k] = "saved"] ELSE page
    BY <1>3 DEF SaveRecord
  <2>2. touched' = [touched EXCEPT ![r] = @ \cup {e[1]}]
    BY <2>1 DEF Upsert
  <2> QED BY <1>3, <2>1, <2>2 DEF SaveRecord
<1>4. CASE FailToSave(r, kind, k)
  BY <1>4 DEF FailToSave
<1> QED BY <1>1, <1>2, <1>3, <1>4 DEF PageStep

\* What storing the record <<d, unpaid>> of a page writes.
Stored(r, kind, k, d, unpaid) ==
  /\ <<d, unpaid>> \in got[r][kind][k]
  /\ rows' = rows \cup {d}
  /\ stored'[d] = unpaid
  /\ status'[d] = StatusOf(d, unpaid, CreditOf(credited[r], d))
  /\ \A e \in Doc \ {d} : stored'[e] = stored[e] /\ status'[e] = status[e]
  /\ touched'[r] = touched[r] \cup {d}
  /\ got'[r][kind][k] = got[r][kind][k] \ {<<d, unpaid>>}
  /\ page'[r][kind][k] = IF got[r][kind][k] = {<<d, unpaid>>} THEN "saved" ELSE "saving"
  /\ errors' = errors

LEMMA StoredRecord ==
  ASSUME TypeOK, NEW r \in Run, NEW kind \in Kind, NEW k \in Page, SaveRecord(r, kind, k)
  PROVE  \E d \in Doc, unpaid \in Amount : Stored(r, kind, k, d, unpaid)
<1> USE DEF TypeOK
<1>1. PICK e \in got[r][kind][k] :
        /\ Upsert(r, e[1], e[2])
        /\ got' = [got EXCEPT ![r][kind][k] = @ \ {e}]
        /\ page' = IF got[r][kind][k] = {e}
                   THEN [page EXCEPT ![r][kind][k] = "saved"] ELSE page
  BY DEF SaveRecord
<1> DEFINE d == e[1]
           unpaid == e[2]
<1>2. d \in Doc /\ unpaid \in Amount /\ e = <<d, unpaid>>
  OBVIOUS
<1>3. page[r][kind][k] = "saving" /\ errors' = errors
  BY DEF SaveRecord
<1>4. /\ got'[r][kind][k] = got[r][kind][k] \ {e}
      /\ page'[r][kind][k] = IF got[r][kind][k] = {e} THEN "saved" ELSE "saving"
  BY <1>1, <1>3
<1>5. /\ rows' = rows \cup {d} /\ stored'[d] = unpaid
      /\ status'[d] = StatusOf(d, unpaid, CreditOf(credited[r], d))
      /\ \A f \in Doc \ {d} : stored'[f] = stored[f] /\ status'[f] = status[f]
      /\ touched'[r] = touched[r] \cup {d}
  BY <1>1, <1>2 DEF Upsert
<1> HIDE DEF d, unpaid
<1>6. Stored(r, kind, k, d, unpaid)
  BY <1>2, <1>3, <1>4, <1>5 DEF Stored
<1> QED BY <1>2, <1>6

-----------------------------------------------------------------------------
(* The invariant, one conjunct at a time *)

LEMMA PagesFollow == TypeOK /\ PagesFollowStage /\ [Next]_vars => PagesFollowStage'
<1> SUFFICES ASSUME TypeOK, PagesFollowStage, [Next]_vars PROVE PagesFollowStage'
  OBVIOUS
<1> USE DEF TypeOK
<1>1. CASE SiigoStep
  <2>1. UNCHANGED <<stage, from, to, next, credited, page, got, errors, touched>>
        /\ \A r \in Run : stage[r] = "idle" => moved'[r] = moved[r]
    BY <1>1, SiigoSteps
  <2> QED BY <2>1 DEF PagesFollowStage, InWindow
<1>2. CASE NextDay
  BY <1>2 DEF NextDay, PagesFollowStage, InWindow
<1>3. ASSUME NEW r \in Run, StartIncremental(r) \/ StartBootstrap(r) \/ StartReconcile(r)
      PROVE  PagesFollowStage'
  <2>1. /\ stage[r] = "idle" /\ stage'[r] = "notes"
        /\ UNCHANGED <<next, credited, page, got, errors, touched, moved>>
        /\ \A q \in Run \ {r} : stage'[q] = stage[q]
    BY <1>3, Starts
  <2>2. \A q \in Run \ {r} : from'[q] = from[q] /\ to'[q] = to[q]
    BY <1>3 DEF StartIncremental, StartBootstrap, StartReconcile, StartWindow
  <2>3. \A kind \in Kind, k \in Page : page[r][kind][k] = "idle"
    BY <2>1 DEF PagesFollowStage
  <2> HIDE DEF TypeOK
  <2>4. \A kind \in Kind, k \in Page : got[r][kind][k] = {}
    BY <2>3 DEF PagesFollowStage
  <2> QED BY <2>1, <2>2, <2>3, <2>4 DEF PagesFollowStage, InWindow
<1>4. ASSUME NEW r \in Run, RefuseReconcile(r) PROVE PagesFollowStage'
  <2>1. /\ stage[r] = "idle" /\ stage'[r] = "refused" /\ \A q \in Run \ {r} : stage'[q] = stage[q]
        /\ UNCHANGED <<from, to, next, credited, page, got, errors, touched, moved>>
    BY <1>4 DEF RefuseReconcile
  <2>2. \A kind \in Kind, k \in Page : page[r][kind][k] = "idle"
    BY <2>1 DEF PagesFollowStage
  <2> HIDE DEF TypeOK
  <2> QED BY <2>1, <2>2 DEF PagesFollowStage, InWindow
<1>5. ASSUME NEW r \in Run, ReadNotes(r) \/ LoseNotes(r) PROVE PagesFollowStage'
  <2>1. /\ stage[r] = "notes" /\ UNCHANGED <<from, to, got, touched, moved>>
        /\ (stage' = stage /\ page' = page) \/ LaunchPasses(r)
        /\ \A q \in Run : errors[q] => errors'[q]
    BY <1>5 DEF ReadNotes, LoseNotes
  <2>2. \A q \in Run \ {r} : next'[q] = next[q] /\ credited'[q] = credited[q]
    BY <1>5 DEF ReadNotes, LoseNotes
  <2>3. \A kind \in Kind, k \in Page : page[r][kind][k] = "idle"
    BY <2>1 DEF PagesFollowStage
  <2>4. \A q \in Run \ {r} : stage'[q] = stage[q] /\ page'[q] = page[q]
    BY <2>1 DEF LaunchPasses
  <2>5. \/ stage'[r] = "notes" /\ page'[r] = page[r]
        \/ /\ stage'[r] = "pages"
           /\ \A kind \in Kind, k \in Page :
                page'[r][kind][k] = IF k = 1 THEN "todo" ELSE "idle"
    BY <2>1 DEF LaunchPasses
  <2> HIDE DEF TypeOK
  <2>6. ASSUME NEW q \in Run, q # r PROVE
          /\ stage'[q] = "idle" => next'[q] = 1 /\ credited'[q] = NoCredit /\ moved'[q] = {}
          /\ stage'[q] \in {"idle", "notes"} => touched'[q] = {}
          /\ \A kind \in Kind, k \in Page :
               /\ page'[q][kind][k] # "idle" =>
                    stage'[q] = "pages" /\ (k = 1 \/ page'[q][kind][1] = "saved")
               /\ page'[q][kind][k] = "lost" => errors'[q]
               /\ page'[q][kind][k] # "saving" => got'[q][kind][k] = {}
               /\ \A e \in got'[q][kind][k] : e[1] \in DocsOf(kind) /\ InWindow(q, e[1])'
    BY <2>1, <2>2, <2>4, <2>6 DEF PagesFollowStage, InWindow
  <2>7. /\ stage'[r] \in {"idle", "notes"} => touched'[r] = {}
        /\ \A kind \in Kind, k \in Page :
             /\ page'[r][kind][k] # "idle" =>
                  stage'[r] = "pages" /\ (k = 1 \/ page'[r][kind][1] = "saved")
             /\ page'[r][kind][k] = "lost" => errors'[r]
             /\ got'[r][kind][k] = {}
    BY <2>1, <2>3, <2>5 DEF PagesFollowStage
  <2>8. stage'[r] # "idle"
    BY <2>5
  <2> QED BY <2>6, <2>7, <2>8 DEF PagesFollowStage
<1>6. ASSUME NEW r \in Run, NEW kind \in Kind, NEW k \in Page, PageStep(r, kind, k)
      PROVE  PagesFollowStage'
  <2>1. /\ UNCHANGED <<stage, from, to, next, credited, moved>>
        /\ page[r][kind][k] \in {"todo", "saving"}
        /\ page'[r][kind][k] \in {"saving", "saved", "lost", "dberr"}
        /\ \A q \in Run : errors[q] => errors'[q]
        /\ \A q \in Run \ {r} : touched'[q] = touched[q] /\ page'[q] = page[q] /\ got'[q] = got[q]
        /\ \A t \in Kind, j \in Page : t # kind \/ j # k =>
              page'[r][t][j] = page[r][t][j] /\ got'[r][t][j] = got[r][t][j]
    BY <1>6, PageSteps
  <2>2. stage[r] = "pages" /\ (k = 1 \/ page[r][kind][1] = "saved") /\ 1 \in Page
    BY <2>1 DEF PagesFollowStage, Page
  <2>3. /\ page'[r][kind][k] = "lost" => errors'[r]
        /\ page'[r][kind][k] # "saving" => got'[r][kind][k] = {}
        /\ \A e \in got'[r][kind][k] : e[1] \in DocsOf(kind) /\ InWindow(r, e[1])
    <3>1. CASE FetchPage(r, kind, k)
      <4>1. Slice(Listing(r, kind), k) \subseteq Listing(r, kind)
        BY DEF Slice
      <4>2. \A d \in Listing(r, kind) : d \in DocsOf(kind) /\ InWindow(r, d)
        BY ListingType
      <4>3. /\ got'[r][kind][k] = {<<d, balance[d]>> : d \in Slice(Listing(r, kind), k)}
            /\ page'[r][kind][k] = IF Slice(Listing(r, kind), k) = {} THEN "saved" ELSE "saving"
        BY <3>1 DEF FetchPage
      <4> QED BY <4>1, <4>2, <4>3
    <3>2. CASE LosePage(r, kind, k)
      <4>1. got' = got /\ page[r][kind][k] = "todo" /\ errors'[r]
        BY <3>2 DEF LosePage
      <4> QED BY <4>1 DEF PagesFollowStage
    <3>3. CASE SaveRecord(r, kind, k)
      <4>1. PICK d \in Doc, unpaid \in Amount : Stored(r, kind, k, d, unpaid)
        BY <3>3, StoredRecord
      <4> QED BY <4>1 DEF PagesFollowStage, Stored
    <3>4. CASE FailToSave(r, kind, k)
      <4>1. got'[r][kind][k] = {} /\ page'[r][kind][k] = "dberr"
        BY <3>4 DEF FailToSave
      <4> QED BY <4>1
    <3> QED BY <1>6, <3>1, <3>2, <3>3, <3>4 DEF PageStep
  <2>4. k # 1 => page'[r][kind][1] = page[r][kind][1]
    BY <2>1, <2>2
  <2>5. k = 1 => \A j \in Page \ {1} : page[r][kind][j] = "idle"
    BY <2>1, <2>2, SMTT(40) DEF PagesFollowStage
  <2> HIDE DEF TypeOK
  <2>6. ASSUME NEW q \in Run, q # r, NEW t \in Kind, NEW j \in Page PROVE
               /\ page'[q][t][j] # "idle" =>
                    stage'[q] = "pages" /\ (j = 1 \/ page'[q][t][1] = "saved")
               /\ page'[q][t][j] = "lost" => errors'[q]
               /\ page'[q][t][j] # "saving" => got'[q][t][j] = {}
               /\ \A e \in got'[q][t][j] : e[1] \in DocsOf(t) /\ InWindow(q, e[1])'
    BY <2>1, <2>6 DEF PagesFollowStage, InWindow
  <2>7. ASSUME NEW t \in Kind, NEW j \in Page PROVE
               /\ page'[r][t][j] # "idle" =>
                    stage'[r] = "pages" /\ (j = 1 \/ page'[r][t][1] = "saved")
               /\ page'[r][t][j] = "lost" => errors'[r]
               /\ page'[r][t][j] # "saving" => got'[r][t][j] = {}
               /\ \A e \in got'[r][t][j] : e[1] \in DocsOf(t) /\ InWindow(r, e[1])'
    <3>1. CASE t = kind /\ j = k
      BY <2>1, <2>2, <2>3, <2>4, <3>1 DEF InWindow
    <3>2. CASE t = kind /\ j # k
      <4>1. page'[r][t][j] = page[r][t][j] /\ got'[r][t][j] = got[r][t][j]
        BY <2>1, <3>2
      <4> QED BY <2>1, <2>2, <2>4, <2>5, <3>2, <4>1 DEF PagesFollowStage, InWindow
    <3>3. CASE t # kind
      <4>1. page'[r][t][j] = page[r][t][j] /\ got'[r][t][j] = got[r][t][j]
            /\ page'[r][t][1] = page[r][t][1]
        BY <2>1, <2>2, <3>3
      <4> QED BY <2>1, <3>3, <4>1 DEF PagesFollowStage, InWindow
    <3> QED BY <3>1, <3>2, <3>3
  <2>8. ASSUME NEW q \in Run
        PROVE  /\ stage'[q] = "idle" =>
                    next'[q] = 1 /\ credited'[q] = NoCredit /\ moved'[q] = {}
               /\ stage'[q] \in {"idle", "notes"} => touched'[q] = {}
    BY <2>1, <2>2 DEF PagesFollowStage
  <2> QED BY <2>6, <2>7, <2>8 DEF PagesFollowStage
<1>7. ASSUME NEW r \in Run, NEW kind \in Kind, FanOut(r, kind) PROVE PagesFollowStage'
  <2>1. /\ UNCHANGED <<stage, from, to, next, credited, got, errors, touched, moved>>
        /\ page[r][kind][1] = "saved" /\ 1 \in Page
        /\ \A q \in Run \ {r} : page'[q] = page[q]
        /\ \A t \in Kind \ {kind} : page'[r][t] = page[r][t]
        /\ \A j \in Page : \/ page'[r][kind][j] = page[r][kind][j]
                           \/ page[r][kind][j] = "idle" /\ page'[r][kind][j] = "todo"
    BY <1>7 DEF FanOut, Page
  <2>2. stage[r] = "pages" /\ page'[r][kind][1] = "saved"
    BY <2>1 DEF PagesFollowStage
  <2>3. ASSUME NEW q \in Run, NEW t \in Kind, NEW j \in Page, q # r \/ t # kind
        PROVE  page'[q][t][j] = page[q][t][j] /\ page'[q][t][1] = page[q][t][1]
    BY <2>1, <2>3
  <2> HIDE DEF TypeOK
  <2>4. ASSUME NEW q \in Run, NEW t \in Kind, NEW j \in Page PROVE
               /\ page'[q][t][j] # "idle" =>
                    stage'[q] = "pages" /\ (j = 1 \/ page'[q][t][1] = "saved")
               /\ page'[q][t][j] = "lost" => errors'[q]
               /\ page'[q][t][j] # "saving" => got'[q][t][j] = {}
               /\ \A e \in got'[q][t][j] : e[1] \in DocsOf(t) /\ InWindow(q, e[1])'
    <3>1. CASE q = r /\ t = kind
      BY <2>1, <2>2, <3>1 DEF PagesFollowStage, InWindow
    <3>2. CASE q # r \/ t # kind
      BY <2>1, <2>3, <3>2 DEF PagesFollowStage, InWindow
    <3> QED BY <3>1, <3>2
  <2> QED BY <2>1, <2>4 DEF PagesFollowStage
<1>8. ASSUME NEW r \in Run, End(r) PROVE PagesFollowStage'
  <2>1. /\ stage'[r] \in {"ended", "failed"} /\ page'[r] = NoPages /\ got'[r] = Nothing
        /\ \A q \in Run \ {r} :
             /\ stage'[q] = stage[q] /\ from'[q] = from[q] /\ to'[q] = to[q] /\ next'[q] = next[q]
             /\ credited'[q] = credited[q] /\ page'[q] = page[q] /\ got'[q] = got[q]
             /\ errors'[q] = errors[q] /\ touched'[q] = touched[q] /\ moved'[q] = moved[q]
    BY <1>8 DEF End
  <2>2. \A kind \in Kind, k \in Page : page'[r][kind][k] = "idle" /\ got'[r][kind][k] = {}
    BY <2>1 DEF NoPages, Nothing
  <2> HIDE DEF TypeOK
  <2> QED BY <2>1, <2>2 DEF PagesFollowStage, InWindow
<1>9. CASE UNCHANGED vars
  BY <1>9 DEF vars, PagesFollowStage, InWindow
<1> QED
  BY <1>1, <1>2, <1>3, <1>4, <1>5, <1>6, <1>7, <1>8, <1>9 DEF Next, RunStep

LEMMA WindowsFollow ==
  TypeOK /\ PagesFollowStage /\ WindowsHoldRows /\ [Next]_vars => WindowsHoldRows'
<1> SUFFICES ASSUME TypeOK, PagesFollowStage, WindowsHoldRows, [Next]_vars
             PROVE  WindowsHoldRows'
  OBVIOUS
<1> USE DEF TypeOK
<1>1. ASSUME UNCHANGED <<rows, from, to, open>>, today' \in Nat, today <= today'
      PROVE  WindowsHoldRows'
  BY <1>1 DEF WindowsHoldRows, InWindow
<1>2. CASE SiigoStep
  <2>1. UNCHANGED <<rows, from, to, open, today>>
    BY <1>2, SiigoSteps
  <2> QED BY <1>1, <2>1
<1>3. CASE NextDay
  BY <1>1, <1>3 DEF NextDay
<1>4. ASSUME NEW r \in Run, RefuseReconcile(r) \/ ReadNotes(r) \/ LoseNotes(r)
      PROVE  WindowsHoldRows'
  BY <1>1, <1>4 DEF RefuseReconcile, ReadNotes, LoseNotes
<1>5. ASSUME NEW r \in Run, NEW first \in Int, NEW reach \in SUBSET rows,
             \A d \in reach : first <= Date[d], StartWindow(r, first, reach)
      PROVE  WindowsHoldRows'
  <2>1. /\ UNCHANGED <<today, rows>>
        /\ from' = [from EXCEPT ![r] = first] /\ to' = [to EXCEPT ![r] = today]
        /\ open' = [open EXCEPT ![r] = reach]
    BY <1>5 DEF StartWindow
  <2>2. \A d \in reach : first <= Date[d] /\ Date[d] <= today
    BY <1>5 DEF WindowsHoldRows
  <2> QED BY <2>1, <2>2 DEF WindowsHoldRows, InWindow
<1>6. ASSUME NEW r \in Run, StartIncremental(r) \/ StartBootstrap(r) \/ StartReconcile(r)
      PROVE  WindowsHoldRows'
  <2>1. CASE StartIncremental(r)
    <3>1. today - Window \in Int /\ {} \in SUBSET rows
      OBVIOUS
    <3> QED BY <1>5, <2>1, <3>1 DEF StartIncremental
  <2>2. CASE StartBootstrap(r)
    <3>1. PICK first \in 0 .. today : StartWindow(r, first, {})
      BY <2>2 DEF StartBootstrap
    <3>2. first \in Int /\ {} \in SUBSET rows
      OBVIOUS
    <3> QED BY <1>5, <3>1, <3>2
  <2>3. CASE StartReconcile(r)
    <3>1. PICK d \in OpenRows :
            /\ \A e \in OpenRows : Date[d] <= Date[e]
            /\ StartWindow(r, Date[d], OpenRows)
      BY <2>3 DEF StartReconcile
    <3>2. OpenRows \in SUBSET rows /\ Date[d] \in Int
      BY DEF OpenRows, IsOpen
    <3> QED BY <1>5, <3>1, <3>2
  <2> QED BY <1>6, <2>1, <2>2, <2>3
<1>7. ASSUME NEW r \in Run, NEW kind \in Kind, NEW k \in Page, PageStep(r, kind, k)
      PROVE  WindowsHoldRows'
  <2>1. UNCHANGED <<today, from, to, open>>
    BY <1>7, PageSteps
  <2>2. CASE SaveRecord(r, kind, k)
    <3>1. PICK d \in Doc, unpaid \in Amount : Stored(r, kind, k, d, unpaid)
      BY <2>2, StoredRecord
    <3>2. InWindow(r, d) /\ rows' = rows \cup {d}
      BY <3>1 DEF PagesFollowStage, Stored
    <3>3. Date[d] <= today
      BY <3>2 DEF InWindow, WindowsHoldRows
    <3> QED BY <2>1, <3>2, <3>3 DEF WindowsHoldRows, InWindow
  <2>3. CASE FetchPage(r, kind, k) \/ LosePage(r, kind, k) \/ FailToSave(r, kind, k)
    BY <1>1, <2>1, <2>3 DEF FetchPage, LosePage, FailToSave
  <2> QED BY <1>7, <2>2, <2>3 DEF PageStep
<1>8. ASSUME NEW r \in Run, NEW kind \in Kind, FanOut(r, kind) PROVE WindowsHoldRows'
  BY <1>1, <1>8 DEF FanOut
<1>9. ASSUME NEW r \in Run, End(r) PROVE WindowsHoldRows'
  <2>1. UNCHANGED <<today, rows>> /\ open'[r] = {} /\ to'[r] = 0
        /\ \A q \in Run \ {r} : from'[q] = from[q] /\ to'[q] = to[q] /\ open'[q] = open[q]
    BY <1>9 DEF End
  <2>2. today' \in Nat /\ to'[r] <= today'
    BY <2>1
  <2> HIDE DEF TypeOK
  <2> QED BY <2>1, <2>2 DEF WindowsHoldRows, InWindow
<1>10. CASE UNCHANGED vars
  BY <1>1, <1>10 DEF vars
<1> QED
  BY <1>2, <1>3, <1>4, <1>6, <1>7, <1>8, <1>9, <1>10 DEF Next, RunStep

\* One page of notes more, of a list that stood still: what is credited is what
\* the pages so far hold, and after the last one all there is.
LEMMA NotesRead ==
  ASSUME TypeOK, CreditsFollowNotes, NEW r \in Run, ReadNotes(r), "NC" \notin moved[r]
  PROVE  /\ stage'[r] = "notes" =>
              /\ last'[r] = PageCount(notes)
              /\ \A d \in Invoice : credited'[r][d] = Credit(Prefix(notes, next'[r] - 1), d)
         /\ stage'[r] = "pages" =>
              \A d \in Invoice : credited'[r][d] = Credit(notes, d)
         /\ stage'[r] \in {"notes", "pages"}
<1> DEFINE seen == Slice(notes, next[r])
<1>0. /\ notes \in SUBSET Note /\ notes \in SUBSET Nat /\ IsFiniteSet(notes)
      /\ next[r] \in Nat \ {0} /\ last[r] \in Int
  BY FS_Subset DEF TypeOK
<1>1. /\ stage[r] = "notes"
      /\ credited'[r] = [d \in Invoice |-> credited[r][d] + Credit(seen, d)]
  BY DEF ReadNotes, TypeOK
<1>2. last'[r] = IF next[r] = 1 THEN PageCount(notes) ELSE last[r]
  BY DEF ReadNotes, TypeOK
<1>3. \/ next[r] < last'[r] /\ next'[r] = next[r] + 1 /\ stage'[r] = "notes"
      \/ next[r] >= last'[r] /\ stage'[r] = "pages"
  <2>1. CASE next[r] < last'[r] /\ next' = [next EXCEPT ![r] = @ + 1] /\ UNCHANGED stage
    BY <1>1, <2>1 DEF TypeOK
  <2>2. CASE next[r] >= last'[r] /\ LaunchPasses(r)
    BY <2>2 DEF LaunchPasses, TypeOK
  <2> QED BY <2>1, <2>2 DEF ReadNotes
<1>4. /\ next[r] > 1 => last[r] = PageCount(notes)
      /\ \A d \in Invoice : credited[r][d] = Credit(Prefix(notes, next[r] - 1), d)
  BY <1>1 DEF CreditsFollowNotes
<1>5. last'[r] = PageCount(notes)
  BY <1>0, <1>2, <1>4
<1>6. \A d \in Invoice : credited'[r][d] = Credit(Prefix(notes, next[r]), d)
  <2>1. /\ Prefix(notes, next[r]) = Prefix(notes, next[r] - 1) \cup seen
        /\ Prefix(notes, next[r] - 1) \cap seen = {}
    BY <1>0, PrefixNext
  <2>2. Prefix(notes, next[r] - 1) \in SUBSET Note /\ seen \in SUBSET Note
    BY <1>0 DEF Prefix, Slice
  <2>3. \A d \in Invoice : Credit(Prefix(notes, next[r]), d)
                             = Credit(Prefix(notes, next[r] - 1), d) + Credit(seen, d)
    BY <2>1, <2>2, CreditAdds
  <2> HIDE DEF seen
  <2>4. \A d \in Invoice : credited'[r][d] = credited[r][d] + Credit(seen, d)
    BY <1>1
  <2> QED BY <1>4, <2>3, <2>4
<1>7. ASSUME stage'[r] = "notes" PROVE next'[r] - 1 = next[r]
  BY <1>0, <1>3, <1>7
<1>8. ASSUME stage'[r] = "pages" PROVE Prefix(notes, next[r]) = notes
  <2>1. PageCount(notes) \in Nat
    BY <1>0, PageCountHolds
  <2>2. PageCount(notes) <= next[r] /\ next[r] \in Int
    BY <1>0, <1>3, <1>5, <1>8, <2>1
  <2> QED BY <1>0, <2>2, PrefixEnds
<1> QED BY <1>3, <1>5, <1>6, <1>7, <1>8

LEMMA CreditsFollow ==
  TypeOK /\ PagesFollowStage /\ CreditsFollowNotes /\ [Next]_vars => CreditsFollowNotes'
<1> SUFFICES ASSUME TypeOK, PagesFollowStage, CreditsFollowNotes, [Next]_vars
             PROVE  CreditsFollowNotes'
  OBVIOUS
<1>0. /\ notes \in SUBSET Note /\ notes \in SUBSET Nat /\ IsFiniteSet(notes)
      /\ \A r \in Run : next[r] \in Nat \ {0} /\ last[r] \in Int
                        /\ credited[r] \in [Invoice -> Nat] /\ covered[r] \in SUBSET Invoice
  BY FS_Subset DEF TypeOK
\* What the invariant says of one run.
<1> DEFINE Follows(r) ==
      /\ \A d \in covered[r] : Covers(Credit(notes, d))
      /\ stage[r] = "notes" /\ "NC" \notin moved[r] =>
           /\ next[r] > 1 => last[r] = PageCount(notes)
           /\ \A d \in Invoice : credited[r][d] = Credit(Prefix(notes, next[r] - 1), d)
      /\ stage[r] = "pages" /\ "NC" \notin moved[r] =>
           /\ \A d \in Invoice : credited[r][d] <= Credit(notes, d)
           /\ ~errors[r] => \A d \in covered[r] : Covers(credited[r][d])
<1>a. \A r \in Run : Follows(r)
  BY DEF CreditsFollowNotes
<1>b. (\A r \in Run : Follows(r)') => CreditsFollowNotes'
  BY DEF CreditsFollowNotes
<1>c. ASSUME NEW q \in Run, UNCHANGED notes, stage'[q] = stage[q], moved'[q] = moved[q],
             next'[q] = next[q], last'[q] = last[q], credited'[q] = credited[q],
             covered'[q] = covered[q], errors[q] => errors'[q]
      PROVE  Follows(q)'
  BY <1>a, <1>c
<1>1. CASE SiigoStep
  <2>1. /\ notes \subseteq notes' /\ UNCHANGED <<stage, next, last, credited, covered, errors>>
        /\ \A r \in Run :
             /\ moved[r] \subseteq moved'[r]
             /\ AtNotes(r) /\ "NC" \notin moved'[r] => notes' = notes
    BY <1>1, SiigoSteps
  <2>2. notes' \in SUBSET Note /\ notes' \in SUBSET Nat /\ IsFiniteSet(notes')
    <3>1. notes' \in SUBSET Note
      <4>1. (\E d \in Doc : Issue(d) \/ Remove(d) \/ Pay(d) \/ Reopen(d)) => notes' = notes
        BY DEF Issue, Remove, Pay, Reopen
      <4>2. ASSUME NEW n \in Note, CreditNote(n) PROVE notes' \in SUBSET Note
        BY <1>0, <4>2 DEF CreditNote
      <4> QED BY <1>0, <1>1, <4>1, <4>2 DEF SiigoStep
    <3> QED BY <3>1, FS_Subset
  <2>3. \A d \in Invoice : /\ Credit(notes, d) \in Nat /\ Credit(notes', d) \in Nat
                           /\ Credit(notes, d) <= Credit(notes', d)
    BY <1>0, <2>1, <2>2, CreditType, CreditGrows
  <2>4. ASSUME NEW r \in Run PROVE Follows(r)'
    <3>1. \A d \in covered[r] : Covers(Credit(notes', d))
      <4>1. \A d \in covered[r] : Covers(Credit(notes, d)) /\ d \in Invoice
        BY <1>0, <1>a
      <4> QED BY <2>3, <4>1 DEF Covers
    <3>2. ASSUME stage[r] = "notes", "NC" \notin moved'[r]
          PROVE  /\ next[r] > 1 => last[r] = PageCount(notes')
                 /\ \A d \in Invoice : credited[r][d] = Credit(Prefix(notes', next[r] - 1), d)
      <4>1. "NC" \notin moved[r]
        BY <2>1, <3>2
      <4>2. CASE next[r] > 1
        <5>1. notes' = notes
          BY <2>1, <3>2, <4>2 DEF AtNotes
        <5> QED BY <1>a, <3>2, <4>1, <5>1
      <4>3. CASE next[r] = 1
        <5>1. next[r] - 1 = 0
          BY <4>3
        <5>2. Prefix(notes, 0) = {} /\ Prefix(notes', 0) = {}
          BY <1>0, <2>2, PrefixEnds
        <5>3. \A d \in Invoice : credited[r][d] = Credit(Prefix(notes, next[r] - 1), d)
          BY <1>a, <3>2, <4>1
        <5>4. \A d \in Invoice : credited[r][d] = Credit(Prefix(notes', next[r] - 1), d)
          BY <5>1, <5>2, <5>3
        <5> QED BY <4>3, <5>4
      <4> QED BY <1>0, <4>2, <4>3
    <3>3. ASSUME stage[r] = "pages", "NC" \notin moved'[r]
          PROVE  /\ \A d \in Invoice : credited[r][d] <= Credit(notes', d)
                 /\ ~errors[r] => \A d \in covered[r] : Covers(credited[r][d])
      <4>1. "NC" \notin moved[r]
        BY <2>1, <3>3
      <4>2. /\ \A d \in Invoice : credited[r][d] <= Credit(notes, d)
            /\ ~errors[r] => \A d \in covered[r] : Covers(credited[r][d])
        BY <1>a, <3>3, <4>1
      <4>3. \A d \in Invoice : credited[r][d] \in Nat
        BY <1>0
      <4> QED BY <2>3, <4>2, <4>3
    <3> QED BY <2>1, <3>1, <3>2, <3>3
  <2> QED BY <1>b, <2>4
<1>2. CASE NextDay
  BY <1>b, <1>c, <1>2 DEF NextDay
<1>3. ASSUME NEW r \in Run, StartIncremental(r) \/ StartBootstrap(r) \/ StartReconcile(r)
      PROVE  CreditsFollowNotes'
  <2>1. /\ stage[r] = "idle" /\ stage' = [stage EXCEPT ![r] = "notes"]
        /\ covered' = [covered EXCEPT ![r] = {d \in Invoice : Covers(Credit(notes, d))}]
        /\ UNCHANGED <<notes, next, last, credited, errors, moved>>
    BY <1>3, Starts
  <2>2. /\ stage'[r] = "notes" /\ covered'[r] = {d \in Invoice : Covers(Credit(notes, d))}
        /\ \A q \in Run \ {r} : stage'[q] = stage[q] /\ covered'[q] = covered[q]
    BY <2>1 DEF TypeOK
  <2>3. next[r] = 1 /\ credited[r] = NoCredit
    BY <2>1 DEF PagesFollowStage
  <2>4. \A d \in Invoice : credited[r][d] = Credit(Prefix(notes, next[r] - 1), d)
    <3>1. Prefix(notes, next[r] - 1) = {}
      BY <1>0, <2>3, PrefixEnds
    <3> QED BY <2>3, <3>1, CreditOfNone DEF NoCredit
  <2>5. Follows(r)'
    BY <2>1, <2>2, <2>3, <2>4
  <2>6. \A q \in Run \ {r} : Follows(q)'
    BY <1>c, <2>1, <2>2
  <2> QED BY <1>b, <2>5, <2>6
<1>4. ASSUME NEW r \in Run, RefuseReconcile(r) PROVE CreditsFollowNotes'
  <2>1. /\ stage'[r] = "refused" /\ \A q \in Run \ {r} : stage'[q] = stage[q]
        /\ UNCHANGED <<notes, next, last, credited, errors, moved, covered>>
    BY <1>4 DEF RefuseReconcile, TypeOK
  <2>2. Follows(r)'
    BY <1>a, <2>1
  <2>3. \A q \in Run \ {r} : Follows(q)'
    BY <1>c, <2>1
  <2> QED BY <1>b, <2>2, <2>3
<1>5. ASSUME NEW r \in Run, ReadNotes(r) PROVE CreditsFollowNotes'
  <2>1. /\ UNCHANGED <<notes, covered, errors, moved>>
        /\ \A q \in Run \ {r} : credited'[q] = credited[q]
    BY <1>5 DEF ReadNotes, TypeOK
  <2>2. \A q \in Run \ {r} : last'[q] = last[q] /\ next'[q] = next[q]
    BY <1>5 DEF ReadNotes, TypeOK
  <2>3. \A q \in Run \ {r} : stage'[q] = stage[q]
    BY <1>5 DEF ReadNotes, LaunchPasses, TypeOK
  <2>4. \A q \in Run \ {r} : Follows(q)'
    BY <1>c, <2>1, <2>2, <2>3
  <2>5. \A d \in covered[r] : d \in Invoice /\ Covers(Credit(notes, d))
    BY <1>0, <1>a
  <2>6. \A d \in Invoice : Credit(notes, d) \in Nat
    BY <1>0, CreditType
  <2>7. ASSUME "NC" \notin moved[r], stage'[r] = "pages"
        PROVE  /\ \A d \in Invoice : credited'[r][d] <= Credit(notes, d)
               /\ \A d \in covered[r] : Covers(credited'[r][d])
    <3>1. \A d \in Invoice : credited'[r][d] = Credit(notes, d)
      BY <1>5, <2>7, NotesRead
    <3> QED BY <2>5, <2>6, <3>1
  <2>8. ASSUME "NC" \notin moved[r], stage'[r] = "notes"
        PROVE  /\ last'[r] = PageCount(notes)
               /\ \A d \in Invoice : credited'[r][d] = Credit(Prefix(notes, next'[r] - 1), d)
    BY <1>5, <2>8, NotesRead
  <2>9. Follows(r)'
    BY <2>1, <2>5, <2>7, <2>8
  <2> QED BY <1>b, <2>4, <2>9
<1>6. ASSUME NEW r \in Run, LoseNotes(r) PROVE CreditsFollowNotes'
  <2>1. /\ UNCHANGED <<notes, next, last, credited, covered, moved>>
        /\ stage[r] = "notes" /\ stage'[r] = "pages" /\ errors'[r]
        /\ \A q \in Run \ {r} : stage'[q] = stage[q] /\ errors'[q] = errors[q]
    BY <1>6 DEF LoseNotes, LaunchPasses, TypeOK
  <2>2. \A q \in Run \ {r} : Follows(q)'
    BY <1>c, <2>1
  <2>3. ASSUME "NC" \notin moved[r]
        PROVE  \A d \in Invoice : credited[r][d] <= Credit(notes, d)
    <3>1. Prefix(notes, next[r] - 1) \in SUBSET Note /\ Prefix(notes, next[r] - 1) \subseteq notes
      BY <1>0 DEF Prefix
    <3>2. \A d \in Invoice : Credit(Prefix(notes, next[r] - 1), d) <= Credit(notes, d)
      BY <1>0, <3>1, CreditGrows
    <3> QED BY <1>a, <2>1, <2>3, <3>2
  <2>4. Follows(r)'
    BY <1>a, <2>1, <2>3
  <2> QED BY <1>b, <2>2, <2>4
<1>7. ASSUME NEW r \in Run, NEW kind \in Kind, NEW k \in Page, PageStep(r, kind, k)
      PROVE  CreditsFollowNotes'
  <2>1. /\ UNCHANGED <<notes, stage, next, last, credited, covered, moved>>
        /\ \A q \in Run : errors[q] => errors'[q]
    BY <1>7, PageSteps
  <2> QED BY <1>b, <1>c, <2>1
<1>8. ASSUME NEW r \in Run, NEW kind \in Kind, FanOut(r, kind) PROVE CreditsFollowNotes'
  BY <1>b, <1>c, <1>8 DEF FanOut
<1>9. ASSUME NEW r \in Run, End(r) PROVE CreditsFollowNotes'
  <2>1. /\ stage'[r] \in {"ended", "failed"} /\ covered'[r] = {} /\ UNCHANGED notes
        /\ \A q \in Run \ {r} :
             /\ stage'[q] = stage[q] /\ next'[q] = next[q] /\ last'[q] = last[q]
             /\ credited'[q] = credited[q] /\ errors'[q] = errors[q]
             /\ covered'[q] = covered[q] /\ moved'[q] = moved[q]
    BY <1>9 DEF End, TypeOK
  <2>2. Follows(r)'
    BY <2>1
  <2>3. \A q \in Run \ {r} : Follows(q)'
    BY <1>c, <2>1
  <2> QED BY <1>b, <2>2, <2>3
<1>10. CASE UNCHANGED vars
  BY <1>b, <1>c, <1>10 DEF vars
<1> QED
  BY <1>1, <1>2, <1>3, <1>4, <1>5, <1>6, <1>7, <1>8, <1>9, <1>10 DEF Next, RunStep

LEMMA PagesHold ==
  TypeOK /\ PagesFollowStage /\ PagesHoldListing /\ [Next]_vars => PagesHoldListing'
<1> SUFFICES ASSUME TypeOK, PagesFollowStage, PagesHoldListing, [Next]_vars
             PROVE  PagesHoldListing'
  OBVIOUS
\* What the invariant says of one pass of a run.
<1> DEFINE Holds(r, kind) == stage[r] = "pages" /\ kind \notin moved[r] =>
      /\ page[r][kind][1] \in {"saving", "saved"} =>
           total[r][kind] = PageCount(Listing(r, kind))
      /\ \A k \in Page : page[r][kind][k] \in {"saving", "saved"} =>
           \A d \in Slice(Listing(r, kind), k) :
             \/ d \in touched[r]
             \/ \E unpaid \in Amount : <<d, unpaid>> \in got[r][kind][k]
<1>a. \A r \in Run, kind \in Kind : Holds(r, kind)
  BY DEF PagesHoldListing
<1>b. (\A r \in Run, kind \in Kind : Holds(r, kind)') => PagesHoldListing'
  BY DEF PagesHoldListing
<1>c. ASSUME NEW q \in Run, NEW t \in Kind, Listing(q, t)' = Listing(q, t),
             stage'[q] = stage[q], moved[q] \subseteq moved'[q], touched[q] \subseteq touched'[q],
             total'[q][t] = total[q][t], page'[q][t] = page[q][t], got'[q][t] = got[q][t]
      PROVE  Holds(q, t)'
  <2>1. Holds(q, t)
    BY <1>a
  <2> QED BY <1>c, <2>1
<1>d. ASSUME NEW q \in Run, stage'[q] # "pages", NEW t \in Kind PROVE Holds(q, t)'
  BY <1>d
<1>e. 1 \in Page
  BY DEF Page
<1>1. CASE SiigoStep
  <2>1. /\ UNCHANGED <<stage, total, page, got, touched>>
        /\ \A r \in Run :
             /\ moved[r] \subseteq moved'[r]
             /\ \A kind \in Kind : AtKind(r, kind) /\ kind \notin moved'[r] =>
                  Listing(r, kind)' = Listing(r, kind)
    BY <1>1, SiigoSteps
  <2>2. ASSUME NEW r \in Run, NEW kind \in Kind PROVE Holds(r, kind)'
    <3>1. CASE AtKind(r, kind) /\ kind \notin moved'[r]
      BY <1>c, <2>1, <3>1
    <3>2. CASE kind \in moved'[r]
      BY <3>2
    <3>3. CASE ~AtKind(r, kind) /\ stage[r] = "pages"
      <4>1. page[r][kind][1] \in {"idle", "todo"}
        BY <3>3 DEF AtKind
      <4>2. \A k \in Page : page[r][kind][k] \notin {"saving", "saved"}
        BY <1>e, <4>1 DEF PagesFollowStage
      <4> QED BY <2>1, <4>1, <4>2
    <3>4. CASE stage[r] # "pages"
      BY <1>d, <2>1, <3>4
    <3> QED BY <3>1, <3>2, <3>3, <3>4
  <2> QED BY <1>b, <2>2
<1>2. ASSUME UNCHANGED <<issued, from, to>>
      PROVE  \A q \in Run, t \in Kind : Listing(q, t)' = Listing(q, t)
  BY <1>2 DEF Listing, InWindow
<1>3. CASE NextDay
  BY <1>b, <1>c, <1>2, <1>3, SMTT(40) DEF NextDay
<1>4. ASSUME NEW r \in Run, StartIncremental(r) \/ StartBootstrap(r) \/ StartReconcile(r)
      PROVE  PagesHoldListing'
  <2>1. /\ stage' = [stage EXCEPT ![r] = "notes"]
        /\ UNCHANGED <<issued, total, page, got, touched, moved>>
    BY <1>4, Starts
  <2>2. stage'[r] = "notes" /\ \A q \in Run \ {r} : stage'[q] = stage[q]
    BY <2>1 DEF TypeOK
  <2>3. \A q \in Run \ {r} : from'[q] = from[q] /\ to'[q] = to[q]
    BY <1>4 DEF StartIncremental, StartBootstrap, StartReconcile, StartWindow, TypeOK
  <2>4. \A q \in Run \ {r}, t \in Kind : Listing(q, t)' = Listing(q, t)
    BY <2>1, <2>3 DEF Listing, InWindow
  <2>5. \A q \in Run \ {r}, t \in Kind : Holds(q, t)'
    BY <1>c, <2>1, <2>2, <2>4, SMTT(40)
  <2>6. \A t \in Kind : Holds(r, t)'
    BY <1>d, <2>2
  <2> QED BY <1>b, <2>5, <2>6
<1>5. ASSUME NEW r \in Run, RefuseReconcile(r) PROVE PagesHoldListing'
  <2>1. /\ stage'[r] = "refused" /\ \A q \in Run \ {r} : stage'[q] = stage[q]
        /\ UNCHANGED <<issued, from, to, total, page, got, touched, moved>>
    BY <1>5 DEF RefuseReconcile, TypeOK
  <2>2. \A q \in Run \ {r}, t \in Kind : Holds(q, t)'
    BY <1>c, <1>2, <2>1, SMTT(40)
  <2>3. \A t \in Kind : Holds(r, t)'
    BY <1>d, <2>1
  <2> QED BY <1>b, <2>2, <2>3
<1>6. ASSUME NEW r \in Run, ReadNotes(r) \/ LoseNotes(r) PROVE PagesHoldListing'
  <2>1. /\ stage[r] = "notes" /\ UNCHANGED <<issued, from, to, total, got, touched, moved>>
        /\ UNCHANGED <<stage, page>> \/ LaunchPasses(r)
    BY <1>6 DEF ReadNotes, LoseNotes
  <2>2. \A q \in Run \ {r} : stage'[q] = stage[q] /\ page'[q] = page[q]
    BY <2>1 DEF LaunchPasses, TypeOK
  <2>3. \A q \in Run \ {r}, t \in Kind : Holds(q, t)'
    BY <1>c, <1>2, <2>1, <2>2, SMTT(40)
  <2>4. ASSUME NEW t \in Kind PROVE Holds(r, t)'
    <3>1. CASE UNCHANGED stage
      BY <1>d, <2>1, <3>1
    <3>2. CASE LaunchPasses(r)
      <4>1. \A k \in Page : page'[r][t][k] = IF k = 1 THEN "todo" ELSE "idle"
        BY <3>2 DEF LaunchPasses, TypeOK
      <4> QED BY <1>e, <4>1
    <3> QED BY <2>1, <3>1, <3>2
  <2> QED BY <1>b, <2>3, <2>4
<1>7. ASSUME NEW r \in Run, NEW kind \in Kind, NEW k \in Page, PageStep(r, kind, k)
      PROVE  PagesHoldListing'
  <2>1. /\ UNCHANGED <<issued, from, to, stage, moved>>
        /\ page[r][kind][k] \in {"todo", "saving"}
        /\ \A q \in Run : touched[q] \subseteq touched'[q]
        /\ \A q \in Run \ {r} : total'[q] = total[q] /\ page'[q] = page[q] /\ got'[q] = got[q]
        /\ \A t \in Kind, j \in Page : t # kind \/ j # k =>
              page'[r][t][j] = page[r][t][j] /\ got'[r][t][j] = got[r][t][j]
        /\ \A t \in Kind : t # kind \/ k # 1 => total'[r][t] = total[r][t]
    BY <1>7, PageSteps
  <2>2. \A q \in Run, t \in Kind : Listing(q, t)' = Listing(q, t)
    BY <1>2, <2>1
  <2>3. ASSUME NEW q \in Run \ {r}, NEW t \in Kind PROVE Holds(q, t)'
    <3>1. /\ Listing(q, t)' = Listing(q, t) /\ stage'[q] = stage[q]
          /\ moved[q] \subseteq moved'[q] /\ touched[q] \subseteq touched'[q]
          /\ total'[q][t] = total[q][t] /\ page'[q][t] = page[q][t] /\ got'[q][t] = got[q][t]
      BY <2>1, <2>2
    <3> HIDE DEF Holds
    <3> QED BY <1>c, <3>1
  <2>4. ASSUME NEW t \in Kind, t # kind PROVE Holds(r, t)'
    <3>1. Holds(r, t)
      BY <1>a
    <3> QED BY <1>e, <2>1, <2>2, <2>4, <3>1, SMTT(40)
  <2>5. ASSUME stage[r] = "pages", kind \notin moved[r], page'[r][kind][k] \in {"saving", "saved"}
        PROVE  \A d \in Slice(Listing(r, kind), k) :
                 \/ d \in touched'[r]
                 \/ \E unpaid \in Amount : <<d, unpaid>> \in got'[r][kind][k]
    <3>1. CASE FetchPage(r, kind, k)
      <4>1. got'[r][kind][k] = {<<d, balance[d]>> : d \in Slice(Listing(r, kind), k)}
        BY <3>1 DEF FetchPage, TypeOK
      <4>2. \A d \in Slice(Listing(r, kind), k) : balance[d] \in Amount
        <5>1. Listing(r, kind) \in SUBSET Doc
          BY ListingType
        <5> QED BY <5>1 DEF Slice, TypeOK
      <4> QED BY <4>1, <4>2
    <3>2. CASE SaveRecord(r, kind, k)
      <4>1. PICK d \in Doc, unpaid \in Amount : Stored(r, kind, k, d, unpaid)
        BY <3>2, StoredRecord
      <4>2. page[r][kind][k] = "saving"
        BY <3>2 DEF SaveRecord
      <4>3. \A e \in Slice(Listing(r, kind), k) :
              \/ e \in touched[r]
              \/ \E u \in Amount : <<e, u>> \in got[r][kind][k]
        BY <1>a, <2>5, <4>2
      <4>4. /\ touched'[r] = touched[r] \cup {d}
            /\ got'[r][kind][k] = got[r][kind][k] \ {<<d, unpaid>>}
        BY <4>1 DEF Stored
      <4> QED BY <4>3, <4>4
    <3>3. CASE LosePage(r, kind, k)
      BY <2>5, <3>3 DEF LosePage, TypeOK
    <3>4. CASE FailToSave(r, kind, k)
      BY <2>5, <3>4 DEF FailToSave, TypeOK
    <3> QED BY <1>7, <3>1, <3>2, <3>3, <3>4 DEF PageStep
  <2>6. ASSUME stage[r] = "pages", kind \notin moved[r],
               page'[r][kind][1] \in {"saving", "saved"}
        PROVE  total'[r][kind] = PageCount(Listing(r, kind))
    <3>1. CASE k # 1
      <4>1. page'[r][kind][1] = page[r][kind][1] /\ total'[r][kind] = total[r][kind]
        BY <1>e, <2>1, <3>1
      <4> QED BY <1>a, <2>6, <4>1
    <3>2. CASE FetchPage(r, kind, k) /\ k = 1
      BY <3>2 DEF FetchPage, TypeOK
    <3>3. CASE SaveRecord(r, kind, k) /\ k = 1
      <4>1. page[r][kind][1] = "saving" /\ total' = total
        BY <3>3 DEF SaveRecord
      <4> QED BY <1>a, <2>6, <4>1
    <3>4. CASE LosePage(r, kind, k) /\ k = 1
      BY <2>6, <3>4 DEF LosePage, TypeOK
    <3>5. CASE FailToSave(r, kind, k) /\ k = 1
      BY <2>6, <3>5 DEF FailToSave, TypeOK
    <3> QED BY <1>7, <3>1, <3>2, <3>3, <3>4, <3>5 DEF PageStep
  <2>7. ASSUME stage[r] = "pages", kind \notin moved[r], NEW j \in Page, j # k,
               page'[r][kind][j] \in {"saving", "saved"}, NEW d \in Slice(Listing(r, kind), j)
        PROVE  \/ d \in touched'[r]
               \/ \E unpaid \in Amount : <<d, unpaid>> \in got'[r][kind][j]
    <3>1. page'[r][kind][j] = page[r][kind][j] /\ got'[r][kind][j] = got[r][kind][j]
      BY <2>1, <2>7
    <3>2. \/ d \in touched[r]
          \/ \E unpaid \in Amount : <<d, unpaid>> \in got[r][kind][j]
      BY <1>a, <2>7, <3>1
    <3> QED BY <2>1, <3>1, <3>2
  <2>8. Holds(r, kind)'
    BY <2>1, <2>2, <2>5, <2>6, <2>7, SMTT(40)
  <2> QED BY <1>b, <2>3, <2>4, <2>8
<1>8. ASSUME NEW r \in Run, NEW kind \in Kind, FanOut(r, kind) PROVE PagesHoldListing'
  <2>1. /\ UNCHANGED <<issued, from, to, stage, total, got, touched, moved>>
        /\ page[r][kind][1] = "saved"
        /\ \A q \in Run \ {r} : page'[q] = page[q]
        /\ \A t \in Kind \ {kind} : page'[r][t] = page[r][t]
        /\ \A j \in Page : \/ page'[r][kind][j] = page[r][kind][j]
                           \/ page'[r][kind][j] = "todo"
    BY <1>8 DEF FanOut, TypeOK
  <2>2. \A q \in Run, t \in Kind : Listing(q, t)' = Listing(q, t)
    BY <1>2, <2>1
  <2>3. \A q \in Run, t \in Kind : q # r \/ t # kind => Holds(q, t)'
    BY <1>c, <2>1, <2>2, SMTT(40)
  <2>4. Holds(r, kind)'
    <3>1. Holds(r, kind)
      BY <1>a
    <3>2. \A j \in Page : page'[r][kind][j] \in {"saving", "saved"} =>
                            page'[r][kind][j] = page[r][kind][j]
      BY <2>1
    <3> QED BY <1>e, <2>1, <2>2, <3>1, <3>2
  <2> QED BY <1>b, <2>3, <2>4
<1>9. ASSUME NEW r \in Run, End(r) PROVE PagesHoldListing'
  <2>1. /\ stage'[r] \in {"ended", "failed"} /\ UNCHANGED issued
        /\ \A q \in Run \ {r} :
             /\ stage'[q] = stage[q] /\ from'[q] = from[q] /\ to'[q] = to[q]
             /\ total'[q] = total[q] /\ page'[q] = page[q] /\ got'[q] = got[q]
             /\ touched'[q] = touched[q] /\ moved'[q] = moved[q]
    BY <1>9 DEF End, TypeOK
  <2>2. \A q \in Run \ {r}, t \in Kind : Listing(q, t)' = Listing(q, t)
    BY <2>1 DEF Listing, InWindow
  <2>3. ASSUME NEW q \in Run \ {r}, NEW t \in Kind PROVE Holds(q, t)'
    <3>1. /\ Listing(q, t)' = Listing(q, t) /\ stage'[q] = stage[q]
          /\ moved[q] \subseteq moved'[q] /\ touched[q] \subseteq touched'[q]
          /\ total'[q][t] = total[q][t] /\ page'[q][t] = page[q][t] /\ got'[q][t] = got[q][t]
      BY <2>1, <2>2
    <3> HIDE DEF Holds
    <3> QED BY <1>c, <3>1
  <2>4. \A t \in Kind : Holds(r, t)'
    BY <1>d, <2>1
  <2> QED BY <1>b, <2>3, <2>4
<1>10. CASE UNCHANGED vars
  BY <1>b, <1>c, <1>2, <1>10 DEF vars
<1> QED
  BY <1>1, <1>3, <1>4, <1>5, <1>6, <1>7, <1>8, <1>9, <1>10 DEF Next, RunStep

\* The windows hold the rows they were chosen for, the credit read is what the
\* notes say, and every fetched page has its records stored or still to come,
\* as far as the lists stood still: the argument of the theorems below.
THEOREM InvariantHolds == Spec => []DocumentInvariant
<1>1. Init => DocumentInvariant
  <2> SUFFICES ASSUME Init PROVE DocumentInvariant
    OBVIOUS
  <2>1. \A r \in Run : /\ stage[r] = "idle" /\ next[r] = 1 /\ credited[r] = NoCredit
                       /\ moved[r] = {} /\ touched[r] = {} /\ open[r] = {} /\ covered[r] = {}
                       /\ to[r] = 0
                       /\ \A kind \in Kind, k \in Page :
                            page[r][kind][k] = "idle" /\ got[r][kind][k] = {}
    BY DEF Init, NoPages, Nothing
  <2>2. today = 0 /\ rows = {}
    BY DEF Init
  <2> QED BY <2>1, <2>2 DEF DocumentInvariant, PagesFollowStage, WindowsHoldRows,
                            CreditsFollowNotes, PagesHoldListing
<1>2. TypeOK /\ DocumentInvariant /\ [Next]_vars => DocumentInvariant'
  BY PagesFollow, WindowsFollow, CreditsFollow, PagesHold DEF DocumentInvariant
<1> QED BY <1>1, <1>2, TypeCorrect, PTL DEF Spec

-----------------------------------------------------------------------------
(* What a step stores *)

\* A document is stored by SaveRecord alone, and its status is the one that the
\* notes read so far give it.
LEMMA StoresIsSave ==
  ASSUME TypeOK, PagesFollowStage, [Next]_vars, NEW r \in Run, NEW d \in Doc, Stores(r, d)
  PROVE  \E unpaid \in Amount :
           /\ stage[r] = "pages"
           /\ status'[d] = StatusOf(d, unpaid, CreditOf(credited[r], d))
<1> DEFINE kind == KindOf(d)
<1>0. kind \in Kind
  BY DEF KindOf, Kind
<1>1. PICK k \in Page : \E e \in got[r][kind][k] :
        e \notin got'[r][kind][k] /\ e[1] = d /\ page'[r][kind][k] # "dberr"
  BY DEF Stores
<1> HIDE DEF kind
<1>e. PICK e \in got[r][kind][k] : e \notin got'[r][kind][k] /\ e[1] = d
  BY <1>1
<1>2. d \in touched'[r]
  BY DEF Stores
<1>3. page[r][kind][k] = "saving" /\ stage[r] = "pages"
  <2>1. page[r][kind][k] = "saving"
    BY <1>0, <1>1 DEF PagesFollowStage
  <2> QED BY <1>0, <2>1 DEF PagesFollowStage
<1>4. ASSUME UNCHANGED got PROVE FALSE
  BY <1>1, <1>4
<1>5. SaveRecord(r, kind, k)
  <2>1. CASE SiigoStep
    BY <1>4, <2>1, SiigoSteps
  <2>2. CASE NextDay \/ UNCHANGED vars
    BY <1>4, <2>2 DEF NextDay, vars
  <2>3. ASSUME NEW q \in Run, RunStep(q), ~End(q) PROVE FALSE
    BY <1>4, <2>3 DEF RunStep, StartIncremental, StartBootstrap, StartReconcile, StartWindow,
                      RefuseReconcile, ReadNotes, LoseNotes
  <2>4. ASSUME NEW q \in Run, End(q) PROVE FALSE
    <3>1. touched'[q] = {} /\ \A p \in Run \ {q} : got'[p] = got[p]
      BY <2>4 DEF End, TypeOK
    <3> QED BY <1>0, <1>e, <1>2, <3>1
  <2>5. ASSUME NEW q \in Run, NEW t \in Kind, FanOut(q, t) PROVE FALSE
    BY <1>4, <2>5 DEF FanOut
  <2>6. ASSUME NEW q \in Run, NEW t \in Kind, NEW j \in Page, PageStep(q, t, j)
        PROVE  SaveRecord(r, kind, k)
    <3>1. q = r /\ t = kind /\ j = k
      <4>1. /\ \A p \in Run \ {q} : got'[p] = got[p]
            /\ \A u \in Kind, i \in Page : u # t \/ i # j => got'[q][u][i] = got[q][u][i]
        BY <2>6, PageSteps
      <4> QED BY <1>0, <1>e, <4>1
    <3>2. ~FetchPage(r, kind, k) /\ ~LosePage(r, kind, k)
      BY <1>3 DEF FetchPage, LosePage
    <3>3. FailToSave(r, kind, k) => page'[r][kind][k] = "dberr"
      BY <1>0 DEF FailToSave, TypeOK
    <3> QED BY <1>1, <2>6, <3>1, <3>2, <3>3 DEF PageStep
  <2> QED BY <2>1, <2>2, <2>3, <2>4, <2>5, <2>6 DEF Next
<1>6. PICK c \in Doc, unpaid \in Amount : Stored(r, kind, k, c, unpaid)
  BY <1>0, <1>5, StoredRecord
<1>7. c = d
  <2>1. got'[r][kind][k] = got[r][kind][k] \ {<<c, unpaid>>}
    BY <1>6 DEF Stored
  <2>2. e = <<c, unpaid>>
    BY <1>e, <2>1
  <2> QED BY <1>e, <2>2
<1>8. status'[d] = StatusOf(d, unpaid, CreditOf(credited[r], d))
  BY <1>6, <1>7 DEF Stored
<1> QED BY <1>3, <1>8

\* The two ways to say that the credit covers an invoice.
LEMMA CoversIsAnnulled ==
  ASSUME NEW d \in Invoice, TypeOK
  PROVE  Annulled(d) <=> Covers(Credit(notes, d))
<1>1. Credit(notes, d) \in Nat
  BY CreditType DEF TypeOK
<1> QED BY <1>1 DEF Annulled, Covers

\* Unless the notes moved while they were read, what is stored as Anulado is
\* credited in Siigo.
THEOREM NoFalseAnnulmentHolds == Spec => NoFalseAnnulment
<1> DEFINE Sound == \A r \in Run, d \in Doc :
             status'[d] = "Anulado" /\ Stores(r, d) => Annulled(d) \/ "NC" \in moved[r]
<1>1. TypeOK /\ DocumentInvariant /\ [Next]_vars => [Sound]_vars
  <2> SUFFICES ASSUME TypeOK, DocumentInvariant, [Next]_vars, NEW r \in Run, NEW d \in Doc,
                      status'[d] = "Anulado", Stores(r, d), "NC" \notin moved[r]
               PROVE  Annulled(d)
    OBVIOUS
  <2>1. PICK unpaid \in Amount :
          stage[r] = "pages" /\ status'[d] = StatusOf(d, unpaid, CreditOf(credited[r], d))
    BY StoresIsSave DEF DocumentInvariant
  <2>2. d \in Invoice /\ Covers(credited[r][d])
    BY <2>1 DEF StatusOf, BalanceStatus, CreditOf
  <2>3. credited[r][d] <= Credit(notes, d)
    BY <2>1, <2>2 DEF DocumentInvariant, CreditsFollowNotes
  <2>4. credited[r][d] \in Nat /\ Credit(notes, d) \in Nat
    BY <2>2, CreditType DEF TypeOK
  <2>5. Covers(Credit(notes, d))
    BY <2>2, <2>3, <2>4 DEF Covers
  <2> QED BY <2>2, <2>5, CoversIsAnnulled
<1> QED BY <1>1, TypeCorrect, InvariantHolds, PTL DEF Spec, NoFalseAnnulment

\* A run without errors writes another status over an invoice that was annulled
\* when it started only if the notes moved while they were read.
THEOREM AnnulmentSound == Spec => AnnulmentSeenOrReported
<1> DEFINE Seen == \A r \in Run : \A d \in covered[r] :
             Stores(r, d) /\ ~errors[r] => status'[d] = "Anulado" \/ "NC" \in moved[r]
<1>1. TypeOK /\ DocumentInvariant /\ [Next]_vars => [Seen]_vars
  <2> SUFFICES ASSUME TypeOK, DocumentInvariant, [Next]_vars, NEW r \in Run,
                      NEW d \in covered[r], Stores(r, d), ~errors[r], "NC" \notin moved[r]
               PROVE  status'[d] = "Anulado"
    OBVIOUS
  <2>1. d \in Invoice
    BY DEF TypeOK
  <2>2. PICK unpaid \in Amount :
          stage[r] = "pages" /\ status'[d] = StatusOf(d, unpaid, CreditOf(credited[r], d))
    BY <2>1, StoresIsSave DEF DocumentInvariant
  <2>3. Covers(credited[r][d])
    BY <2>2 DEF DocumentInvariant, CreditsFollowNotes
  <2> QED BY <2>1, <2>2, <2>3 DEF StatusOf, CreditOf
<1> QED BY <1>1, TypeCorrect, InvariantHolds, PTL DEF Spec, AnnulmentSeenOrReported

-----------------------------------------------------------------------------
(* What a clean run leaves *)

\* Only End ends a run.
LEMMA EndsCleanIsEnd ==
  ASSUME TypeOK, [Next]_vars, NEW r \in Run, EndsClean(r)
  PROVE  End(r)
<1>1. stage[r] = "pages" /\ stage'[r] = "ended"
  BY DEF EndsClean
<1>2. ASSUME stage'[r] = stage[r] PROVE FALSE
  BY <1>1, <1>2
<1>3. CASE SiigoStep
  BY <1>2, <1>3, SiigoSteps
<1>4. CASE NextDay \/ UNCHANGED vars
  BY <1>2, <1>4 DEF NextDay, vars
<1>5. ASSUME NEW q \in Run, RunStep(q) PROVE End(r)
  <2>1. CASE StartIncremental(q) \/ StartBootstrap(q) \/ StartReconcile(q)
    <3>1. stage' = [stage EXCEPT ![q] = "notes"]
      BY <2>1, Starts
    <3> QED BY <1>1, <3>1 DEF TypeOK
  <2>2. CASE RefuseReconcile(q)
    BY <1>1, <2>2 DEF RefuseReconcile, TypeOK
  <2>3. CASE ReadNotes(q) \/ LoseNotes(q)
    BY <1>1, <2>3 DEF ReadNotes, LoseNotes, LaunchPasses, TypeOK
  <2>4. CASE End(q)
    <3>1. \A p \in Run \ {q} : stage'[p] = stage[p]
      BY <2>4 DEF End, TypeOK
    <3>2. q = r
      BY <1>1, <3>1
    <3> QED BY <2>4, <3>2
  <2> QED BY <1>5, <2>1, <2>2, <2>3, <2>4 DEF RunStep
<1>6. ASSUME NEW q \in Run, NEW t \in Kind, FanOut(q, t) PROVE FALSE
  BY <1>2, <1>6 DEF FanOut
<1>7. ASSUME NEW q \in Run, NEW t \in Kind, NEW k \in Page, PageStep(q, t, k) PROVE FALSE
  BY <1>2, <1>7, PageSteps
<1> QED BY <1>3, <1>4, <1>5, <1>6, <1>7 DEF Next

\* A run that ends without an error has stored what a list that stood still
\* holds.
LEMMA CleanRunStoresListing ==
  ASSUME TypeOK, DocumentInvariant, [Next]_vars, NEW r \in Run, EndsClean(r),
         NEW kind \in Kind, kind \notin moved[r], NEW d \in Listing(r, kind)
  PROVE  d \in touched[r]
<1>1. End(r)
  BY EndsCleanIsEnd
<1>2. stage[r] = "pages" /\ ~errors[r] /\ Joined(r, kind) /\ 1 \in Page
  BY <1>1 DEF End, EndsClean, Page
<1>3. \A k \in Page : page[r][kind][k] \notin {"lost", "dberr"}
  <2>1. ~Broken(r)
    BY <1>1 DEF End, EndsClean, TypeOK
  <2>2. \A k \in Page : page[r][kind][k] # "lost"
    BY <1>2 DEF DocumentInvariant, PagesFollowStage
  <2> QED BY <2>1, <2>2 DEF Broken
<1>4. page[r][kind][1] = "saved"
  BY <1>2, <1>3 DEF Joined, Finished
<1>5. total[r][kind] = PageCount(Listing(r, kind))
  BY <1>2, <1>4 DEF DocumentInvariant, PagesHoldListing
<1>6. PICK k \in Page : d \in Slice(Listing(r, kind), k) /\ k <= PageCount(Listing(r, kind))
  <2>1. Listing(r, kind) \in SUBSET Doc
    BY ListingType
  <2> QED BY <2>1, PagesCover
<1>7. k \in Expected(r, kind)
  BY <1>5, <1>6 DEF Expected
<1>8. page[r][kind][k] = "saved"
  BY <1>2, <1>3, <1>4, <1>7 DEF Joined, Finished
<1>9. got[r][kind][k] = {}
  BY <1>8 DEF DocumentInvariant, PagesFollowStage
<1>10. \/ d \in touched[r]
       \/ \E unpaid \in Amount : <<d, unpaid>> \in got[r][kind][k]
  BY <1>2, <1>6, <1>8 DEF DocumentInvariant, PagesHoldListing
<1> QED BY <1>9, <1>10

\* A document of the window that Siigo lists is in the listing of its kind.
LEMMA Listed ==
  ASSUME TypeOK, NEW r \in Run, NEW d \in issued, InWindow(r, d)
  PROVE  KindOf(d) \in Kind /\ d \in Listing(r, KindOf(d))
BY DEF TypeOK, Listing, KindOf, DocsOf, Kind

\* A clean reconcile rewrites every document that was open when it started and
\* is still listed, unless its list changed while the run was at it.
THEOREM ReconcileSound == Spec => ReconcileReachesOpenRows
<1> DEFINE Reached == \A r \in Run : EndsClean(r) =>
             \A d \in open[r] \cap issued : d \in touched[r] \/ KindOf(d) \in moved[r]
<1>1. TypeOK /\ DocumentInvariant /\ [Next]_vars => [Reached]_vars
  <2> SUFFICES ASSUME TypeOK, DocumentInvariant, [Next]_vars, NEW r \in Run, EndsClean(r),
                      NEW d \in open[r] \cap issued, KindOf(d) \notin moved[r]
               PROVE  d \in touched[r]
    OBVIOUS
  <2>1. InWindow(r, d)
    BY DEF DocumentInvariant, WindowsHoldRows
  <2>2. KindOf(d) \in Kind /\ d \in Listing(r, KindOf(d))
    BY <2>1, Listed
  <2> QED BY <2>2, CleanRunStoresListing
<1> QED BY <1>1, TypeCorrect, InvariantHolds, PTL DEF Spec, ReconcileReachesOpenRows

-----------------------------------------------------------------------------
(* A quiet run *)

\* No other run is under way next to a quiet one.
LEMMA AloneStep == TypeOK /\ QuietRunIsAlone /\ [Next]_vars => QuietRunIsAlone'
<1> SUFFICES ASSUME TypeOK, QuietRunIsAlone, [Next]_vars PROVE QuietRunIsAlone'
  OBVIOUS
<1>1. ASSUME \A q \in Run : quiet'[q] => quiet[q], \A q \in Run : Active(q)' => Active(q)
      PROVE  QuietRunIsAlone'
  BY <1>1 DEF QuietRunIsAlone
<1>2. CASE SiigoStep
  <2>1. \A r \in Run : quiet'[r] = FALSE
    BY <1>2, SiigoSteps
  <2> QED BY <2>1 DEF QuietRunIsAlone
<1>3. ASSUME NEW r \in Run, StartIncremental(r) \/ StartBootstrap(r) \/ StartReconcile(r)
      PROVE  QuietRunIsAlone'
  <2>1. /\ stage' = [stage EXCEPT ![r] = "notes"]
        /\ quiet' = [q \in Run |-> q = r /\ \A s \in Run : ~Active(s)]
    BY <1>3, Starts
  <2>2. \A q \in Run : quiet'[q] => q = r /\ \A s \in Run : ~Active(s)
    BY <2>1, Zenon
  <2>3. \A q \in Run \ {r} : Active(q)' => Active(q)
    BY <2>1 DEF Active, TypeOK
  <2> QED BY <2>2, <2>3 DEF QuietRunIsAlone
<1>4. ASSUME NEW r \in Run, RefuseReconcile(r) \/ ReadNotes(r) \/ LoseNotes(r)
      PROVE  QuietRunIsAlone'
  <2>1. quiet' = quiet
    BY <1>4 DEF RefuseReconcile, ReadNotes, LoseNotes
  <2>2. \A q \in Run : Active(q)' => Active(q)
    BY <1>4 DEF RefuseReconcile, ReadNotes, LoseNotes, LaunchPasses, Active, TypeOK
  <2> QED BY <1>1, <2>1, <2>2
<1>5. ASSUME NEW r \in Run, End(r) PROVE QuietRunIsAlone'
  <2>1. \A q \in Run : quiet'[q] => quiet[q]
    BY <1>5 DEF End, TypeOK
  <2>2. \A q \in Run : Active(q)' => Active(q)
    BY <1>5 DEF End, Active, TypeOK
  <2> QED BY <1>1, <2>1, <2>2
<1>6. ASSUME NEW r \in Run, NEW kind \in Kind, NEW k \in Page, PageStep(r, kind, k)
      PROVE  QuietRunIsAlone'
  <2>1. UNCHANGED <<stage, quiet>>
    BY <1>6, PageSteps
  <2> QED BY <1>1, <2>1 DEF Active
<1>7. ASSUME NEW r \in Run, NEW kind \in Kind, FanOut(r, kind) PROVE QuietRunIsAlone'
  BY <1>1, <1>7 DEF FanOut, Active
<1>8. CASE NextDay \/ UNCHANGED vars
  BY <1>1, <1>8 DEF NextDay, Active, vars
<1> QED BY <1>2, <1>3, <1>4, <1>5, <1>6, <1>7, <1>8 DEF Next, RunStep

\* What a quiet run has read is what Siigo has, and what it stored is that.
LEMMA QuietStep ==
  TypeOK /\ DocumentInvariant /\ QuietRunIsAlone /\ QuietRunReads /\ [Next]_vars
    => QuietRunReads'
<1> SUFFICES ASSUME TypeOK, DocumentInvariant, QuietRunIsAlone, QuietRunReads, [Next]_vars
             PROVE  QuietRunReads'
  OBVIOUS
\* What the invariant says of one run.
<1> DEFINE Reads(r) == quiet[r] /\ Active(r) =>
      /\ moved[r] = {}
      /\ stage[r] = "pages" /\ ~errors[r] =>
           \A d \in Invoice : credited[r][d] = Credit(notes, d)
      /\ \A kind \in Kind, k \in Page : \A e \in got[r][kind][k] : e[2] = balance[e[1]]
      /\ \A d \in touched[r] :
           /\ d \in rows /\ stored[d] = balance[d]
           /\ ~errors[r] => status[d] = StatusOf(d, balance[d], CreditOf(credited[r], d))
<1>a. \A r \in Run : Reads(r)
  BY DEF QuietRunReads
<1>b. (\A r \in Run : Reads(r)') => QuietRunReads'
  BY DEF QuietRunReads
<1>c. ASSUME NEW q \in Run, UNCHANGED <<notes, balance, rows, stored, status>>,
             quiet'[q] => quiet[q], stage'[q] = stage[q], moved'[q] = moved[q],
             errors[q] => errors'[q], credited'[q] = credited[q], got'[q] = got[q],
             touched'[q] = touched[q]
      PROVE  Reads(q)'
  BY <1>a, <1>c DEF Active, CreditOf
<1>d. PagesFollowStage
  BY DEF DocumentInvariant
<1>1. CASE SiigoStep
  <2>1. \A r \in Run : quiet'[r] = FALSE
    BY <1>1, SiigoSteps
  <2> QED BY <1>b, <2>1
<1>2. CASE NextDay \/ UNCHANGED vars
  BY <1>b, <1>c, <1>2 DEF NextDay, vars
<1>3. ASSUME NEW r \in Run, StartIncremental(r) \/ StartBootstrap(r) \/ StartReconcile(r)
      PROVE  QuietRunReads'
  <2>1. /\ stage[r] = "idle" /\ stage' = [stage EXCEPT ![r] = "notes"]
        /\ quiet' = [q \in Run |-> q = r /\ \A s \in Run : ~Active(s)]
        /\ UNCHANGED <<page, got, touched, moved>>
    BY <1>3, Starts
  <2>2. \A q \in Run : quiet'[q] => q = r
    BY <2>1, Zenon
  <2>3. stage'[r] = "notes"
    BY <2>1 DEF TypeOK
  <2>4. moved[r] = {} /\ touched[r] = {}
    BY <1>d, <2>1 DEF PagesFollowStage
  <2>5. \A kind \in Kind, k \in Page : page[r][kind][k] # "saving"
    BY <1>d, <2>1 DEF PagesFollowStage
  <2>6. \A kind \in Kind, k \in Page : got[r][kind][k] = {}
    BY <1>d, <2>5 DEF PagesFollowStage
  <2>7. Reads(r)'
    BY <2>1, <2>3, <2>4, <2>6
  <2>8. \A q \in Run \ {r} : Reads(q)'
    BY <2>2
  <2> QED BY <1>b, <2>7, <2>8
<1>4. ASSUME NEW r \in Run, RefuseReconcile(r) PROVE QuietRunReads'
  <2>1. /\ UNCHANGED <<notes, balance, rows, stored, status, quiet, moved, errors, credited, got,
                       touched>>
        /\ stage'[r] = "refused" /\ \A q \in Run \ {r} : stage'[q] = stage[q]
    BY <1>4 DEF RefuseReconcile, TypeOK
  <2>2. \A q \in Run \ {r} : Reads(q)'
    BY <1>c, <2>1
  <2>3. Reads(r)'
    BY <2>1 DEF Active
  <2> QED BY <1>b, <2>2, <2>3
<1>5. ASSUME NEW r \in Run, ReadNotes(r) \/ LoseNotes(r) PROVE QuietRunReads'
  <2>1. /\ UNCHANGED <<siigoVars, rowVars, quiet, moved, got, touched>> /\ stage[r] = "notes"
        /\ (UNCHANGED <<stage, page>> \/ LaunchPasses(r))
        /\ ReadNotes(r) \/ errors' = [errors EXCEPT ![r] = TRUE]
    BY <1>5 DEF ReadNotes, LoseNotes
  <2>2. \A q \in Run \ {r} : stage'[q] = stage[q] /\ credited'[q] = credited[q]
                             /\ errors'[q] = errors[q]
    BY <1>5 DEF ReadNotes, LoseNotes, LaunchPasses, TypeOK
  <2>3. \A q \in Run \ {r} : Reads(q)'
    BY <1>c, <2>1, <2>2
  <2>4. ASSUME quiet[r] PROVE Reads(r)'
    <3>1. Active(r) /\ moved[r] = {} /\ touched[r] = {}
      BY <1>a, <1>d, <2>1, <2>4 DEF Active, PagesFollowStage
    <3>2. \A kind \in Kind, k \in Page : \A e \in got[r][kind][k] : e[2] = balance[e[1]]
      BY <1>a, <2>4, <3>1
    <3>3. ASSUME stage'[r] = "pages", ~errors'[r]
          PROVE  \A d \in Invoice : credited'[r][d] = Credit(notes, d)
      <4>1. ReadNotes(r)
        BY <2>1, <3>3 DEF TypeOK
      <4>2. \A d \in Invoice : credited'[r][d] = Credit(notes, d)
        BY <2>1, <3>1, <3>3, <4>1, NotesRead DEF DocumentInvariant
      <4> QED BY <4>2
    <3> QED BY <2>1, <3>1, <3>2, <3>3
  <2>5. ~quiet[r] => Reads(r)'
    BY <2>1
  <2> QED BY <1>b, <2>3, <2>4, <2>5
<1>6. ASSUME NEW r \in Run, NEW kind \in Kind, NEW k \in Page, PageStep(r, kind, k)
      PROVE  QuietRunReads'
  <2>1. /\ UNCHANGED <<siigoVars, stage, next, last, credited, moved, quiet>>
        /\ page[r][kind][k] \in {"todo", "saving"}
        /\ \A q \in Run : errors[q] => errors'[q]
        /\ \A t \in Kind, j \in Page : t # kind \/ j # k => got'[r][t][j] = got[r][t][j]
    BY <1>6, PageSteps
  <2>2. stage[r] = "pages"
    BY <1>d, <2>1 DEF PagesFollowStage
  <2>3. \A q \in Run \ {r} : ~(quiet[q] /\ Active(q))
    BY <2>2 DEF QuietRunIsAlone, Active
  <2>4. \A q \in Run \ {r} : Reads(q)'
    BY <2>1, <2>3 DEF Active
  <2>5. ~quiet[r] => Reads(r)'
    BY <2>1
  <2>6. ASSUME quiet[r] PROVE Reads(r)'
    <3>1. /\ moved[r] = {}
          /\ ~errors[r] => \A d \in Invoice : credited[r][d] = Credit(notes, d)
          /\ \A t \in Kind, j \in Page : \A e \in got[r][t][j] : e[2] = balance[e[1]]
          /\ \A d \in touched[r] :
               /\ d \in rows /\ stored[d] = balance[d]
               /\ ~errors[r] => status[d] = StatusOf(d, balance[d], CreditOf(credited[r], d))
      BY <1>a, <2>2, <2>6 DEF Active
    <3>2. CASE FetchPage(r, kind, k)
      <4>1. /\ got'[r][kind][k] = {<<d, balance[d]>> : d \in Slice(Listing(r, kind), k)}
            /\ UNCHANGED <<rows, stored, status, touched, errors>>
        BY <3>2 DEF FetchPage, TypeOK
      <4>2. \A t \in Kind, j \in Page : \A e \in got'[r][t][j] : e[2] = balance[e[1]]
        BY <2>1, <3>1, <4>1
      <4> QED BY <2>1, <3>1, <4>1, <4>2 DEF CreditOf
    <3>3. CASE LosePage(r, kind, k)
      <4>1. UNCHANGED <<got, rows, stored, status, touched>>
        BY <3>3 DEF LosePage
      <4> QED BY <2>1, <3>1, <4>1 DEF CreditOf
    <3>4. CASE FailToSave(r, kind, k)
      <4>1. got'[r][kind][k] = {} /\ UNCHANGED <<rows, stored, status, touched, errors>>
        BY <3>4 DEF FailToSave, TypeOK
      <4>2. \A t \in Kind, j \in Page : \A e \in got'[r][t][j] : e[2] = balance[e[1]]
        BY <2>1, <3>1, <4>1
      <4> QED BY <2>1, <3>1, <4>1, <4>2 DEF CreditOf
    <3>5. CASE SaveRecord(r, kind, k)
      <4>1. PICK d \in Doc, unpaid \in Amount : Stored(r, kind, k, d, unpaid)
        BY <3>5, StoredRecord
      <4>2. unpaid = balance[d]
        BY <3>1, <4>1 DEF Stored
      <4>3. \A t \in Kind, j \in Page : \A e \in got'[r][t][j] : e[2] = balance[e[1]]
        BY <2>1, <3>1, <4>1 DEF Stored
      <4>4. /\ rows' = rows \cup {d} /\ stored'[d] = balance[d] /\ errors' = errors
            /\ status'[d] = StatusOf(d, balance[d], CreditOf(credited[r], d))
            /\ \A e \in Doc \ {d} : stored'[e] = stored[e] /\ status'[e] = status[e]
            /\ touched'[r] = touched[r] \cup {d}
        BY <4>1, <4>2 DEF Stored
      <4>5. \A e \in touched'[r] :
              /\ e \in rows' /\ stored'[e] = balance[e]
              /\ ~errors'[r] => status'[e] = StatusOf(e, balance[e], CreditOf(credited[r], e))
        <5>1. touched[r] \subseteq Doc
          BY DEF TypeOK
        <5> QED BY <3>1, <4>4, <5>1
      <4> QED BY <2>1, <3>1, <4>3, <4>4, <4>5 DEF CreditOf
    <3> QED BY <1>6, <3>2, <3>3, <3>4, <3>5 DEF PageStep
  <2> QED BY <1>b, <2>4, <2>5, <2>6
<1>7. ASSUME NEW r \in Run, NEW kind \in Kind, FanOut(r, kind) PROVE QuietRunReads'
  BY <1>b, <1>c, <1>7 DEF FanOut
<1>8. ASSUME NEW r \in Run, End(r) PROVE QuietRunReads'
  <2>1. /\ UNCHANGED <<siigoVars, rowVars>> /\ stage'[r] \in {"ended", "failed"}
        /\ \A q \in Run \ {r} :
             /\ quiet'[q] = quiet[q] /\ stage'[q] = stage[q] /\ moved'[q] = moved[q]
             /\ errors'[q] = errors[q] /\ credited'[q] = credited[q] /\ got'[q] = got[q]
             /\ touched'[q] = touched[q]
    BY <1>8 DEF End, TypeOK
  <2>2. \A q \in Run \ {r} : Reads(q)'
    BY <1>c, <2>1
  <2>3. Reads(r)'
    BY <2>1 DEF Active
  <2> QED BY <1>b, <2>2, <2>3
<1> QED BY <1>1, <1>2, <1>3, <1>4, <1>5, <1>6, <1>7, <1>8 DEF Next, RunStep

\* A clean run during which nothing else happened leaves every document of its
\* window as Siigo has it.
THEOREM QuietRunMirrorsSiigoHolds == Spec => QuietRunMirrorsSiigo
<1> DEFINE Inv == QuietRunIsAlone /\ QuietRunReads
           Mirrored == \A r \in Run : EndsClean(r) /\ quiet[r] =>
             \A d \in issued : InWindow(r, d) =>
               /\ d \in rows /\ stored[d] = balance[d]
               /\ status[d] = IF Annulled(d) THEN "Anulado" ELSE BalanceStatus(balance[d])
<1>1. Init => Inv
  BY DEF Init, QuietRunIsAlone, QuietRunReads
<1>2. TypeOK /\ DocumentInvariant /\ Inv /\ [Next]_vars => Inv'
  BY AloneStep, QuietStep
<1>3. TypeOK /\ DocumentInvariant /\ Inv /\ [Next]_vars => [Mirrored]_vars
  <2> SUFFICES ASSUME TypeOK, DocumentInvariant, QuietRunReads, [Next]_vars, NEW r \in Run,
                      EndsClean(r), quiet[r], NEW d \in issued, InWindow(r, d)
               PROVE  /\ d \in rows /\ stored[d] = balance[d]
                      /\ status[d] = IF Annulled(d) THEN "Anulado" ELSE BalanceStatus(balance[d])
    OBVIOUS
  <2>1. Active(r) /\ stage[r] = "pages" /\ ~errors[r]
    BY DEF EndsClean, Active
  <2>2. moved[r] = {} /\ \A e \in Invoice : credited[r][e] = Credit(notes, e)
    BY <2>1 DEF QuietRunReads
  <2>3. KindOf(d) \in Kind /\ d \in Listing(r, KindOf(d))
    BY Listed
  <2>4. d \in touched[r]
    BY <2>2, <2>3, CleanRunStoresListing
  <2>5. /\ d \in rows /\ stored[d] = balance[d]
        /\ status[d] = StatusOf(d, balance[d], CreditOf(credited[r], d))
    BY <2>1, <2>4 DEF QuietRunReads
  <2>6. d \in Invoice => CreditOf(credited[r], d) = Credit(notes, d)
                         /\ (Annulled(d) <=> Covers(Credit(notes, d)))
    BY <2>2, CoversIsAnnulled DEF CreditOf
  <2>7. d \notin Invoice => ~Annulled(d)
    BY DEF Annulled
  <2> QED BY <2>5, <2>6, <2>7 DEF StatusOf
<1> QED BY <1>1, <1>2, <1>3, TypeCorrect, InvariantHolds, PTL DEF Spec, QuietRunMirrorsSiigo
=====
