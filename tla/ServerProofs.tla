---------------------------- MODULE ServerProofs ----------------------------
(* Theorems of Server, for any instances, builds, files, requests and names.   *)
EXTENDS Server, TLAPS

USE FileAssumption, NameAssumption, NoneAssumption, LegacyAssumption, BoundAssumption

-----------------------------------------------------------------------------
(* Types *)

\* The variables of an instance, of its requests and of its tables keep their
\* types through every order of starts, stops and requests.
THEOREM TypeCorrect == Spec => []TypeOK
<1>1. Init => TypeOK
  <2> SUFFICES ASSUME Init PROVE TypeOK
    OBVIOUS
  <2> USE DEF Init, Day, Never, Starting
  <2>1. balance \in [DOMAIN balance -> [day : Day \cup {Never}, save : Nat]]
    OBVIOUS
  <2> QED BY <2>1 DEF TypeOK
<1>2. TypeOK /\ [Next]_vars => TypeOK'
  <2> SUFFICES ASSUME TypeOK, [Next]_vars PROVE TypeOK'
    OBVIOUS
  <2> USE DEF TypeOK, Day, Never, Starting, startVars, requestVars, rateVars
  <2>1. ASSUME NEW i \in Instance, Start(i) PROVE TypeOK'
    BY <2>1 DEF Start
  <2>2. ASSUME NEW i \in Instance, Apply(i) PROVE TypeOK'
    BY <2>2 DEF Apply
  <2>3. ASSUME NEW i \in Instance, Record(i) PROVE TypeOK'
    <3>1. CASE file[i] \in recorded
      BY <2>3, <3>1 DEF Record
    <3>2. CASE file[i] \notin recorded
      BY <2>3, <3>2 DEF Record
    <3> QED BY <3>1, <3>2
  <2>4. ASSUME NEW i \in Instance, Serve(i) PROVE TypeOK'
    BY <2>4 DEF Serve
  <2>5. ASSUME NEW i \in Instance, Stop(i) PROVE TypeOK'
    BY <2>5 DEF Stop
  <2>6. ASSUME NEW r \in Request, NEW i \in Instance, StartFetch(r, i) PROVE TypeOK'
    BY <2>6 DEF StartFetch
  <2>7. ASSUME NEW r \in Request, NEW i \in Instance, NEW n \in Name, CheckCategory(r, i, n)
        PROVE TypeOK'
    BY <2>7 DEF CheckCategory
  <2>8. ASSUME NEW r \in Request, InsertCategory(r) PROVE TypeOK'
    BY <2>8 DEF InsertCategory, Finish
  <2>9. ASSUME NEW r \in Request, Fetch(r) PROVE TypeOK'
    BY <2>9 DEF Fetch
  <2>10. ASSUME NEW r \in Request, FailFetch(r) PROVE TypeOK'
    BY <2>10 DEF FailFetch, Finish
  <2>11. ASSUME NEW r \in Request, Keep(r) PROVE TypeOK'
    BY <2>11 DEF Keep, Fetching, Finish
  <2>12. CASE SaveBalance
    BY <2>12 DEF SaveBalance
  <2>13. CASE Midnight
    BY <2>13 DEF Midnight
  <2>14. CASE UNCHANGED vars
    BY <2>14 DEF vars
  <2> QED
    BY <2>1, <2>2, <2>3, <2>4, <2>5, <2>6, <2>7, <2>8, <2>9, <2>10, <2>11, <2>12,
       <2>13, <2>14 DEF Next, Step
<1> QED BY <1>1, <1>2, PTL DEF Spec

-----------------------------------------------------------------------------
(* Migrations *)

\* The schema has the files in order, without gaps, and who serves has all of its
\* own: StartsFollowSchema is inductive and contains it.
THEOREM SchemaInOrderHolds == Spec => []SchemaInOrder
<1> USE DEF Serving, Files
<1>1. Init => StartsFollowSchema
  BY DEF Init, StartsFollowSchema
<1>2. TypeOK /\ StartsFollowSchema /\ [Next]_vars => StartsFollowSchema'
  <2> SUFFICES ASSUME TypeOK, StartsFollowSchema, [Next]_vars PROVE StartsFollowSchema'
    OBVIOUS
  <2> USE DEF startVars
  <2>1. ASSUME NEW i \in Instance, Start(i) PROVE StartsFollowSchema'
    BY <2>1 DEF Start, StartsFollowSchema, TypeOK
  <2>2. ASSUME NEW i \in Instance, Apply(i) PROVE StartsFollowSchema'
    <3>1. PICK f \in File : /\ IsNext(i, f)
                            /\ applied' = applied \cup {f}
                            /\ file' = [file EXCEPT ![i] = f]
      BY <2>2 DEF Apply
    <3>2. ASSUME NEW g \in File, g < f PROVE g \in applied
      <4>1. g \in Files(i)
        BY <3>1, <3>2 DEF IsNext, Pending, TypeOK
      <4>2. g \notin Pending(i)
        BY <3>1, <3>2 DEF IsNext
      <4> QED BY <4>1, <4>2 DEF Pending, StartsFollowSchema
    <3>3. \A h \in applied', g \in File : g < h => g \in applied'
      BY <3>1, <3>2 DEF StartsFollowSchema
    <3> QED BY <2>2, <3>1, <3>3 DEF Apply, StartsFollowSchema, TypeOK
  <2>3. ASSUME NEW i \in Instance, Record(i) PROVE StartsFollowSchema'
    <3>1. CASE file[i] \in recorded
      BY <2>3, <3>1 DEF Record, StartsFollowSchema, TypeOK
    <3>2. CASE file[i] \notin recorded
      BY <2>3, <3>2 DEF Record, StartsFollowSchema, TypeOK
    <3> QED BY <3>1, <3>2
  <2>4. ASSUME NEW i \in Instance, Serve(i) PROVE StartsFollowSchema'
    BY <2>4 DEF Serve, Pending, StartsFollowSchema, TypeOK
  <2>5. ASSUME NEW i \in Instance, Stop(i) PROVE StartsFollowSchema'
    BY <2>5 DEF Stop, StartsFollowSchema, TypeOK
  <2>6. ASSUME UNCHANGED startVars PROVE StartsFollowSchema'
    BY <2>6 DEF StartsFollowSchema
  <2>7. CASE UNCHANGED vars
    BY <2>6, <2>7 DEF vars
  <2> QED
    BY <2>1, <2>2, <2>3, <2>4, <2>5, <2>6, <2>7
    DEF Next, Step, StartFetch, CheckCategory, InsertCategory, Fetch, FailFetch, Keep,
        SaveBalance, Midnight
<1>3. TypeOK /\ StartsFollowSchema => SchemaInOrder
  BY DEF StartsFollowSchema, SchemaInOrder
<1> QED BY <1>1, <1>2, <1>3, TypeCorrect, PTL DEF Spec

-----------------------------------------------------------------------------
(* Categories *)

\* Two names that differ in case only come of overlapping requests.
THEOREM TwinsNeedOverlapHolds == Spec => []TwinsNeedOverlap
<1> USE DEF ChecksHoldUnlessRaced, TwinsNeedOverlap, Alike
<1>1. Init => ChecksHoldUnlessRaced
  BY DEF Init
<1>2. TypeOK /\ ChecksHoldUnlessRaced /\ [Next]_vars => ChecksHoldUnlessRaced'
  <2> SUFFICES ASSUME TypeOK, ChecksHoldUnlessRaced, [Next]_vars
               PROVE  ChecksHoldUnlessRaced'
    OBVIOUS
  <2> USE DEF requestVars
  <2>1. ASSUME NEW r \in Request, NEW i \in Instance, NEW n \in Name, CheckCategory(r, i, n)
        PROVE ChecksHoldUnlessRaced'
    BY <2>1 DEF CheckCategory, TypeOK
  <2>2. ASSUME NEW r \in Request, InsertCategory(r) PROVE ChecksHoldUnlessRaced'
    <3> DEFINE n == wants[r]
    <3>1. CASE n \in categories
      BY <2>2, <3>1 DEF InsertCategory, Finish, TypeOK
    <3>2. CASE n \notin categories
      <4>1. /\ n # None
            /\ wants' = [wants EXCEPT ![r] = None]
            /\ categories' = categories \cup {n}
            /\ raced' = [q \in Request |-> IF wants[q] = None THEN {} ELSE raced[q] \cup {n}]
            /\ twins' = IF \E m \in raced[r] : Fold[m] = Fold[n] THEN twins \cup {n} ELSE twins
        BY <2>2, <3>2 DEF InsertCategory, Finish
      <4>2. ASSUME NEW q \in Request, wants'[q] # None, NEW m \in categories',
                   Alike(wants'[q], m)
            PROVE  m \in raced'[q]
        BY <4>1, <4>2 DEF TypeOK
      <4>3. ASSUME NEW l \in categories', NEW m \in categories', l # m, Fold[l] = Fold[m]
            PROVE  l \in twins' \/ m \in twins'
        <5>1. CASE l # n /\ m # n
          BY <4>1, <4>3, <5>1
        <5>2. CASE l = n \/ m = n
          <6>1. PICK o \in categories : Fold[o] = Fold[n]
            BY <4>1, <4>3, <5>2
          <6>2. o \in raced[r]
            BY <4>1, <6>1
          <6> QED BY <4>1, <5>2, <6>1, <6>2
        <5> QED BY <5>1, <5>2
      <4> HIDE DEF n
      <4> QED BY <4>2, <4>3
    <3> QED BY <3>1, <3>2
  <2>3. ASSUME NEW i \in Instance, Stop(i) PROVE ChecksHoldUnlessRaced'
    BY <2>3 DEF Stop, TypeOK
  <2>4. ASSUME NEW r \in Request, FailFetch(r) \/ Keep(r) PROVE ChecksHoldUnlessRaced'
    BY <2>4 DEF FailFetch, Keep, Finish, TypeOK
  <2>5. ASSUME UNCHANGED <<categories, wants, raced, twins>> PROVE ChecksHoldUnlessRaced'
    BY <2>5
  <2> QED
    BY <2>1, <2>2, <2>3, <2>4, <2>5
    DEF Next, Step, Start, Apply, Record, Serve, StartFetch, Fetch, SaveBalance, Midnight, vars
<1>3. ChecksHoldUnlessRaced => TwinsNeedOverlap
  OBVIOUS
<1> QED BY <1>1, <1>2, <1>3, TypeCorrect, PTL DEF Spec

-----------------------------------------------------------------------------
(* Exchange rates *)

\* A fetch under way is for a day not before that of the rate there is.
LEMMA FetchInvariant == Spec => []FetchesGoForward
<1> USE DEF FetchesGoForward, Fetching, Never
<1>1. Init => FetchesGoForward
  BY DEF Init
<1>2. TypeOK /\ FetchesGoForward /\ [Next]_vars => FetchesGoForward'
  <2> SUFFICES ASSUME TypeOK, FetchesGoForward, [Next]_vars PROVE FetchesGoForward'
    OBVIOUS
  <2> USE DEF TypeOK, Day, requestVars, rateVars
  <2>1. ASSUME NEW i \in Instance, Stop(i) PROVE FetchesGoForward'
    BY <2>1 DEF Stop
  <2>2. ASSUME NEW r \in Request, NEW i \in Instance, StartFetch(r, i) PROVE FetchesGoForward'
    BY <2>2 DEF StartFetch
  <2>3. ASSUME NEW r \in Request, NEW i \in Instance, NEW n \in Name, CheckCategory(r, i, n)
        PROVE FetchesGoForward'
    BY <2>3 DEF CheckCategory
  <2>4. ASSUME NEW r \in Request, InsertCategory(r) PROVE FetchesGoForward'
    BY <2>4 DEF InsertCategory, Finish
  <2>5. ASSUME NEW r \in Request, Fetch(r) PROVE FetchesGoForward'
    BY <2>5 DEF Fetch
  <2>6. ASSUME NEW r \in Request, FailFetch(r) PROVE FetchesGoForward'
    BY <2>6 DEF FailFetch, Finish
  <2>7. ASSUME NEW r \in Request, Keep(r) PROVE FetchesGoForward'
    BY <2>7 DEF Keep, Finish
  <2>8. CASE Midnight
    BY <2>8 DEF Midnight
  <2>9. ASSUME UNCHANGED <<day, on, wants, copy, rateVars>> PROVE FetchesGoForward'
    BY <2>9
  <2> QED
    BY <2>1, <2>2, <2>3, <2>4, <2>5, <2>6, <2>7, <2>8, <2>9
    DEF Next, Step, Start, Apply, Record, Serve, SaveBalance, vars
<1> QED BY <1>1, <1>2, TypeCorrect, PTL DEF Spec

\* Older rates replace newer ones only where two fetches overlapped.
THEOREM RatesGoForwardHolds == Spec => RatesGoForward
<1> DEFINE Forward == \A i \in Instance :
             at'[i] = "serving" /\ rates'[i] < rates[i] =>
               \E r \in late : on[r] = i /\ on'[r] = None
<1>1. TypeOK /\ FetchesGoForward /\ [Next]_vars => [Forward]_vars
  <2> SUFFICES ASSUME TypeOK, FetchesGoForward, [Next]_vars, NEW i \in Instance,
                      at'[i] = "serving", rates'[i] < rates[i]
               PROVE  \E r \in late : on[r] = i /\ on'[r] = None
    OBVIOUS
  <2> USE DEF TypeOK, Day, Never, rateVars
  <2>1. rates' # rates
    OBVIOUS
  <2>2. ~ \E j \in Instance : Stop(j)
    BY DEF Stop
  <2>3. PICK r \in Request : Keep(r)
    BY <2>1, <2>2 DEF Next, Step, Start, Apply, Record, Serve, StartFetch, CheckCategory,
       InsertCategory, Fetch, FailFetch, SaveBalance, Midnight, vars
  <2>4. on[r] = i /\ on'[r] = None
    BY <2>3 DEF Keep, Fetching, Finish
  <2>5. r \in late
    BY <2>3, <2>4 DEF Keep, FetchesGoForward
  <2> QED BY <2>4, <2>5
<1> QED BY <1>1, TypeCorrect, FetchInvariant, PTL DEF Spec, RatesGoForward

-----------------------------------------------------------------------------
(* Bank balance *)

\* The balance shown is the last one saved, if that was today.
THEOREM BalanceIsLastSavedHolds == Spec => []BalanceIsLastSaved
<1> USE DEF Never
<1>1. Init => RowsFollowSaves
  BY DEF Init, RowsFollowSaves
<1>2. TypeOK /\ RowsFollowSaves /\ [Next]_vars => RowsFollowSaves'
  <2> SUFFICES ASSUME TypeOK, RowsFollowSaves, [Next]_vars PROVE RowsFollowSaves'
    OBVIOUS
  <2>1. CASE SaveBalance
    BY <2>1 DEF SaveBalance, RowsFollowSaves, TypeOK, Day
  <2>2. CASE Midnight
    BY <2>2 DEF Midnight, RowsFollowSaves, TypeOK, Day
  <2>3. ASSUME UNCHANGED <<day, balance, saves>> PROVE RowsFollowSaves'
    BY <2>3 DEF RowsFollowSaves
  <2> QED
    BY <2>1, <2>2, <2>3
    DEF Next, Step, Start, Apply, Record, Serve, Stop, StartFetch, CheckCategory,
        InsertCategory, Fetch, FailFetch, Keep, vars
<1>3. TypeOK /\ RowsFollowSaves => BalanceIsLastSaved
  <2> SUFFICES ASSUME TypeOK, RowsFollowSaves PROVE BalanceIsLastSaved
    OBVIOUS
  <2> USE DEF TypeOK, RowsFollowSaves, Day
  <2>1. ASSUME NEW id \in DOMAIN balance, balance[id].day = day PROVE id = 1
    BY <2>1
  <2>2. CASE 1 \in DOMAIN balance /\ balance[1].day = day
    <3>1. \A o \in DOMAIN balance : o = 1 \/ balance[o].day < balance[1].day
      BY <2>2
    <3>2. Latest(1)
      BY <2>2, <3>1 DEF Latest
    <3> QED BY <2>1, <2>2, <3>2 DEF BalanceIsLastSaved, Shown
  <2>3. CASE ~(1 \in DOMAIN balance /\ balance[1].day = day)
    BY <2>1, <2>3 DEF BalanceIsLastSaved, Shown
  <2> QED BY <2>2, <2>3
<1> QED BY <1>1, <1>2, <1>3, TypeCorrect, PTL DEF Spec
=============================================================================
