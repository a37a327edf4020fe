------------------------- MODULE InstallmentsProofs -------------------------
(***************************************************************************)
(* Installments for every schedule and every amount, and the sums that it, *)
(* Reports and Projections add up.                                         *)
(*                                                                         *)
(* Sums are folds over sets whose elements are chosen in turn; that they   *)
(* behave as sums follows from the theorems on finite sets, by an          *)
(* induction that is itself a lemma here.                                  *)
(*                                                                         *)
(* The loop keeps three quantities in step with the stretch that is owed:  *)
(* what is left of the paid amount, what is left of the balance, and what  *)
(* has been placed (LoopInvariant).  When it ends, what is left goes on    *)
(* the due date.  Day by day, what was placed is what the installments     *)
(* seen owe (CalendarInvariant).                                           *)
(***************************************************************************)
EXTENDS Installments, FiniteSetTheorems, TLAPS

\* Induction on a set of numbers: were one missed, shifting those up to it by one
\* would be an injection of a finite set into itself that is not onto.
LEMMA NatSetInduction ==
  ASSUME NEW S, 0 \in S, \A n \in Nat : n \in S => n + 1 \in S
  PROVE  Nat \subseteq S
<1> SUFFICES ASSUME NEW m \in Nat, m \notin S PROVE FALSE
  OBVIOUS
<1> DEFINE Missed == {n \in 0 .. m : n \notin S}
           shift == [n \in Missed |-> n - 1]
<1>1. IsFiniteSet(Missed) 
  <2>1. IsFiniteSet(0 .. m)
    BY FS_Interval
  <2>2. Missed \in SUBSET (0 .. m)
    OBVIOUS
  <2> HIDE DEF Missed
  <2> QED BY <2>1, <2>2, FS_Subset
<1>2. \A n \in Missed : n - 1 \in Missed /\ n \in Int
  <2> SUFFICES ASSUME NEW n \in Missed PROVE n - 1 \in Missed /\ n \in Int
    OBVIOUS
  <2>1. n # 0 /\ n \in 0 .. m
    OBVIOUS
  <2>2. n - 1 \in Nat /\ (n - 1) + 1 = n
    BY <2>1
  <2>3. n - 1 \notin S
    BY <2>2
  <2> QED BY <2>1, <2>2, <2>3
<1>3. m \in Missed /\ m + 1 \notin Missed
  OBVIOUS
<1> HIDE DEF Missed
<1>4. shift \in Injection(Missed, Missed)
  BY <1>2 DEF Injection, IsInjective
<1> HIDE DEF shift
<1>5. shift \in Surjection(Missed, Missed)
  BY <1>1, <1>4, FS_Injection
<1>6. \E n \in Missed : shift[n] = m
  BY <1>3, <1>5 DEF Surjection
<1> QED
  BY <1>2, <1>3, <1>6 DEF shift

\* Induction on a finite set: what holds of the empty set and goes from a part to
\* the part with one more element holds of the whole.
LEMMA SubsetInduction ==
  ASSUME NEW S, IsFiniteSet(S), NEW G, {} \in G,
         \A T \in SUBSET S, x \in S : x \notin T /\ T \in G => T \cup {x} \in G
  PROVE  S \in G
<1> DEFINE Sized == {n \in Nat : \A T \in SUBSET S : Cardinality(T) = n => T \in G}
<1>f. \A T \in SUBSET S : IsFiniteSet(T) /\ Cardinality(T) \in Nat
  BY FS_Subset, FS_CardinalityType
<1>1. 0 \in Sized
  <2>1. \A T \in SUBSET S : Cardinality(T) = 0 => T = {}
    BY <1>f, FS_EmptySet
  <2> QED BY <2>1
<1>2. ASSUME NEW n \in Nat, n \in Sized PROVE n + 1 \in Sized
  <2> SUFFICES ASSUME NEW T \in SUBSET S, Cardinality(T) = n + 1 PROVE T \in G
    OBVIOUS
  <2>1. T # {}
    <3>1. Cardinality(T) # 0
      OBVIOUS
    <3> QED BY <3>1, FS_EmptySet
  <2>2. PICK x \in T : TRUE
    BY <2>1
  <2>3. T \ {x} \in SUBSET S /\ Cardinality(T \ {x}) = n
    <3>1. Cardinality(T \ {x}) = Cardinality(T) - 1
      BY <1>f, <2>2, FS_RemoveElement
    <3> QED BY <3>1
  <2>4. T \ {x} \in G
    BY <1>2, <2>3
  <2>5. T = (T \ {x}) \cup {x}
    BY <2>2
  <2> QED BY <2>3, <2>4, <2>5
<1> HIDE DEF Sized
<1>3. Nat \subseteq Sized
  BY <1>1, <1>2, NatSetInduction
<1>4. Cardinality(S) \in Sized
  BY <1>3, FS_CardinalityType
<1> QED
  BY <1>4 DEF Sized

-----------------------------------------------------------------------------
Some(s) == CHOOSE x \in s : TRUE
Adding(f, s, sum) == IF s = {} THEN 0 ELSE f[Some(s)] + sum[s \ {Some(s)}]
SumsUpTo(f, S) == CHOOSE sum : sum = [s \in SUBSET S |-> Adding(f, s, sum)]

\* The fold of the Functions module is a CHOOSE of a recursive function.
LEMMA SumIsChosen ==
  ASSUME NEW f, NEW S
  PROVE  SumFunctionOnSet(f, S) = SumsUpTo(f, S)[S]
BY DEF SumFunctionOnSet, FoldFunctionOnSet, MapThenFoldSet, SumsUpTo, Adding, Some

\* That function exists: it is there for the sets of up to n elements, for every n.
LEMMA SumsExist ==
  ASSUME NEW f, NEW S, IsFiniteSet(S)
  PROVE  SumsUpTo(f, S) = [s \in SUBSET S |-> Adding(f, s, SumsUpTo(f, S))]
<1> DEFINE Small(n) == {s \in SUBSET S : Cardinality(s) <= n}
           Levels == {n \in Nat : \E sum : sum = [s \in Small(n) |-> Adding(f, s, sum)]}
<1>f. \A s \in SUBSET S : IsFiniteSet(s) /\ Cardinality(s) \in Nat
  BY FS_Subset, FS_CardinalityType
<1>s. \A s \in SUBSET S : s # {} => /\ s \ {Some(s)} \in SUBSET S
                                    /\ Cardinality(s \ {Some(s)}) = Cardinality(s) - 1
  <2> SUFFICES ASSUME NEW s \in SUBSET S, s # {}
               PROVE  /\ s \ {Some(s)} \in SUBSET S
                      /\ Cardinality(s \ {Some(s)}) = Cardinality(s) - 1
    OBVIOUS
  <2>1. Some(s) \in s
    BY DEF Some
  <2> QED BY <2>1, <1>f, FS_RemoveElement
<1>1. 0 \in Levels
  <2>1. \A s \in Small(0) : s = {}
    BY <1>f, FS_EmptySet
  <2> DEFINE zero == [s \in Small(0) |-> 0]
  <2> HIDE DEF Small
  <2>2. zero = [s \in Small(0) |-> Adding(f, s, zero)]
    BY <2>1 DEF Adding
  <2> HIDE DEF zero
  <2> QED BY <2>2
<1>2. ASSUME NEW n \in Nat, n \in Levels PROVE n + 1 \in Levels
  <2>1. PICK sum : sum = [s \in Small(n) |-> Adding(f, s, sum)]
    BY <1>2
  <2> DEFINE more == [s \in Small(n + 1) |-> Adding(f, s, sum)]
  <2>2. \A s \in Small(n + 1) : s # {} => s \ {Some(s)} \in Small(n) /\ s \ {Some(s)} \in Small(n + 1)
    BY <1>f, <1>s
  <2>3. \A s \in Small(n) : s \in Small(n + 1)
    BY <1>f
  <2> HIDE DEF Small
  <2>4. \A s \in Small(n) : more[s] = sum[s]
    BY <2>1, <2>3
  <2>5. \A s \in Small(n + 1) : Adding(f, s, sum) = Adding(f, s, more)
    <3> HIDE DEF more
    <3> QED BY <2>2, <2>4 DEF Adding
  <2>6. more = [s \in Small(n + 1) |-> Adding(f, s, more)]
    BY <2>5
  <2> HIDE DEF more
  <2> QED BY <2>6
<1>3. Nat \subseteq Levels
  <2> HIDE DEF Levels
  <2> QED BY <1>1, <1>2, NatSetInduction
<1>4. Cardinality(S) \in Levels
  BY <1>3, FS_CardinalityType
<1>5. Small(Cardinality(S)) = SUBSET S
  BY FS_Subset
<1>6. \E sum : sum = [s \in SUBSET S |-> Adding(f, s, sum)]
  BY <1>4, <1>5
<1> QED
  BY <1>6 DEF SumsUpTo

\* Over a part, the function chosen for a set is that chosen for the part.
LEMMA SumsNest ==
  ASSUME NEW f, NEW S, IsFiniteSet(S), NEW T \in SUBSET S, NEW s \in SUBSET T
  PROVE  SumsUpTo(f, S)[s] = SumsUpTo(f, T)[s]
<1>f. IsFiniteSet(T) /\ \A t \in SUBSET T : IsFiniteSet(t) /\ Cardinality(t) \in Nat
  BY FS_Subset, FS_CardinalityType
<1>u. /\ SumsUpTo(f, S) = [t \in SUBSET S |-> Adding(f, t, SumsUpTo(f, S))]
      /\ SumsUpTo(f, T) = [t \in SUBSET T |-> Adding(f, t, SumsUpTo(f, T))]
  BY <1>f, SumsExist, ZenonT(40)
<1> DEFINE Sized == {n \in Nat : \A t \in SUBSET T :
                       Cardinality(t) = n => SumsUpTo(f, S)[t] = SumsUpTo(f, T)[t]}
<1>1. 0 \in Sized
  <2>1. \A t \in SUBSET T : Cardinality(t) = 0 => t = {}
    BY <1>f, FS_EmptySet
  <2>2. SumsUpTo(f, S)[{}] = 0 /\ SumsUpTo(f, T)[{}] = 0
    BY <1>u DEF Adding
  <2> QED BY <2>1, <2>2
<1>2. ASSUME NEW n \in Nat, n \in Sized PROVE n + 1 \in Sized
  <2> SUFFICES ASSUME NEW t \in SUBSET T, Cardinality(t) = n + 1
               PROVE  SumsUpTo(f, S)[t] = SumsUpTo(f, T)[t]
    OBVIOUS
  <2>1. t # {}
    <3>1. Cardinality(t) # 0
      OBVIOUS
    <3> QED BY <3>1, FS_EmptySet
  <2>2. Some(t) \in t
    BY <2>1 DEF Some
  <2>3. t \ {Some(t)} \in SUBSET T /\ Cardinality(t \ {Some(t)}) = n
    BY <1>f, <2>2, FS_RemoveElement
  <2>4. SumsUpTo(f, S)[t \ {Some(t)}] = SumsUpTo(f, T)[t \ {Some(t)}]
    BY <1>2, <2>3
  <2>5. /\ SumsUpTo(f, S)[t] = Adding(f, t, SumsUpTo(f, S))
        /\ SumsUpTo(f, T)[t] = Adding(f, t, SumsUpTo(f, T))
    BY <1>u
  <2> QED BY <2>4, <2>5 DEF Adding
<1> HIDE DEF Sized
<1>3. Nat \subseteq Sized
  BY <1>1, <1>2, NatSetInduction
<1>4. Cardinality(s) \in Sized
  BY <1>3, <1>f
<1> QED
  BY <1>4 DEF Sized

\* So a sum is that of one element and of the rest.
LEMMA SumByChoice ==
  ASSUME NEW f, NEW S, IsFiniteSet(S)
  PROVE  SumFunctionOnSet(f, S) =
           IF S = {} THEN 0 ELSE f[Some(S)] + SumFunctionOnSet(f, S \ {Some(S)})
<1>1. SumFunctionOnSet(f, S) = Adding(f, S, SumsUpTo(f, S))
  <2>1. SumFunctionOnSet(f, S) = SumsUpTo(f, S)[S]
    BY SumIsChosen
  <2>2. SumsUpTo(f, S) = [s \in SUBSET S |-> Adding(f, s, SumsUpTo(f, S))]
    BY SumsExist
  <2>3. S \in SUBSET S
    OBVIOUS
  <2> HIDE DEF SumsUpTo
  <2> QED BY <2>1, <2>2, <2>3, Zenon
<1>2. CASE S = {}
  BY <1>1, <1>2 DEF Adding
<1>3. CASE S # {}
  <2>1. S \ {Some(S)} \in SUBSET S
    OBVIOUS
  <2>2. SumsUpTo(f, S)[S \ {Some(S)}] = SumsUpTo(f, S \ {Some(S)})[S \ {Some(S)}]
    BY <2>1, SumsNest
  <2>3. SumFunctionOnSet(f, S \ {Some(S)}) = SumsUpTo(f, S \ {Some(S)})[S \ {Some(S)}]
    BY SumIsChosen
  <2> QED BY <1>1, <1>3, <2>2, <2>3 DEF Adding
<1> QED BY <1>2, <1>3

\* A sum of integers is an integer.
LEMMA SumInt ==
  ASSUME NEW f, NEW S, IsFiniteSet(S), \A x \in S : f[x] \in Int
  PROVE  SumFunctionOnSet(f, S) \in Int
<1>f. \A T \in SUBSET S : IsFiniteSet(T) /\ Cardinality(T) \in Nat
  BY FS_Subset, FS_CardinalityType
<1> DEFINE Sized == {n \in Nat : \A T \in SUBSET S :
                       Cardinality(T) = n => SumFunctionOnSet(f, T) \in Int}
<1>1. 0 \in Sized
  <2>1. \A t \in SUBSET S : Cardinality(t) = 0 => t = {}
    BY <1>f, FS_EmptySet
  <2>2. SumFunctionOnSet(f, {}) = 0
    BY SumByChoice, FS_EmptySet
  <2> QED BY <2>1, <2>2
<1>2. ASSUME NEW n \in Nat, n \in Sized PROVE n + 1 \in Sized
  <2> SUFFICES ASSUME NEW T \in SUBSET S, Cardinality(T) = n + 1
               PROVE  SumFunctionOnSet(f, T) \in Int
    OBVIOUS
  <2>1. T # {} /\ Some(T) \in T
    <3>1. Cardinality(T) # 0
      OBVIOUS
    <3> QED BY <3>1, FS_EmptySet DEF Some
  <2>2. SumFunctionOnSet(f, T) = f[Some(T)] + SumFunctionOnSet(f, T \ {Some(T)})
    BY <1>f, <2>1, SumByChoice
  <2>3. T \ {Some(T)} \in SUBSET S /\ Cardinality(T \ {Some(T)}) = n
    <3>1. Cardinality(T \ {Some(T)}) = Cardinality(T) - 1
      BY <1>f, <2>1, FS_RemoveElement
    <3> QED BY <3>1
  <2>4. SumFunctionOnSet(f, T \ {Some(T)}) \in Int /\ f[Some(T)] \in Int
    BY <1>2, <2>1, <2>3
  <2> QED BY <2>2, <2>4
<1> HIDE DEF Sized
<1>3. Nat \subseteq Sized
  BY <1>1, <1>2, NatSetInduction
<1>4. Cardinality(S) \in Sized
  BY <1>3, <1>f
<1> QED
  BY <1>4 DEF Sized

\* Whichever element is taken out, the sum is that element and the sum of the rest.
LEMMA SumRemove ==
  ASSUME NEW f, NEW S, IsFiniteSet(S), \A y \in S : f[y] \in Int, NEW x \in S
  PROVE  SumFunctionOnSet(f, S) = f[x] + SumFunctionOnSet(f, S \ {x})
<1>f. \A T \in SUBSET S : IsFiniteSet(T) /\ Cardinality(T) \in Nat
  BY FS_Subset, FS_CardinalityType
<1>i. \A T \in SUBSET S : SumFunctionOnSet(f, T) \in Int
  BY <1>f, SumInt
<1> DEFINE Good(T)  == \A y \in T : SumFunctionOnSet(f, T) = f[y] + SumFunctionOnSet(f, T \ {y})
           Sized == {n \in Nat : \A T \in SUBSET S : Cardinality(T) = n => Good(T)}
<1>1. 0 \in Sized
  <2>1. \A t \in SUBSET S : Cardinality(t) = 0 => t = {}
    BY <1>f, FS_EmptySet
  <2> QED BY <2>1, Zenon
<1>2. ASSUME NEW n \in Nat, n \in Sized PROVE n + 1 \in Sized
  <2> SUFFICES ASSUME NEW T \in SUBSET S, Cardinality(T) = n + 1, NEW y \in T
               PROVE  SumFunctionOnSet(f, T) = f[y] + SumFunctionOnSet(f, T \ {y})
    OBVIOUS
  <2> DEFINE p == Some(T)
  <2>1. T # {} /\ p \in T
    BY DEF Some
  <2>2. SumFunctionOnSet(f, T) = f[p] + SumFunctionOnSet(f, T \ {p})
    BY <1>f, <2>1, SumByChoice
  <2> HIDE DEF p
  <2>3. \A z \in T : T \ {z} \in SUBSET S /\ Cardinality(T \ {z}) = n
    <3>1. \A z \in T : Cardinality(T \ {z}) = Cardinality(T) - 1
      BY <1>f, FS_RemoveElement
    <3> QED BY <3>1
  <2>4. \A z \in T : Good(T \ {z})
    BY <1>2, <2>3
  <2>5. \A z \in T : f[z] \in Int
    OBVIOUS
  <2>6. CASE y = p
    BY <2>2, <2>6
  <2>7. CASE y # p
    <3> DEFINE rest == (T \ {y}) \ {p}
    <3>1. rest = (T \ {p}) \ {y} /\ p \in T \ {y} /\ y \in T \ {p} /\ rest \in SUBSET S
      BY <2>1, <2>7
    <3> HIDE DEF Sized
    <3>2. SumFunctionOnSet(f, T \ {y}) = f[p] + SumFunctionOnSet(f, rest)
      BY <2>4, <3>1
    <3>3. SumFunctionOnSet(f, T \ {p}) = f[y] + SumFunctionOnSet(f, rest)
      BY <2>1, <2>4, <3>1
    <3>4. SumFunctionOnSet(f, rest) \in Int
      BY <1>i, <3>1
    <3> HIDE DEF rest
    <3> QED BY <2>1, <2>2, <2>5, <3>2, <3>3, <3>4
  <2> QED BY <2>6, <2>7
<1> HIDE DEF Sized
<1>3. Nat \subseteq Sized
  BY <1>1, <1>2, NatSetInduction
<1>4. Cardinality(S) \in Sized
  BY <1>3, <1>f
<1> QED
  BY <1>4 DEF Sized

\* Nothing adds up to zero.
LEMMA SumEmpty ==
  ASSUME NEW f
  PROVE  SumFunctionOnSet(f, {}) = 0
BY SumByChoice, FS_EmptySet

\* One more element adds its value.
LEMMA SumInsert ==
  ASSUME NEW f, NEW S, IsFiniteSet(S), NEW x, x \notin S,
         f[x] \in Int, \A y \in S : f[y] \in Int
  PROVE  SumFunctionOnSet(f, S \cup {x}) = f[x] + SumFunctionOnSet(f, S)
<1>1. IsFiniteSet(S \cup {x}) /\ x \in S \cup {x} /\ (S \cup {x}) \ {x} = S
  BY FS_AddElement
<1>2. \A y \in S \cup {x} : f[y] \in Int
  OBVIOUS
<1> QED BY <1>1, <1>2, SumRemove

\* The sum over two disjoint sets is that of their sums.
LEMMA SumUnion ==
  ASSUME NEW f, NEW S, NEW T, IsFiniteSet(S), IsFiniteSet(T), S \cap T = {},
         \A y \in S \cup T : f[y] \in Int
  PROVE  SumFunctionOnSet(f, S \cup T) = SumFunctionOnSet(f, S) + SumFunctionOnSet(f, T)
<1> DEFINE G == {U \in SUBSET T :
                   SumFunctionOnSet(f, S \cup U) = SumFunctionOnSet(f, S) + SumFunctionOnSet(f, U)}
<1>i. \A U \in SUBSET T : /\ IsFiniteSet(U) /\ IsFiniteSet(S \cup U)
                          /\ SumFunctionOnSet(f, U) \in Int /\ SumFunctionOnSet(f, S) \in Int
  BY FS_Subset, FS_Union, SumInt
<1>1. {} \in G
  <2>1. S \cup {} = S /\ SumFunctionOnSet(f, {}) = 0
    BY SumEmpty
  <2> QED BY <1>i, <2>1
<1>2. ASSUME NEW U \in SUBSET T, NEW x \in T, x \notin U, U \in G PROVE U \cup {x} \in G
  <2>1. SumFunctionOnSet(f, U \cup {x}) = f[x] + SumFunctionOnSet(f, U)
    BY <1>i, <1>2, SumInsert
  <2>2. SumFunctionOnSet(f, (S \cup U) \cup {x}) = f[x] + SumFunctionOnSet(f, S \cup U)
    <3>1. x \notin S \cup U /\ \A y \in S \cup U : f[y] \in Int
      BY <1>2
    <3> QED BY <1>i, <3>1, SumInsert
  <2>3. (S \cup U) \cup {x} = S \cup (U \cup {x}) /\ f[x] \in Int
    OBVIOUS
  <2> QED BY <1>2, <1>i, <2>1, <2>2, <2>3
<1> HIDE DEF G
<1>3. T \in G
  BY <1>1, <1>2, SubsetInduction
<1> QED BY <1>3 DEF G

\* Functions that agree on a set have one sum over it.
LEMMA SumSame ==
  ASSUME NEW f, NEW g, NEW S, IsFiniteSet(S), \A y \in S : f[y] = g[y] /\ f[y] \in Int
  PROVE  SumFunctionOnSet(f, S) = SumFunctionOnSet(g, S)
<1> DEFINE G == {U \in SUBSET S : SumFunctionOnSet(f, U) = SumFunctionOnSet(g, U)}
<1>i. \A U \in SUBSET S : IsFiniteSet(U)
  BY FS_Subset
<1>1. {} \in G
  BY SumEmpty
<1>2. ASSUME NEW U \in SUBSET S, NEW x \in S, x \notin U, U \in G PROVE U \cup {x} \in G
  <2>1. SumFunctionOnSet(f, U \cup {x}) = f[x] + SumFunctionOnSet(f, U)
    BY <1>i, <1>2, SumInsert
  <2>2. SumFunctionOnSet(g, U \cup {x}) = g[x] + SumFunctionOnSet(g, U)
    <3>1. g[x] \in Int /\ \A y \in U : g[y] \in Int
      OBVIOUS
    <3> QED BY <1>i, <1>2, <3>1, SumInsert
  <2> QED BY <1>2, <2>1, <2>2
<1> HIDE DEF G
<1>3. S \in G
  BY <1>1, <1>2, SubsetInduction
<1> QED BY <1>3 DEF G

\* The sum of sums.
LEMMA SumPlus ==
  ASSUME NEW f, NEW g, NEW h, NEW S, IsFiniteSet(S),
         \A y \in S : f[y] \in Int /\ g[y] \in Int /\ h[y] = f[y] + g[y]
  PROVE  SumFunctionOnSet(h, S) = SumFunctionOnSet(f, S) + SumFunctionOnSet(g, S)
<1> DEFINE G == {U \in SUBSET S :
                   SumFunctionOnSet(h, U) = SumFunctionOnSet(f, U) + SumFunctionOnSet(g, U)}
<1>0. \A y \in S : h[y] \in Int
  OBVIOUS
<1>i. \A U \in SUBSET S : IsFiniteSet(U) /\ SumFunctionOnSet(f, U) \in Int
                          /\ SumFunctionOnSet(g, U) \in Int
  BY FS_Subset, SumInt
<1>1. {} \in G
  BY SumEmpty
<1>2. ASSUME NEW U \in SUBSET S, NEW x \in S, x \notin U, U \in G PROVE U \cup {x} \in G
  <2>1. SumFunctionOnSet(f, U \cup {x}) = f[x] + SumFunctionOnSet(f, U)
    BY <1>i, <1>2, SumInsert
  <2>2. SumFunctionOnSet(g, U \cup {x}) = g[x] + SumFunctionOnSet(g, U)
    BY <1>i, <1>2, SumInsert
  <2>3. SumFunctionOnSet(h, U \cup {x}) = h[x] + SumFunctionOnSet(h, U)
    BY <1>0, <1>i, <1>2, SumInsert
  <2>4. f[x] \in Int /\ g[x] \in Int /\ h[x] = f[x] + g[x]
    OBVIOUS
  <2> QED BY <1>2, <1>i, <2>1, <2>2, <2>3, <2>4
<1> HIDE DEF G
<1>3. S \in G
  BY <1>1, <1>2, SubsetInduction
<1> QED BY <1>3 DEF G

\* Greater terms, greater sum.
LEMMA SumOrder ==
  ASSUME NEW f, NEW g, NEW S, IsFiniteSet(S),
         \A y \in S : f[y] \in Int /\ g[y] \in Int /\ f[y] <= g[y]
  PROVE  SumFunctionOnSet(f, S) <= SumFunctionOnSet(g, S)
<1> DEFINE G == {U \in SUBSET S : SumFunctionOnSet(f, U) <= SumFunctionOnSet(g, U)}
<1>i. \A U \in SUBSET S : IsFiniteSet(U) /\ SumFunctionOnSet(f, U) \in Int
                          /\ SumFunctionOnSet(g, U) \in Int
  BY FS_Subset, SumInt
<1>1. {} \in G
  BY SumEmpty
<1>2. ASSUME NEW U \in SUBSET S, NEW x \in S, x \notin U, U \in G PROVE U \cup {x} \in G
  <2>1. SumFunctionOnSet(f, U \cup {x}) = f[x] + SumFunctionOnSet(f, U)
    BY <1>i, <1>2, SumInsert
  <2>2. SumFunctionOnSet(g, U \cup {x}) = g[x] + SumFunctionOnSet(g, U)
    BY <1>i, <1>2, SumInsert
  <2>3. f[x] \in Int /\ g[x] \in Int /\ f[x] <= g[x]
    OBVIOUS
  <2> QED BY <1>2, <1>i, <2>1, <2>2, <2>3
<1> HIDE DEF G
<1>3. S \in G
  BY <1>1, <1>2, SubsetInduction
<1> QED BY <1>3 DEF G

\* A sum of natural numbers is one.
LEMMA SumNat ==
  ASSUME NEW f, NEW S, IsFiniteSet(S), \A y \in S : f[y] \in Nat
  PROVE  SumFunctionOnSet(f, S) \in Nat
<1> DEFINE G == {U \in SUBSET S : SumFunctionOnSet(f, U) \in Nat}
<1>1. {} \in G
  BY SumEmpty
<1>2. ASSUME NEW U \in SUBSET S, NEW x \in S, x \notin U, U \in G PROVE U \cup {x} \in G
  <2>1. IsFiniteSet(U) /\ f[x] \in Int /\ \A y \in U : f[y] \in Int
    BY FS_Subset
  <2>2. SumFunctionOnSet(f, U \cup {x}) = f[x] + SumFunctionOnSet(f, U)
    BY <1>2, <2>1, SumInsert
  <2> QED BY <1>2, <2>2
<1> HIDE DEF G
<1>3. S \in G
  BY <1>1, <1>2, SubsetInduction
<1> QED BY <1>3 DEF G

\* A sum splits along any other set.
LEMMA SumSplit ==
  ASSUME NEW f, NEW S, NEW T, IsFiniteSet(S), \A y \in S : f[y] \in Int
  PROVE  SumFunctionOnSet(f, S) = SumFunctionOnSet(f, S \cap T) + SumFunctionOnSet(f, S \ T)
<1>1. /\ IsFiniteSet(S \cap T) /\ IsFiniteSet(S \ T)
      /\ (S \cap T) \cap (S \ T) = {} /\ (S \cap T) \cup (S \ T) = S
  BY FS_Intersection, FS_Difference
<1>2. \A y \in (S \cap T) \cup (S \ T) : f[y] \in Int
  OBVIOUS
<1> QED BY <1>1, <1>2, SumUnion

\* Zeros add up to zero.
LEMMA SumZero ==
  ASSUME NEW f, NEW A, IsFiniteSet(A), \A y \in A : f[y] = 0
  PROVE  SumFunctionOnSet(f, A) = 0
<1> DEFINE G == {U \in SUBSET A : SumFunctionOnSet(f, U) = 0}
<1>1. {} \in G
  BY SumEmpty
<1>2. ASSUME NEW U \in SUBSET A, NEW x \in A, x \notin U, U \in G PROVE U \cup {x} \in G
  <2>1. IsFiniteSet(U) /\ f[x] \in Int /\ \A y \in U : f[y] \in Int
    BY FS_Subset
  <2>2. SumFunctionOnSet(f, U \cup {x}) = f[x] + SumFunctionOnSet(f, U)
    BY <1>2, <2>1, SumInsert
  <2> QED BY <1>2, <2>2
<1> HIDE DEF G
<1>3. A \in G
  BY <1>1, <1>2, SubsetInduction
<1> QED BY <1>3 DEF G

\* Elements worth zero may be left out.
LEMMA SumDrop ==
  ASSUME NEW f, NEW A, NEW B, IsFiniteSet(B), A \subseteq B, \A y \in B : f[y] \in Int,
         \A y \in B \ A : f[y] = 0
  PROVE  SumFunctionOnSet(f, B) = SumFunctionOnSet(f, A)
<1>2. /\ IsFiniteSet(A) /\ IsFiniteSet(B \ A)
      /\ A \cup (B \ A) = B /\ A \cap (B \ A) = {}
  BY FS_Subset, FS_Difference
<1>0. \A y \in A \cup (B \ A) : f[y] \in Int
  OBVIOUS
<1>1. SumFunctionOnSet(f, A \cup (B \ A)) = SumFunctionOnSet(f, A) + SumFunctionOnSet(f, B \ A)
  BY <1>0, <1>2, SumUnion
<1>3. SumFunctionOnSet(f, B \ A) = 0
  BY <1>2, SumZero
<1>4. SumFunctionOnSet(f, A) \in Int
  <2>1. \A y \in A : f[y] \in Int
    OBVIOUS
  <2> QED BY <1>2, <2>1, SumInt
<1>5. SumFunctionOnSet(f, B) = SumFunctionOnSet(f, A) + SumFunctionOnSet(f, B \ A)
  BY <1>1, <1>2, Zenon
<1> QED BY <1>3, <1>4, <1>5

\* A part of natural numbers adds up to no more than the whole.
LEMMA SumSubset ==
  ASSUME NEW f, NEW A, NEW B, IsFiniteSet(B), A \subseteq B, \A y \in B : f[y] \in Nat
  PROVE  SumFunctionOnSet(f, A) <= SumFunctionOnSet(f, B)
<1>1. SumFunctionOnSet(f, B) = SumFunctionOnSet(f, B \cap A) + SumFunctionOnSet(f, B \ A)
  BY SumSplit
<1>2. B \cap A = A /\ IsFiniteSet(A) /\ IsFiniteSet(B \ A)
  BY FS_Subset, FS_Difference
<1>3. SumFunctionOnSet(f, B \ A) \in Nat /\ SumFunctionOnSet(f, A) \in Nat
  BY <1>2, SumNat
<1> QED BY <1>1, <1>2, <1>3

\* Two sets that differ within a third differ in their sums by what that one holds.
LEMMA SumDiffers ==
  ASSUME NEW f, NEW size, NEW A, NEW B, NEW M,
         IsFiniteSet(A), IsFiniteSet(B), IsFiniteSet(M),
         \A y \in A \cup B \cup M : /\ f[y] \in Int /\ size[y] \in Nat
                                    /\ f[y] <= size[y] /\ -f[y] <= size[y],
         A \ B \subseteq M, B \ A \subseteq M
  PROVE  /\ SumFunctionOnSet(f, A) - SumFunctionOnSet(f, B) <= SumFunctionOnSet(size, M)
         /\ SumFunctionOnSet(f, A) \in Int /\ SumFunctionOnSet(f, B) \in Int
         /\ SumFunctionOnSet(size, M) \in Nat
<1> DEFINE C == A \cap B
           P == A \ B
           Q == B \ A
           neg == [y \in Q |-> -f[y]]
<1>f. /\ IsFiniteSet(C) /\ IsFiniteSet(P) /\ IsFiniteSet(Q)
      /\ IsFiniteSet(P \cup Q) /\ P \cup Q \subseteq M /\ P \cap Q = {}
  BY FS_Intersection, FS_Difference, FS_Union
<1>g. \A y \in A \cup B \cup M : f[y] \in Int /\ size[y] \in Nat
  OBVIOUS
<1>1. /\ SumFunctionOnSet(f, A) = SumFunctionOnSet(f, C) + SumFunctionOnSet(f, P)
      /\ SumFunctionOnSet(f, B) = SumFunctionOnSet(f, C) + SumFunctionOnSet(f, Q)
  <2>1. (\A y \in A : f[y] \in Int) /\ (\A y \in B : f[y] \in Int)
    BY <1>g
  <2>2. C \cup P = A /\ C \cap P = {} /\ C \cup Q = B /\ C \cap Q = {}
    OBVIOUS
  <2>3. (\A y \in C \cup P : f[y] \in Int) /\ (\A y \in C \cup Q : f[y] \in Int)
    BY <1>g
  <2> HIDE DEF C, P, Q
  <2>4. /\ SumFunctionOnSet(f, C \cup P) = SumFunctionOnSet(f, C) + SumFunctionOnSet(f, P)
        /\ SumFunctionOnSet(f, C \cup Q) = SumFunctionOnSet(f, C) + SumFunctionOnSet(f, Q)
    BY <1>f, <2>2, <2>3, SumUnion
  <2> QED BY <2>2, <2>4, Zenon
<1>2. /\ SumFunctionOnSet(f, C) \in Int /\ SumFunctionOnSet(f, P) \in Int
      /\ SumFunctionOnSet(f, Q) \in Int
  <2>1. (\A y \in C : f[y] \in Int) /\ (\A y \in P : f[y] \in Int) /\ (\A y \in Q : f[y] \in Int)
    BY <1>g
  <2> HIDE DEF C, P, Q
  <2> QED BY <1>f, <2>1, SumInt
<1>h. \A y \in P \cup Q : f[y] \in Int /\ size[y] \in Nat /\ f[y] <= size[y] /\ -f[y] <= size[y]
  OBVIOUS
<1> HIDE DEF C, P, Q
<1>3. SumFunctionOnSet(f, P) <= SumFunctionOnSet(size, P)
  BY <1>f, <1>h, SumOrder
<1>4. SumFunctionOnSet(neg, Q) <= SumFunctionOnSet(size, Q)
  <2>1. \A y \in Q : neg[y] \in Int /\ size[y] \in Int /\ neg[y] <= size[y]
    BY <1>h
  <2> HIDE DEF neg
  <2> QED BY <1>f, <2>1, SumOrder
<1>5. SumFunctionOnSet(neg, Q) \in Int /\ SumFunctionOnSet(f, Q) + SumFunctionOnSet(neg, Q) = 0
  <2> DEFINE zero == [y \in Q |-> 0]
  <2>1. \A y \in Q : f[y] \in Int /\ neg[y] \in Int /\ zero[y] = f[y] + neg[y] /\ zero[y] = 0
    BY <1>h
  <2> HIDE DEF neg, zero
  <2>2. SumFunctionOnSet(zero, Q) = SumFunctionOnSet(f, Q) + SumFunctionOnSet(neg, Q)
    BY <1>f, <2>1, SumPlus
  <2>3. SumFunctionOnSet(zero, Q) = 0
    BY <1>f, <2>1, SumZero
  <2>4. SumFunctionOnSet(neg, Q) \in Int
    BY <1>f, <2>1, SumInt
  <2> QED BY <2>2, <2>3, <2>4
<1>6. SumFunctionOnSet(size, P \cup Q) = SumFunctionOnSet(size, P) + SumFunctionOnSet(size, Q)
  <2>1. \A y \in P \cup Q : size[y] \in Int
    BY <1>h
  <2> QED BY <1>f, <2>1, SumUnion
<1>7. SumFunctionOnSet(size, P) \in Nat /\ SumFunctionOnSet(size, Q) \in Nat
  <2>1. (\A y \in P : size[y] \in Nat) /\ (\A y \in Q : size[y] \in Nat)
    BY <1>h
  <2> QED BY <1>f, <2>1, SumNat
<1>9. \A y \in M : size[y] \in Nat
  BY <1>g
<1>8. SumFunctionOnSet(size, P \cup Q) <= SumFunctionOnSet(size, M)
  BY <1>f, <1>9, SumSubset
<1>10. SumFunctionOnSet(size, M) \in Nat
  BY <1>9, SumNat
<1>11. SumFunctionOnSet(f, Q) = -SumFunctionOnSet(neg, Q)
  BY <1>2, <1>5
<1> HIDE DEF neg
<1> QED BY <1>1, <1>2, <1>3, <1>4, <1>5, <1>6, <1>7, <1>8, <1>10, <1>11

\* Sorted into parts and added part by part, a set adds up to the same.
LEMMA SumByParts ==
  ASSUME NEW f, NEW S, IsFiniteSet(S), NEW K, IsFiniteSet(K), NEW part,
         \A y \in S : f[y] \in Int, \A y \in S : part[y] \in K
  PROVE  SumFunctionOnSet([j \in K |-> SumFunctionOnSet(f, {y \in S : part[y] = j})], K)
           = SumFunctionOnSet(f, S)
<1> DEFINE Of(j) == {y \in S : part[y] = j}
           With(L) == {y \in S : part[y] \in L}
           sums == [j \in K |-> SumFunctionOnSet(f, Of(j))]
           G == {L \in SUBSET K : SumFunctionOnSet(sums, L) = SumFunctionOnSet(f, With(L))}
<1>f. \A U \in SUBSET S : IsFiniteSet(U) /\ SumFunctionOnSet(f, U) \in Int
  BY FS_Subset, SumInt
<1>i. \A j \in K : sums[j] = SumFunctionOnSet(f, Of(j)) /\ sums[j] \in Int
  BY <1>f
<1>1. {} \in G
  <2>1. With({}) = {}
    OBVIOUS
  <2> QED BY <2>1, SumEmpty
<1>2. ASSUME NEW L \in SUBSET K, NEW j \in K, j \notin L, L \in G PROVE L \cup {j} \in G
  <2>0. IsFiniteSet(L)
    BY FS_Subset
  <2> HIDE DEF sums
  <2>1. SumFunctionOnSet(sums, L \cup {j}) = sums[j] + SumFunctionOnSet(sums, L)
    BY <1>i, <1>2, <2>0, SumInsert
  <2>2. With(L \cup {j}) = With(L) \cup Of(j) /\ With(L) \cap Of(j) = {}
        /\ With(L) \in SUBSET S /\ Of(j) \in SUBSET S
    BY <1>2
  <2> HIDE DEF With, Of
  <2>3. SumFunctionOnSet(f, With(L) \cup Of(j))
          = SumFunctionOnSet(f, With(L)) + SumFunctionOnSet(f, Of(j))
    BY <1>f, <2>2, SumUnion
  <2>4. SumFunctionOnSet(f, With(L)) \in Int /\ SumFunctionOnSet(f, Of(j)) \in Int
    BY <1>f, <2>2
  <2>5. SumFunctionOnSet(sums, L) = SumFunctionOnSet(f, With(L)) /\ L \cup {j} \in SUBSET K
    BY <1>2
  <2>7. sums[j] = SumFunctionOnSet(f, Of(j))
    BY <1>i
  <2>8. With(L \cup {j}) = With(L) \cup Of(j)
    BY <2>2
  <2>6. SumFunctionOnSet(sums, L \cup {j}) = SumFunctionOnSet(f, With(L) \cup Of(j))
    BY <2>1, <2>3, <2>4, <2>5, <2>7
  <2> QED BY <2>5, <2>6, <2>8, Zenon
<1>3. K \in G
  <2> HIDE DEF G
  <2> QED BY <1>1, <1>2, SubsetInduction
<1>4. With(K) = S
  OBVIOUS
<1> QED BY <1>3, <1>4

ImageOf(name, S) == {name[y] : y \in S}

\* Renamed one to one, a set adds up to the same.
LEMMA SumImage ==
  ASSUME NEW f, NEW g, NEW S, IsFiniteSet(S), NEW name,
         \A y \in S : f[y] \in Int /\ g[name[y]] = f[y],
         \A y, z \in S : name[y] = name[z] => y = z
  PROVE  IsFiniteSet(ImageOf(name, S)) /\ SumFunctionOnSet(g, ImageOf(name, S)) = SumFunctionOnSet(f, S)
<1> DEFINE Named(U) == ImageOf(name, U)
           G == {U \in SUBSET S : IsFiniteSet(Named(U)) /\
                    SumFunctionOnSet(g, Named(U)) = SumFunctionOnSet(f, U)}
<1>1. {} \in G
  <2>1. Named({}) = {}
    BY DEF ImageOf
  <2> QED BY <2>1, SumEmpty, FS_EmptySet
<1>2. ASSUME NEW U \in SUBSET S, NEW x \in S, x \notin U, U \in G PROVE U \cup {x} \in G
  <2>0. IsFiniteSet(U)
    BY FS_Subset
  <2>1. SumFunctionOnSet(f, U \cup {x}) = f[x] + SumFunctionOnSet(f, U)
    BY <1>2, <2>0, SumInsert
  <2>2. Named(U \cup {x}) = Named(U) \cup {name[x]} /\ name[x] \notin Named(U)
    BY <1>2 DEF ImageOf
  <2>3. g[name[x]] = f[x] /\ f[x] \in Int /\ \A z \in Named(U) : g[z] \in Int
    BY DEF ImageOf
  <2>5. IsFiniteSet(Named(U)) /\ SumFunctionOnSet(g, Named(U)) = SumFunctionOnSet(f, U)
    BY <1>2
  <2> HIDE DEF Named
  <2>4. SumFunctionOnSet(g, Named(U) \cup {name[x]}) = g[name[x]] + SumFunctionOnSet(g, Named(U))
        /\ IsFiniteSet(Named(U) \cup {name[x]})
    BY <2>2, <2>3, <2>5, SumInsert, FS_AddElement
  <2> QED BY <2>1, <2>2, <2>3, <2>4, <2>5
<1> HIDE DEF G
<1>3. S \in G
  BY <1>1, <1>2, SubsetInduction
<1> QED BY <1>3 DEF G

-----------------------------------------------------------------------------
USE DEF Larger, Smaller

\* What the arithmetic needs of a document.
WellFormed(d) ==
  /\ d.total \in Int /\ d.balance \in Int /\ d.due \in Day
  /\ d.agreed # NoDay => d.agreed \in Day
  /\ d.schedule \in Seq([day : Day \cup {NoDay}, value : Nat])

\* The elements of a sequence over a set are in the set.
LEMMA SeqMembers ==
  ASSUME NEW S, NEW s \in Seq(S) PROVE \A i \in DOMAIN s : s[i] \in S
OBVIOUS

\* The installments of such a document.
LEMMA ScheduleFields ==
  ASSUME NEW d, WellFormed(d)
  PROVE  /\ DOMAIN d.schedule = 1 .. Len(d.schedule) /\ Len(d.schedule) \in Nat
         /\ \A n \in 1 .. Len(d.schedule) : DayOf(d, n) \in Day /\ d.schedule[n].value \in Nat
<1>1. d.due \in Day /\ d.schedule \in Seq([day : Day \cup {NoDay}, value : Nat])
  BY DEF WellFormed
<1>2. DOMAIN d.schedule = 1 .. Len(d.schedule) /\ Len(d.schedule) \in Nat
  BY <1>1
<1>3. \A n \in 1 .. Len(d.schedule) : d.schedule[n] \in [day : Day \cup {NoDay}, value : Nat]
  BY <1>1, <1>2, SeqMembers
<1>4. \A n \in 1 .. Len(d.schedule) : DayOf(d, n) \in Day /\ d.schedule[n].value \in Nat
  BY <1>1, <1>3 DEF DayOf
<1> QED BY <1>2, <1>4

\* A document, field by field, as the arithmetic needs it.
LEMMA DocumentFields ==
  ASSUME NEW d \in Document
  PROVE  /\ d.total \in Int /\ d.balance \in Int
         /\ d.due \in Day
         /\ d.agreed # NoDay => d.agreed \in Day
         /\ d.schedule \in Seq(Installment) /\ WellFormed(d)
         /\ \A n \in 1 .. Len(d.schedule) : DayOf(d, n) \in Day /\ d.schedule[n].value \in Nat
<1>1. PICK n \in 0 .. MaxLength : d.schedule \in [1 .. n -> Installment]
  BY DEF Document, Schedule
<1>2. d.schedule \in Seq(Installment) /\ Len(d.schedule) = n
  BY <1>1, LengthAssumption
<1>3. \A j \in 1 .. n : d.schedule[j] \in Installment
  BY <1>1
<1>4. \A j \in 1 .. n : DayOf(d, j) \in Day /\ d.schedule[j].value \in Nat
  BY <1>3, AmountAssumption DEF Installment, DayOf, Document
<1>5. /\ d.total \in Amount /\ d.balance \in Balance /\ d.due \in Day
      /\ d.agreed \in Day \cup {NoDay}
  BY DEF Document
<1>6. d.total \in Int /\ d.balance \in Int
  <2>1. \A x \in Amount : x \in Int
    BY AmountAssumption
  <2>2. \A x \in Balance : x \in Int
    BY AmountAssumption
  <2> QED
    BY <1>5, <2>1, <2>2, Zenon
<1>7. \A j \in 1 .. Len(d.schedule) : DayOf(d, j) \in Day /\ d.schedule[j].value \in Nat
  BY <1>2, <1>4
<1>8. d.schedule \in Seq([day : Day \cup {NoDay}, value : Nat])
  <2>1. \A j \in 1 .. n : d.schedule[j] \in [day : Day \cup {NoDay}, value : Nat]
    BY <1>3, AmountAssumption DEF Installment
  <2> DEFINE S == [day : Day \cup {NoDay}, value : Nat]
  <2>2. d.schedule \in [1 .. n -> S] /\ n \in Nat
    BY <1>1, <2>1, LengthAssumption
  <2> HIDE DEF S
  <2>3. d.schedule \in Seq(S)
    BY <2>2
  <2> QED BY <2>3 DEF S
<1> QED
  BY <1>2, <1>5, <1>6, <1>7, <1>8 DEF WellFormed

\* The stretch of length B after P, and an installment from s to s + v: what the
\* two looks of an iteration at paid and remaining decide.
LEMMA StretchStep ==
  ASSUME NEW P \in Nat, NEW B \in Nat, NEW s \in Nat, NEW v \in Nat,
         NEW paid0 \in Int, paid0 = Larger(0, P - s),
         NEW placed0 \in Int, placed0 = Larger(0, Smaller(s, P + B) - Larger(0, P)),
         B - placed0 > 0
  PROVE  LET part == Larger(0, Smaller(s + v, P + B) - Larger(s, P)) IN
         /\ part \in Nat
         /\ Larger(0, Smaller(s + v, P + B) - Larger(0, P)) = placed0 + part
         /\ paid0 > 0 /\ paid0 >= v => part = 0 /\ Larger(0, P - (s + v)) = paid0 - v
         /\ ~(paid0 > 0 /\ paid0 >= v) =>
              part = Smaller(v - paid0, B - placed0) /\ Larger(0, P - (s + v)) = 0
  OBVIOUS

\* The variables keep their types: in particular neither what is left of the
\* paid amount nor what is left of the balance ever falls below zero.
THEOREM TypeCorrect == LoopSpec => []LoopTypeOK
<1>1. LoopInit => LoopTypeOK
  <2> SUFFICES ASSUME LoopInit PROVE LoopTypeOK
    OBVIOUS
  <2>1. doc \in Document /\ Len(doc.schedule) \in Nat
    BY DocumentFields DEF LoopInit
  <2> QED
    BY <2>1 DEF LoopInit, LoopTypeOK
<1>2. LoopTypeOK /\ [LoopNext]_loopVars => LoopTypeOK'
  <2> SUFFICES ASSUME LoopTypeOK, [LoopNext]_loopVars PROVE LoopTypeOK'
    OBVIOUS
  <2>d. doc \in Document
    BY DEF LoopTypeOK
  <2>f. /\ doc.total \in Int /\ doc.balance \in Int /\ doc.due \in Day
        /\ doc.agreed # NoDay => doc.agreed \in Day
        /\ Len(doc.schedule) \in Nat
        /\ \A n \in 1 .. Len(doc.schedule) :
             DayOf(doc, n) \in Day /\ doc.schedule[n].value \in Nat
    BY <2>d, DocumentFields
  <2>p. ASSUME NEW day \in Day, NEW value \in Nat, Pay(day, value)
        PROVE  out' \in Seq([day : Day, value : Nat]) /\ placed' \in Nat
    BY <2>p DEF Pay, LoopTypeOK
  <2>1. CASE Settled
    BY <2>1 DEF Settled, LoopTypeOK
  <2>2. CASE Agreed
    <3>1. doc.agreed \in Day /\ doc.balance \in Nat
      BY <2>2, <2>f DEF Agreed
    <3> QED
      BY <3>1, <2>2, <2>p DEF Agreed, LoopTypeOK
  <2>3. CASE LumpSum
    <3>1. doc.balance \in Nat
      BY <2>3, <2>f DEF LumpSum
    <3> QED
      BY <3>1, <2>3, <2>f, <2>p DEF LumpSum, LoopTypeOK
  <2>4. CASE Begin
    BY <2>4, <2>f DEF Begin, LoopTypeOK, PaidOf
  <2>5. CASE Skip
    <3>1. k \in 1 .. Len(doc.schedule) /\ Value \in Nat
      BY <2>5, <2>f DEF Skip, Looking, Value, LoopTypeOK
    <3> QED
      BY <2>5, <3>1 DEF Skip, Looking, Look, Covered, LoopTypeOK
  <2>6. CASE Place
    <3>1. k \in 1 .. Len(doc.schedule) /\ Value \in Nat
      BY <2>6, <2>f DEF Place, Looking, Value, LoopTypeOK
    <3>2. Smaller(Value - paid, remaining) \in Nat
      BY <2>6, <3>1 DEF Place, Covered, Looking, LoopTypeOK
    <3>3. /\ remaining' \in Nat /\ paid' \in Nat /\ seen' \in Nat
          /\ k' \in 1 .. Len(doc'.schedule) + 1
      BY <2>6, <3>1 DEF Place, Look, Looking, Covered, LoopTypeOK
    <3>4. out' \in Seq([day : Day, value : Nat]) /\ placed' \in Nat
      BY <2>6, <3>1, <3>2, <2>p, <2>f DEF Place
    <3> QED
      BY <2>6, <3>3, <3>4 DEF Place, LoopTypeOK
  <2>7. CASE Leave
    BY <2>7, <2>f, <2>p DEF Leave, LoopTypeOK
  <2>8. CASE UNCHANGED loopVars
    BY <2>8 DEF loopVars, LoopTypeOK
  <2> QED
    BY <2>1, <2>2, <2>3, <2>4, <2>5, <2>6, <2>7, <2>8 DEF LoopNext
<1> QED
  BY <1>1, <1>2, PTL DEF LoopSpec

\* One iteration: what is placed is the installment's part of the stretch, and
\* the three quantities stay in step.
LEMMA IterationStep ==
  ASSUME LoopTypeOK, LoopInvariant, Skip \/ Place
  PROVE  /\ placed' - placed = Overlap(doc, seen, seen')
         /\ paid' = Larger(0, PaidOf(doc') - seen')
         /\ placed' = Overlap(doc', 0, seen')
         /\ remaining' = doc'.balance - placed'
         /\ doc'.balance > 0 /\ stage' = "loop"
<1> DEFINE P == PaidOf(doc)
           B == doc.balance
<1>1. /\ doc.total \in Int /\ B \in Int
      /\ \A n \in 1 .. Len(doc.schedule) : doc.schedule[n].value \in Nat
  BY DocumentFields DEF LoopTypeOK
<1>2. k \in 1 .. Len(doc.schedule) /\ Value \in Nat
  BY <1>1 DEF Skip, Place, Looking, Value, LoopTypeOK
<1>3. stage = "loop" /\ B > 0 /\ remaining > 0
  BY DEF Skip, Place, Looking, LoopInvariant
<1>4. P \in Nat /\ B \in Nat
  BY <1>1, <1>3 DEF PaidOf
<1>5. /\ paid = Larger(0, P - seen) /\ placed = Overlap(doc, 0, seen)
      /\ remaining = B - placed
  BY <1>3 DEF LoopInvariant
<1>6. \A a, b : Overlap(doc, a, b) = Larger(0, Smaller(b, P + B) - Larger(a, P))
  BY DEF Overlap, EndOf
<1>7. seen \in Nat /\ paid \in Int /\ placed \in Int
  BY DEF LoopTypeOK
<1>8. doc' = doc /\ stage' = stage /\ seen' = seen + Value
  BY DEF Skip, Place, Look
<1> HIDE DEF P, B
<1> DEFINE part == Larger(0, Smaller(seen + Value, P + B) - Larger(seen, P))
<1>9. /\ part \in Nat
      /\ Larger(0, Smaller(seen + Value, P + B) - Larger(0, P)) = placed + part
      /\ Covered => part = 0 /\ Larger(0, P - (seen + Value)) = paid - Value
      /\ ~Covered => part = Smaller(Value - paid, remaining)
                     /\ Larger(0, P - (seen + Value)) = 0
  <2>1. placed = Larger(0, Smaller(seen, P + B) - Larger(0, P))
    BY <1>5, <1>6
  <2>2. B - placed > 0
    BY <1>3, <1>5
  <2> QED
    BY <2>1, <2>2, <1>2, <1>4, <1>5, <1>7, StretchStep DEF Covered
<1>10. /\ Overlap(doc, seen, seen') = part /\ Overlap(doc, 0, seen') = placed + part
  BY <1>6, <1>8, <1>9
<1> HIDE DEF part
<1>11. CASE Skip
  <2>1. placed' = placed /\ paid' = paid - Value /\ remaining' = remaining /\ Covered
    BY <1>11 DEF Skip
  <2> QED
    BY <2>1, <1>3, <1>5, <1>7, <1>8, <1>9, <1>10 DEF P, B
<1>12. CASE Place
  <2>1. /\ placed' = placed + part /\ paid' = 0 /\ remaining' = remaining - part /\ ~Covered
    BY <1>12, <1>9 DEF Place, Pay
  <2> QED
    BY <2>1, <1>1, <1>3, <1>5, <1>7, <1>8, <1>9, <1>10, SMTT(40) DEF P, B
<1> QED
  BY <1>11, <1>12

\* What is placed and what is left add up to what is owed, at every step.
LEMMA LoopKeepsInvariant ==
  LoopTypeOK /\ LoopInvariant /\ [LoopNext]_loopVars => LoopInvariant'
<1> SUFFICES ASSUME LoopTypeOK, LoopInvariant, [LoopNext]_loopVars PROVE LoopInvariant'
  OBVIOUS
<1>f. /\ doc.total \in Int /\ doc.balance \in Int
      /\ \A n \in 1 .. Len(doc.schedule) : doc.schedule[n].value \in Nat
  BY DocumentFields DEF LoopTypeOK
<1>1. CASE Settled \/ Agreed \/ LumpSum \/ Leave
  BY <1>1 DEF Settled, Agreed, LumpSum, Leave, LoopInvariant
<1>2. CASE Begin
  BY <1>2, <1>f DEF Begin, LoopInvariant, PaidOf, EndOf, Overlap
<1>3. CASE Skip \/ Place
  BY <1>3, IterationStep DEF LoopInvariant, Skip, Place
<1>4. CASE UNCHANGED loopVars
  BY <1>4 DEF loopVars, LoopInvariant, PaidOf, EndOf, Overlap
<1> QED
  BY <1>1, <1>2, <1>3, <1>4 DEF LoopNext

\* LoopInvariant holds throughout.
LEMMA LoopInvariantHolds == LoopSpec => []LoopInvariant
<1>1. LoopInit => LoopInvariant
  BY DEF LoopInit, LoopInvariant
<1> QED
  BY <1>1, LoopKeepsInvariant, TypeCorrect, PTL DEF LoopSpec

\* What pendingOn returns adds up to the balance, for any schedule: one that
\* falls short of the balance, one that exceeds it, and none.
THEOREM OwedIsPlacedHolds == LoopSpec => []OwedIsPlaced
<1>1. LoopInit => OwedIsPlaced
  BY DEF LoopInit, OwedIsPlaced
<1>2. LoopTypeOK /\ LoopInvariant /\ OwedIsPlaced /\ [LoopNext]_loopVars => OwedIsPlaced'
  <2> SUFFICES ASSUME LoopTypeOK, LoopInvariant, OwedIsPlaced, [LoopNext]_loopVars
               PROVE  OwedIsPlaced'
    OBVIOUS
  <2>f. doc.total \in Int /\ doc.balance \in Int
    BY DocumentFields DEF LoopTypeOK
  <2>1. CASE Settled \/ Agreed \/ LumpSum
    BY <2>1, <2>f DEF Settled, Agreed, LumpSum, Pay, LoopInvariant, OwedIsPlaced
  <2>2. CASE Begin \/ Skip \/ Place
    BY <2>2 DEF Begin, Skip, Place, Looking, OwedIsPlaced
  <2>3. CASE Leave
    BY <2>3, <2>f DEF Leave, Pay, LoopInvariant, OwedIsPlaced, LoopTypeOK
  <2>4. CASE UNCHANGED loopVars
    BY <2>4 DEF loopVars, OwedIsPlaced
  <2> QED
    BY <2>1, <2>2, <2>3, <2>4 DEF LoopNext
<1> QED
  BY <1>1, <1>2, TypeCorrect, LoopInvariantHolds, PTL DEF LoopSpec

\* Every installment is charged with its own part of what is owed.
THEOREM PaidSettlesEarliestHolds == LoopSpec => PaidSettlesEarliest
<1>1. LoopTypeOK /\ LoopInvariant /\ [LoopNext]_loopVars =>
        [k' = k + 1 => placed' - placed = Overlap(doc, seen, seen')]_loopVars
  <2> SUFFICES ASSUME LoopTypeOK, LoopInvariant, LoopNext, k' = k + 1
               PROVE  placed' - placed = Overlap(doc, seen, seen')
    OBVIOUS
  <2>0. k \in Int
    BY DEF LoopTypeOK
  <2>1. Skip \/ Place
    BY <2>0 DEF LoopNext, Settled, Agreed, LumpSum, Begin, Leave
  <2> QED
    BY <2>1, IterationStep
<1> QED
  BY <1>1, TypeCorrect, LoopInvariantHolds, PTL DEF LoopSpec, PaidSettlesEarliest

-----------------------------------------------------------------------------
(* The calendar *)

ValueOf(d)   == [i \in DOMAIN d.schedule |-> d.schedule[i].value]
ShareOf(d)   == [i \in DOMAIN d.schedule |-> Share(d, i)]

\* What the installments before the j-th are worth grows with each of them.
LEMMA BeforeGrows ==
  ASSUME NEW d, WellFormed(d), NEW j \in 1 .. Len(d.schedule) + 1
  PROVE  /\ Before(d, 1) = 0 /\ Before(d, j) \in Nat
         /\ j <= Len(d.schedule) => Before(d, j + 1) = Before(d, j) + d.schedule[j].value
         /\ \A n \in j .. Len(d.schedule) + 1 : Before(d, j) <= Before(d, n)
<1>1. /\ DOMAIN d.schedule = 1 .. Len(d.schedule) /\ Len(d.schedule) \in Nat
      /\ \A n \in 1 .. Len(d.schedule) : d.schedule[n].value \in Nat
  BY ScheduleFields
<1> DEFINE f == ValueOf(d)
<1>2. \A n \in 1 .. Len(d.schedule) : f[n] = d.schedule[n].value /\ f[n] \in Nat
  BY <1>1 DEF ValueOf
<1>3. \A n : Before(d, n) = SumFunctionOnSet(f, 1 .. n - 1)
  BY DEF Before, ValueOf
<1> HIDE DEF f
<1>4. \A n \in 1 .. Len(d.schedule) + 1 :
        IsFiniteSet(1 .. n - 1) /\ SumFunctionOnSet(f, 1 .. n - 1) \in Nat
  <2> TAKE n \in 1 .. Len(d.schedule) + 1
  <2>0. n \in Int /\ n - 1 \in Int /\ 1 \in Int
    BY <1>1
  <2>1. IsFiniteSet(1 .. n - 1)
    BY <2>0, FS_Interval
  <2>2. \A y \in 1 .. n - 1 : f[y] \in Nat
    BY <1>1, <1>2
  <2> QED BY <2>1, <2>2, SumNat
<1>5. Before(d, 1) = 0
  <2>1. 1 .. 1 - 1 = {}
    OBVIOUS
  <2> QED BY <1>3, <2>1, SumEmpty
<1>6. ASSUME j <= Len(d.schedule)
      PROVE  Before(d, j + 1) = Before(d, j) + d.schedule[j].value
  <2>1. 1 .. (j + 1) - 1 = (1 .. j - 1) \cup {j} /\ j \notin 1 .. j - 1
    BY <1>1
  <2>2. f[j] \in Int /\ \A y \in 1 .. j - 1 : f[y] \in Int
    BY <1>1, <1>2, <1>6
  <2>3. SumFunctionOnSet(f, (1 .. j - 1) \cup {j}) = f[j] + SumFunctionOnSet(f, 1 .. j - 1)
    BY <1>4, <2>1, <2>2, SumInsert
  <2>4. Before(d, j + 1) = f[j] + Before(d, j)
    <3>1. Before(d, j + 1) = SumFunctionOnSet(f, (1 .. j - 1) \cup {j})
      BY <1>3, <2>1, Zenon
    <3> QED BY <1>3, <2>3, <3>1, Zenon
  <2>5. Before(d, j) \in Int
    BY <1>3, <1>4
  <2> QED BY <1>2, <1>6, <2>2, <2>4, <2>5
<1>7. ASSUME NEW n \in j .. Len(d.schedule) + 1 PROVE Before(d, j) <= Before(d, n)
  <2>1. /\ 1 .. j - 1 \in SUBSET (1 .. n - 1)
        /\ n \in 1 .. Len(d.schedule) + 1 /\ \A y \in 1 .. n - 1 : f[y] \in Nat
    BY <1>1, <1>2
  <2>2. SumFunctionOnSet(f, 1 .. j - 1) <= SumFunctionOnSet(f, 1 .. n - 1)
    BY <1>4, <2>1, SumSubset
  <2> QED BY <1>3, <2>2
<1> QED BY <1>3, <1>4, <1>5, <1>6, <1>7

\* What an installment owes is not negative.
LEMMA ShareIsNat ==
  ASSUME NEW d, WellFormed(d), NEW j \in 1 .. Len(d.schedule)
  PROVE  Share(d, j) \in Nat
<1>1. Before(d, j) \in Int /\ Before(d, j + 1) \in Int
  BY BeforeGrows, ScheduleFields
<1> QED BY <1>1, SMTT(40) DEF Share, Overlap, EndOf, PaidOf, WellFormed

\* What a set of installments owes grows by what one more owes.
LEMMA ScheduledStep ==
  ASSUME NEW d, WellFormed(d), NEW j \in 1 .. Len(d.schedule),
         NEW K \in SUBSET (1 .. Len(d.schedule)), j \notin K
  PROVE  /\ Scheduled(d, {}) = 0 /\ Scheduled(d, K) \in Nat
         /\ Scheduled(d, K \cup {j}) = Scheduled(d, K) + Share(d, j)
<1>1. /\ DOMAIN d.schedule = 1 .. Len(d.schedule) /\ Len(d.schedule) \in Nat
  BY ScheduleFields
<1>2. \A n \in 1 .. Len(d.schedule) : ShareOf(d)[n] = Share(d, n) /\ ShareOf(d)[n] \in Nat
  BY <1>1, ShareIsNat DEF ShareOf
<1>3. \A L : Scheduled(d, L) = SumFunctionOnSet(ShareOf(d), L)
  BY DEF Scheduled, ShareOf
<1>4. IsFiniteSet(K) /\ ShareOf(d)[j] \in Int
      /\ \A n \in K : ShareOf(d)[n] \in Nat /\ ShareOf(d)[n] \in Int
  <2>1. IsFiniteSet(1 .. Len(d.schedule))
    BY <1>1, FS_Interval
  <2>2. IsFiniteSet(K)
    BY <2>1, FS_Subset
  <2> QED BY <1>2, <2>2
<1>5. SumFunctionOnSet(ShareOf(d), K) \in Nat
  BY <1>4, SumNat
<1>6. SumFunctionOnSet(ShareOf(d), K \cup {j}) = ShareOf(d)[j] + SumFunctionOnSet(ShareOf(d), K)
  BY <1>4, SumInsert
<1> QED BY <1>2, <1>3, <1>4, <1>5, <1>6, SumEmpty

\* What the result holds for a day.
Paying(s, day) ==
  SumFunctionOnSet([i \in DOMAIN s |-> s[i].value], {i \in DOMAIN s : s[i].day = day})

\* A payment placed on a day is there on that day and on no other.
LEMMA PayingAppend ==
  ASSUME NEW s \in Seq([day : Day, value : Nat]), NEW e \in [day : Day, value : Nat],
         NEW day
  PROVE  Paying(Append(s, e), day) = Paying(s, day) + (IF e.day = day THEN e.value ELSE 0)
<1> DEFINE t == Append(s, e)
           f == [i \in DOMAIN s |-> s[i].value]
           g == [i \in DOMAIN t |-> t[i].value]
           F == {i \in DOMAIN s : s[i].day = day}
           G == {i \in DOMAIN t : t[i].day = day}
           n == Len(s) + 1
<1>1. /\ DOMAIN s = 1 .. Len(s) /\ Len(s) \in Nat /\ DOMAIN t = 1 .. n
      /\ t[n] = e /\ \A i \in 1 .. Len(s) : t[i] = s[i] /\ i # n
      /\ \A i \in 1 .. Len(s) : s[i].value \in Nat
      /\ e.value \in Nat
  <2> DEFINE R == [day : Day, value : Nat]
  <2>0. s \in Seq(R) /\ e \in R /\ \A r \in R : r.value \in Nat
    OBVIOUS
  <2> HIDE DEF R
  <2>1. /\ DOMAIN s = 1 .. Len(s) /\ Len(s) \in Nat /\ DOMAIN t = 1 .. n
        /\ t[n] = e /\ \A i \in 1 .. Len(s) : t[i] = s[i] /\ i # n /\ s[i] \in R
    BY <2>0
  <2> QED BY <2>0, <2>1
<1>2. G = F \cup (IF e.day = day THEN {n} ELSE {}) /\ n \notin F
  BY <1>1
<1>3. IsFiniteSet(F)
  <2>1. IsFiniteSet(1 .. Len(s))
    BY <1>1, FS_Interval
  <2>2. F \in SUBSET (1 .. Len(s))
    BY <1>1
  <2> HIDE DEF F
  <2> QED BY <2>1, <2>2, FS_Subset
<1>4. /\ \A i \in F : f[i] = g[i] /\ f[i] \in Int /\ g[i] \in Int
      /\ g[n] = e.value /\ e.value \in Int
  BY <1>1
<1>5. Paying(s, day) = SumFunctionOnSet(f, F) /\ Paying(t, day) = SumFunctionOnSet(g, G)
  BY DEF Paying
<1> HIDE DEF t, f, g, F, G, n
<1>6. SumFunctionOnSet(f, F) = SumFunctionOnSet(g, F)
  BY <1>3, <1>4, SumSame
<1>7. SumFunctionOnSet(g, F) \in Int
  BY <1>3, <1>4, SumInt
<1>8. CASE e.day = day
  <2>1. SumFunctionOnSet(g, F \cup {n}) = g[n] + SumFunctionOnSet(g, F)
    BY <1>2, <1>3, <1>4, SumInsert
  <2> QED BY <1>2, <1>4, <1>5, <1>6, <1>7, <1>8, <2>1 DEF t
<1>9. CASE e.day # day
  <2>1. G = F
    BY <1>2, <1>9
  <2> QED BY <1>5, <1>6, <1>7, <1>9, <2>1 DEF t
<1> QED BY <1>8, <1>9

\* An empty result pays nothing.
LEMMA PayingEmpty == \A day : Paying(<<>>, day) = 0
<1> TAKE day
<1>1. {i \in DOMAIN <<>> : <<>>[i].day = day} = {}
  OBVIOUS
<1> QED BY <1>1, SumEmpty DEF Paying

\* The installments seen that fall on a day.
SeenOn(day) == {j \in 1 .. k - 1 : DayOf(doc, j) = day}

CalendarInvariant ==
  /\ stage = "start" => k = 1
  /\ stage = "loop" =>
       /\ doc.agreed = NoDay
       /\ seen = Before(doc, k)
       /\ placed = Scheduled(doc, 1 .. k - 1)
       /\ \A day \in Day : Paying(out, day) = Scheduled(doc, SeenOn(day))

\* One installment more: it is placed on its day, or owes nothing.
LEMMA CalendarStep ==
  ASSUME LoopTypeOK, LoopTypeOK', LoopInvariant, CalendarInvariant, Skip \/ Place
  PROVE  CalendarInvariant'
<1>d. /\ doc \in Document /\ WellFormed(doc) /\ k \in 1 .. Len(doc.schedule) /\ stage = "loop" /\ k \in Nat
      /\ Len(doc.schedule) \in Nat
  BY DocumentFields DEF Skip, Place, Looking, LoopTypeOK
<1>c. /\ doc.agreed = NoDay /\ seen = Before(doc, k) /\ placed = Scheduled(doc, 1 .. k - 1)
      /\ \A day \in Day : Paying(out, day) = Scheduled(doc, SeenOn(day))
  BY <1>d DEF CalendarInvariant
<1>n. doc' = doc /\ k' = k + 1 /\ seen' = seen + doc.schedule[k].value /\ stage' = "loop"
  BY DEF Skip, Place, Look, Looking, Value
<1>1. seen' = Before(doc, k')
  BY <1>c, <1>d, <1>n, BeforeGrows
<1>2. placed' - placed = Share(doc, k)
  BY <1>1, <1>c, <1>n, IterationStep DEF Share
<1>3. 1 .. k' - 1 = (1 .. k - 1) \cup {k} /\ k \notin 1 .. k - 1
      /\ 1 .. k - 1 \in SUBSET (1 .. Len(doc.schedule))
  BY <1>d, <1>n
<1>4. placed' = Scheduled(doc, 1 .. k' - 1)
  <2>1. Scheduled(doc, (1 .. k - 1) \cup {k}) = Scheduled(doc, 1 .. k - 1) + Share(doc, k)
    BY <1>d, <1>3, ScheduledStep
  <2>2. placed \in Int /\ placed' \in Int /\ Share(doc, k) \in Int
    BY <1>d, ShareIsNat DEF LoopTypeOK
  <2>3. placed' = placed + Share(doc, k)
    BY <1>2, <2>2
  <2> QED BY <1>3, <1>c, <2>1, <2>3
<1>5. ASSUME NEW day \in Day
      PROVE  Paying(out', day) = Scheduled(doc, SeenOn(day)')
  <2>1. /\ SeenOn(day) \in SUBSET (1 .. Len(doc.schedule)) /\ k \notin SeenOn(day)
        /\ DayOf(doc, k) = day => SeenOn(day)' = SeenOn(day) \cup {k}
        /\ DayOf(doc, k) # day => SeenOn(day)' = SeenOn(day)
    BY <1>d, <1>n, <1>3 DEF SeenOn
  <2>2. Scheduled(doc, SeenOn(day) \cup {k}) = Scheduled(doc, SeenOn(day)) + Share(doc, k)
        /\ Scheduled(doc, SeenOn(day)) \in Nat /\ Share(doc, k) \in Nat
    BY <1>d, <2>1, ScheduledStep, ShareIsNat
  <2>3. CASE Skip
    <3>1. out' = out /\ placed' = placed
      BY <2>3 DEF Skip
    <3>2. Share(doc, k) = 0
      BY <1>2, <2>2, <3>1 DEF LoopTypeOK
    <3>3. Scheduled(doc, SeenOn(day)') = Scheduled(doc, SeenOn(day))
      <4>1. CASE DayOf(doc, k) = day
        <5>1. SeenOn(day)' = SeenOn(day) \cup {k}
          BY <2>1, <4>1
        <5> QED BY <2>2, <3>2, <5>1
      <4>2. CASE DayOf(doc, k) # day
        BY <2>1, <4>2
      <4> QED BY <4>1, <4>2
    <3> QED BY <1>c, <3>1, <3>3
  <2>4. CASE Place
    <3> DEFINE unpaid == Smaller(Value - paid, remaining)
    <3>1. Pay(DayOf(doc, k), unpaid)
      BY <2>4 DEF Place
    <3> HIDE DEF unpaid
    <3>2. out' = Append(out, [day |-> DayOf(doc, k), value |-> unpaid])
          /\ placed' = placed + unpaid
      BY <3>1 DEF Pay
    <3>3. unpaid \in Int
      <4>1. Value \in Int
        BY <1>d, DocumentFields DEF Value
      <4> QED BY <4>1 DEF unpaid, LoopTypeOK
    <3>4. unpaid = Share(doc, k)
      BY <1>2, <3>2, <3>3 DEF LoopTypeOK
    <3>5. Paying(out', day) = Paying(out, day) + (IF DayOf(doc, k) = day THEN unpaid ELSE 0)
      <4> DEFINE e == [day |-> DayOf(doc, k), value |-> unpaid]
      <4>1. e \in [day : Day, value : Nat] /\ e.day = DayOf(doc, k) /\ e.value = unpaid
        BY <1>d, <2>2, <3>4, DocumentFields
      <4> HIDE DEF e
      <4>2. Paying(Append(out, e), day) = Paying(out, day) + (IF e.day = day THEN e.value ELSE 0)
        BY <4>1, PayingAppend DEF LoopTypeOK
      <4> QED BY <3>2, <4>1, <4>2 DEF e
    <3>6. Paying(out, day) = Scheduled(doc, SeenOn(day))
      BY <1>c
    <3>7. CASE DayOf(doc, k) = day
      <4>1. SeenOn(day)' = SeenOn(day) \cup {k}
        BY <2>1, <3>7
      <4> QED BY <2>2, <3>4, <3>5, <3>6, <3>7, <4>1
    <3>8. CASE DayOf(doc, k) # day
      <4>1. SeenOn(day)' = SeenOn(day)
        BY <2>1, <3>8
      <4> QED BY <2>2, <3>5, <3>6, <3>8, <4>1
    <3> QED BY <3>7, <3>8
  <2> QED BY <2>3, <2>4
<1> QED BY <1>c, <1>n, <1>1, <1>4, <1>5 DEF CalendarInvariant

\* So it is whenever the loop has gone round.
LEMMA CalendarInvariantHolds == LoopSpec => []CalendarInvariant
<1>1. LoopInit => CalendarInvariant
  BY DEF LoopInit, CalendarInvariant
<1>2. LoopTypeOK /\ LoopTypeOK' /\ LoopInvariant /\ CalendarInvariant /\ [LoopNext]_loopVars => CalendarInvariant'
  <2> SUFFICES ASSUME LoopTypeOK, LoopTypeOK', LoopInvariant, CalendarInvariant, [LoopNext]_loopVars
               PROVE  CalendarInvariant'
    OBVIOUS
  <2>1. CASE Settled \/ Agreed \/ LumpSum \/ Leave
    BY <2>1 DEF Settled, Agreed, LumpSum, Leave, CalendarInvariant
  <2>2. CASE Begin
    <3>1. /\ WellFormed(doc) /\ 1 \in 1 .. Len(doc.schedule) + 1
          /\ k = 1 /\ out = <<>> /\ seen = 0 /\ placed = 0
      BY <2>2, DocumentFields DEF Begin, CalendarInvariant, LoopInvariant, LoopTypeOK
    <3>2. Before(doc, 1) = 0
      BY <3>1, BeforeGrows
    <3>3. Scheduled(doc, {}) = 0
      BY SumEmpty DEF Scheduled
    <3>4. 1 .. k - 1 = {} /\ \A day : SeenOn(day) = {}
      BY <3>1 DEF SeenOn
    <3>5. /\ doc' = doc /\ k' = k /\ out' = out /\ seen' = seen /\ placed' = placed
          /\ stage' = "loop" /\ doc.agreed = NoDay
      BY <2>2 DEF Begin
    <3>6. \A day \in Day : Paying(out', day) = 0 /\ Scheduled(doc', SeenOn(day)') = 0
      BY <3>1, <3>3, <3>4, <3>5, PayingEmpty DEF SeenOn
    <3>7. 1 .. k' - 1 = {}
      BY <3>4, <3>5
    <3> QED BY <3>1, <3>2, <3>3, <3>5, <3>6, <3>7 DEF CalendarInvariant
  <2>3. CASE Skip \/ Place
    BY <2>3, CalendarStep
  <2>4. CASE UNCHANGED loopVars
    BY <2>4 DEF loopVars, CalendarInvariant, SeenOn
  <2> QED BY <2>1, <2>2, <2>3, <2>4 DEF LoopNext
<1> QED BY <1>1, <1>2, TypeCorrect, LoopInvariantHolds, PTL DEF LoopSpec

\* When the loop ends, what it has not looked at owes nothing.
LEMMA NothingLeftBehind ==
  ASSUME LoopTypeOK, LoopInvariant, CalendarInvariant, stage = "loop", ~Looking
  PROVE  /\ remaining = Residual(doc)
         /\ \A day \in Day : Scheduled(doc, {j \in DOMAIN doc.schedule : DayOf(doc, j) = day})
                               = Scheduled(doc, SeenOn(day))
<1> DEFINE N == Len(doc.schedule)
           All(day) == {j \in DOMAIN doc.schedule : DayOf(doc, j) = day}
<1>d. /\ doc \in Document /\ WellFormed(doc) /\ N \in Nat /\ DOMAIN doc.schedule = 1 .. N
      /\ k \in 1 .. N + 1 /\ k \in Nat
  BY DocumentFields DEF LoopTypeOK
<1>c. /\ seen = Before(doc, k) /\ placed = Scheduled(doc, 1 .. k - 1)
      /\ remaining = doc.balance - placed /\ placed = Overlap(doc, 0, seen)
      /\ doc.balance > 0
  BY DEF CalendarInvariant, LoopInvariant
<1>t. doc.balance \in Int /\ doc.total \in Int /\ remaining \in Nat /\ placed \in Nat
      /\ seen \in Nat
  BY <1>d, DocumentFields DEF LoopTypeOK
<1>1. \A j \in k .. N : j \in 1 .. N /\ Share(doc, j) = 0
  <2> SUFFICES ASSUME NEW j \in k .. N PROVE j \in 1 .. N /\ Share(doc, j) = 0
    OBVIOUS
  <2>1. j \in 1 .. N /\ k <= N /\ j \in k .. N + 1 /\ j \in 1 .. N + 1
    BY <1>d
  <2>2. remaining = 0 /\ placed = doc.balance
    BY <1>c, <1>t, <2>1 DEF Looking
  <2>3. Before(doc, k) <= Before(doc, j) /\ Before(doc, j) \in Nat /\ Before(doc, j + 1) \in Nat
    BY <1>d, <2>1, BeforeGrows, DocumentFields
  <2>4. seen >= EndOf(doc)
    BY <1>c, <1>t, <2>2 DEF Overlap, EndOf, PaidOf
  <2>5. Before(doc, j) >= EndOf(doc)
    BY <1>c, <1>t, <2>3, <2>4 DEF EndOf, PaidOf
  <2>6. Overlap(doc, Before(doc, j), Before(doc, j + 1)) = 0
    <3> DEFINE a == Before(doc, j)
               b == Before(doc, j + 1)
    <3>1. a \in Nat /\ b \in Nat /\ a >= EndOf(doc)
      BY <2>3, <2>5
    <3> HIDE DEF a, b
    <3>2. Overlap(doc, a, b) = 0
      BY <1>t, <1>c, <3>1, SMTT(40) DEF Overlap, EndOf, PaidOf
    <3> QED BY <3>2 DEF a, b
  <2> QED BY <2>1, <2>6 DEF Share
<1>2. ASSUME NEW K, NEW L, K \subseteq L, L \subseteq 1 .. N, \A j \in L \ K : j >= k
      PROVE  Scheduled(doc, L) = Scheduled(doc, K)
  <2>1. \A M : Scheduled(doc, M) = SumFunctionOnSet(ShareOf(doc), M)
    BY DEF Scheduled, ShareOf
  <2>2. \A j \in 1 .. N : ShareOf(doc)[j] = Share(doc, j) /\ ShareOf(doc)[j] \in Int
    BY <1>d, ShareIsNat DEF ShareOf
  <2>3. IsFiniteSet(L)
    <3>1. IsFiniteSet(1 .. N)
      BY <1>d, FS_Interval
    <3> QED BY <1>2, <3>1, FS_Subset
  <2>4. \A j \in L : ShareOf(doc)[j] \in Int
    BY <1>2, <2>2
  <2>5. \A j \in L \ K : ShareOf(doc)[j] = 0
    BY <1>d, <1>1, <1>2, <2>2
  <2>6. SumFunctionOnSet(ShareOf(doc), L) = SumFunctionOnSet(ShareOf(doc), K)
    BY <1>2, <2>3, <2>4, <2>5, SumDrop
  <2> QED BY <2>1, <2>6
<1>3. Scheduled(doc, DOMAIN doc.schedule) = placed
  <2>1. /\ 1 .. k - 1 \subseteq 1 .. N /\ 1 .. N \subseteq 1 .. N
        /\ \A j \in (1 .. N) \ (1 .. k - 1) : j >= k
    BY <1>d
  <2>2. Scheduled(doc, 1 .. N) = Scheduled(doc, 1 .. k - 1)
    BY <1>2, <2>1
  <2> QED BY <1>c, <1>d, <2>2
<1>4. ASSUME NEW day \in Day
      PROVE  Scheduled(doc, All(day)) = Scheduled(doc, SeenOn(day))
  <2>1. /\ SeenOn(day) \subseteq All(day) /\ All(day) \subseteq 1 .. N
        /\ \A j \in All(day) \ SeenOn(day) : j >= k
    BY <1>d DEF SeenOn
  <2> QED BY <1>2, <2>1
<1> QED BY <1>c, <1>3, <1>4 DEF Residual

\* The loop computes what Calendar states without one, for every schedule.
THEOREM MatchesCalendarHolds == LoopSpec => []MatchesCalendar
<1> DEFINE On(day) == Paying(out, day)
<1>1. LoopInit => MatchesCalendar
  BY DEF LoopInit, MatchesCalendar
<1>2. LoopTypeOK /\ LoopTypeOK' /\ LoopInvariant /\ CalendarInvariant /\ MatchesCalendar /\ [LoopNext]_loopVars
        => MatchesCalendar'
  <2> SUFFICES ASSUME LoopTypeOK, LoopTypeOK', LoopInvariant, CalendarInvariant, MatchesCalendar,
                      [LoopNext]_loopVars
               PROVE  MatchesCalendar'
    OBVIOUS
  <2>d. doc \in Document /\ doc.balance \in Int /\ doc.due \in Day
    BY DocumentFields DEF LoopTypeOK
  <2>p. ASSUME NEW to \in Day, NEW value \in Nat, Pay(to, value), NEW day \in Day
        PROVE  Paying(out', day) = Paying(out, day) + (IF to = day THEN value ELSE 0)
    <3> DEFINE e == [day |-> to, value |-> value]
    <3>1. e \in [day : Day, value : Nat] /\ e.day = to /\ e.value = value /\ out' = Append(out, e)
      BY <2>p DEF Pay
    <3> HIDE DEF e
    <3>2. Paying(Append(out, e), day) = Paying(out, day) + (IF e.day = day THEN e.value ELSE 0)
      BY <3>1, PayingAppend DEF LoopTypeOK
    <3> QED BY <3>1, <3>2
  <2>s. stage = "start" => \A day \in Day : Paying(out, day) = 0
    BY PayingEmpty DEF LoopInvariant
  <2>m. (stage' = "done" => \A day \in Day : ExpectedOn(doc', day) = Paying(out', day))
          => MatchesCalendar'
    BY DEF MatchesCalendar, Paying
  <2>1. CASE Settled
    <3>1. \A day \in Day : ExpectedOn(doc', day) = 0 /\ Paying(out', day) = 0
      BY <2>1, <2>s DEF Settled, ExpectedOn
    <3> QED BY <3>1, <2>m
  <2>2. CASE Agreed
    <3>1. /\ doc.agreed \in Day /\ doc.balance \in Nat /\ Pay(doc.agreed, doc.balance)
          /\ doc' = doc /\ stage = "start" /\ doc.agreed # NoDay /\ doc.balance > 0
      BY <2>2, <2>d, DocumentFields DEF Agreed
    <3>2. ASSUME NEW day \in Day PROVE ExpectedOn(doc', day) = Paying(out', day)
      <4>1. Paying(out', day) = Paying(out, day) + (IF doc.agreed = day THEN doc.balance ELSE 0)
        BY <3>1, <2>p
      <4> QED BY <2>s, <2>d, <3>1, <4>1 DEF ExpectedOn
    <3> QED BY <3>2, <2>m
  <2>3. CASE LumpSum
    <3>1. /\ doc.balance \in Nat /\ Pay(doc.due, doc.balance) /\ doc.schedule = <<>>
          /\ doc' = doc /\ stage = "start" /\ doc.agreed = NoDay /\ doc.balance > 0
      BY <2>3, <2>d DEF LumpSum
    <3>2. /\ DOMAIN doc.schedule = {} /\ Scheduled(doc, {}) = 0
          /\ \A day : {j \in DOMAIN doc.schedule : DayOf(doc, j) = day} = {}
      BY <3>1, SumEmpty DEF Scheduled
    <3>3. ASSUME NEW day \in Day PROVE ExpectedOn(doc', day) = Paying(out', day)
      <4>1. Paying(out', day) = Paying(out, day) + (IF doc.due = day THEN doc.balance ELSE 0)
        BY <2>d, <3>1, <2>p
      <4>2. Residual(doc) = doc.balance
        BY <2>d, <3>2 DEF Residual
      <4>3. ExpectedOn(doc, day) = Scheduled(doc, {}) + (IF day = doc.due THEN doc.balance ELSE 0)
        BY <2>d, <3>1, <3>2, <4>2 DEF ExpectedOn
      <4>4. Paying(out, day) = 0
        BY <2>s, <3>1
      <4> QED BY <3>1, <3>2, <4>1, <4>3, <4>4
    <3> QED BY <3>3, <2>m
  <2>4. CASE Begin \/ Skip \/ Place
    BY <2>4 DEF Begin, Skip, Place, Looking, MatchesCalendar
  <2>5. CASE Leave
    <3>1. stage = "loop" /\ ~Looking /\ doc' = doc /\ doc.balance > 0 /\ doc.agreed = NoDay
      BY <2>5 DEF Leave, LoopInvariant, CalendarInvariant
    <3>2. ASSUME NEW day \in Day PROVE ExpectedOn(doc', day) = Paying(out', day)
      <4> DEFINE N == Len(doc.schedule)
                 S == Scheduled(doc, {j \in DOMAIN doc.schedule : DayOf(doc, j) = day})
      <4>1. remaining = Residual(doc) /\ S = Paying(out, day) /\ remaining \in Nat
        BY <3>1, NothingLeftBehind DEF CalendarInvariant, LoopTypeOK
      <4>2. ExpectedOn(doc, day) = S + (IF day = doc.due THEN remaining ELSE 0)
        BY <2>d, <3>1, <4>1 DEF ExpectedOn
      <4>i. S \in Int
        <5>1. /\ N \in Nat /\ DOMAIN doc.schedule = 1 .. N
              /\ \A j \in DOMAIN doc.schedule : ShareOf(doc)[j] = Share(doc, j)
              /\ \A j \in 1 .. N : Share(doc, j) \in Int
          BY <2>d, DocumentFields, ShareIsNat DEF ShareOf
        <5> DEFINE K == {j \in DOMAIN doc.schedule : DayOf(doc, j) = day}
        <5>2. IsFiniteSet(K)
          <6>1. IsFiniteSet(1 .. N) /\ K \in SUBSET (1 .. N)
            BY <5>1, FS_Interval
          <6> HIDE DEF K
          <6> QED BY <6>1, FS_Subset
        <5>3. \A j \in K : ShareOf(doc)[j] \in Int
          BY <5>1
        <5> QED BY <5>2, <5>3, SumInt DEF Scheduled, ShareOf
      <4> HIDE DEF S
      <4>3. Paying(out', day) = S + (IF day = doc.due THEN remaining ELSE 0)
        <5>1. CASE remaining > 0
          BY <2>5, <2>d, <2>p, <4>1, <5>1 DEF Leave
        <5>2. CASE remaining = 0
          BY <2>5, <4>1, <4>i, <5>2 DEF Leave
        <5> QED BY <4>1, <5>1, <5>2
      <4> QED BY <3>1, <4>2, <4>3
    <3> QED BY <3>2, <2>m
  <2>6. CASE UNCHANGED loopVars
    BY <2>6 DEF loopVars, MatchesCalendar
  <2> QED BY <2>1, <2>2, <2>3, <2>4, <2>5, <2>6 DEF LoopNext
<1> QED BY <1>1, <1>2, TypeCorrect, LoopInvariantHolds, CalendarInvariantHolds, PTL DEF LoopSpec

\* Every day of the result is one the query can find the document by.
DaysInvariant ==
  \A i \in DOMAIN out :
    \/ out[i].day = EffectiveDay(doc)
    \/ doc.agreed = NoDay /\ \E n \in DOMAIN doc.schedule : out[i].day = doc.schedule[n].day

\* Every action places on such a day, or places nothing.
LEMMA DaysInvariantHolds == LoopSpec => []DaysInvariant
<1>1. LoopInit => DaysInvariant
  BY DEF LoopInit, DaysInvariant
<1>2. LoopTypeOK /\ LoopInvariant /\ CalendarInvariant /\ DaysInvariant /\ [LoopNext]_loopVars
        => DaysInvariant'
  <2> SUFFICES ASSUME LoopTypeOK, LoopInvariant, CalendarInvariant, DaysInvariant, [LoopNext]_loopVars
               PROVE  DaysInvariant'
    OBVIOUS
  <2> DEFINE Found(day) ==
        \/ day = EffectiveDay(doc)
        \/ doc.agreed = NoDay /\ \E n \in DOMAIN doc.schedule : day = doc.schedule[n].day
  <2>p. ASSUME NEW day, NEW value, Pay(day, value), Found(day), doc' = doc
        PROVE  DaysInvariant'
    <3>1. /\ out \in Seq([day : Day, value : Nat]) /\ Len(out) \in Nat
          /\ out' = Append(out, [day |-> day, value |-> value])
      BY <2>p DEF Pay, LoopTypeOK
    <3>2. \A i \in DOMAIN out' : \/ i \in DOMAIN out /\ out'[i] = out[i]
                                 \/ out'[i].day = day
      BY <3>1
    <3>3. \A i \in DOMAIN out : Found(out[i].day)
      BY DEF DaysInvariant
    <3> HIDE DEF Found
    <3>4. \A i \in DOMAIN out' : Found(out'[i].day)
      BY <2>p, <3>2, <3>3
    <3> QED BY <2>p, <3>4 DEF DaysInvariant, Found, EffectiveDay
  <2>u. out' = out /\ doc' = doc => DaysInvariant'
    BY DEF DaysInvariant, EffectiveDay
  <2>1. CASE Settled \/ Begin \/ Skip
    BY <2>1, <2>u DEF Settled, Begin, Skip
  <2>2. CASE Agreed
    BY <2>2, <2>p DEF Agreed, EffectiveDay
  <2>3. CASE LumpSum
    BY <2>3, <2>p DEF LumpSum, EffectiveDay
  <2>4. CASE Place
    <3>1. k \in DOMAIN doc.schedule /\ doc.agreed = NoDay
      BY <2>4, DocumentFields DEF Place, Looking, LoopTypeOK, CalendarInvariant
    <3>2. Found(DayOf(doc, k))
      BY <3>1 DEF DayOf, EffectiveDay
    <3> HIDE DEF Found
    <3> QED BY <2>4, <3>2, <2>p DEF Place
  <2>5. CASE Leave
    <3>1. Found(doc.due)
      BY <2>5 DEF Leave, EffectiveDay, CalendarInvariant
    <3> HIDE DEF Found
    <3> QED BY <2>5, <3>1, <2>p, <2>u DEF Leave
  <2>6. CASE UNCHANGED loopVars
    BY <2>6, <2>u DEF loopVars
  <2> QED BY <2>1, <2>2, <2>3, <2>4, <2>5, <2>6 DEF LoopNext
<1> QED BY <1>1, <1>2, TypeCorrect, LoopInvariantHolds, CalendarInvariantHolds, PTL DEF LoopSpec

\* No document of which a payment falls in a period is missing from its list.
THEOREM PeriodHoldsPaymentsHolds == LoopSpec => []PeriodHoldsPayments
<1>1. DaysInvariant => PeriodHoldsPayments
  <2> SUFFICES ASSUME DaysInvariant, NEW window \in SUBSET Day,
                      NEW i \in DOMAIN out, out[i].day \in window
               PROVE  Listed(doc, window)
    BY DEF PeriodHoldsPayments
  <2> QED BY DEF DaysInvariant, Listed
<1> QED BY <1>1, DaysInvariantHolds, PTL
=============================================================================
