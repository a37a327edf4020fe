---------------------------- MODULE AccessProofs ----------------------------
(* Theorems of Access, for any addresses, persons, domains, roles and requests. *)
EXTENDS Access, TLAPS

USE RoleAssumption, SeedAssumption, MailAssumption, NoneAssumption, TimeAssumption

-----------------------------------------------------------------------------
(* Types: what the pieces of the actions do *)

\* What a request remembers is a role and a tick of an address.
LEMMA RememberTyped ==
  ASSUME TypeOK, NEW who, NEW k \in [Address -> Role], NEW t \in 0 .. LastTick,
         Remember(who, k, t)
  PROVE  held' \in [Address -> [Role -> 0 .. LastTick \cup {Never}]]
BY DEF Remember, TypeOK, TableTypes

\* A decision makes columns stale, nothing else.
LEMMA DecideTyped ==
  ASSUME TypeOK, NEW a, NEW columns \in SUBSET Column, Decide(a, columns)
  PROVE  stale' \in [Slot -> SUBSET Column]
BY DEF Decide, TypeOK, RequestTypes

\* The row a request reads is typed, and becomes the one the request is about.
LEMMA CopyTyped ==
  ASSUME TypeOK, NEW r \in Slot, NEW a \in Address, Copy(r, a)
  PROVE  /\ subject' \in [Slot -> Address \cup {None}] /\ loaded' \in [Slot -> Role]
         /\ live' \subseteq Slot /\ stale' \in [Slot -> SUBSET Column]
         /\ \A q \in Slot : subject'[q] = IF q = r THEN a ELSE subject[q]
BY DEF Copy, TypeOK, RequestTypes, TableTypes

\* A request that moves to stage s with what s asks for.
LEMMA MoveFormed ==
  ASSUME TypeOK, NEW r \in Slot, NEW s \in Stage, Goto(r, s), users \subseteq users',
         \A q \in Slot \ {r} : subject'[q] = subject[q] /\ person'[q] = person[q] /\ asked'[q] = asked[q],
         s # "idle" => subject'[r] \in Address,
         s \in {"domain", "oid", "email"} => person'[r] \in Person,
         s = "insert" => person'[r] \in Person \/ asked'[r] \in Role,
         s \in {"link", "store"} => subject'[r] \in users'
  PROVE  at' \in [Slot -> Stage] /\ RequestsFormed'
<1>1. at' \in [Slot -> Stage] /\ \A q \in Slot : at'[q] = IF q = r THEN s ELSE at[q]
  BY DEF Goto, TypeOK, RequestTypes
<1>2. ASSUME NEW q \in Slot
      PROVE  /\ at'[q] # "idle" => subject'[q] \in Address
             /\ at'[q] \in {"domain", "oid", "email"} => person'[q] \in Person
             /\ at'[q] = "insert" => person'[q] \in Person \/ asked'[q] \in Role
             /\ at'[q] \in {"link", "store"} => subject'[q] \in users'
  <2>1. CASE q = r
    BY <1>1, <2>1
  <2>2. CASE q # r
    BY <1>1, <2>2 DEF TypeOK, RequestsFormed
  <2> QED BY <2>1, <2>2
<1> QED BY <1>1, <1>2 DEF RequestsFormed

\* As long as the accounts only grow, requests that do not move stay formed.
LEMMA StillFormed ==
  ASSUME TypeOK, users \subseteq users', UNCHANGED <<at, subject, person, asked>>
  PROVE  RequestsFormed'
BY DEF TypeOK, RequestsFormed

\* A write from a copy writes a role, to accounts there are.
LEMMA WriteBackTyped ==
  ASSUME TypeOK, NEW r \in Slot, at[r] \in {"link", "store"}, NEW k \in Role, WriteBack(r, k)
  PROVE  role' \in [Address -> Role] /\ active' \subseteq users
BY DEF WriteBack, TypeOK, TableTypes, RequestsFormed

-----------------------------------------------------------------------------
\* The rows, the tokens and the requests keep their types; a request is about an
\* account, and a creation has a role or a person.
THEOREM TypeCorrect == Spec => []TypeOK
<1>1. Init => TypeOK
  BY DEF Init, TypeOK, TableTypes, RequestTypes, RequestsFormed, SeedRole, Stage
<1>2. TypeOK /\ [Next]_vars => TypeOK'
  <2> SUFFICES ASSUME TypeOK, [Next]_vars PROVE TypeOK'
    OBVIOUS
  <2> USE DEF tableVars, requestVars, historyVars, Stage, Column
  <2>0. /\ now \in 0 .. LastTick /\ requests \in Nat
        /\ \A r \in Slot : at[r] # "idle" => subject[r] \in Address
    BY DEF TypeOK, TableTypes, RequestsFormed
  <2>1. ASSUME NEW r \in Slot, NEW a \in Address, Login(r, a) PROVE TypeOK'
    <3>1. at' \in [Slot -> Stage] /\ RequestsFormed'
      BY <2>1, CopyTyped, MoveFormed DEF Login
    <3>2. RequestTypes'
      BY <2>1, <3>1, CopyTyped DEF Login, Start, TypeOK, RequestTypes
    <3>3. TableTypes'
      BY <2>1 DEF Login, Start, TypeOK, TableTypes
    <3> QED BY <3>1, <3>2, <3>3 DEF TypeOK
  <2>2. ASSUME NEW r \in Slot, NEW p \in Person, NEW a \in Address, MicrosoftLogin(r, p, a)
        PROVE TypeOK'
    <3>1. /\ subject' \in [Slot -> Address \cup {None}] /\ person' \in [Slot -> Person \cup {None}]
          /\ subject'[r] = a /\ person'[r] = p
          /\ \A q \in Slot \ {r} : subject'[q] = subject[q] /\ person'[q] = person[q]
      BY <2>2 DEF MicrosoftLogin, TypeOK, RequestTypes
    <3>2. at' \in [Slot -> Stage] /\ RequestsFormed'
      BY <2>2, <3>1, MoveFormed DEF MicrosoftLogin
    <3>3. RequestTypes'
      BY <2>2, <3>1, <3>2 DEF MicrosoftLogin, Start, TypeOK, RequestTypes
    <3>4. TableTypes'
      BY <2>2 DEF MicrosoftLogin, Start, TypeOK, TableTypes
    <3> QED BY <3>2, <3>3, <3>4 DEF TypeOK
  <2>3. ASSUME NEW r \in Slot, CheckDomain(r) PROVE TypeOK'
    <3>1. at' \in [Slot -> Stage] /\ RequestsFormed'
      BY <2>3, MoveFormed DEF CheckDomain, Done, TypeOK, RequestsFormed
    <3> QED BY <2>3, <3>1 DEF CheckDomain, TypeOK, RequestTypes, TableTypes
  <2>4. ASSUME NEW r \in Slot, FindByOid(r) PROVE TypeOK'
    <3>1. ASSUME NEW a \in Address, Copy(r, a), Goto(r, "issue") PROVE TypeOK'
      <4>1. at' \in [Slot -> Stage] /\ RequestsFormed'
        BY <2>4, <3>1, CopyTyped, MoveFormed DEF FindByOid
      <4> QED BY <2>4, <3>1, <4>1, CopyTyped DEF FindByOid, TypeOK, RequestTypes, TableTypes
    <3>2. CASE Goto(r, "email") /\ KeepCopy
      <4>1. at' \in [Slot -> Stage] /\ RequestsFormed'
        BY <2>4, <3>2, MoveFormed DEF FindByOid, KeepCopy, TypeOK, RequestsFormed
      <4> QED BY <2>4, <3>2, <4>1 DEF FindByOid, KeepCopy, TypeOK, RequestTypes, TableTypes
    <3> QED BY <2>4, <3>1, <3>2 DEF FindByOid
  <2>5. ASSUME NEW r \in Slot, FindByEmail(r) PROVE TypeOK'
    <3>1. CASE Findable(subject[r]) /\ Copy(r, subject[r]) /\ Goto(r, "link")
      <4>1. subject[r] \in Address /\ subject[r] \in users
        BY <2>5, <3>1 DEF FindByEmail, Findable, TypeOK, RequestsFormed, TableTypes
      <4>2. at' \in [Slot -> Stage] /\ RequestsFormed'
        BY <2>5, <3>1, <4>1, CopyTyped, MoveFormed DEF FindByEmail
      <4> QED BY <2>5, <3>1, <4>1, <4>2, CopyTyped DEF FindByEmail, TypeOK, RequestTypes, TableTypes
    <3>2. CASE Goto(r, "insert") /\ KeepCopy
      <4>1. at' \in [Slot -> Stage] /\ RequestsFormed'
        BY <2>5, <3>2, MoveFormed DEF FindByEmail, KeepCopy, TypeOK, RequestsFormed
      <4> QED BY <2>5, <3>2, <4>1 DEF FindByEmail, KeepCopy, TypeOK, RequestTypes, TableTypes
    <3> QED BY <2>5, <3>1, <3>2 DEF FindByEmail
  <2>6. ASSUME NEW r \in Slot, Link(r) PROVE TypeOK'
    <3>1. at' \in [Slot -> Stage] /\ RequestsFormed'
      BY <2>0, <2>6, MoveFormed DEF Link
    <3>2. RequestTypes'
      BY <2>6, <3>1 DEF Link, TypeOK, RequestTypes
    <3>3. CASE UNCHANGED <<role, active, disturbed, held>>
      <4>1. TableTypes'
        BY <2>6, <3>3 DEF Link, TypeOK, TableTypes
      <4> QED BY <3>1, <3>2, <4>1 DEF TypeOK
    <3>4. CASE /\ WriteBack(r, loaded[r])
               /\ disturbed' = [disturbed EXCEPT ![subject[r]] = @ \cup stale[r]]
               /\ Remember(active', role', now)
      <4>1. role' \in [Address -> Role] /\ active' \subseteq users
        BY <2>6, <3>4, WriteBackTyped DEF Link, TypeOK, RequestTypes
      <4>2. held' \in [Address -> [Role -> 0 .. LastTick \cup {Never}]]
        BY <2>0, <3>4, <4>1, RememberTyped
      <4>3. disturbed' \in [Address -> SUBSET Column]
        BY <3>4 DEF TypeOK, TableTypes, RequestTypes
      <4>4. TableTypes'
        BY <2>6, <4>1, <4>2, <4>3 DEF Link, TypeOK, TableTypes
      <4> QED BY <3>1, <3>2, <4>4 DEF TypeOK
    <3> QED BY <2>6, <3>3, <3>4 DEF Link
  <2>7. ASSUME NEW r \in Slot, Insert(r) PROVE TypeOK'
    <3> DEFINE a == subject[r]
               k == IF person[r] = None THEN asked[r] ELSE ReadOnly
    <3>1. a \in Address /\ k \in Role
      BY <2>7 DEF Insert, TypeOK, RequestsFormed, RequestTypes
    <3>2. CASE Taken(r)
      <4>1. at' \in [Slot -> Stage] /\ RequestsFormed'
        BY <2>7, <3>2, MoveFormed DEF Insert, Done
      <4> QED BY <2>7, <3>2, <4>1 DEF Insert, TypeOK, RequestTypes, TableTypes
    <3>3. CASE ~Taken(r)
      <4>1. /\ users' = users \cup {a} /\ active' = active \cup {a}
            /\ role' = [role EXCEPT ![a] = k] /\ oid' = [oid EXCEPT ![a] = person[r]]
            /\ hashed' = IF person[r] = None THEN hashed \cup {a} ELSE hashed
            /\ decided' = [decided EXCEPT ![a] = k]
            /\ joined' = IF person[r] = None THEN joined ELSE joined \cup {a}
            /\ loaded' = [loaded EXCEPT ![r] = k] /\ live' = live \cup {r}
            /\ Goto(r, "furnish")
            /\ Remember(active', role', now)
            /\ UNCHANGED <<now, listed, tokens, bearer, subject, person, asked, requests,
                           closed, stale, disturbed, vouched>>
        BY <2>7, <3>3 DEF Insert
      <4>2. at' \in [Slot -> Stage] /\ RequestsFormed'
        BY <3>1, <4>1, MoveFormed
      <4>3. RequestTypes'
        BY <3>1, <4>1, <4>2 DEF TypeOK, RequestTypes
      <4>4. held' \in [Address -> [Role -> 0 .. LastTick \cup {Never}]]
        <5>1. role' \in [Address -> Role]
          BY <3>1, <4>1 DEF TypeOK, TableTypes
        <5> QED BY <2>0, <4>1, <5>1, RememberTyped
      <4>5. TableTypes'
        BY <3>1, <4>1, <4>4 DEF TypeOK, TableTypes, RequestTypes
      <4> QED BY <4>2, <4>3, <4>5 DEF TypeOK
    <3> QED BY <3>2, <3>3
  <2>8. ASSUME NEW r \in Slot, Furnish(r) PROVE TypeOK'
    <3>1. at' \in [Slot -> Stage] /\ RequestsFormed'
      BY <2>0, <2>8, MoveFormed DEF Furnish, Done
    <3> QED BY <2>8, <3>1 DEF Furnish, TypeOK, RequestTypes, TableTypes
  <2>9. ASSUME NEW r \in Slot, Issue(r) PROVE TypeOK'
    <3>1. at' \in [Slot -> Stage] /\ RequestsFormed'
      BY <2>9, MoveFormed DEF Issue, Done
    <3>2. [sub |-> subject[r], role |-> loaded[r], exp |-> now + Lifetime] \in Token
      BY <2>0, <2>9 DEF Issue, Token, TypeOK, RequestTypes
    <3> QED BY <2>9, <3>1, <3>2 DEF Issue, TypeOK, RequestTypes, TableTypes
  <2>10. ASSUME NEW t \in tokens PROVE t.sub \in Address /\ t.role \in Role
    BY DEF TypeOK, TableTypes, Token
  <2>11. ASSUME NEW r \in Slot, NEW t \in tokens, NEW a \in Address, NEW k \in Role,
                Create(r, t, a, k)
         PROVE TypeOK'
    <3>1. /\ \A q \in Slot : subject'[q] = IF q = r THEN a ELSE subject[q]
          /\ \A q \in Slot : person'[q] = IF q = r THEN None ELSE person[q]
          /\ \A q \in Slot : asked'[q] = IF q = r THEN k ELSE asked[q]
      BY <2>11 DEF Create, TypeOK, RequestTypes
    <3>2. at' \in [Slot -> Stage] /\ RequestsFormed'
      BY <2>11, <3>1, MoveFormed DEF Create
    <3>3. RequestTypes'
      BY <2>10, <2>11, <3>2 DEF Create, Start, TypeOK, RequestTypes
    <3>4. TableTypes'
      BY <2>11 DEF Create, Start, TypeOK, TableTypes
    <3> QED BY <3>2, <3>3, <3>4 DEF TypeOK
  <2>12. ASSUME NEW r \in Slot, NEW t \in tokens, NEW a \in Address,
                NEW k \in Role \cup {None}, Update(r, t, a, k)
         PROVE TypeOK'
    <3>1. /\ \A q \in Slot : q # r => asked'[q] = asked[q]
          /\ asked' \in [Slot -> Role \cup {None}]
      BY <2>12 DEF Update, Wanted, TypeOK, RequestTypes
    <3>2. at' \in [Slot -> Stage] /\ RequestsFormed'
      BY <2>12, <3>1, CopyTyped, MoveFormed DEF Update
    <3>3. RequestTypes'
      BY <2>10, <2>12, <3>1, <3>2, CopyTyped DEF Update, Start, TypeOK, RequestTypes
    <3>4. TableTypes'
      BY <2>12 DEF Update, Start, TypeOK, TableTypes
    <3> QED BY <3>2, <3>3, <3>4 DEF TypeOK
  <2>13. ASSUME NEW r \in Slot, Store(r) PROVE TypeOK'
    <3> DEFINE a      == subject[r]
               given  == bearer[r] = Administrator /\ asked[r] # None
               chosen == ChosenRole(r)
    <3>1. a \in Address /\ chosen \in Role
      BY <2>0, <2>13 DEF Store, ChosenRole, TypeOK, RequestTypes
    <3>2. at' \in [Slot -> Stage] /\ RequestsFormed'
      BY <2>0, <2>13, MoveFormed DEF Store, Done
    <3>3. stale' \in [Slot -> SUBSET Column]
      BY <2>13, DecideTyped DEF Store, TypeOK, RequestTypes
    <3>4. RequestTypes'
      BY <2>13, <3>2, <3>3 DEF Store, TypeOK, RequestTypes
    <3>5. role' \in [Address -> Role] /\ active' \subseteq users
      BY <2>13, <3>1, WriteBackTyped DEF Store
    <3>6. held' \in [Address -> [Role -> 0 .. LastTick \cup {Never}]]
      BY <2>0, <2>13, <3>5, RememberTyped DEF Store
    <3>7. decided' \in [Address -> Role]
      BY <2>13, <3>1 DEF Store, TypeOK, TableTypes
    <3>8. disturbed' \in [Address -> SUBSET Column]
      BY <2>13 DEF Store, TypeOK, TableTypes, RequestTypes
    <3>9. TableTypes'
      BY <2>13, <3>5, <3>6, <3>7, <3>8 DEF Store, TypeOK, TableTypes
    <3> QED BY <3>2, <3>4, <3>9 DEF TypeOK
  <2>14. ASSUME NEW r \in Slot, SetPassword(r) PROVE TypeOK'
    <3>1. at' \in [Slot -> Stage] /\ RequestsFormed'
      BY <2>14, MoveFormed DEF SetPassword, Done
    <3> QED BY <2>0, <2>14, <3>1 DEF SetPassword, TypeOK, RequestTypes, TableTypes
  <2>15. ASSUME NEW r \in Slot, Fail(r) PROVE TypeOK'
    <3>1. at' \in [Slot -> Stage] /\ RequestsFormed'
      BY <2>15, MoveFormed DEF Fail, Done
    <3> QED BY <2>15, <3>1 DEF Fail, TypeOK, RequestTypes, TableTypes
  <2>16. ASSUME NEW t \in tokens, NEW a \in Address, Delete(t, a) PROVE TypeOK'
    <3>1. stale' \in [Slot -> SUBSET Column]
      BY <2>16, DecideTyped DEF Delete
    <3>2. held' \in [Address -> [Role -> 0 .. LastTick \cup {Never}]]
      BY <2>0, <2>16, RememberTyped DEF Delete, TypeOK, TableTypes
    <3>3. RequestTypes' /\ RequestsFormed'
      BY <2>16, <3>1, StillFormed DEF Delete, TypeOK, RequestTypes
    <3>4. TableTypes'
      <4>1. disturbed' \in [Address -> SUBSET Column]
        BY <2>16 DEF Delete, TypeOK, TableTypes
      <4>2. active' \subseteq users' /\ closed' \subseteq users'
        BY <2>16 DEF Delete, TypeOK, TableTypes
      <4> QED BY <2>16, <3>2, <4>1, <4>2 DEF Delete, TypeOK, TableTypes
    <3> QED BY <3>3, <3>4 DEF TypeOK
  <2>17. ASSUME NEW t \in tokens, NEW d \in Domain, ManageDomains(t, d) PROVE TypeOK'
    <3>1. listed' \subseteq Domain /\ vouched' \subseteq Domain
      BY <2>10, <2>17 DEF ManageDomains, TypeOK, TableTypes
    <3>2. RequestTypes' /\ RequestsFormed'
      BY <2>17, StillFormed DEF ManageDomains, TypeOK, RequestTypes
    <3>3. TableTypes'
      BY <2>17, <3>1 DEF ManageDomains, TypeOK, TableTypes
    <3> QED BY <3>2, <3>3 DEF TypeOK
  <2>18. ASSUME NEW a \in Address, UpsertUser(a) PROVE TypeOK'
    <3>1. stale' \in [Slot -> SUBSET Column]
      BY <2>18, DecideTyped DEF UpsertUser
    <3>2. role' \in [Address -> Role] /\ decided' \in [Address -> Role]
      <4>1. CASE a \in users
        BY <2>18, <4>1 DEF UpsertUser, TypeOK, TableTypes
      <4>2. CASE a \notin users
        <5>1. /\ role' = [role EXCEPT ![a] = Administrator]
              /\ decided' = [decided EXCEPT ![a] = Administrator]
          BY <2>18, <4>2 DEF UpsertUser
        <5>2. Administrator \in Role
          OBVIOUS
        <5> QED BY <5>1, <5>2 DEF TypeOK, TableTypes
      <4> QED BY <4>1, <4>2
    <3>3. held' \in [Address -> [Role -> 0 .. LastTick \cup {Never}]]
      BY <2>0, <2>18, <3>2, RememberTyped DEF UpsertUser
    <3>4. RequestTypes' /\ RequestsFormed'
      BY <2>18, <3>1, StillFormed DEF UpsertUser, TypeOK, RequestTypes
    <3>5. TableTypes'
      <4>1. disturbed' \in [Address -> SUBSET Column]
        BY <2>18 DEF UpsertUser, TypeOK, TableTypes
      <4>2. /\ users' \subseteq Address /\ hashed' \subseteq Address
            /\ active' \subseteq users' /\ closed' \subseteq users' /\ joined' \subseteq users'
        BY <2>18 DEF UpsertUser, TypeOK, TableTypes
      <4> QED BY <2>18, <3>2, <3>3, <4>1, <4>2 DEF UpsertUser, TypeOK, TableTypes
    <3> QED BY <3>4, <3>5 DEF TypeOK
  <2>19. CASE Tick
    <3>1. now' \in 0 .. LastTick
      BY <2>0, <2>19 DEF Tick
    <3>2. held' \in [Address -> [Role -> 0 .. LastTick \cup {Never}]]
      BY <2>19, <3>1, RememberTyped DEF Tick, TypeOK, TableTypes
    <3>3. RequestTypes' /\ RequestsFormed'
      BY <2>19, StillFormed DEF Tick, TypeOK, RequestTypes
    <3>4. TableTypes'
      BY <2>19, <3>1, <3>2 DEF Tick, TypeOK, TableTypes
    <3> QED BY <3>3, <3>4 DEF TypeOK
  <2>20. CASE UNCHANGED vars
    BY <2>20 DEF vars, TypeOK, TableTypes, RequestTypes, RequestsFormed
  <2> QED
    BY <2>1, <2>2, <2>3, <2>4, <2>5, <2>6, <2>7, <2>8, <2>9, <2>11, <2>12, <2>13, <2>14,
       <2>15, <2>16, <2>17, <2>18, <2>19, <2>20 DEF Next
<1> QED BY <1>1, <1>2, PTL DEF Spec

-----------------------------------------------------------------------------
(* Domains *)

\* Nobody has an account by a sign-in from a domain that was never listed.
THEOREM AccountsAreVouchedHolds == Spec => []AccountsAreVouched
<1> DEFINE Vouched == SignInsAreVouched /\ AccountsAreVouched
<1> USE DEF SignInsAreVouched, AccountsAreVouched
<1>1. Init => Vouched
  BY DEF Init
<1>2. TypeOK /\ Vouched /\ [Next]_vars => Vouched'
  <2> SUFFICES ASSUME TypeOK, Vouched, [Next]_vars PROVE Vouched'
    OBVIOUS
  <2> USE DEF tableVars, requestVars, historyVars
  \* Requests that are not at a sign-in have no say.
  <2>1. ASSUME NEW r \in Slot, NEW s \in Stage \ {"oid", "email", "insert"}, Goto(r, s),
               users' = users, UNCHANGED <<listed, vouched, joined>>,
               \A q \in Slot \ {r} : subject'[q] = subject[q] /\ person'[q] = person[q]
        PROVE  Vouched'
    BY <2>1 DEF Goto, TypeOK, RequestTypes
  <2>2. ASSUME UNCHANGED <<at, subject, person, joined>>, users \subseteq users',
               vouched \subseteq vouched', listed' \subseteq vouched'
        PROVE  Vouched'
    BY <2>2
  <2>3. ASSUME NEW r \in Slot, NEW a \in Address, Login(r, a) PROVE Vouched'
    BY <2>1, <2>3, CopyTyped DEF Login, Stage
  <2>4. ASSUME NEW r \in Slot, NEW p \in Person, NEW a \in Address, MicrosoftLogin(r, p, a)
        PROVE  Vouched'
    <3>1. CASE a \in active
      BY <2>4, <3>1 DEF MicrosoftLogin, Goto, TypeOK, RequestTypes, TableTypes
    <3>2. CASE a \notin active
      BY <2>1, <2>4, <3>2 DEF MicrosoftLogin, Stage, TypeOK, RequestTypes
    <3> QED BY <3>1, <3>2
  <2>5. ASSUME NEW r \in Slot, CheckDomain(r) PROVE Vouched'
    <3>1. CASE DomainOf[subject[r]] \in listed
      BY <2>5, <3>1 DEF CheckDomain, Goto, TypeOK, RequestTypes
    <3>2. CASE DomainOf[subject[r]] \notin listed
      BY <2>1, <2>5, <3>2 DEF CheckDomain, Done, Stage
    <3> QED BY <3>1, <3>2
  <2>6. ASSUME NEW r \in Slot, FindByOid(r) PROVE Vouched'
    <3>1. ASSUME NEW a \in Address, Copy(r, a), Goto(r, "issue") PROVE Vouched'
      BY <2>1, <2>6, <3>1, CopyTyped DEF FindByOid, Stage
    <3>2. CASE Goto(r, "email") /\ KeepCopy
      BY <2>6, <3>2 DEF FindByOid, KeepCopy, Goto, TypeOK, RequestTypes
    <3> QED BY <2>6, <3>1, <3>2 DEF FindByOid
  <2>7. ASSUME NEW r \in Slot, FindByEmail(r) PROVE Vouched'
    <3>1. CASE Copy(r, subject[r]) /\ Goto(r, "link")
      <4>1. subject[r] \in Address
        BY <2>7 DEF FindByEmail, TypeOK, RequestsFormed
      <4> QED BY <2>1, <2>7, <3>1, <4>1, CopyTyped DEF FindByEmail, Stage
    <3>2. CASE Goto(r, "insert") /\ KeepCopy
      BY <2>7, <3>2 DEF FindByEmail, KeepCopy, Goto, TypeOK, RequestTypes
    <3> QED BY <2>7, <3>1, <3>2 DEF FindByEmail
  <2>8. ASSUME NEW r \in Slot, Link(r) \/ Furnish(r) \/ Issue(r) \/ Store(r) \/ SetPassword(r) \/ Fail(r)
        PROVE  Vouched'
    BY <2>1, <2>8 DEF Link, Furnish, Issue, Store, SetPassword, Fail, Done, Stage
  <2>9. ASSUME NEW r \in Slot, Insert(r) PROVE Vouched'
    <3>1. CASE Taken(r)
      BY <2>1, <2>9, <3>1 DEF Insert, Done, Stage
    <3>2. CASE ~Taken(r)
      <4>1. /\ at[r] = "insert" /\ Goto(r, "furnish") /\ users' = users \cup {subject[r]}
            /\ joined' = IF person[r] = None THEN joined ELSE joined \cup {subject[r]}
            /\ UNCHANGED <<listed, vouched, subject, person>>
        BY <2>9, <3>2 DEF Insert
      <4>2. subject[r] \notin users
        BY <3>2 DEF Taken
      <4>3. AccountsAreVouched'
        BY <4>1, <4>2
      <4>4. SignInsAreVouched'
        BY <4>1 DEF Goto, TypeOK, RequestTypes
      <4> QED BY <4>3, <4>4
    <3> QED BY <3>1, <3>2
  <2>10. ASSUME NEW r \in Slot, NEW t \in tokens, NEW a \in Address, NEW k \in Role,
                Create(r, t, a, k)
         PROVE  Vouched'
    BY <2>10 DEF Create, Start, Goto, TypeOK, RequestTypes
  <2>11. ASSUME NEW r \in Slot, NEW t \in tokens, NEW a \in Address,
                NEW k \in Role \cup {None}, Update(r, t, a, k)
         PROVE  Vouched'
    BY <2>1, <2>11, CopyTyped DEF Update, Stage
  <2>12. ASSUME NEW t \in tokens, NEW d \in Domain, ManageDomains(t, d) PROVE Vouched'
    BY <2>2, <2>12 DEF ManageDomains
  <2>13. ASSUME NEW t \in tokens, NEW a \in Address, Delete(t, a) PROVE Vouched'
    BY <2>2, <2>13 DEF Delete
  <2>14. ASSUME NEW a \in Address, UpsertUser(a) PROVE Vouched'
    BY <2>2, <2>14 DEF UpsertUser
  <2>15. CASE Tick \/ UNCHANGED vars
    BY <2>2, <2>15 DEF Tick, vars
  <2> QED
    BY <2>3, <2>4, <2>5, <2>6, <2>7, <2>8, <2>9, <2>10, <2>11, <2>12, <2>13, <2>14, <2>15
    DEF Next
<1> QED BY <1>1, <1>2, TypeCorrect, PTL DEF Spec

-----------------------------------------------------------------------------
(* Decisions *)

\* What a request that is about to write account a back has to have.
Faithful(r, a) ==
  /\ a \in users
  /\ "role" \notin stale[r] \cup disturbed[a] => loaded[r] = decided[a]
  /\ "active" \notin stale[r] \cup disturbed[a] => (r \in live <=> a \notin closed)
  /\ at[r] = "store" /\ asked[r] # None => bearer[r] = Administrator

\* A request that moves to a stage where it does not write, the tables as they were.
LEMMA DecisionsUndisturbed ==
  ASSUME TypeOK, CopiesFollowDecisions, DecisionsStand,
         NEW r \in Slot, NEW s \in Stage \ {"link", "store"}, Goto(r, s),
         UNCHANGED <<users, role, active, decided, closed, disturbed>>,
         \A q \in Slot \ {r} :
           /\ subject'[q] = subject[q] /\ loaded'[q] = loaded[q] /\ (q \in live' <=> q \in live)
           /\ stale'[q] = stale[q] /\ asked'[q] = asked[q] /\ bearer'[q] = bearer[q]
  PROVE  CopiesFollowDecisions' /\ DecisionsStand'
<1>1. \A q \in Slot : at'[q] = IF q = r THEN s ELSE at[q]
  BY DEF Goto, TypeOK, RequestTypes
<1>2. ASSUME NEW q \in Slot, at'[q] \in {"link", "store"}
      PROVE  Faithful(q, subject[q])' /\ subject'[q] = subject[q]
  <2>1. q # r /\ at'[q] = at[q]
    BY <1>1, <1>2
  <2>2. Faithful(q, subject[q])
    BY <1>2, <2>1 DEF CopiesFollowDecisions, Faithful
  <2> QED BY <2>1, <2>2 DEF Faithful
<1>3. DecisionsStand'
  BY DEF DecisionsStand
<1> QED BY <1>2, <1>3 DEF CopiesFollowDecisions, Faithful

\* A request that reads the row of a.
LEMMA CopyFaithful ==
  ASSUME TypeOK, DecisionsStand, NEW r \in Slot, NEW a \in users, Copy(r, a),
         UNCHANGED <<decided, closed, disturbed>>
  PROVE  /\ "role" \notin stale'[r] \cup disturbed'[a] => loaded'[r] = decided'[a]
         /\ "active" \notin stale'[r] \cup disturbed'[a] => (r \in live' <=> a \notin closed')
         /\ \A q \in Slot \ {r} :
              /\ subject'[q] = subject[q] /\ loaded'[q] = loaded[q] /\ (q \in live' <=> q \in live)
              /\ stale'[q] = stale[q]
BY DEF Copy, DecisionsStand, TypeOK, RequestTypes, TableTypes

\* A request that reads the row and goes on to write it.
LEMMA DecisionsRead ==
  ASSUME TypeOK, CopiesFollowDecisions, DecisionsStand,
         NEW r \in Slot, NEW a \in users, Copy(r, a), NEW s \in {"link", "store"}, Goto(r, s),
         UNCHANGED <<users, role, active, decided, closed, disturbed>>,
         \A q \in Slot \ {r} : asked'[q] = asked[q] /\ bearer'[q] = bearer[q],
         s = "store" /\ asked'[r] # None => bearer'[r] = Administrator
  PROVE  CopiesFollowDecisions' /\ DecisionsStand'
<1>1. \A q \in Slot : at'[q] = IF q = r THEN s ELSE at[q]
  BY DEF Goto, TypeOK, RequestTypes
<1>2. a \in Address /\ subject'[r] = a
  BY CopyTyped DEF TypeOK, TableTypes
<1>3. ASSUME NEW q \in Slot, at'[q] \in {"link", "store"}
      PROVE  /\ subject'[q] \in users'
             /\ "role" \notin stale'[q] \cup disturbed'[subject'[q]] => loaded'[q] = decided'[subject'[q]]
             /\ "active" \notin stale'[q] \cup disturbed'[subject'[q]]
                  => (q \in live' <=> subject'[q] \notin closed')
             /\ at'[q] = "store" /\ asked'[q] # None => bearer'[q] = Administrator
  <2>1. CASE q = r
    BY <1>1, <1>2, <2>1, CopyFaithful
  <2>2. CASE q # r
    BY <1>1, <1>3, <2>2, CopyFaithful DEF CopiesFollowDecisions
  <2> QED BY <2>1, <2>2
<1>4. DecisionsStand'
  BY DEF DecisionsStand
<1> QED BY <1>3, <1>4 DEF CopiesFollowDecisions

\* A decision on the columns of a, made at once in the table: the copies of a that
\* were read before are marked, whatever the request at r does next.
LEMMA DecisionsMarked ==
  ASSUME TypeOK, CopiesFollowDecisions, NEW a \in Address, NEW columns \in SUBSET Column,
         Decide(a, columns), UNCHANGED <<at, subject, loaded, live, asked, bearer>>,
         users \subseteq users',
         \A b \in users \ {a} :
           decided'[b] = decided[b] /\ (b \in closed' <=> b \in closed) /\ disturbed'[b] = disturbed[b],
         a \in users => disturbed[a] \ columns \subseteq disturbed'[a],
         a \in users /\ "role" \notin columns => decided'[a] = decided[a],
         a \in users /\ "active" \notin columns => (a \in closed' <=> a \in closed)
  PROVE  CopiesFollowDecisions'
<1>1. ASSUME NEW q \in Slot, at'[q] \in {"link", "store"}
      PROVE  /\ subject'[q] \in users'
             /\ "role" \notin stale'[q] \cup disturbed'[subject'[q]] => loaded'[q] = decided'[subject'[q]]
             /\ "active" \notin stale'[q] \cup disturbed'[subject'[q]]
                  => (q \in live' <=> subject'[q] \notin closed')
             /\ at'[q] = "store" /\ asked'[q] # None => bearer'[q] = Administrator
  <2>1. at[q] \in {"link", "store"} /\ subject'[q] = subject[q] /\ subject[q] \in users
    BY <1>1 DEF CopiesFollowDecisions
  <2>2. stale'[q] = IF subject[q] = a THEN stale[q] \cup columns ELSE stale[q]
    BY <2>1 DEF Decide, Copies, Reading, Reads
  <2>3. CASE subject[q] = a
    BY <2>1, <2>2, <2>3 DEF CopiesFollowDecisions
  <2>4. CASE subject[q] # a
    BY <2>1, <2>2, <2>4 DEF CopiesFollowDecisions
  <2> QED BY <2>3, <2>4
<1> QED BY <1>1 DEF CopiesFollowDecisions

\* A request that writes its copy of a back, its role column with k: what it read
\* before a decision is then disturbed, unless k was decided with it.
LEMMA DecisionsWritten ==
  ASSUME TypeOK, CopiesFollowDecisions, DecisionsStand,
         NEW r \in Slot, at[r] \in {"link", "store"},
         NEW s \in Stage \ {"link", "store"}, Goto(r, s),
         NEW k \in Role, WriteBack(r, k), NEW given \in BOOLEAN,
         ~given => k = loaded[r] /\ UNCHANGED <<decided, stale>>,
         given => decided' = [decided EXCEPT ![subject[r]] = k] /\ Decide(subject[r], {"role"}),
         disturbed' = [disturbed EXCEPT ![subject[r]] =
                         IF given THEN (@ \cup stale[r]) \ {"role"} ELSE @ \cup stale[r]],
         UNCHANGED <<users, closed, subject, loaded, live, asked, bearer>>
  PROVE  CopiesFollowDecisions' /\ DecisionsStand'
<1> DEFINE a == subject[r]
<1>1. /\ a \in users /\ a \in Address
      /\ "role" \notin stale[r] \cup disturbed[a] => loaded[r] = decided[a]
      /\ "active" \notin stale[r] \cup disturbed[a] => (r \in live <=> a \notin closed)
  BY DEF CopiesFollowDecisions, TypeOK, TableTypes
<1>2. /\ \A b \in Address : role'[b] = IF b = a THEN k ELSE role[b]
      /\ \A b \in users : b \in active' <=> IF b = a THEN r \in live ELSE b \in active
  BY <1>1 DEF WriteBack, TypeOK, TableTypes
<1>3. /\ \A b \in Address : decided'[b] = IF b = a /\ given THEN k ELSE decided[b]
      /\ \A b \in Address : b # a => disturbed'[b] = disturbed[b]
      /\ disturbed'[a] = IF given THEN (disturbed[a] \cup stale[r]) \ {"role"}
                                  ELSE disturbed[a] \cup stale[r]
  BY <1>1 DEF TypeOK, TableTypes
<1>4. \A q \in Slot : at'[q] = IF q = r THEN s ELSE at[q]
  BY DEF Goto, TypeOK, RequestTypes
<1>5. ASSUME NEW b \in users
      PROVE  /\ "role" \notin disturbed'[b] => role'[b] = decided'[b]
             /\ "active" \notin disturbed'[b] => (b \in active' <=> b \notin closed)
  <2>1. b \in Address
    BY DEF TypeOK, TableTypes
  <2>2. CASE b = a /\ given
    BY <1>1, <1>2, <1>3, <2>1, <2>2
  <2>3. CASE b = a /\ ~given
    BY <1>1, <1>2, <1>3, <2>1, <2>3
  <2>4. CASE b # a
    BY <1>2, <1>3, <2>1, <2>4 DEF DecisionsStand
  <2> QED BY <2>2, <2>3, <2>4
<1>6. ASSUME NEW q \in Slot, at'[q] \in {"link", "store"}
      PROVE  /\ subject[q] \in users
             /\ "role" \notin stale'[q] \cup disturbed'[subject[q]] => loaded[q] = decided'[subject[q]]
             /\ "active" \notin stale'[q] \cup disturbed'[subject[q]]
                  => (q \in live <=> subject[q] \notin closed)
             /\ at'[q] = "store" /\ asked[q] # None => bearer[q] = Administrator
  <2>1. /\ q # r /\ at'[q] = at[q] /\ subject[q] \in users /\ subject[q] \in Address
        /\ "role" \notin stale[q] \cup disturbed[subject[q]] => loaded[q] = decided[subject[q]]
        /\ "active" \notin stale[q] \cup disturbed[subject[q]]
             => (q \in live <=> subject[q] \notin closed)
        /\ at[q] = "store" /\ asked[q] # None => bearer[q] = Administrator
    BY <1>4, <1>6 DEF CopiesFollowDecisions, TypeOK, TableTypes
  <2>2. stale'[q] = IF given /\ subject[q] = a THEN stale[q] \cup {"role"} ELSE stale[q]
    <3>1. CASE given
      <4>1. stale' = [p \in Slot |-> IF p \in Copies(a) THEN stale[p] \cup {"role"} ELSE stale[p]]
        BY <3>1 DEF Decide
      <4>2. q \in Copies(a) <=> subject[q] = a
        BY <1>6, <2>1 DEF Copies, Reading, Reads
      <4> QED BY <3>1, <4>1, <4>2
    <3>2. CASE ~given
      BY <3>2
    <3> QED BY <3>1, <3>2
  <2>3. CASE subject[q] = a /\ given
    BY <1>3, <2>1, <2>2, <2>3
  <2>4. CASE subject[q] = a /\ ~given
    BY <1>3, <2>1, <2>2, <2>4
  <2>5. CASE subject[q] # a
    BY <1>3, <2>1, <2>2, <2>5
  <2> QED BY <2>3, <2>4, <2>5
<1>7. DecisionsStand'
  BY <1>5 DEF DecisionsStand
<1>8. CopiesFollowDecisions'
  BY <1>6 DEF CopiesFollowDecisions
<1> QED BY <1>7, <1>8

\* What was decided about an account stands, but for columns that a copy read before
\* the decision was written over.
THEOREM DecisionsStandHolds == Spec => []DecisionsStand
<1> DEFINE Decided == CopiesFollowDecisions /\ DecisionsStand
<1>1. Init => Decided
  BY DEF Init, CopiesFollowDecisions, DecisionsStand
<1>2. TypeOK /\ Decided /\ [Next]_vars => Decided'
  <2> SUFFICES ASSUME TypeOK, Decided, [Next]_vars PROVE Decided'
    OBVIOUS
  <2> USE DEF tableVars, requestVars, historyVars
  <2>0. /\ CopiesFollowDecisions /\ DecisionsStand
        /\ \A r \in Slot : subject[r] \in active => subject[r] \in users
        /\ active \subseteq users /\ users \subseteq Address
    BY DEF TypeOK, TableTypes
  <2>1. ASSUME NEW r \in Slot, NEW a \in Address, Login(r, a) PROVE Decided'
    <3>1. a \in users /\ Copy(r, a) /\ Goto(r, "issue")
      BY <2>0, <2>1 DEF Login, Findable
    <3>2. \A q \in Slot \ {r} : bearer'[q] = bearer[q]
      BY <2>1 DEF Login, Start, TypeOK, RequestTypes
    <3>3. "issue" \in Stage \ {"link", "store"}
      BY DEF Stage
    <3>4. UNCHANGED <<users, role, active, decided, closed, disturbed, asked>>
      BY <2>1 DEF Login
    <3> QED BY <2>0, <3>1, <3>2, <3>3, <3>4, CopyFaithful, DecisionsUndisturbed
  <2>2. ASSUME NEW r \in Slot, NEW p \in Person, NEW a \in Address, MicrosoftLogin(r, p, a)
        PROVE  Decided'
    <3>1. PICK s \in Stage \ {"link", "store"} : Goto(r, s)
      BY <2>2 DEF MicrosoftLogin, Stage
    <3>2. /\ UNCHANGED <<users, role, active, decided, closed, disturbed, loaded, live, stale, asked>>
          /\ \A q \in Slot \ {r} : subject'[q] = subject[q] /\ bearer'[q] = bearer[q]
      BY <2>2 DEF MicrosoftLogin, Start, TypeOK, RequestTypes
    <3> QED BY <2>0, <3>1, <3>2, DecisionsUndisturbed
  <2>3. ASSUME NEW r \in Slot, CheckDomain(r) \/ Furnish(r) \/ Issue(r) \/ SetPassword(r) \/ Fail(r)
        PROVE  Decided'
    <3>1. PICK s \in Stage \ {"link", "store"} : Goto(r, s)
      BY <2>3 DEF CheckDomain, Furnish, Issue, SetPassword, Fail, Done, Stage
    <3>2. UNCHANGED <<users, role, active, decided, closed, disturbed, subject, loaded, live,
                      stale, asked, bearer>>
      BY <2>3 DEF CheckDomain, Furnish, Issue, SetPassword, Fail
    <3> QED BY <2>0, <3>1, <3>2, DecisionsUndisturbed
  <2>4. ASSUME NEW r \in Slot, FindByOid(r) PROVE Decided'
    <3>1. UNCHANGED <<users, role, active, decided, closed, disturbed, asked, bearer>>
      BY <2>4 DEF FindByOid
    <3>2. "issue" \in Stage \ {"link", "store"} /\ "email" \in Stage \ {"link", "store"}
      BY DEF Stage
    <3>3. ASSUME NEW a \in Address, Findable(a), Copy(r, a), Goto(r, "issue") PROVE Decided'
      <4>1. a \in users
        BY <2>0, <3>3 DEF Findable
      <4> QED BY <2>0, <3>1, <3>2, <3>3, <4>1, CopyFaithful, DecisionsUndisturbed
    <3>4. CASE Goto(r, "email") /\ KeepCopy
      BY <2>0, <3>1, <3>2, <3>4, DecisionsUndisturbed DEF KeepCopy
    <3> QED BY <2>4, <3>3, <3>4 DEF FindByOid
  <2>5. ASSUME NEW r \in Slot, FindByEmail(r) PROVE Decided'
    <3>1. UNCHANGED <<users, role, active, decided, closed, disturbed, asked, bearer>>
      BY <2>5 DEF FindByEmail
    <3>2. CASE Findable(subject[r]) /\ Copy(r, subject[r]) /\ Goto(r, "link")
      <4>1. subject[r] \in users
        BY <2>0, <3>2 DEF Findable
      <4> QED BY <2>0, <3>1, <3>2, <4>1, DecisionsRead
    <3>3. CASE Goto(r, "insert") /\ KeepCopy
      <4>1. "insert" \in Stage \ {"link", "store"}
        BY DEF Stage
      <4> QED BY <2>0, <3>1, <3>3, <4>1, DecisionsUndisturbed DEF KeepCopy
    <3> QED BY <2>5, <3>2, <3>3 DEF FindByEmail
  <2>6. ASSUME NEW r \in Slot, Link(r) PROVE Decided'
    <3>1. /\ at[r] = "link" /\ Goto(r, "issue") /\ "issue" \in Stage \ {"link", "store"}
          /\ UNCHANGED <<users, decided, closed, stale, subject, loaded, live, asked, bearer>>
      BY <2>6 DEF Link, Stage
    <3>2. CASE WriteBack(r, loaded[r]) /\ disturbed' = [disturbed EXCEPT ![subject[r]] = @ \cup stale[r]]
      <4>1. loaded[r] \in Role /\ FALSE \in BOOLEAN
        BY DEF TypeOK, RequestTypes
      <4> QED BY <2>0, <3>1, <3>2, <4>1, DecisionsWritten
    <3>3. CASE UNCHANGED <<role, active, disturbed>>
      BY <2>0, <3>1, <3>3, DecisionsUndisturbed
    <3> QED BY <2>6, <3>2, <3>3 DEF Link
  <2>7. ASSUME NEW r \in Slot, Insert(r) PROVE Decided'
    <3>1. CASE Taken(r)
      <4>1. /\ Goto(r, "idle") /\ "idle" \in Stage \ {"link", "store"}
            /\ UNCHANGED <<users, role, active, decided, closed, disturbed, subject, loaded,
                           live, stale, asked, bearer>>
        BY <2>7, <3>1 DEF Insert, Done, Stage
      <4> QED BY <2>0, <4>1, DecisionsUndisturbed
    <3>2. CASE ~Taken(r)
      <4> DEFINE a == subject[r]
                 k == IF person[r] = None THEN asked[r] ELSE ReadOnly
      <4>1. /\ at[r] = "insert" /\ Goto(r, "furnish")
            /\ users' = users \cup {a} /\ active' = active \cup {a}
            /\ role' = [role EXCEPT ![a] = k] /\ decided' = [decided EXCEPT ![a] = k]
            /\ loaded' = [loaded EXCEPT ![r] = k] /\ live' = live \cup {r}
            /\ UNCHANGED <<closed, disturbed, subject, stale, asked, bearer>>
        BY <2>7, <3>2 DEF Insert
      <4>2. a \in Address /\ a \notin users /\ a \notin closed
        BY <3>2, <4>1 DEF Taken, TypeOK, RequestsFormed, TableTypes
      <4>3. DecisionsStand'
        <5>1. ASSUME NEW b \in users'
              PROVE  /\ "role" \notin disturbed'[b] => role'[b] = decided'[b]
                     /\ "active" \notin disturbed'[b] => (b \in active' <=> b \notin closed')
          <6>1. CASE b = a
            BY <4>1, <4>2, <6>1 DEF TypeOK, TableTypes
          <6>2. CASE b # a
            BY <2>0, <4>1, <4>2, <6>2 DEF DecisionsStand, TypeOK, TableTypes
          <6> QED BY <6>1, <6>2
        <5> QED BY <5>1 DEF DecisionsStand
      <4>4. ASSUME NEW q \in Slot, at'[q] \in {"link", "store"}
            PROVE  /\ q # r /\ at'[q] = at[q] /\ loaded'[q] = loaded[q] /\ (q \in live' <=> q \in live)
                   /\ subject[q] # a /\ decided'[subject[q]] = decided[subject[q]]
        <5>1. q # r /\ at'[q] = at[q]
          BY <4>1, <4>4 DEF Goto, TypeOK, RequestTypes
        <5>2. subject[q] \in users
          BY <2>0, <4>4, <5>1 DEF CopiesFollowDecisions
        <5> QED BY <2>0, <4>1, <4>2, <5>1, <5>2 DEF TypeOK, TableTypes, RequestTypes
      <4>5. CopiesFollowDecisions'
        BY <2>0, <4>1, <4>4 DEF CopiesFollowDecisions
      <4> QED BY <4>3, <4>5
    <3> QED BY <3>1, <3>2
  <2>8. ASSUME NEW r \in Slot, NEW t \in tokens, NEW a \in Address, NEW k \in Role,
               Create(r, t, a, k)
        PROVE  Decided'
    <3>1. /\ Goto(r, "insert") /\ "insert" \in Stage \ {"link", "store"}
          /\ UNCHANGED <<users, role, active, decided, closed, disturbed, loaded, live, stale>>
          /\ \A q \in Slot \ {r} :
               subject'[q] = subject[q] /\ asked'[q] = asked[q] /\ bearer'[q] = bearer[q]
      BY <2>8 DEF Create, Start, Stage, TypeOK, RequestTypes
    <3> QED BY <2>0, <3>1, DecisionsUndisturbed
  <2>9. ASSUME NEW r \in Slot, NEW t \in tokens, NEW a \in Address,
               NEW k \in Role \cup {None}, Update(r, t, a, k)
        PROVE  Decided'
    <3>1. /\ a \in users /\ Copy(r, a) /\ Goto(r, "store")
          /\ UNCHANGED <<users, role, active, decided, closed, disturbed>>
          /\ \A q \in Slot \ {r} : asked'[q] = asked[q] /\ bearer'[q] = bearer[q]
      BY <2>9 DEF Update, Start, TypeOK, RequestTypes
    <3>2. asked'[r] # None => bearer'[r] = Administrator
      BY <2>9 DEF Update, Start, Wanted, Admits, TypeOK, RequestTypes
    <3> QED BY <2>0, <3>1, <3>2, DecisionsRead
  <2>10. ASSUME NEW r \in Slot, Store(r) PROVE Decided'
    <3> DEFINE given == bearer[r] = Administrator /\ asked[r] # None
    <3>1. /\ at[r] = "store" /\ WriteBack(r, ChosenRole(r))
          /\ UNCHANGED <<users, closed, subject, loaded, live, asked, bearer>>
          /\ disturbed' = [disturbed EXCEPT ![subject[r]] =
                             IF given THEN (@ \cup stale[r]) \ {"role"} ELSE @ \cup stale[r]]
          /\ given => /\ decided' = [decided EXCEPT ![subject[r]] = ChosenRole(r)]
                      /\ Decide(subject[r], {"role"})
          /\ ~given => UNCHANGED <<decided, stale>>
      BY <2>10 DEF Store
    <3>2. ChosenRole(r) \in Role
      BY DEF ChosenRole, TypeOK, RequestTypes
    <3>3. ~given => ChosenRole(r) = loaded[r]
      BY <2>0, <3>1 DEF ChosenRole, CopiesFollowDecisions
    <3>4. PICK s \in Stage \ {"link", "store"} : Goto(r, s)
      BY <2>10 DEF Store, Done, Stage
    <3>5. given \in BOOLEAN
      OBVIOUS
    <3> HIDE DEF given
    <3> QED BY <2>0, <3>1, <3>2, <3>3, <3>4, <3>5, DecisionsWritten
  <2>11. ASSUME NEW t \in tokens, NEW a \in Address, Delete(t, a) PROVE Decided'
    <3>1. /\ a \in users /\ active' = active \ {a} /\ closed' = closed \cup {a}
          /\ disturbed' = [disturbed EXCEPT ![a] = @ \ {"active"}] /\ Decide(a, {"active"})
          /\ UNCHANGED <<users, role, at, bearer, subject, asked, loaded, live, decided>>
      BY <2>11 DEF Delete
    <3>2. /\ \A b \in Address : b # a => disturbed'[b] = disturbed[b]
          /\ disturbed'[a] = disturbed[a] \ {"active"}
      BY <3>1 DEF TypeOK, TableTypes
    <3>3. DecisionsStand'
      BY <2>0, <3>1, <3>2 DEF DecisionsStand
    <3>4. {"active"} \in SUBSET Column
      BY DEF Column
    <3>5. CopiesFollowDecisions'
      BY <2>0, <3>1, <3>2, <3>4, DecisionsMarked
    <3> QED BY <3>3, <3>5
  <2>12. ASSUME NEW a \in Address, UpsertUser(a) PROVE Decided'
    <3>1. /\ users' = users \cup {a} /\ active' = active \cup {a} /\ closed' = closed \ {a}
          /\ disturbed' = [disturbed EXCEPT ![a] = @ \ {"active"}] /\ Decide(a, {"active"})
          /\ UNCHANGED <<at, bearer, subject, asked, loaded, live>>
      BY <2>12 DEF UpsertUser
    <3>2. /\ \A b \in Address : b # a => disturbed'[b] = disturbed[b]
          /\ disturbed'[a] = disturbed[a] \ {"active"}
      BY <3>1 DEF TypeOK, TableTypes
    <3>3. /\ \A b \in users : role'[b] = role[b] /\ decided'[b] = decided[b]
          /\ a \notin users => role'[a] = decided'[a]
      BY <2>0, <2>12 DEF UpsertUser, TypeOK, TableTypes
    <3>4. DecisionsStand'
      BY <2>0, <3>1, <3>2, <3>3 DEF DecisionsStand
    <3>5. {"active"} \in SUBSET Column
      BY DEF Column
    <3>6. CopiesFollowDecisions'
      BY <2>0, <3>1, <3>2, <3>3, <3>5, DecisionsMarked
    <3> QED BY <3>4, <3>6
  <2>13. ASSUME UNCHANGED <<users, role, active, at, bearer, subject, asked, loaded, live,
                            decided, closed, stale, disturbed>>
         PROVE  Decided'
    BY <2>0, <2>13 DEF CopiesFollowDecisions, DecisionsStand
  <2>14. ASSUME NEW t \in tokens, NEW d \in Domain, ManageDomains(t, d) PROVE Decided'
    BY <2>13, <2>14 DEF ManageDomains
  <2>15. CASE Tick \/ UNCHANGED vars
    BY <2>13, <2>15 DEF Tick, vars
  <2> QED
    BY <2>1, <2>2, <2>3, <2>4, <2>5, <2>6, <2>7, <2>8, <2>9, <2>10, <2>11, <2>12, <2>14, <2>15
    DEF Next
<1> QED BY <1>1, <1>2, TypeCorrect, PTL DEF Spec

-----------------------------------------------------------------------------
(* Tokens *)

\* A request that is about to issue a token, or on its way to it with its copy.
Signing(q) == at[q] \in {"link", "issue"} \/ (at[q] = "furnish" /\ person[q] # None)

\* Each account was active with a role at or after the time it was before.
LEMMA Remembered ==
  ASSUME TypeOK, TokensFollowAccounts, NEW who \in SUBSET Address, NEW k \in [Address -> Role],
         NEW t \in now .. LastTick, Remember(who, k, t)
  PROVE  /\ \A a \in Address, j \in Role : held[a][j] <= held'[a][j] /\ held'[a][j] <= t
         /\ \A a \in who : held'[a][k[a]] = t
<1>1. ASSUME NEW a \in Address, NEW j \in Role
      PROVE  /\ held'[a][j] = IF a \in who /\ k[a] = j THEN t ELSE held[a][j]
             /\ held[a][j] \in Int /\ held[a][j] <= now
  BY DEF Remember, TokensFollowAccounts, TypeOK, TableTypes, Never
<1>2. now \in Int /\ t \in Int /\ now <= t
  BY DEF TypeOK, TableTypes
<1> QED BY <1>1, <1>2

\* A step within a tick that issues nothing: a request on its way to a token has the
\* account and role it had, or those of an active account.
LEMMA TokensKept ==
  ASSUME TypeOK, TokensFollowAccounts, UNCHANGED <<now, tokens>>,
         role' \in [Address -> Role], active' \subseteq Address,
         Remember(active', role', now) \/ UNCHANGED <<active, role, held>>,
         \A q \in Slot : Signing(q)' =>
           \/ Signing(q) /\ subject'[q] = subject[q] /\ loaded'[q] = loaded[q]
           \/ subject'[q] \in active' /\ loaded'[q] = role'[subject'[q]]
  PROVE  TokensFollowAccounts'
<1>1. /\ \A a \in Address, j \in Role :
           held[a][j] \in Int /\ held'[a][j] \in Int /\ held[a][j] <= held'[a][j] /\ held'[a][j] <= now
      /\ \A a \in active' : held'[a][role'[a]] = now
  <2>0. now \in now .. LastTick
    BY DEF TypeOK, TableTypes
  <2>1. \A a \in Address, j \in Role : held[a][j] \in Int
    BY DEF TypeOK, TableTypes, Never
  <2>2. CASE Remember(active', role', now)
    <3>1. held' \in [Address -> [Role -> 0 .. LastTick \cup {Never}]]
      BY <2>0, <2>2, RememberTyped DEF TypeOK, TableTypes
    <3>2. \A a \in Address, j \in Role : held'[a][j] \in Int
      BY <3>1 DEF Never
    <3>3. active' \in SUBSET Address
      OBVIOUS
    <3>4. /\ \A a \in Address, j \in Role : held[a][j] <= held'[a][j] /\ held'[a][j] <= now
          /\ \A a \in active' : held'[a][role'[a]] = now
      BY ONLY <2>0, <2>2, <3>3, TypeOK, TokensFollowAccounts, role' \in [Address -> Role], Remembered
    <3> QED BY <2>1, <3>2, <3>4
  <2>3. CASE UNCHANGED <<active, role, held>>
    BY <2>1, <2>3 DEF TokensFollowAccounts
  <2> QED BY <2>2, <2>3
<1>2. now \in Int
  BY DEF TypeOK, TableTypes
<1>3. ASSUME NEW q \in Slot, Signing(q)' PROVE held'[subject'[q]][loaded'[q]] = now
  <2>1. CASE Signing(q) /\ subject'[q] = subject[q] /\ loaded'[q] = loaded[q]
    <3>1. subject[q] \in Address /\ loaded[q] \in Role
      BY <2>1 DEF Signing, TypeOK, RequestsFormed, RequestTypes
    <3>2. held[subject[q]][loaded[q]] = now
      BY <2>1 DEF Signing, TokensFollowAccounts
    <3>3. /\ held'[subject[q]][loaded[q]] \in Int /\ held'[subject[q]][loaded[q]] <= now
          /\ held[subject[q]][loaded[q]] <= held'[subject[q]][loaded[q]]
      BY <1>1, <3>1
    <3>4. held'[subject[q]][loaded[q]] = now
      BY <1>2, <3>2, <3>3
    <3> QED BY <2>1, <3>4
  <2>2. CASE subject'[q] \in active' /\ loaded'[q] = role'[subject'[q]]
    BY <1>1, <2>2
  <2> QED BY <1>3, <2>1, <2>2
<1>4. ASSUME NEW t \in tokens PROVE t.exp <= held'[t.sub][t.role] + Lifetime
  <2>1. t.sub \in Address /\ t.role \in Role /\ t.exp \in Nat
    BY DEF TypeOK, TableTypes, Token
  <2>2. t.exp <= held[t.sub][t.role] + Lifetime
    BY DEF TokensFollowAccounts
  <2> QED BY <1>1, <2>1, <2>2
<1> QED BY <1>1, <1>3, <1>4 DEF TokensFollowAccounts, Signing

\* A token lets in whoever was an active account of its role less than a lifetime ago.
THEOREM TokensLapseHolds == Spec => []TokensLapse
<1>1. Init => TokensFollowAccounts
  BY DEF Init, TokensFollowAccounts, SeedRole, Never
<1>2. TypeOK /\ TypeOK' /\ TokensFollowAccounts /\ [Next]_vars => TokensFollowAccounts'
  <2> SUFFICES ASSUME TypeOK, TypeOK', TokensFollowAccounts, [Next]_vars
               PROVE  TokensFollowAccounts'
    OBVIOUS
  <2> USE DEF tableVars, requestVars, historyVars
  <2>0. /\ role' \in [Address -> Role] /\ active' \subseteq Address /\ active \subseteq Address
        /\ role \in [Address -> Role]
    BY DEF TypeOK, TableTypes
  <2>1. ASSUME NEW r \in Slot, NEW a \in Address, Login(r, a) PROVE TokensFollowAccounts'
    <3>1. \A q \in Slot : /\ at'[q] = IF q = r THEN "issue" ELSE at[q]
                          /\ subject'[q] = IF q = r THEN a ELSE subject[q]
                          /\ loaded'[q] = IF q = r THEN role[a] ELSE loaded[q]
      BY <2>1 DEF Login, Copy, Goto, TypeOK, RequestTypes
    <3>2. a \in active' /\ UNCHANGED <<now, tokens, active, role, held, person>>
      BY <2>1 DEF Login, Findable
    <3> QED BY <2>0, <3>1, <3>2, TokensKept DEF Signing
  <2>2. ASSUME NEW r \in Slot, NEW s \in Stage \ {"link", "issue", "furnish"}, Goto(r, s),
               UNCHANGED <<now, tokens>>,
               Remember(active', role', now) \/ UNCHANGED <<active, role, held>>,
               \A q \in Slot \ {r} :
                 subject'[q] = subject[q] /\ loaded'[q] = loaded[q] /\ person'[q] = person[q]
        PROVE  TokensFollowAccounts'
    <3>1. \A q \in Slot : at'[q] = IF q = r THEN s ELSE at[q]
      BY <2>2 DEF Goto, TypeOK, RequestTypes
    <3> QED BY <2>0, <2>2, <3>1, TokensKept DEF Signing
  <2>3. ASSUME NEW r \in Slot, NEW p \in Person, NEW a \in Address, MicrosoftLogin(r, p, a)
        PROVE  TokensFollowAccounts'
    <3>1. PICK s \in Stage \ {"link", "issue", "furnish"} : Goto(r, s)
      BY <2>3 DEF MicrosoftLogin, Stage
    <3>2. /\ UNCHANGED <<now, tokens, active, role, held, loaded>>
          /\ \A q \in Slot \ {r} : subject'[q] = subject[q] /\ person'[q] = person[q]
      BY <2>3 DEF MicrosoftLogin, TypeOK, RequestTypes
    <3> QED BY <2>2, <3>1, <3>2
  <2>4. ASSUME NEW r \in Slot, CheckDomain(r) \/ SetPassword(r) \/ Fail(r)
        PROVE  TokensFollowAccounts'
    <3>1. PICK s \in Stage \ {"link", "issue", "furnish"} : Goto(r, s)
      BY <2>4 DEF CheckDomain, SetPassword, Fail, Done, Stage
    <3>2. UNCHANGED <<now, tokens, active, role, held, subject, loaded, person>>
      BY <2>4 DEF CheckDomain, SetPassword, Fail
    <3> QED BY <2>2, <3>1, <3>2
  <2>5. ASSUME NEW r \in Slot, FindByOid(r) PROVE TokensFollowAccounts'
    <3>1. UNCHANGED <<now, tokens, active, role, held, person>>
      BY <2>5 DEF FindByOid
    <3>2. ASSUME NEW a \in Address, Findable(a), Copy(r, a), Goto(r, "issue")
          PROVE  TokensFollowAccounts'
      <4>1. \A q \in Slot : /\ at'[q] = IF q = r THEN "issue" ELSE at[q]
                            /\ subject'[q] = IF q = r THEN a ELSE subject[q]
                            /\ loaded'[q] = IF q = r THEN role[a] ELSE loaded[q]
        BY <3>2 DEF Copy, Goto, TypeOK, RequestTypes
      <4> QED BY <2>0, <3>1, <3>2, <4>1, TokensKept DEF Signing, Findable
    <3>3. CASE Goto(r, "email") /\ KeepCopy
      BY <2>2, <3>1, <3>3 DEF KeepCopy, Stage
    <3> QED BY <2>5, <3>2, <3>3 DEF FindByOid
  <2>6. ASSUME NEW r \in Slot, FindByEmail(r) PROVE TokensFollowAccounts'
    <3>1. UNCHANGED <<now, tokens, active, role, held, person>>
      BY <2>6 DEF FindByEmail
    <3>2. CASE Findable(subject[r]) /\ Copy(r, subject[r]) /\ Goto(r, "link")
      <4>1. \A q \in Slot : /\ at'[q] = IF q = r THEN "link" ELSE at[q]
                            /\ subject'[q] = subject[q]
                            /\ loaded'[q] = IF q = r THEN role[subject[r]] ELSE loaded[q]
        BY <3>2 DEF Copy, Goto, TypeOK, RequestTypes
      <4> QED BY <2>0, <3>1, <3>2, <4>1, TokensKept DEF Signing, Findable
    <3>3. CASE Goto(r, "insert") /\ KeepCopy
      BY <2>2, <3>1, <3>3 DEF KeepCopy, Stage
    <3> QED BY <2>6, <3>2, <3>3 DEF FindByEmail
  <2>7. ASSUME NEW r \in Slot, Link(r) PROVE TokensFollowAccounts'
    <3>1. /\ at[r] = "link" /\ UNCHANGED <<now, tokens, subject, loaded, person>>
          /\ Remember(active', role', now) \/ UNCHANGED <<active, role, held>>
          /\ \A q \in Slot : at'[q] = IF q = r THEN "issue" ELSE at[q]
      BY <2>7 DEF Link, Goto, TypeOK, RequestTypes
    <3> QED BY <2>0, <3>1, TokensKept DEF Signing
  <2>8. ASSUME NEW r \in Slot, Insert(r) PROVE TokensFollowAccounts'
    <3>1. CASE Taken(r)
      <4>1. Goto(r, "idle") /\ UNCHANGED <<now, tokens, active, role, held, subject, loaded, person>>
        BY <2>8, <3>1 DEF Insert, Done
      <4> QED BY <2>2, <4>1 DEF Stage
    <3>2. CASE ~Taken(r)
      <4> DEFINE a == subject[r]
                 k == IF person[r] = None THEN asked[r] ELSE ReadOnly
      <4>1. /\ at[r] = "insert" /\ Goto(r, "furnish") /\ active' = active \cup {a}
            /\ role' = [role EXCEPT ![a] = k] /\ loaded' = [loaded EXCEPT ![r] = k]
            /\ Remember(active', role', now) /\ UNCHANGED <<now, tokens, subject, person>>
        BY <2>8, <3>2 DEF Insert
      <4>2. a \in Address
        BY <4>1 DEF TypeOK, RequestsFormed
      <4>3. a \in active' /\ role'[a] = k
        BY <2>0, <4>1, <4>2
      <4>4. \A q \in Slot : /\ at'[q] = IF q = r THEN "furnish" ELSE at[q]
                            /\ loaded'[q] = IF q = r THEN k ELSE loaded[q]
        BY <4>1 DEF Goto, TypeOK, RequestTypes
      <4> HIDE DEF k
      <4> QED BY <2>0, <4>1, <4>3, <4>4, TokensKept DEF Signing
    <3> QED BY <3>1, <3>2
  <2>9. ASSUME NEW r \in Slot, Furnish(r) PROVE TokensFollowAccounts'
    <3>1. /\ at[r] = "furnish"
          /\ UNCHANGED <<now, tokens, active, role, held, subject, loaded, person>>
          /\ \A q \in Slot : at'[q] = IF q # r THEN at[q]
                                      ELSE IF person[r] = None THEN "idle" ELSE "issue"
      BY <2>9 DEF Furnish, Done, Goto, TypeOK, RequestTypes
    <3> QED BY <2>0, <3>1, TokensKept DEF Signing
  <2>10. ASSUME NEW r \in Slot, Issue(r) PROVE TokensFollowAccounts'
    <3> DEFINE t == [sub |-> subject[r], role |-> loaded[r], exp |-> now + Lifetime]
    <3>1. /\ at[r] = "issue" /\ tokens' = tokens \cup {t}
          /\ UNCHANGED <<now, active, role, held, subject, loaded, person>>
          /\ \A q \in Slot : at'[q] = IF q = r THEN "idle" ELSE at[q]
      BY <2>10 DEF Issue, Done, Goto, TypeOK, RequestTypes
    <3>2. t.exp <= held[t.sub][t.role] + Lifetime
      <4>1. held[subject[r]][loaded[r]] = now
        BY <3>1 DEF TokensFollowAccounts
      <4> QED BY <4>1 DEF TypeOK, TableTypes
    <3> HIDE DEF t
    <3> QED BY <3>1, <3>2 DEF TokensFollowAccounts
  <2>11. ASSUME NEW r \in Slot, NEW t \in tokens, NEW a \in Address, NEW k \in Role,
                Create(r, t, a, k)
         PROVE  TokensFollowAccounts'
    <3>1. /\ Goto(r, "insert") /\ UNCHANGED <<now, tokens, active, role, held, loaded>>
          /\ \A q \in Slot \ {r} : subject'[q] = subject[q] /\ person'[q] = person[q]
      BY <2>11 DEF Create, TypeOK, RequestTypes
    <3> QED BY <2>2, <3>1 DEF Stage
  <2>12. ASSUME NEW r \in Slot, NEW t \in tokens, NEW a \in Address,
                NEW k \in Role \cup {None}, Update(r, t, a, k)
         PROVE  TokensFollowAccounts'
    <3>1. /\ Goto(r, "store") /\ UNCHANGED <<now, tokens, active, role, held, person>>
          /\ \A q \in Slot \ {r} : subject'[q] = subject[q] /\ loaded'[q] = loaded[q]
      BY <2>12 DEF Update, Copy, TypeOK, RequestTypes
    <3> QED BY <2>2, <3>1 DEF Stage
  <2>13. ASSUME NEW r \in Slot, Store(r) PROVE TokensFollowAccounts'
    <3>1. PICK s \in Stage \ {"link", "issue", "furnish"} : Goto(r, s)
      BY <2>13 DEF Store, Done, Stage
    <3>2. UNCHANGED <<now, tokens, subject, loaded, person>> /\ Remember(active', role', now)
      BY <2>13 DEF Store
    <3> QED BY <2>2, <3>1, <3>2
  <2>14. ASSUME NEW t \in tokens, NEW a \in Address, Delete(t, a) PROVE TokensFollowAccounts'
    <3>1. /\ UNCHANGED <<now, tokens, at, subject, loaded, person, role>>
          /\ Remember(active', role, now)
      BY <2>14 DEF Delete
    <3>2. Remember(active', role', now)
      BY <3>1 DEF Remember
    <3> QED BY <2>0, <3>1, <3>2, TokensKept DEF Signing
  <2>15. ASSUME NEW a \in Address, UpsertUser(a) PROVE TokensFollowAccounts'
    <3>1. UNCHANGED <<now, tokens, at, subject, loaded, person>> /\ Remember(active', role', now)
      BY <2>15 DEF UpsertUser
    <3> QED BY <2>0, <3>1, TokensKept DEF Signing
  <2>16. ASSUME NEW t \in tokens, NEW d \in Domain, ManageDomains(t, d)
         PROVE  TokensFollowAccounts'
    <3>1. UNCHANGED <<now, tokens, active, role, held, at, subject, loaded, person>>
      BY <2>16 DEF ManageDomains
    <3> QED BY <2>0, <3>1, TokensKept DEF Signing
  <2>17. CASE Tick
    <3>1. /\ now' = now + 1 /\ now' \in now .. LastTick /\ Remember(active, role, now')
          /\ \A r \in Slot : at'[r] = "idle"
          /\ UNCHANGED <<active, role, tokens>>
      BY <2>17 DEF Tick, TypeOK, TableTypes
    <3>2. /\ \A a \in Address, j \in Role : held[a][j] <= held'[a][j] /\ held'[a][j] <= now'
          /\ \A a \in active : held'[a][role[a]] = now'
      BY <2>0, <3>1, Remembered
    <3>3. \A a \in Address, j \in Role : held[a][j] \in Int /\ held'[a][j] \in Int
      BY DEF TypeOK, TableTypes, Never
    <3>4. ASSUME NEW t \in tokens PROVE t.exp <= held'[t.sub][t.role] + Lifetime
      <4>1. t.sub \in Address /\ t.role \in Role /\ t.exp \in Nat
        BY DEF TypeOK, TableTypes, Token
      <4>2. t.exp <= held[t.sub][t.role] + Lifetime
        BY DEF TokensFollowAccounts
      <4> QED BY <3>2, <3>3, <4>1, <4>2
    <3> QED BY <3>1, <3>2, <3>4 DEF TokensFollowAccounts
  <2>18. CASE UNCHANGED vars
    BY <2>18 DEF vars, TokensFollowAccounts
  <2> QED
    BY <2>1, <2>3, <2>4, <2>5, <2>6, <2>7, <2>8, <2>9, <2>10, <2>11, <2>12, <2>13, <2>14,
       <2>15, <2>16, <2>17, <2>18 DEF Next
<1>3. TypeOK /\ TokensFollowAccounts => TokensLapse
  <2> SUFFICES ASSUME TypeOK, TokensFollowAccounts, NEW t \in tokens, Valid(t)
               PROVE  now < held[t.sub][t.role] + Lifetime
    BY DEF TokensLapse
  <2>1. t.sub \in Address /\ t.role \in Role /\ t.exp \in Nat /\ now \in Int
    BY DEF TypeOK, TableTypes, Token
  <2>2. held[t.sub][t.role] \in Int
    BY <2>1 DEF TypeOK, TableTypes, Never
  <2> QED BY <2>1, <2>2 DEF TokensFollowAccounts, Valid
<1> QED BY <1>1, <1>2, <1>3, TypeCorrect, PTL DEF Spec
=============================================================================
