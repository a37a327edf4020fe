------------------------------- MODULE Access -------------------------------
(***************************************************************************)
(* Who may use the service: the users table, the sign-ins of               *)
(* src/internal/handler/auth.go, the administration of                     *)
(* src/internal/handler/users.go and domains.go, and the tokens of         *)
(* src/internal/middleware/auth.go, which state a role for a day.          *)
(*                                                                         *)
(* A request is a few statements without a transaction: it reads a row,    *)
(* and writes its copy of that row back in a later statement.  Between any *)
(* two of its statements other requests run, and it may end (a statement   *)
(* fails and the answer is 500, or the instance stops).                    *)
(* The settings rows of an account are left out: GetSettings answers with  *)
(* defaults where one is missing.                                          *)
(* Definitions commented "Variant" are bugs the next definition could have *)
(* had; they are not part of the specification.                            *)
(***************************************************************************)
EXTENDS Integers, FiniteSets

CONSTANTS
  Address,        \* e-mail addresses; the column is UNIQUE, so they name rows
  Person,         \* Microsoft object ids
  Mail,           \* person -> addresses an id token may state with it
  Domain,         \* domains of addresses
  DomainOf,       \* address -> its domain
  Seeded,         \* the accounts that exist at the start
  Role,           \* the roles the CHECK on users.role admits
  Administrator,  \* domain.RoleAdmin
  ReadOnly,       \* domain.RoleReadOnly
  FirstRole,      \* seeded account -> its role
  None,           \* no role asked for, no id, no address
  Slot,           \* requests in progress at a time
  Lifetime,       \* of a token, in ticks (24 hours)
  MaxRequests,    \* bound: requests
  LastTick        \* bound: time

ASSUME RoleAssumption   == {Administrator, ReadOnly} \subseteq Role /\ "admin" \notin Role
ASSUME SeedAssumption   == Seeded \subseteq Address /\ FirstRole \in [Seeded -> Role]
ASSUME MailAssumption   == Mail \in [Person -> SUBSET Address] /\ DomainOf \in [Address -> Domain]
ASSUME NoneAssumption   == None \notin Role \cup Person \cup Address
ASSUME TimeAssumption   == Lifetime \in Nat \ {0} /\ LastTick \in Nat /\ MaxRequests \in Nat

VARIABLES
  now,
  users,      \* rows of the users table
  role,       \* address -> role column
  active,     \* rows with active = true
  oid,        \* address -> ms_oid column, or None
  hashed,     \* rows with a password hash
  listed,     \* allowed_domains
  tokens,     \* tokens issued
  at,         \* request -> its next statement
  bearer,     \* request -> role of the token it came with, or None
  subject,    \* request -> the account it is about, or None
  person,     \* request -> who signs in with Microsoft, or None
  asked,      \* request -> role it asks for, or None
  loaded,     \* request -> role in the row it read
  live,       \* requests whose copy of the row has active = true
  requests,   \* requests so far
  decided,    \* history: address -> role it was created with or given since
  closed,     \* history: accounts an administrator deactivated
  stale,      \* history: request -> columns decided since it read the row
  disturbed,  \* history: address -> columns a stale copy was written over
  joined,     \* history: accounts a sign-in created
  vouched,    \* history: domains that were ever listed
  held        \* history: address -> role -> when it last was active with it

tableVars   == <<users, role, active, oid, hashed>>
requestVars == <<at, bearer, subject, person, asked, loaded, live>>
historyVars == <<decided, closed, stale, disturbed, joined, vouched>>
vars == <<now, tableVars, listed, tokens, requestVars, requests, historyVars, held>>

-----------------------------------------------------------------------------
Never  == -1
Column == {"role", "active"}
Token  == [sub : Address, role : Role, exp : Nat]
Stage  == {"idle", "domain", "oid", "email", "link", "insert", "furnish", "issue",
           "store", "password"}

\* Stages in which a request has a copy of its account's row.
Reads == {"link", "issue", "store"}
Reading(r) == at[r] \in Reads
Copies(a)  == {r \in Slot : Reading(r) /\ subject[r] = a}

\* A request is about an account, a creation has a role or a person, and who
\* writes a copy back writes it over a row.
RequestsFormed ==
  \A r \in Slot :
    /\ at[r] # "idle" => subject[r] \in Address
    /\ at[r] \in {"domain", "oid", "email"} => person[r] \in Person
    /\ at[r] = "insert" => person[r] \in Person \/ asked[r] \in Role
    /\ at[r] \in {"link", "store"} => subject[r] \in users

RequestTypes ==
  /\ at \in [Slot -> Stage] /\ bearer \in [Slot -> Role \cup {None}]
  /\ subject \in [Slot -> Address \cup {None}] /\ person \in [Slot -> Person \cup {None}]
  /\ asked \in [Slot -> Role \cup {None}] /\ loaded \in [Slot -> Role] /\ live \subseteq Slot
  /\ stale \in [Slot -> SUBSET Column]

TableTypes ==
  /\ now \in 0 .. LastTick /\ requests \in Nat
  /\ users \subseteq Address /\ active \subseteq users /\ hashed \subseteq Address
  /\ role \in [Address -> Role] /\ oid \in [Address -> Person \cup {None}]
  /\ listed \subseteq Domain /\ vouched \subseteq Domain /\ tokens \subseteq Token
  /\ decided \in [Address -> Role] /\ closed \subseteq users /\ joined \subseteq users
  /\ disturbed \in [Address -> SUBSET Column]
  /\ held \in [Address -> [Role -> 0 .. LastTick \cup {Never}]]

TypeOK == TableTypes /\ RequestTypes /\ RequestsFormed

SeedRole == [a \in Address |-> IF a \in Seeded THEN FirstRole[a] ELSE ReadOnly]

Init ==
  /\ now = 0 /\ requests = 0
  /\ users = Seeded /\ active = Seeded /\ hashed = Seeded
  /\ role = SeedRole /\ oid = [a \in Address |-> None]
  /\ listed \in SUBSET Domain /\ vouched = listed
  /\ tokens = {}
  /\ at = [r \in Slot |-> "idle"] /\ bearer = [r \in Slot |-> None]
  /\ subject = [r \in Slot |-> None] /\ person = [r \in Slot |-> None]
  /\ asked = [r \in Slot |-> None] /\ loaded = [r \in Slot |-> ReadOnly] /\ live = {}
  /\ decided = SeedRole /\ closed = {} /\ joined = {}
  /\ stale = [r \in Slot |-> {}] /\ disturbed = [a \in Address |-> {}]
  /\ held = [a \in Address |-> [k \in Role |->
               IF a \in Seeded /\ k = SeedRole[a] THEN 0 ELSE Never]]

-----------------------------------------------------------------------------
(* Requests *)

\* A request that came with a token for role b (None: a public route).
Start(r, b) ==
  /\ at[r] = "idle"
  /\ requests < MaxRequests
  /\ requests' = requests + 1
  /\ bearer' = [bearer EXCEPT ![r] = b]

Goto(r, stage) == at' = [at EXCEPT ![r] = stage]

\* The row of account a as r has it from now on.
Copy(r, a) ==
  /\ subject' = [subject EXCEPT ![r] = a]
  /\ loaded' = [loaded EXCEPT ![r] = role[a]]
  /\ live' = IF a \in active THEN live \cup {r} ELSE live \ {r}
  /\ stale' = [stale EXCEPT ![r] = {}]

KeepCopy == UNCHANGED <<subject, loaded, live, stale>>

\* Columns of account a that an administrator has just decided.
Decide(a, columns) ==
  stale' = [q \in Slot |-> IF q \in Copies(a) THEN stale[q] \cup columns ELSE stale[q]]

\* When each account last was active with each role, given who is at time t.
Remember(who, k, t) ==
  held' = [a \in Address |-> IF a \in who THEN [held[a] EXCEPT ![k[a]] = t] ELSE held[a]]

\* Variant: as jwt.Parse without its check of exp.
AnyToken(t) == TRUE
\* Auth: the token is still good.
Valid(t) == now < t.exp

Bearing(t) == t \in tokens /\ Valid(t)

\* The answer is given, whatever it says.
Done(r) == Goto(r, "idle")

-----------------------------------------------------------------------------
(* Signing in *)

\* GetUserByEmail and GetUserByMicrosoftOID find active accounts only.
Findable(a) == a \in active

\* Login: the account is read and the password compared.
Login(r, a) ==
  /\ Start(r, None)
  /\ Findable(a) /\ a \in hashed
  /\ Copy(r, a)
  /\ Goto(r, "issue")
  /\ UNCHANGED <<now, tableVars, listed, tokens, person, asked, decided, closed,
                 disturbed, joined, vouched, held>>

\* parseMSIDToken: an id token that has not expired states a person and an
\* address, the preferred_username where it has no email.  The signature is not
\* verified ("MSAL validates it in the browser"), so nothing but the sender ties
\* the two: Mail allows any relation, and the instance takes all of it.
Stated(p, a) == a \in Mail[p]

\* MicrosoftLogin: IsEmailAllowed looks for an account of the stated address.
MicrosoftLogin(r, p, a) ==
  /\ Start(r, None)
  /\ Stated(p, a)
  /\ person' = [person EXCEPT ![r] = p]
  /\ subject' = [subject EXCEPT ![r] = a]
  /\ Goto(r, IF a \in active THEN "oid" ELSE "domain")
  /\ UNCHANGED <<now, tableVars, listed, tokens, asked, loaded, live, historyVars,
                 held>>

\* IsEmailAllowed, second statement: its domain is listed, or 403.
CheckDomain(r) ==
  /\ at[r] = "domain"
  /\ IF DomainOf[subject[r]] \in listed THEN Goto(r, "oid") ELSE Done(r)
  /\ UNCHANGED <<now, tableVars, listed, tokens, bearer, subject, person, asked,
                 loaded, live, requests, historyVars, held>>

\* GetUserByMicrosoftOID: the account may have another address.
FindByOid(r) ==
  /\ at[r] = "oid"
  /\ \/ \E a \in Address :
          /\ Findable(a) /\ oid[a] = person[r]
          /\ Copy(r, a) /\ Goto(r, "issue")
     \/ /\ ~ \E a \in Address : Findable(a) /\ oid[a] = person[r]
        /\ Goto(r, "email") /\ KeepCopy
  /\ UNCHANGED <<now, tableVars, listed, tokens, bearer, person, asked, requests,
                 decided, closed, disturbed, joined, vouched, held>>

\* GetUserByEmail: an account to link, or one to create.
FindByEmail(r) ==
  /\ at[r] = "email"
  /\ \/ /\ Findable(subject[r])
        /\ Copy(r, subject[r]) /\ Goto(r, "link")
     \/ /\ ~Findable(subject[r])
        /\ Goto(r, "insert") /\ KeepCopy
  /\ UNCHANGED <<now, tableVars, listed, tokens, bearer, person, asked, requests,
                 decided, closed, disturbed, joined, vouched, held>>

\* UpdateUser writes the copy back, but not ms_oid.
WriteBack(r, newRole) ==
  LET a == subject[r] IN
  /\ role' = [role EXCEPT ![a] = newRole]
  /\ active' = IF r \in live THEN active \cup {a} ELSE active \ {a}

\* The "best-effort link" of MicrosoftLogin: UpdateUser, its error dropped.
Link(r) ==
  LET a == subject[r] IN
  /\ at[r] = "link"
  /\ \/ /\ WriteBack(r, loaded[r])
        /\ disturbed' = [disturbed EXCEPT ![a] = @ \cup stale[r]]
        /\ Remember(active', role', now)
     \/ UNCHANGED <<role, active, disturbed, held>>
  /\ Goto(r, "issue")
  /\ UNCHANGED <<now, users, oid, hashed, listed, tokens, bearer, subject, person,
                 asked, loaded, live, requests, decided, closed, stale, joined, vouched>>

\* Variant: CreateUser as an upsert on the address.
NothingTaken(r) == FALSE
\* users.email and users.ms_oid are UNIQUE, inactive accounts included.
Taken(r) ==
  \/ subject[r] \in users
  \/ person[r] # None /\ \E b \in users : oid[b] = person[r]

\* CreateUser, the row, or 500.
Insert(r) ==
  LET a == subject[r]
      k == IF person[r] = None THEN asked[r] ELSE ReadOnly
  IN
  /\ at[r] = "insert"
  /\ IF Taken(r)
     THEN /\ Done(r)
          /\ UNCHANGED <<tableVars, decided, joined, loaded, live, held>>
     ELSE /\ users' = users \cup {a} /\ active' = active \cup {a}
          /\ role' = [role EXCEPT ![a] = k] /\ oid' = [oid EXCEPT ![a] = person[r]]
          /\ hashed' = IF person[r] = None THEN hashed \cup {a} ELSE hashed
          /\ decided' = [decided EXCEPT ![a] = k]
          /\ joined' = IF person[r] = None THEN joined ELSE joined \cup {a}
          /\ loaded' = [loaded EXCEPT ![r] = k] /\ live' = live \cup {r}
          /\ Goto(r, "furnish")
          /\ Remember(active', role', now)
  /\ UNCHANGED <<now, listed, tokens, bearer, subject, person, asked, requests,
                 closed, stale, disturbed, vouched>>

\* CreateUser, the settings rows; a sign-in goes on with the new account, which
\* nobody else has read for it.
Furnish(r) ==
  /\ at[r] = "furnish"
  /\ IF person[r] = None THEN Done(r) ELSE Goto(r, "issue")
  /\ UNCHANGED <<now, tableVars, listed, tokens, bearer, subject, person, asked,
                 loaded, live, requests, historyVars, held>>

\* issueJWT
Issue(r) ==
  /\ at[r] = "issue"
  /\ tokens' = tokens \cup {[sub |-> subject[r], role |-> loaded[r], exp |-> now + Lifetime]}
  /\ Done(r)
  /\ UNCHANGED <<now, tableVars, listed, bearer, subject, person, asked, loaded, live,
                 requests, historyVars, held>>

-----------------------------------------------------------------------------
(* Administration *)

\* RequireRole("ADMINISTRADOR")
Admits(t) == t.role = Administrator

\* Create, up to the store.
Create(r, t, a, k) ==
  /\ Start(r, t.role)
  /\ Bearing(t) /\ Admits(t)
  /\ subject' = [subject EXCEPT ![r] = a] /\ person' = [person EXCEPT ![r] = None]
  /\ asked' = [asked EXCEPT ![r] = k]
  /\ Goto(r, "insert")
  /\ UNCHANGED <<now, tableVars, listed, tokens, loaded, live, historyVars, held>>

\* Variant: the self-service path does not clear the role.
WantedAnyway(t, k) == k
\* Update: who is no administrator may not ask for a role.
Wanted(t, k) == IF Admits(t) THEN k ELSE None

\* Update, up to GetUserByID: an account of one's own, or any for an administrator.
Update(r, t, a, k) ==
  /\ Start(r, t.role)
  /\ Bearing(t) /\ (Admits(t) \/ t.sub = a)
  /\ a \in users
  /\ asked' = [asked EXCEPT ![r] = Wanted(t, k)]
  /\ Copy(r, a) /\ Goto(r, "store")
  /\ UNCHANGED <<now, tableVars, listed, tokens, person, decided, closed, disturbed,
                 joined, vouched, held>>

\* The role UpdateUser will write.
ChosenRole(r) == IF asked[r] = None THEN loaded[r] ELSE asked[r]

\* Update: UpdateUser writes the whole copy; then perhaps a password.
Store(r) ==
  LET a      == subject[r]
      given  == bearer[r] = Administrator /\ asked[r] # None
      chosen == ChosenRole(r)
  IN
  /\ at[r] = "store"
  /\ WriteBack(r, chosen)
  /\ decided' = IF given THEN [decided EXCEPT ![a] = chosen] ELSE decided
  /\ disturbed' = [disturbed EXCEPT ![a] =
                     IF given THEN (@ \cup stale[r]) \ {"role"} ELSE @ \cup stale[r]]
  /\ IF given THEN Decide(a, {"role"}) ELSE UNCHANGED stale
  /\ Remember(active', role', now)
  /\ \/ Goto(r, "password")
     \/ bearer[r] = Administrator /\ Done(r)
  /\ UNCHANGED <<now, users, oid, hashed, listed, tokens, bearer, subject, person, asked,
                 loaded, live, requests, closed, joined, vouched>>

\* UpdatePassword
SetPassword(r) ==
  /\ at[r] = "password"
  /\ hashed' = hashed \cup {subject[r]}
  /\ Done(r)
  /\ UNCHANGED <<now, users, role, active, oid, listed, tokens, bearer, subject, person,
                 asked, loaded, live, requests, historyVars, held>>

\* Delete: DeleteUser is one statement.
Delete(t, a) ==
  /\ requests < MaxRequests
  /\ requests' = requests + 1
  /\ Bearing(t) /\ Admits(t)
  /\ a \in users
  /\ active' = active \ {a}
  /\ closed' = closed \cup {a}
  /\ disturbed' = [disturbed EXCEPT ![a] = @ \ {"active"}]
  /\ Decide(a, {"active"})
  /\ Remember(active', role, now)
  /\ UNCHANGED <<now, users, role, oid, hashed, listed, tokens, at, bearer, subject,
                 person, asked, loaded, live, decided, joined, vouched>>

\* The command createuser: one upsert.  A new account is an administrator's, a
\* known one is active again, with a password, and keeps its role and its id.
UpsertUser(a) ==
  /\ requests < MaxRequests
  /\ requests' = requests + 1
  /\ users' = users \cup {a} /\ active' = active \cup {a} /\ hashed' = hashed \cup {a}
  /\ IF a \in users
     THEN UNCHANGED <<role, decided>>
     ELSE /\ role' = [role EXCEPT ![a] = Administrator]
          /\ decided' = [decided EXCEPT ![a] = Administrator]
  /\ closed' = closed \ {a}
  /\ disturbed' = [disturbed EXCEPT ![a] = @ \ {"active"}]
  /\ Decide(a, {"active"})
  /\ Remember(active', role', now)
  /\ UNCHANGED <<now, oid, listed, tokens, requestVars, joined, vouched>>

\* isAdmin compares with a name that is not the role's.
IsAdmin(t) == t.role = "admin"

\* List, Add and Remove of domains.go, behind RequireRole and isAdmin.
ManageDomains(t, d) ==
  /\ requests < MaxRequests
  /\ requests' = requests + 1
  /\ Bearing(t) /\ Admits(t)
  /\ IF IsAdmin(t)
     THEN /\ listed' \in {listed, listed \cup {d}, listed \ {d}}
          /\ vouched' = vouched \cup listed'
     ELSE UNCHANGED <<listed, vouched>>  \* 403
  /\ UNCHANGED <<now, tableVars, tokens, requestVars, decided, closed, stale, disturbed,
                 joined, held>>

-----------------------------------------------------------------------------
\* A statement fails and the answer is 500, or the instance stops.  Tokens are
\* signed, not stored: they outlive it.
Fail(r) ==
  /\ at[r] # "idle"
  /\ Done(r)
  /\ UNCHANGED <<now, tableVars, listed, tokens, bearer, subject, person, asked, loaded,
                 live, requests, historyVars, held>>

\* Ticks are hours; no request lasts from one to the next.
Tick ==
  /\ now < LastTick
  /\ \A r \in Slot : at[r] = "idle"
  /\ now' = now + 1
  /\ Remember(active, role, now')
  /\ UNCHANGED <<tableVars, listed, tokens, requestVars, requests, historyVars>>

Next ==
  \/ \E r \in Slot :
       \/ \E a \in Address : Login(r, a)
       \/ \E p \in Person, a \in Address : MicrosoftLogin(r, p, a)
       \/ CheckDomain(r) \/ FindByOid(r) \/ FindByEmail(r) \/ Link(r)
       \/ Insert(r) \/ Furnish(r) \/ Issue(r)
       \/ \E t \in tokens, a \in Address :
            \/ \E k \in Role : Create(r, t, a, k)
            \/ \E k \in Role \cup {None} : Update(r, t, a, k)
       \/ Store(r) \/ SetPassword(r) \/ Fail(r)
  \/ \E t \in tokens :
       \/ \E a \in Address : Delete(t, a)
       \/ \E d \in Domain : ManageDomains(t, d)
  \/ \E a \in Address : UpsertUser(a)
  \/ Tick

Spec == Init /\ [][Next]_vars

-----------------------------------------------------------------------------
(* Properties *)

\* What administrators decided about an account stands: its role is the one it
\* was created with or last given, and it is active exactly when it was not
\* deactivated since createuser last let it in, unless a request that read the
\* row before a decision wrote its copy over it (UpdateUser of an update or of a
\* sign-in writes every column it read).
DecisionsStand ==
  \A a \in users :
    /\ "role" \notin disturbed[a] => role[a] = decided[a]
    /\ "active" \notin disturbed[a] => (a \in active <=> a \notin closed)

\* Nobody gets an account by signing in from a domain that was never listed, even
\* when the account that let the address through is deactivated meanwhile:
\* CreateUser then meets the UNIQUE address.
AccountsAreVouched == \A a \in joined : DomainOf[a] \in vouched

\* Whoever a token lets in was an active account of the token's role less than
\* a token's lifetime ago.  The role is read from the token alone, so this is
\* all that a demotion or a deactivation is worth until then.
TokensLapse == \A t \in tokens : Valid(t) => now < held[t.sub][t.role] + Lifetime

-----------------------------------------------------------------------------
(* The inductive invariants *)

\* A request about to write its copy back has what was decided, except for the
\* columns decided since it read the row or disturbed before; only who may give a
\* role asks for one.
CopiesFollowDecisions ==
  \A r \in Slot : at[r] \in {"link", "store"} =>
    LET a == subject[r] IN
    /\ a \in users
    /\ "role" \notin stale[r] \cup disturbed[a] => loaded[r] = decided[a]
    /\ "active" \notin stale[r] \cup disturbed[a] => (r \in live <=> a \notin closed)
    /\ at[r] = "store" /\ asked[r] # None => bearer[r] = Administrator

\* A sign-in past IsEmailAllowed is of a known address or of a domain once listed.
SignInsAreVouched ==
  /\ listed \subseteq vouched
  /\ \A r \in Slot : at[r] \in {"oid", "email", "insert"} /\ person[r] # None =>
       subject[r] \in users \/ DomainOf[subject[r]] \in vouched

\* A token lives no longer than a lifetime from when its account had its role, and
\* a request about to issue one has that account and role of this very tick.
TokensFollowAccounts ==
  /\ \A a \in Address, k \in Role : held[a][k] <= now
  /\ \A a \in active : held[a][role[a]] = now
  /\ \A r \in Slot :
       at[r] \in {"link", "issue"} \/ (at[r] = "furnish" /\ person[r] # None) =>
         held[subject[r]][loaded[r]] = now
  /\ \A t \in tokens : t.exp <= held[t.sub][t.role] + Lifetime
=============================================================================
