------------------------------- MODULE Server -------------------------------
(***************************************************************************)
(* An instance of the service from its start to its stop: RunMigrations of *)
(* src/internal/db/db.go and then the small handlers that keep something   *)
(* of their own, the categories of src/internal/handler/settings.go, the   *)
(* exchange rates of exchange.go and the bank balance of dashboard.go.     *)
(*                                                                         *)
(* During a deployment two instances of different builds run over one      *)
(* database, and the host may stop either at any point.  A migration is    *)
(* applied by one statement and recorded by another; a category is checked *)
(* by one and inserted by another; rates are fetched with no lock held and *)
(* no timeout, so days may pass.                                           *)
(* A migration file is executed whole (one implicit transaction) and, as   *)
(* all of them are written with IF [NOT] EXISTS, may run again.            *)
(* Definitions commented "Variant" are bugs the next definition could have *)
(* had; they are not part of the specification.                            *)
(***************************************************************************)
EXTENDS Integers, FiniteSets

CONSTANTS
  Instance,   \* instances
  Build,      \* instance -> how many migration files its build embeds
  File,       \* the migration files, 1 .. n
  Request,    \* requests in progress at a time
  Name,       \* names of categories
  Fold,       \* name -> what strings.EqualFold compares
  None,       \* no instance, no name
  Legacy,     \* bank_balance rows from before the id was pinned
  LastDay,    \* bound: time
  MaxStops,   \* bound: stops of instances
  MaxSaves    \* bound: saves of the bank balance

ASSUME FileAssumption   == File \subseteq Nat /\ Build \in [Instance -> Nat]
ASSUME NameAssumption   == DOMAIN Fold = Name
ASSUME NoneAssumption   == None \notin Instance \cup Name
ASSUME LegacyAssumption == Legacy \subseteq Nat /\ 1 \notin Legacy
ASSUME BoundAssumption  == {LastDay, MaxStops, MaxSaves} \subseteq Nat

VARIABLES
  day,         \* time, in days of Colombia
  stops,       \* stops so far
  applied,     \* files whose changes the schema has
  recorded,    \* schema_migrations
  at,          \* instance -> where its start is
  known,       \* instance -> the files it takes for applied
  file,        \* instance -> the file it applied last, or 0
  categories,  \* names in the table
  on,          \* request -> the instance that serves it, or None
  wants,       \* request -> the name it checked, or None if it fetches rates
  copy,        \* request -> the rates it has fetched, by their day, or Never
  rates,       \* instance -> the rates it keeps, by their day, or Never
  fetchedAt,   \* instance -> when it kept them
  balance,     \* bank_balance: id -> day and number of the save
  saves,       \* saves so far
  raced,       \* history: request -> names inserted since it checked its own
  twins,       \* history: names inserted though a twin was inserted meanwhile
  late         \* history: requests fetching while another of their instance ended its fetch

startVars   == <<applied, recorded, at, known, file>>
requestVars == <<categories, on, wants, copy, raced, twins>>
rateVars    == <<rates, fetchedAt, late>>
vars == <<day, stops, startVars, requestVars, rateVars, balance, saves>>

-----------------------------------------------------------------------------
Never     == -1
Files(i)  == {f \in File : f <= Build[i]}
Starting  == {"migrating", "recording"}
Serving(i) == at[i] = "serving"
Day       == 0 .. LastDay

TypeOK ==
  /\ day \in Day /\ stops \in 0 .. MaxStops /\ saves \in 0 .. MaxSaves
  /\ applied \subseteq File /\ recorded \subseteq File
  /\ at \in [Instance -> Starting \cup {"down", "serving"}]
  /\ known \in [Instance -> SUBSET File] /\ file \in [Instance -> File \cup {0}]
  /\ \A i \in Instance : at[i] = "recording" => file[i] \in File
  /\ categories \subseteq Name /\ twins \subseteq Name
  /\ on \in [Request -> Instance \cup {None}] /\ wants \in [Request -> Name \cup {None}]
  /\ copy \in [Request -> Day \cup {Never}] /\ raced \in [Request -> SUBSET Name]
  /\ rates \in [Instance -> Day \cup {Never}] /\ fetchedAt \in [Instance -> Day]
  /\ balance \in [DOMAIN balance -> [day : Day \cup {Never}, save : Nat]]
  /\ DOMAIN balance \subseteq Legacy \cup {1}
  /\ late \subseteq Request

Init ==
  /\ day = 0 /\ stops = 0 /\ saves = 0
  /\ applied = {} /\ recorded = {}
  /\ at = [i \in Instance |-> "down"] /\ known = [i \in Instance |-> {}]
  /\ file = [i \in Instance |-> 0]
  /\ categories = {} /\ twins = {}
  /\ on = [r \in Request |-> None] /\ wants = [r \in Request |-> None]
  /\ copy = [r \in Request |-> Never] /\ raced = [r \in Request |-> {}]
  /\ rates = [i \in Instance |-> Never] /\ fetchedAt = [i \in Instance |-> 0]
  /\ balance = [id \in Legacy |-> [day |-> Never, save |-> 0]]
  /\ late = {}

-----------------------------------------------------------------------------
(* Starting *)

\* Variant: the versions are not read.
StartBlind(i) ==
  /\ at[i] = "down"
  /\ at' = [at EXCEPT ![i] = "migrating"]
  /\ UNCHANGED <<day, stops, applied, recorded, known, file, requestVars, rateVars, balance, saves>>
\* RunMigrations creates the table of versions if there is none and reads it.
Start(i) ==
  /\ at[i] = "down"
  /\ at' = [at EXCEPT ![i] = "migrating"]
  /\ known' = [known EXCEPT ![i] = recorded]
  /\ UNCHANGED <<day, stops, applied, recorded, file, requestVars, rateVars, balance, saves>>

Pending(i) == Files(i) \ known[i]

\* Variant: the files as the directory lists them.
AnyOf(i, f) == f \in Pending(i)
\* Files are applied in the order of their names.
IsNext(i, f) == f \in Pending(i) /\ \A g \in Pending(i) : f <= g

Apply(i) ==
  /\ at[i] = "migrating"
  /\ \E f \in File :
       /\ IsNext(i, f)
       /\ applied' = applied \cup {f}
       /\ file' = [file EXCEPT ![i] = f]
  /\ at' = [at EXCEPT ![i] = "recording"]
  /\ UNCHANGED <<day, stops, recorded, known, requestVars, rateVars, balance, saves>>

\* The version is the primary key: whoever comes second gets an error, and main
\* ends the process.
Record(i) ==
  /\ at[i] = "recording"
  /\ IF file[i] \in recorded
     THEN at' = [at EXCEPT ![i] = "down"] /\ UNCHANGED <<recorded, known>>
     ELSE /\ recorded' = recorded \cup {file[i]}
          /\ known' = [known EXCEPT ![i] = @ \cup {file[i]}]
          /\ at' = [at EXCEPT ![i] = "migrating"]
  /\ file' = [file EXCEPT ![i] = 0]
  /\ UNCHANGED <<day, stops, applied, requestVars, rateVars, balance, saves>>

\* Nothing is pending: the store, the handlers and the listener.
Serve(i) ==
  /\ at[i] = "migrating" /\ Pending(i) = {}
  /\ at' = [at EXCEPT ![i] = "serving"]
  /\ UNCHANGED <<day, stops, applied, recorded, known, file, requestVars, rateVars, balance, saves>>

\* The host stops the instance, or a statement of its start fails: its requests
\* and its rates are gone.
Stop(i) ==
  /\ at[i] # "down"
  /\ stops < MaxStops
  /\ stops' = stops + 1
  /\ at' = [at EXCEPT ![i] = "down"]
  /\ on' = [r \in Request |-> IF on[r] = i THEN None ELSE on[r]]
  /\ wants' = [r \in Request |-> IF on[r] = i THEN None ELSE wants[r]]
  /\ copy' = [r \in Request |-> IF on[r] = i THEN Never ELSE copy[r]]
  /\ rates' = [rates EXCEPT ![i] = Never] /\ fetchedAt' = [fetchedAt EXCEPT ![i] = 0]
  /\ late' = {r \in late : on[r] # i}
  /\ known' = [known EXCEPT ![i] = {}] /\ file' = [file EXCEPT ![i] = 0]
  /\ UNCHANGED <<day, applied, recorded, categories, raced, twins, balance, saves>>

-----------------------------------------------------------------------------
\* Request r has its answer.
Finish(r) ==
  /\ on' = [on EXCEPT ![r] = None]
  /\ wants' = [wants EXCEPT ![r] = None]
  /\ copy' = [copy EXCEPT ![r] = Never]

(* Categories *)

\* Variant: names are compared as the UNIQUE constraint does.
SameName(n, m) == n = m
\* strings.EqualFold
Alike(n, m) == Fold[n] = Fold[m]

\* CreateCategory: 409 if a name that differs in case only is taken.
CheckCategory(r, i, n) ==
  /\ on[r] = None /\ Serving(i)
  /\ \A m \in categories : ~Alike(n, m)
  /\ on' = [on EXCEPT ![r] = i]
  /\ wants' = [wants EXCEPT ![r] = n]
  /\ raced' = [raced EXCEPT ![r] = {}]
  /\ UNCHANGED <<day, stops, startVars, categories, copy, twins, rateVars, balance, saves>>

\* The insert: the UNIQUE constraint is on the name as written (500).
InsertCategory(r) ==
  LET n == wants[r] IN
  /\ on[r] # None /\ n # None
  /\ Finish(r)
  /\ IF n \in categories
     THEN UNCHANGED <<categories, raced, twins>>
     ELSE /\ categories' = categories \cup {n}
          /\ raced' = [q \in Request |-> IF wants[q] = None THEN {} ELSE raced[q] \cup {n}]
          /\ twins' = IF \E m \in raced[r] : Fold[m] = Fold[n] THEN twins \cup {n} ELSE twins
  /\ UNCHANGED <<day, stops, startVars, rateVars, balance, saves>>

-----------------------------------------------------------------------------
(* Exchange rates *)

\* GetRates: nothing kept, or kept more than 24 hours ago.  Fresh ones are answered
\* at once, which changes nothing.
Old(i) == rates[i] = Never \/ day - fetchedAt[i] > 1

StartFetch(r, i) ==
  /\ on[r] = None /\ Serving(i) /\ Old(i)
  /\ on' = [on EXCEPT ![r] = i]
  /\ UNCHANGED <<day, stops, startVars, categories, wants, copy, raced, twins, rateVars, balance, saves>>

Fetching(r) == on[r] # None /\ wants[r] = None

\* The answer arrives.
Fetch(r) ==
  /\ Fetching(r) /\ copy[r] = Never
  /\ copy' = [copy EXCEPT ![r] = day]
  /\ UNCHANGED <<day, stops, startVars, categories, on, wants, raced, twins, rateVars, balance, saves>>

\* Variant: what came is kept though it is nothing.
KeepNothing(r) ==
  /\ Fetching(r) /\ copy[r] = Never
  /\ rates' = [rates EXCEPT ![on[r]] = Never]
  /\ Finish(r)
  /\ late' = late \ {r}
  /\ UNCHANGED <<day, stops, startVars, categories, raced, twins, fetchedAt, balance, saves>>
\* None arrives: the rates the request found, or 502.
FailFetch(r) ==
  /\ Fetching(r) /\ copy[r] = Never
  /\ Finish(r)
  /\ late' = late \ {r}
  /\ UNCHANGED <<day, stops, startVars, categories, raced, twins, rates, fetchedAt, balance, saves>>

\* The lock is taken, whatever others have kept meanwhile.
Keep(r) ==
  /\ Fetching(r) /\ copy[r] # Never
  /\ rates' = [rates EXCEPT ![on[r]] = copy[r]]
  /\ fetchedAt' = [fetchedAt EXCEPT ![on[r]] = day]
  /\ late' = (late \cup {q \in Request : Fetching(q) /\ on[q] = on[r]}) \ {r}
  /\ Finish(r)
  /\ UNCHANGED <<day, stops, startVars, categories, raced, twins, balance, saves>>

-----------------------------------------------------------------------------
(* Bank balance *)

\* SetBankBalance replaces the row of id 1.
SaveBalance ==
  /\ \E i \in Instance : Serving(i)
  /\ saves < MaxSaves
  /\ saves' = saves + 1
  /\ balance' = [id \in DOMAIN balance \cup {1} |->
                   IF id = 1 THEN [day |-> day, save |-> saves + 1] ELSE balance[id]]
  /\ UNCHANGED <<day, stops, startVars, requestVars, rateVars>>

\* Variant: the row of the largest id.
Largest(id) == \A o \in DOMAIN balance : o <= id
\* GetBankBalance: the row updated last, the largest id among equals.
Latest(id) ==
  \A o \in DOMAIN balance :
    \/ balance[o].day < balance[id].day
    \/ balance[o].day = balance[id].day /\ o <= id

\* The save shown today: isSameDayCO.
Shown == {balance[id].save : id \in {d \in DOMAIN balance : Latest(d) /\ balance[d].day = day}}

-----------------------------------------------------------------------------
Midnight ==
  /\ day < LastDay
  /\ day' = day + 1
  /\ UNCHANGED <<stops, startVars, requestVars, rateVars, balance, saves>>

Step(i) == Start(i) \/ Apply(i) \/ Record(i) \/ Serve(i)

Next ==
  \/ \E i \in Instance : Step(i) \/ Stop(i)
  \/ \E r \in Request, i \in Instance :
       StartFetch(r, i) \/ \E n \in Name : CheckCategory(r, i, n)
  \/ \E r \in Request : InsertCategory(r) \/ Fetch(r) \/ FailFetch(r) \/ Keep(r)
  \/ SaveBalance \/ Midnight

Spec == Init /\ [][Next]_vars

\* The host starts a stopped instance again and a running one goes on.
FairSpec == Spec /\ \A i \in Instance : WF_vars(Step(i))

-----------------------------------------------------------------------------
(* Properties *)

\* Whatever stops and however two starts overlap, the schema has the files in
\* their order and without gaps, only applied ones are recorded, and an instance
\* that serves finds all the files of its build applied and recorded.
SchemaInOrder ==
  /\ \A f \in applied, g \in File : g < f => g \in applied
  /\ recorded \subseteq applied
  /\ \A i \in Instance : Serving(i) => Files(i) \subseteq recorded

\* Two instances that start together may end each other, by the primary key of
\* schema_migrations; still each serves for good in the end.
StartsServe == \A i \in Instance : <>[]Serving(i)

\* Two categories whose names differ in case only were created by requests that
\* overlapped: the check is case-insensitive, the constraint is not.
TwinsNeedOverlap ==
  \A n, m \in categories : n # m /\ Fold[n] = Fold[m] => n \in twins \/ m \in twins

\* The rates an instance keeps go back in time only when two fetches overlapped:
\* the lock is not held meanwhile and the later write wins.
RatesGoForward ==
  [][\A i \in Instance :
       at'[i] = "serving" /\ rates'[i] < rates[i] =>
         \E r \in late : on[r] = i /\ on'[r] = None]_vars

\* The balance shown is the last one saved, if that was today; rows left over
\* from before the id was pinned never come back.
BalanceIsLastSaved ==
  Shown = IF saves > 0 /\ balance[1].day = day THEN {saves} ELSE {}

-----------------------------------------------------------------------------
(* The inductive invariants *)

\* What an instance takes for applied is recorded; what it is about to record is
\* applied; what is applied has no gaps.
StartsFollowSchema ==
  /\ \A f \in applied, g \in File : g < f => g \in applied
  /\ recorded \subseteq applied
  /\ \A i \in Instance :
       /\ known[i] \subseteq recorded
       /\ at[i] = "recording" => file[i] \in applied
       /\ Serving(i) => Files(i) \subseteq known[i]

\* A request that is about to insert a name knows of every twin in the table.
ChecksHoldUnlessRaced ==
  /\ \A r \in Request : wants[r] # None =>
       \A m \in categories : Alike(wants[r], m) => m \in raced[r]
  /\ TwinsNeedOverlap

\* Rates are not from the future, and a fetch that nobody overtook has newer ones.
FetchesGoForward ==
  /\ \A i \in Instance : rates[i] <= day
  /\ \A r \in Request :
       /\ copy[r] <= day
       /\ on[r] = None => copy[r] = Never
       /\ Fetching(r) /\ copy[r] # Never /\ r \notin late => rates[on[r]] <= copy[r]

\* The row of id 1 is there from the first save on; the others are never written.
RowsFollowSaves ==
  /\ \A id \in DOMAIN balance \ {1} : balance[id].day = Never
  /\ saves > 0 <=> 1 \in DOMAIN balance
  /\ saves > 0 => balance[1].save = saves /\ balance[1].day \in 0 .. day
=============================================================================
