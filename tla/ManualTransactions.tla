------------------------- MODULE ManualTransactions -------------------------
(***************************************************************************)
(* The transactions table between its two writers: the users' Create,      *)
(* Update and Delete (src/internal/handler/transactions.go) and the        *)
(* receipts a sync imports (saveVouchers, savePaymentReceipts).            *)
(*                                                                         *)
(* The handlers read before they write and hold nothing in between: Create *)
(* asks NextManualReference for a number and inserts it later; Update and  *)
(* Delete check the row's source and act on the row later.  Each statement *)
(* of the Postgres store is one step, and requests and imports interleave  *)
(* between them.                                                           *)
(* Only one prefix is modelled: rows of the other never match its LIKE.    *)
(***************************************************************************)
EXTENDS Integers, FiniteSets

CONSTANTS
  Client,     \* bound: requests that may be in progress at once
  MaxRows,    \* bound: rows ever inserted
  MaxNumber,  \* bound: numbers handed out
  Receipt,    \* Siigo's receipts (RC and RP), by external_id
  Content,    \* what else a row holds
  Typed,      \* references a client may write in a body
  Nothing     \* no row, no receipt, no content, no request

\* A reference: none, Siigo's own, or "MM-" and what follows it.
Reference ==
  [form : {"none", "siigo", "padded", "unpadded", "text"}, n : 0 .. MaxNumber]
Ref(form, n) == [form |-> form, n |-> n]
NoReference  == Ref("none", 0)

ASSUME BoundAssumption == MaxRows \in Nat /\ MaxNumber \in Nat \ {0}
ASSUME TypedAssumption ==
  \A t \in Typed : t \in Reference /\ t.form \in {"padded", "unpadded", "text"}
ASSUME NothingAssumption == Nothing \notin Receipt \cup Content

Id     == 1 .. MaxRows
Source == {"Siigo", "Manual"}

Row ==
  [source : Source, ref : Reference, content : Content,
   ext : Receipt \cup {Nothing}]

\* op: "idle", or what the request read and has yet to act on.
Request ==
  [op : {"idle", "create", "update", "delete"},
   id : 0 .. MaxRows,        \* row read
   ref : Reference,          \* number read, or the row's reference
   rivals : SUBSET Id,       \* history: rows written since the number was read
   stray : BOOLEAN]          \* history: whether it was read with a stray about

ASSUME NoRowAssumption == Nothing \notin Row

VARIABLES
  rows,     \* id -> row or Nothing
  minted,   \* ids given so far; they are UUIDs, never given twice
  request,  \* client -> its request
  given     \* history: receipt -> content its last import carried, from
            \* the import that inserted its row on

manualVars == <<rows, minted, request, given>>

Idle == [op |-> "idle", id |-> 0, ref |-> NoReference, rivals |-> {},
         stray |-> FALSE]
Live == {i \in Id : rows[i] # Nothing}

ManualTypeOK ==
  /\ rows \in [Id -> Row \cup {Nothing}]
  /\ minted \in 0 .. MaxRows
  /\ request \in [Client -> Request]
  /\ given \in [Receipt -> Content \cup {Nothing}]
  /\ \A i \in Id : i > minted => rows[i] = Nothing

ManualInit ==
  /\ rows = [i \in Id |-> Nothing]
  /\ minted = 0
  /\ request = [c \in Client |-> Idle]
  /\ given = [x \in Receipt |-> Nothing]

-----------------------------------------------------------------------------
(* References *)

\* References LIKE 'MM-%', in the order of ORDER BY reference: six digits
\* begin with a 0 until 100000, so a bare digit comes after every padded
\* number and a letter after every digit.  Bare numbers have one digit here.
Numbered     == {i \in Live : rows[i].ref.form \in {"padded", "unpadded", "text"}}
Weight(form) == CASE form = "padded" -> 0 [] form = "unpadded" -> 1 [] OTHER -> 2
Before(p, q) == \/ Weight(p.form) < Weight(q.form)
                \/ Weight(p.form) = Weight(q.form) /\ p.n <= q.n

\* Sscanf leaves n at 0 when what follows the prefix is not a number.
Scanned(ref) == IF ref.form = "text" THEN 0 ELSE ref.n

\* Variant: the next number is the number of rows that have one.
LastNumberCounting(n) == n = Cardinality(Numbered)

\* NextManualReference reads n + 1.
LastNumber(n) ==
  \/ Numbered = {} /\ n = 0
  \/ \E i \in Numbered : /\ \A j \in Numbered : Before(rows[j].ref, rows[i].ref)
                         /\ n = Scanned(rows[i].ref)

\* A reference that is not padded comes last, and then its number leads.
StrayAbout == \E i \in Numbered : rows[i].ref.form # "padded"

-----------------------------------------------------------------------------
(* Requests *)

End(c) == request' = [request EXCEPT ![c] = Idle]

\* A row is written: every creation under way gets it as a rival.
Rivalled(i, others) ==
  request' = [d \in DOMAIN others |->
     IF others[d].op = "create"
     THEN [others[d] EXCEPT !.rivals = @ \cup {i}] ELSE others[d]]

\* INSERT: a fresh id.
Insert(row, others) ==
  /\ minted < MaxRows
  /\ minted' = minted + 1
  /\ rows' = [rows EXCEPT ![minted + 1] = row]
  /\ Rivalled(minted + 1, others)

\* Create without a reference in a manual body: the number is read first.
ReadNumber(c) ==
  /\ request[c] = Idle
  /\ \E n \in 0 .. MaxNumber - 1 :
       /\ LastNumber(n)
       /\ request' = [request EXCEPT ![c] =
             [op |-> "create", id |-> 0, ref |-> Ref("padded", n + 1), rivals |-> {},
              stray |-> StrayAbout]]
  /\ UNCHANGED <<rows, minted, given>>

\* external_id is UNIQUE, and Create stores the one the body names, if any:
\* naming a receipt's is refused (500, see Fail) once a row has it.
Fresh(ext) == ext = Nothing \/ \A i \in Live : rows[i].ext # ext

StoreNumbered(c, content, ext) ==
  /\ request[c].op = "create"
  /\ Fresh(ext)
  /\ Insert([source |-> "Manual", ref |-> request[c].ref,
             content |-> content, ext |-> ext],
            [request EXCEPT ![c] = Idle])
  /\ UNCHANGED given

\* Create with a reference in the body, or with another source: one statement.
StoreAsGiven(c, source, ref, content, ext) ==
  /\ request[c] = Idle
  /\ source = "Manual" => ref # NoReference
  /\ Fresh(ext)
  /\ Insert([source |-> source, ref |-> ref, content |-> content, ext |-> ext],
            request)
  /\ UNCHANGED given

Editable(i) == i \in Live /\ rows[i].source # "Siigo"

\* Variant: the source of the row is not looked at.
LoadAny(c, i, op) ==
  /\ request[c] = Idle /\ i \in Live
  /\ request' = [request EXCEPT ![c] =
        [op |-> op, id |-> i, ref |-> rows[i].ref, rivals |-> {},
         stray |-> FALSE]]
  /\ UNCHANGED <<rows, minted, given>>

\* GetTransactionByID; a missing row (404) or a Siigo row (403) ends there.
Load(c, i, op) ==
  /\ request[c] = Idle
  /\ Editable(i)
  /\ request' = [request EXCEPT ![c] =
        [op |-> op, id |-> i, ref |-> rows[i].ref, rivals |-> {},
         stray |-> FALSE]]
  /\ UNCHANGED <<rows, minted, given>>

\* The body replaces the row, source and reference included; external_id
\* stays.  A row deleted meanwhile is not recreated, and the answer is 200.
WriteUpdate(c, source, ref, content) ==
  LET i == request[c].id IN
  /\ request[c].op = "update"
  /\ \/ /\ i \in Live
        /\ rows' = [rows EXCEPT ![i] = [@ EXCEPT !.source = source, !.ref = ref,
                                                 !.content = content]]
        /\ Rivalled(i, [request EXCEPT ![c] = Idle])
     \/ /\ i \notin Live
        /\ End(c)
        /\ UNCHANGED rows
  /\ UNCHANGED <<minted, given>>

Remove(c) ==
  /\ request[c].op = "delete"
  /\ rows' = [rows EXCEPT ![request[c].id] = Nothing]
  /\ End(c)
  /\ UNCHANGED <<minted, given>>

\* The statement fails: 500, nothing stored, the number read is dropped.
Fail(c) ==
  /\ request[c] # Idle
  /\ End(c)
  /\ UNCHANGED <<rows, minted, given>>

-----------------------------------------------------------------------------
(* The sync *)

\* ImportTransaction: INSERT ... ON CONFLICT (external_id) DO UPDATE, which
\* leaves id, source and type alone: a row a user gave this external_id stays
\* the user's.
ImportReceipt(x, content) ==
  \/ /\ Fresh(x)
     /\ Insert([source |-> "Siigo", ref |-> Ref("siigo", 0),
                content |-> content, ext |-> x], request)
     /\ given' = [given EXCEPT ![x] = content]
  \/ \E i \in Live :
       /\ rows[i].ext = x
       /\ rows' = [rows EXCEPT ![i] = [@ EXCEPT !.content = content,
                                                !.ref = Ref("siigo", 0)]]
       /\ given' = [given EXCEPT ![x] = IF @ = Nothing THEN @ ELSE content]
       /\ UNCHANGED <<minted, request>>

ManualNext ==
  \/ \E c \in Client :
       \/ \E content \in Content :
            \/ \E ext \in Receipt \cup {Nothing} :
                 \/ StoreNumbered(c, content, ext)
                 \/ \E source \in Source, ref \in Typed \cup {NoReference} :
                      StoreAsGiven(c, source, ref, content, ext)
            \/ \E source \in Source, ref \in Typed \cup {NoReference, request[c].ref} :
                 WriteUpdate(c, source, ref, content)
       \/ \E i \in Id, op \in {"update", "delete"} : Load(c, i, op)
       \/ ReadNumber(c)
       \/ Remove(c)
       \/ Fail(c)
  \/ \E x \in Receipt, content \in Content : ImportReceipt(x, content)

ManualSpec == ManualInit /\ [][ManualNext]_manualVars

-----------------------------------------------------------------------------
(* Properties *)

\* "Las transacciones de Siigo no pueden ser modificadas / eliminadas": once
\* an import has inserted a receipt's row, the receipt has exactly one row for
\* ever, the sync's, and it holds what the last import carried, whatever users
\* create, edit and delete in between, external_id included, and however late
\* their updates and deletions land.  A user who stored the external_id before
\* that import keeps the row: nothing is said of that receipt.
ReceiptsBelongToSync ==
  \A x \in Receipt : given[x] # Nothing =>
    /\ \E i \in Live : rows[i].ext = x
    /\ \A i, j \in Live : rows[i].ext = x /\ rows[j].ext = x =>
         i = j /\ rows[i].source = "Siigo" /\ rows[i].content = given[x]

\* "NextManualReference returns the next sequential reference": the number a
\* creation is about to store is on no row, live or edited, imported or typed by
\* a client, but rows written since the creation read it; unless a reference
\* that is not zero-padded was in the table then, which takes the lead for
\* good.  Deletions never make the numbering step back onto a number in use.
SharedNumberNeedsOverlap ==
  \A c \in Client, i \in Live :
    request[c].op = "create" /\ rows[i].ref = request[c].ref
      => i \in request[c].rivals \/ request[c].stray

=============================================================================
