---------------------------- MODULE StoreProofs ----------------------------
(***************************************************************************)
(* Theorems about the rows requests and runs write beside each other.      *)
(* ManualTransactions, for any number of requests, rows, receipts and      *)
(* contents, and whatever references and external ids clients write:       *)
(* types, that receipts belong to the sync, and that a number is handed    *)
(* out twice only by overlapping creations or with a stray reference       *)
(* about.  CustomerSync, for any number of third parties, runs and pages   *)
(* and any page size: its types and counting for any two clocks, what the  *)
(* sweep spares when the database's clock is not behind the server's, and  *)
(* that a quiet run mirrors Siigo when the two agree; the clock is a       *)
(* hypothesis of each theorem that needs it.                               *)
(***************************************************************************)
EXTENDS ManualTransactions, CustomerSync, FiniteSetTheorems, TLAPS

-----------------------------------------------------------------------------
(* Manual movements *)

\* What writing a row does to the requests: those under way with a creation
\* get it as a rival and keep the rest, the others stay as they are.
LEMMA RivalledKeeps ==
  ASSUME NEW i \in Id, NEW others \in [Client -> Request], Rivalled(i, others)
  PROVE  /\ request' \in [Client -> Request]
         /\ \A c \in Client : others[c].op # "create" => request'[c] = others[c]
         /\ \A c \in Client : others[c].op = "create" =>
              /\ request'[c].op = "create" /\ request'[c].ref = others[c].ref
              /\ request'[c].stray = others[c].stray
              /\ request'[c].rivals = others[c].rivals \cup {i}
<1>1. ASSUME NEW c \in Client
      PROVE  /\ [others[c] EXCEPT !.rivals = @ \cup {i}] \in Request
             /\ [others[c] EXCEPT !.rivals = @ \cup {i}].op = others[c].op
             /\ [others[c] EXCEPT !.rivals = @ \cup {i}].ref = others[c].ref
             /\ [others[c] EXCEPT !.rivals = @ \cup {i}].stray = others[c].stray
             /\ [others[c] EXCEPT !.rivals = @ \cup {i}].rivals = others[c].rivals \cup {i}
  BY DEF Request
<1>2. DOMAIN others = Client
  OBVIOUS
<1>3. request' \in [Client -> Request]
  BY <1>1, <1>2 DEF Rivalled
<1>4. \A c \in Client : others[c].op # "create" => request'[c] = others[c]
  BY <1>2 DEF Rivalled
<1>5. \A c \in Client : others[c].op = "create" =>
        request'[c] = [others[c] EXCEPT !.rivals = @ \cup {i}]
  BY <1>2 DEF Rivalled
<1> QED  BY <1>1, <1>3, <1>4, <1>5

\* Where an insertion puts its row.
LEMMA InsertedRow ==
  ASSUME ManualTypeOK, NEW row \in Row, NEW others \in [Client -> Request], Insert(row, others)
  PROVE  /\ minted' = minted + 1 /\ minted' \in Id /\ minted \in Nat
         /\ minted' \notin Live /\ Live' = Live \cup {minted'}
         /\ rows'[minted'] = row /\ \A i \in Live : rows'[i] = rows[i]
         /\ Rivalled(minted', others)
<1>1. minted' = minted + 1 /\ minted' \in Id /\ minted \in Nat /\ rows[minted'] = Nothing
  BY BoundAssumption DEF Insert, ManualTypeOK, Id
<1>2. rows' = [rows EXCEPT ![minted'] = row]
  BY <1>1 DEF Insert
<1>3. row # Nothing
  BY NoRowAssumption
<1> QED  BY <1>1, <1>2, <1>3 DEF Live, ManualTypeOK, Insert

\* An insertion keeps the types.
LEMMA InsertKeepsTypes ==
  ASSUME ManualTypeOK, NEW row \in Row, NEW others \in [Client -> Request],
         Insert(row, others)
  PROVE  /\ rows' \in [Id -> Row \cup {Nothing}]
         /\ minted' \in 0 .. MaxRows
         /\ request' \in [Client -> Request]
         /\ \A i \in Id : i > minted' => rows'[i] = Nothing
<1>1. minted + 1 \in Id
  BY BoundAssumption DEF ManualTypeOK, Insert, Id
<1>2. rows' \in [Id -> Row \cup {Nothing}]
  BY <1>1 DEF ManualTypeOK, Insert
<1>3. minted' \in 0 .. MaxRows
  BY BoundAssumption DEF ManualTypeOK, Insert
<1>4. request' \in [Client -> Request]
  BY <1>1, RivalledKeeps DEF Insert
<1>5. \A i \in Id : i > minted' => rows'[i] = Nothing
  BY <1>1, BoundAssumption DEF ManualTypeOK, Insert, Id
<1> QED  BY <1>2, <1>3, <1>4, <1>5

\* The references a row may carry, and the requests a client may go to.
LEMMA ReferencesTyped ==
  /\ NoReference \in Reference
  /\ Ref("siigo", 0) \in Reference
  /\ \A n \in 0 .. MaxNumber - 1 : Ref("padded", n + 1) \in Reference
  /\ Typed \subseteq Reference
  /\ Idle \in Request /\ Idle.op = "idle"
<1>1. 0 \in 0 .. MaxNumber /\ 0 \in 0 .. MaxRows
  BY BoundAssumption
<1>2. NoReference \in Reference /\ Ref("siigo", 0) \in Reference
  BY <1>1 DEF NoReference, Ref, Reference
<1>3. \A n \in 0 .. MaxNumber - 1 : Ref("padded", n + 1) \in Reference
  BY BoundAssumption DEF Ref, Reference
<1>4. Idle \in Request /\ Idle.op = "idle"
  BY <1>1, <1>2 DEF Idle, Request
<1> QED  BY <1>2, <1>3, <1>4, TypedAssumption

\* What an update makes of a live row.
LEMMA UpdatedRow ==
  ASSUME ManualTypeOK, NEW c \in Client, NEW content \in Content, NEW source \in Source,
         NEW ref \in Typed \cup {NoReference, request[c].ref},
         WriteUpdate(c, source, ref, content), request[c].id \in Live
  PROVE  LET i == request[c].id IN
         /\ rows'[i] \in Row /\ rows'[i].ext = rows[i].ext
         /\ Live' = Live /\ \A j \in Live : j # i => rows'[j] = rows[j]
         /\ rows' \in [Id -> Row \cup {Nothing}] /\ \A j \in Id : j > minted => rows'[j] = Nothing
         /\ Rivalled(i, [request EXCEPT ![c] = Idle])
<1> DEFINE i   == request[c].id
           new == [rows[i] EXCEPT !.source = source, !.ref = ref, !.content = content]
<1>1. rows' = [rows EXCEPT ![i] = new] /\ Rivalled(i, [request EXCEPT ![c] = Idle])
  BY DEF WriteUpdate
<1>2. rows[i] \in Row /\ i \in Id
  BY DEF Live, ManualTypeOK
<1>3. ref \in Reference
  BY ReferencesTyped DEF ManualTypeOK, Request
<1>4. new \in Row /\ new.ext = rows[i].ext
  BY <1>2, <1>3 DEF Row
<1>5. new # Nothing
  BY <1>4, NoRowAssumption
<1> HIDE DEF new
<1> QED  BY <1>1, <1>2, <1>4, <1>5 DEF Live, ManualTypeOK

\* Types, for any constants the assumptions allow.
THEOREM ManualTypesHold == ManualSpec => []ManualTypeOK
<1>1. ManualInit => ManualTypeOK
  <2> SUFFICES ASSUME ManualInit PROVE ManualTypeOK
    OBVIOUS
  <2>1. 0 \in 0 .. MaxRows
    BY BoundAssumption
  <2> QED  BY <2>1, ReferencesTyped DEF ManualInit, ManualTypeOK
<1>2. ManualTypeOK /\ [ManualNext]_manualVars => ManualTypeOK'
  <2> SUFFICES ASSUME ManualTypeOK, [ManualNext]_manualVars PROVE ManualTypeOK'
    OBVIOUS
  <2>0. ASSUME NEW c \in Client PROVE [request EXCEPT ![c] = Idle] \in [Client -> Request]
    BY ReferencesTyped DEF ManualTypeOK
  <2>1. ASSUME NEW c \in Client, ReadNumber(c) PROVE ManualTypeOK'
    <3>1. PICK n \in 0 .. MaxNumber - 1 :
            request' = [request EXCEPT ![c] =
               [op |-> "create", id |-> 0, ref |-> Ref("padded", n + 1), rivals |-> {},
                stray |-> StrayAbout]]
      BY <2>1 DEF ReadNumber
    <3>2. StrayAbout \in BOOLEAN
      BY DEF StrayAbout
    <3>3. [op |-> "create", id |-> 0, ref |-> Ref("padded", n + 1), rivals |-> {},
           stray |-> StrayAbout] \in Request
      BY <3>2, ReferencesTyped, BoundAssumption DEF Request
    <3>4. request' \in [Client -> Request]
      BY <3>1, <3>3 DEF ManualTypeOK
    <3> QED  BY <3>4, <2>1 DEF ReadNumber, ManualTypeOK
  <2>2. ASSUME NEW c \in Client, NEW content \in Content, NEW ext \in Receipt \cup {Nothing},
               StoreNumbered(c, content, ext)
        PROVE  ManualTypeOK'
    <3> DEFINE row == [source |-> "Manual", ref |-> request[c].ref,
             content |-> content, ext |-> ext]
    <3>1. request[c] \in Request
      BY DEF ManualTypeOK
    <3>2. row \in Row
      BY <3>1 DEF Row, Request, Source
    <3>3. Insert(row, [request EXCEPT ![c] = Idle])
      BY <2>2 DEF StoreNumbered
    <3> HIDE DEF row
    <3> QED  BY <3>2, <3>3, <2>0, <2>2, InsertKeepsTypes DEF StoreNumbered, ManualTypeOK
  <2>3. ASSUME NEW c \in Client, NEW content \in Content, NEW ext \in Receipt \cup {Nothing},
               NEW source \in Source, NEW ref \in Typed \cup {NoReference},
               StoreAsGiven(c, source, ref, content, ext)
        PROVE  ManualTypeOK'
    <3> DEFINE row == [source |-> source, ref |-> ref, content |-> content, ext |-> ext]
    <3>1. row \in Row
      BY ReferencesTyped DEF Row
    <3>2. Insert(row, request) /\ request \in [Client -> Request]
      BY <2>3 DEF StoreAsGiven, ManualTypeOK
    <3> HIDE DEF row
    <3> QED  BY <3>1, <3>2, <2>3, InsertKeepsTypes DEF StoreAsGiven, ManualTypeOK
  <2>4. ASSUME NEW c \in Client, NEW content \in Content, NEW source \in Source,
               NEW ref \in Typed \cup {NoReference, request[c].ref},
               WriteUpdate(c, source, ref, content)
        PROVE  ManualTypeOK'
    <3>1. CASE request[c].id \notin Live
      BY <2>0, <2>4, <3>1 DEF WriteUpdate, End, ManualTypeOK
    <3>2. CASE request[c].id \in Live
      <4>1. request[c].id \in Id
        BY <3>2 DEF Live
      <4>2. request' \in [Client -> Request]
        BY <4>1, <2>0, <2>4, <3>2, UpdatedRow, RivalledKeeps
      <4> QED  BY <4>2, <2>4, <3>2, UpdatedRow DEF WriteUpdate, ManualTypeOK
    <3> QED  BY <3>1, <3>2
  <2>5. ASSUME NEW c \in Client, NEW i \in Id, NEW op \in {"update", "delete"}, Load(c, i, op)
        PROVE  ManualTypeOK'
    <3>1. rows[i] \in Row
      BY <2>5 DEF Load, Editable, Live, ManualTypeOK
    <3>2. [op |-> op, id |-> i, ref |-> rows[i].ref, rivals |-> {}, stray |-> FALSE] \in Request
      BY <3>1, BoundAssumption DEF Request, Row, Id
    <3>3. request' \in [Client -> Request]
      BY <3>2, <2>5 DEF Load, ManualTypeOK
    <3> QED  BY <3>3, <2>5 DEF Load, ManualTypeOK
  <2>6. ASSUME NEW c \in Client, Remove(c) PROVE ManualTypeOK'
    <3>1. rows' \in [Id -> Row \cup {Nothing}] /\ \A j \in Id : j > minted => rows'[j] = Nothing
      BY <2>6 DEF Remove, ManualTypeOK
    <3> QED  BY <3>1, <2>0, <2>6 DEF Remove, End, ManualTypeOK
  <2>7. ASSUME NEW c \in Client, Fail(c) PROVE ManualTypeOK'
    BY <2>0, <2>7 DEF Fail, End, ManualTypeOK
  <2>8. ASSUME NEW x \in Receipt, NEW content \in Content, ImportReceipt(x, content)
        PROVE  ManualTypeOK'
    <3>1. given' \in [Receipt -> Content \cup {Nothing}]
      BY <2>8 DEF ImportReceipt, ManualTypeOK
    <3> DEFINE row == [source |-> "Siigo", ref |-> Ref("siigo", 0),
                   content |-> content, ext |-> x]
    <3>2. CASE Insert(row, request)
      <4>1. row \in Row /\ request \in [Client -> Request]
        BY ReferencesTyped DEF Row, Source, ManualTypeOK
      <4> HIDE DEF row
      <4> QED  BY <4>1, <3>1, <3>2, InsertKeepsTypes DEF ManualTypeOK
    <3>3. CASE \E i \in Live :
              /\ rows' = [rows EXCEPT ![i] = [@ EXCEPT !.content = content,
                                                       !.ref = Ref("siigo", 0)]]
              /\ UNCHANGED <<minted, request>>
      <4>1. PICK i \in Live :
              /\ rows' = [rows EXCEPT ![i] = [@ EXCEPT !.content = content,
                                                       !.ref = Ref("siigo", 0)]]
              /\ UNCHANGED <<minted, request>>
        BY <3>3
      <4>2. [rows[i] EXCEPT !.content = content, !.ref = Ref("siigo", 0)] \in Row
        BY ReferencesTyped DEF Row, Live, ManualTypeOK
      <4>3. rows' \in [Id -> Row \cup {Nothing}] /\ \A j \in Id : j > minted => rows'[j] = Nothing
        BY <4>1, <4>2 DEF ManualTypeOK, Live
      <4> QED  BY <4>1, <4>3, <3>1 DEF ManualTypeOK
    <3> QED  BY <2>8, <3>2, <3>3 DEF ImportReceipt
  <2>9. CASE UNCHANGED manualVars
    BY <2>9 DEF manualVars, ManualTypeOK
  <2> QED
    BY <2>1, <2>2, <2>3, <2>4, <2>5, <2>6, <2>7, <2>8, <2>9 DEF ManualNext
<1> QED  BY <1>1, <1>2, PTL DEF ManualSpec

-----------------------------------------------------------------------------
(* Receipts *)

\* What keeps late updates and deletions off the sync's rows: they were let
\* through for a row that was not the sync's, so the row is no receipt's, or it
\* is a user's and no import has inserted the receipt; and as long as that row
\* is there none will.
RequestsApart ==
  \A c \in Client : request[c].op \in {"update", "delete"} =>
    /\ request[c].id \in 1 .. minted
    /\ request[c].id \in Live =>
         \/ rows[request[c].id].ext = Nothing
         \/ given[rows[request[c].id].ext] = Nothing

ReceiptInvariant == RequestsApart /\ ReceiptsBelongToSync

\* One receipt's part of ReceiptsBelongToSync.
Kept(x) ==
  given[x] # Nothing =>
    /\ \E i \in Live : rows[i].ext = x
    /\ \A i, j \in Live : rows[i].ext = x /\ rows[j].ext = x =>
         i = j /\ rows[i].source = "Siigo" /\ rows[i].content = given[x]

\* An insertion by a user leaves the invariant alone: the row has no
\* external_id, or one no row has, so none the sync has inserted.
LEMMA InsertKeepsReceipts ==
  ASSUME ManualTypeOK, ReceiptInvariant, NEW row \in Row, NEW others \in [Client -> Request],
         Insert(row, others), Fresh(row.ext), UNCHANGED given,
         \A c \in Client : others[c] = request[c] \/ others[c] = Idle
  PROVE  ReceiptInvariant'
<1>1. /\ minted' = minted + 1 /\ minted' \in Id /\ minted \in Nat
      /\ minted' \notin Live /\ Live' = Live \cup {minted'}
      /\ rows'[minted'] = row /\ \A i \in Live : rows'[i] = rows[i]
      /\ Rivalled(minted', others)
  BY InsertedRow
<1>2. \A c \in Client : request'[c].op \in {"update", "delete"} => request'[c] = request[c]
  <2>1. \A c \in Client : request'[c].op \in {"update", "delete"} => request'[c] = others[c]
    BY <1>1, RivalledKeeps
  <2> QED  BY <2>1, ReferencesTyped
<1>3. row.ext = Nothing \/ given[row.ext] = Nothing
  BY DEF Row, Fresh, ReceiptInvariant, ReceiptsBelongToSync
<1>4. RequestsApart'
  <2> SUFFICES ASSUME NEW c \in Client, request'[c].op \in {"update", "delete"}
               PROVE  /\ request[c].id \in 1 .. minted'
                      /\ request[c].id \in Live' => \/ rows'[request[c].id].ext = Nothing
                                                   \/ given[rows'[request[c].id].ext] = Nothing
    BY <1>2 DEF RequestsApart
  <2>1. /\ request[c].id \in 1 .. minted
        /\ request[c].id \in Live => \/ rows[request[c].id].ext = Nothing
                                     \/ given[rows[request[c].id].ext] = Nothing
    BY <1>2 DEF ReceiptInvariant, RequestsApart
  <2>2. request[c].id \in 1 .. minted' /\ request[c].id # minted'
    BY <1>1, <2>1
  <2> QED  BY <1>1, <2>1, <2>2
<1>5. ReceiptsBelongToSync'
  <2> SUFFICES ASSUME NEW x \in Receipt, given[x] # Nothing
               PROVE  /\ \E i \in Live' : rows'[i].ext = x
                      /\ \A i, j \in Live' : rows'[i].ext = x /\ rows'[j].ext = x =>
                           i = j /\ rows'[i].source = "Siigo" /\ rows'[i].content = given[x]
    BY DEF ReceiptsBelongToSync
  <2>1. x # Nothing /\ row.ext # x
    BY NothingAssumption, <1>3
  <2> QED  BY <2>1, <1>1 DEF ReceiptInvariant, ReceiptsBelongToSync
<1> QED  BY <1>4, <1>5 DEF ReceiptInvariant

\* ReceiptsBelongToSync for any number of requests, rows and receipts, whatever
\* external_ids users store: no update or deletion, however late, reaches a row
\* the sync has inserted.
THEOREM ReceiptsSafe == ManualSpec => []ReceiptsBelongToSync
<1>1. ManualInit => ReceiptInvariant
  BY DEF ManualInit, ReceiptInvariant, RequestsApart, ReceiptsBelongToSync, Live, Idle
<1>2. ManualTypeOK /\ ReceiptInvariant /\ [ManualNext]_manualVars => ReceiptInvariant'
  <2> SUFFICES ASSUME ManualTypeOK, ReceiptInvariant, [ManualNext]_manualVars PROVE ReceiptInvariant'
    OBVIOUS
  <2>0. /\ request \in [Client -> Request] /\ Idle \in Request /\ Idle.op = "idle"
        /\ \A c \in Client : [request EXCEPT ![c] = Idle] \in [Client -> Request]
    BY ReferencesTyped DEF ManualTypeOK
  <2>1. ASSUME NEW c \in Client, ReadNumber(c) PROVE ReceiptInvariant'
    <3>1. Live' = Live /\ rows' = rows /\ given' = given /\ minted' = minted
      BY <2>1 DEF ReadNumber, Live
    <3>2. \A d \in Client : request'[d].op \in {"update", "delete"} => request'[d] = request[d]
      BY <2>0, <2>1 DEF ReadNumber
    <3> QED  BY <3>1, <3>2 DEF ReceiptInvariant, RequestsApart, ReceiptsBelongToSync
  <2>2. ASSUME NEW c \in Client, NEW content \in Content, NEW ext \in Receipt \cup {Nothing},
               StoreNumbered(c, content, ext)
        PROVE  ReceiptInvariant'
    <3> DEFINE row == [source |-> "Manual", ref |-> request[c].ref,
             content |-> content, ext |-> ext]
    <3>1. row \in Row /\ row.ext = ext
      BY <2>0 DEF Row, Request, Source
    <3>2. Insert(row, [request EXCEPT ![c] = Idle]) /\ Fresh(ext) /\ UNCHANGED given
      BY <2>2 DEF StoreNumbered
    <3> HIDE DEF row
    <3>3. /\ [request EXCEPT ![c] = Idle] \in [Client -> Request]
          /\ \A d \in Client : \/ [request EXCEPT ![c] = Idle][d] = request[d]
                               \/ [request EXCEPT ![c] = Idle][d] = Idle
      BY <2>0
    <3> QED  BY <3>1, <3>2, <3>3, InsertKeepsReceipts
  <2>3. ASSUME NEW c \in Client, NEW content \in Content, NEW ext \in Receipt \cup {Nothing},
               NEW source \in Source, NEW ref \in Typed \cup {NoReference},
               StoreAsGiven(c, source, ref, content, ext)
        PROVE  ReceiptInvariant'
    <3> DEFINE row == [source |-> source, ref |-> ref, content |-> content, ext |-> ext]
    <3>1. row \in Row /\ row.ext = ext
      BY ReferencesTyped DEF Row
    <3>2. Insert(row, request) /\ Fresh(ext) /\ UNCHANGED given
      BY <2>3 DEF StoreAsGiven
    <3> HIDE DEF row
    <3> QED  BY <3>1, <3>2, <2>0, InsertKeepsReceipts
  <2>4. ASSUME NEW c \in Client, NEW content \in Content, NEW source \in Source,
               NEW ref \in Typed \cup {NoReference, request[c].ref},
               WriteUpdate(c, source, ref, content)
        PROVE  ReceiptInvariant'
    <3> DEFINE i == request[c].id
    <3>1. minted' = minted /\ given' = given /\ request[c].op = "update"
      BY <2>4 DEF WriteUpdate
    <3>2. CASE i \notin Live
      <4>1. rows' = rows /\ Live' = Live /\ request' = [request EXCEPT ![c] = Idle]
        BY <2>4, <3>2 DEF WriteUpdate, End, Live
      <4>2. \A d \in Client : request'[d] = request[d] \/ request'[d].op = "idle"
        BY <2>0, <4>1
      <4> QED  BY <3>1, <4>1, <4>2 DEF ReceiptInvariant, RequestsApart, ReceiptsBelongToSync
    <3>3. CASE i \in Live
      <4>1. /\ rows'[i].ext = rows[i].ext /\ Live' = Live /\ i \in Id
            /\ \A j \in Live : j # i => rows'[j] = rows[j]
            /\ Rivalled(i, [request EXCEPT ![c] = Idle])
        BY <2>4, <3>3, UpdatedRow DEF Live
      <4>2. rows[i].ext = Nothing \/ given[rows[i].ext] = Nothing
        BY <3>1, <3>3 DEF ReceiptInvariant, RequestsApart
      <4>3. \A j \in Live : rows'[j].ext = rows[j].ext
        BY <4>1
      <4>4. \A d \in Client : request'[d].op \in {"update", "delete"} => request'[d] = request[d]
        <5>1. \A d \in Client : \/ [request EXCEPT ![c] = Idle][d] = request[d]
                                \/ [request EXCEPT ![c] = Idle][d] = Idle
          BY <2>0
        <5> DEFINE others == [request EXCEPT ![c] = Idle]
        <5>3. others \in [Client -> Request]
          BY <2>0
        <5>4. Rivalled(i, others) /\ i \in Id
          BY <4>1
        <5> HIDE DEF others
        <5>2. \A d \in Client : request'[d].op \in {"update", "delete"} => request'[d] = others[d]
          BY <5>3, <5>4, RivalledKeeps
        <5> QED  BY <2>0, <5>1, <5>2 DEF others
      <4>5. RequestsApart'
        BY <3>1, <4>1, <4>3, <4>4 DEF ReceiptInvariant, RequestsApart
      <4>6. ASSUME NEW x \in Receipt PROVE Kept(x)'
        <5>1. CASE given[x] = Nothing
          BY <3>1, <5>1 DEF Kept
        <5>2. CASE given[x] # Nothing
          <6>1. rows[i].ext # x
            BY <4>2, <5>2, NothingAssumption
          <6> QED  BY <3>1, <4>1, <5>2, <6>1 DEF ReceiptInvariant, ReceiptsBelongToSync, Kept
        <5> QED  BY <5>1, <5>2
      <4> QED  BY <4>5, <4>6 DEF ReceiptInvariant, ReceiptsBelongToSync, Kept
    <3> QED  BY <3>2, <3>3
  <2>5. ASSUME NEW c \in Client, NEW i \in Id, NEW op \in {"update", "delete"}, Load(c, i, op)
        PROVE  ReceiptInvariant'
    <3>1. rows' = rows /\ Live' = Live /\ given' = given /\ minted' = minted
      BY <2>5 DEF Load, Live
    <3>2. i \in Live /\ rows[i].source # "Siigo" /\ rows[i] \in Row
      BY <2>5 DEF Load, Editable, Live, ManualTypeOK
    <3>3. i \in 1 .. minted
      BY <3>2, BoundAssumption DEF ManualTypeOK, Live, Id
    <3>4. rows[i].ext = Nothing \/ given[rows[i].ext] = Nothing
      BY <3>2 DEF Row, ReceiptInvariant, ReceiptsBelongToSync
    <3>5. \A d \in Client : request'[d] = request[d] \/ request'[d].id = i
      BY <2>0, <2>5 DEF Load
    <3> QED  BY <3>1, <3>3, <3>4, <3>5 DEF ReceiptInvariant, RequestsApart, ReceiptsBelongToSync
  <2>6. ASSUME NEW c \in Client, Remove(c) PROVE ReceiptInvariant'
    <3> DEFINE i == request[c].id
    <3>1. request' = [request EXCEPT ![c] = Idle] /\ minted' = minted /\ given' = given
      BY <2>6 DEF Remove, End
    <3>2. Live' \subseteq Live /\ (\A j \in Live : j # i => j \in Live')
          /\ \A j \in Live' : rows'[j] = rows[j]
      BY <2>6 DEF Remove, Live, ManualTypeOK
    <3>3. \A d \in Client : request'[d] = request[d] \/ request'[d].op = "idle"
      BY <2>0, <3>1
    <3>4. i \in Live => rows[i].ext = Nothing \/ given[rows[i].ext] = Nothing
      BY <2>6 DEF Remove, ReceiptInvariant, RequestsApart
    <3>5. RequestsApart'
      BY <3>1, <3>2, <3>3 DEF ReceiptInvariant, RequestsApart
    <3>6. ASSUME NEW x \in Receipt PROVE Kept(x)'
      <4>1. CASE given[x] = Nothing
        BY <3>1, <4>1 DEF Kept
      <4>2. CASE given[x] # Nothing
        <5>1. i \in Live => rows[i].ext # x
          BY <3>4, <4>2, NothingAssumption
        <5> QED  BY <3>1, <3>2, <4>2, <5>1 DEF ReceiptInvariant, ReceiptsBelongToSync, Kept
      <4> QED  BY <4>1, <4>2
    <3> QED  BY <3>5, <3>6 DEF ReceiptInvariant, ReceiptsBelongToSync, Kept
  <2>7. ASSUME NEW c \in Client, Fail(c) PROVE ReceiptInvariant'
    <3>1. rows' = rows /\ Live' = Live /\ given' = given /\ minted' = minted
      BY <2>7 DEF Fail, Live
    <3>2. \A d \in Client : request'[d] = request[d] \/ request'[d].op = "idle"
      BY <2>0, <2>7 DEF Fail, End
    <3> QED  BY <3>1, <3>2 DEF ReceiptInvariant, RequestsApart, ReceiptsBelongToSync
  <2>8. ASSUME NEW x \in Receipt, NEW content \in Content, ImportReceipt(x, content)
        PROVE  ReceiptInvariant'
    <3> DEFINE row == [source |-> "Siigo", ref |-> Ref("siigo", 0),
                   content |-> content, ext |-> x]
    <3>0. content # Nothing /\ x # Nothing
      BY NothingAssumption
    <3>1. CASE Fresh(x) /\ Insert(row, request) /\ given' = [given EXCEPT ![x] = content]
      <4>1. row \in Row /\ row.source = "Siigo" /\ row.content = content /\ row.ext = x
        BY ReferencesTyped DEF Row, Source
      <4>2. Insert(row, request)
        BY <3>1
      <4> HIDE DEF row
      <4>3. /\ minted' = minted + 1 /\ minted' \in Id /\ minted \in Nat
            /\ minted' \notin Live /\ Live' = Live \cup {minted'}
            /\ rows'[minted'] = row /\ \A i \in Live : rows'[i] = rows[i]
            /\ Rivalled(minted', request)
        BY <4>1, <4>2, <2>0, InsertedRow
      <4>4. \A d \in Client : request'[d].op \in {"update", "delete"} => request'[d] = request[d]
        BY <2>0, <4>3, RivalledKeeps
      <4>5. \A i \in Live : rows[i].ext # x
        BY <3>0, <3>1 DEF Fresh
      <4>6. given'[x] = content /\ \A y \in Receipt : y # x => given'[y] = given[y]
        BY <3>1 DEF ManualTypeOK
      <4>7. RequestsApart'
        <5> SUFFICES ASSUME NEW c \in Client, request'[c].op \in {"update", "delete"}
                     PROVE  /\ request[c].id \in 1 .. minted'
                            /\ request[c].id \in Live' => \/ rows'[request[c].id].ext = Nothing
                                                         \/ given'[rows'[request[c].id].ext] = Nothing
          BY <4>4 DEF RequestsApart
        <5>1. /\ request[c].id \in 1 .. minted
              /\ request[c].id \in Live => \/ rows[request[c].id].ext = Nothing
                                           \/ given[rows[request[c].id].ext] = Nothing
          BY <4>4 DEF ReceiptInvariant, RequestsApart
        <5>2. request[c].id \in 1 .. minted' /\ request[c].id # minted'
          BY <4>3, <5>1
        <5>3. \A i \in Live : rows[i].ext \in Receipt \cup {Nothing}
          BY DEF Live, ManualTypeOK, Row
        <5> QED  BY <4>3, <4>5, <4>6, <5>1, <5>2, <5>3
      <4>8. ASSUME NEW y \in Receipt PROVE Kept(y)'
        <5>1. CASE y = x
          BY <4>1, <4>3, <4>5, <4>6, <5>1 DEF Kept
        <5>2. CASE y # x
          BY <4>1, <4>3, <4>6, <5>2 DEF ReceiptInvariant, ReceiptsBelongToSync, Kept
        <5> QED  BY <5>1, <5>2
      <4> QED  BY <4>7, <4>8 DEF ReceiptInvariant, ReceiptsBelongToSync, Kept
    <3>2. ASSUME NEW i \in Live, rows[i].ext = x, UNCHANGED <<minted, request>>,
                 rows' = [rows EXCEPT ![i] = [@ EXCEPT !.content = content,
                                                       !.ref = Ref("siigo", 0)]],
                 given' = [given EXCEPT ![x] = IF @ = Nothing THEN @ ELSE content]
          PROVE  ReceiptInvariant'
      <4>1. rows[i] \in Row
        BY DEF Live, ManualTypeOK
      <4>2. /\ rows'[i] \in Row /\ rows'[i].ext = x /\ rows'[i].content = content
            /\ rows'[i].source = rows[i].source
        BY <3>2, <4>1, ReferencesTyped DEF Row, ManualTypeOK, Live
      <4>3. \A j \in Live : j # i => rows'[j] = rows[j]
        BY <3>2 DEF ManualTypeOK, Live
      <4>4. Live' = Live
        BY <3>2, <4>2, NoRowAssumption DEF Live, ManualTypeOK
      <4>5. \A j \in Live : rows'[j].ext = rows[j].ext /\ rows'[j].source = rows[j].source
        BY <3>2, <4>2, <4>3
      <4>6. /\ \A y \in Receipt : y # x => given'[y] = given[y]
            /\ given'[x] = IF given[x] = Nothing THEN Nothing ELSE content
        BY <3>2 DEF ManualTypeOK
      <4>7. \A j \in Live : rows[j].ext \in Receipt \cup {Nothing}
        BY DEF Live, ManualTypeOK, Row
      <4>8. \A y \in Receipt : given[y] = Nothing => given'[y] = Nothing
        BY <4>6
      <4>9. RequestsApart'
        BY <3>2, <4>4, <4>5, <4>7, <4>8 DEF ReceiptInvariant, RequestsApart
      <4>10. ASSUME NEW y \in Receipt PROVE Kept(y)'
        <5>1. CASE y = x
          <6>1. CASE given[x] = Nothing
            BY <4>6, <5>1, <6>1 DEF Kept
          <6>2. CASE given[x] # Nothing
            <7>1. given'[x] = content
              BY <4>6, <6>2
            <7>2. /\ \A j \in Live : rows[j].ext = x => j = i
                  /\ rows[i].source = "Siigo"
              BY <3>2, <6>2 DEF ReceiptInvariant, ReceiptsBelongToSync
            <7> QED  BY <3>2, <4>2, <4>4, <4>5, <5>1, <7>1, <7>2 DEF Kept
          <6> QED  BY <6>1, <6>2
        <5>2. CASE y # x
          <6>1. given'[y] = given[y]
            BY <4>6, <5>2
          <6> QED  BY <3>2, <4>3, <4>4, <4>5, <5>2, <6>1 DEF ReceiptInvariant, ReceiptsBelongToSync, Kept
        <5> QED  BY <5>1, <5>2
      <4> QED  BY <4>9, <4>10 DEF ReceiptInvariant, ReceiptsBelongToSync, Kept
    <3> QED  BY <2>8, <3>1, <3>2 DEF ImportReceipt
  <2>9. CASE UNCHANGED manualVars
    BY <2>9 DEF manualVars, ReceiptInvariant, RequestsApart, ReceiptsBelongToSync, Live
  <2> QED
    BY <2>1, <2>2, <2>3, <2>4, <2>5, <2>6, <2>7, <2>8, <2>9 DEF ManualNext
<1>3. ReceiptInvariant => ReceiptsBelongToSync
  BY DEF ReceiptInvariant
<1> QED  BY <1>1, <1>2, <1>3, ManualTypesHold, PTL DEF ManualSpec

-----------------------------------------------------------------------------
(* Numbers *)

\* A creation's number is padded, and above every padded number of the table
\* but those written since it was read; unless it was read with a stray about.
NumbersAhead ==
  \A c \in Client : request[c].op = "create" =>
    /\ request[c].ref.form = "padded"
    /\ \A i \in Live :
         \/ rows[i].ref.form = "padded" => rows[i].ref.n < request[c].ref.n
         \/ i \in request[c].rivals
         \/ request[c].stray

\* The number read is above every padded one in the table.
LEMMA LastNumberIsLargest ==
  ASSUME ManualTypeOK, NEW n \in 0 .. MaxNumber, LastNumber(n), ~ StrayAbout
  PROVE  \A i \in Live : rows[i].ref.form = "padded" => rows[i].ref.n <= n
<1>1. \A i \in Live : rows[i].ref.form = "padded" => i \in Numbered
  BY DEF Numbered
<1>2. CASE Numbered = {}
  BY <1>1, <1>2
<1>3. CASE Numbered # {}
  <2>1. PICK i \in Numbered : /\ \A j \in Numbered : Before(rows[j].ref, rows[i].ref)
                              /\ n = Scanned(rows[i].ref)
    BY <1>3 DEF LastNumber
  <2>2. \A j \in Numbered : rows[j].ref.form = "padded"
    BY DEF StrayAbout
  <2>3. n = rows[i].ref.n
    BY <2>1, <2>2 DEF Scanned
  <2>4. \A j \in Numbered : rows[j].ref.n <= rows[i].ref.n
    BY <2>1, <2>2 DEF Before, Weight
  <2> QED  BY <1>1, <2>3, <2>4
<1> QED  BY <1>2, <1>3

\* Writing one row, new or old, keeps the numbers ahead: it becomes a rival of
\* every creation under way.
LEMMA WriteKeepsNumbers ==
  ASSUME ManualTypeOK, NumbersAhead, NEW i \in Id, NEW others \in [Client -> Request],
         \A c \in Client : others[c] = request[c] \/ others[c] = Idle,
         Rivalled(i, others),
         \A j \in Live' : j # i => j \in Live /\ rows'[j] = rows[j]
  PROVE  NumbersAhead'
<1> SUFFICES ASSUME NEW c \in Client, request'[c].op = "create"
             PROVE  /\ request'[c].ref.form = "padded"
                    /\ \A j \in Live' :
                         \/ rows'[j].ref.form = "padded" => rows'[j].ref.n < request'[c].ref.n
                         \/ j \in request'[c].rivals
                         \/ request'[c].stray
  BY DEF NumbersAhead
<1>1. others[c].op = "create"
  BY RivalledKeeps
<1>2. others[c] = request[c]
  BY <1>1, ReferencesTyped
<1>3. /\ request'[c].ref = request[c].ref /\ request'[c].stray = request[c].stray
      /\ request'[c].rivals = request[c].rivals \cup {i}
  BY <1>1, <1>2, RivalledKeeps
<1>4. /\ request[c].ref.form = "padded"
      /\ \A j \in Live :
           \/ rows[j].ref.form = "padded" => rows[j].ref.n < request[c].ref.n
           \/ j \in request[c].rivals
           \/ request[c].stray
  BY <1>1, <1>2 DEF NumbersAhead
<1> QED  BY <1>3, <1>4

\* SharedNumberNeedsOverlap for any number of requests and rows, whatever
\* references clients write.
THEOREM NumberingSound == ManualSpec => []SharedNumberNeedsOverlap
<1>1. ManualInit => NumbersAhead
  BY DEF ManualInit, NumbersAhead, Idle
<1>2. ManualTypeOK /\ NumbersAhead /\ [ManualNext]_manualVars => NumbersAhead'
  <2> SUFFICES ASSUME ManualTypeOK, NumbersAhead, [ManualNext]_manualVars PROVE NumbersAhead'
    OBVIOUS
  <2>0. /\ request \in [Client -> Request] /\ Idle \in Request /\ Idle.op = "idle"
        /\ \A c \in Client : [request EXCEPT ![c] = Idle] \in [Client -> Request]
        /\ \A c, d \in Client : \/ [request EXCEPT ![c] = Idle][d] = request[d]
                                \/ [request EXCEPT ![c] = Idle][d] = Idle
    BY ReferencesTyped DEF ManualTypeOK
  <2>1. ASSUME NEW c \in Client, ReadNumber(c) PROVE NumbersAhead'
    <3>1. Live' = Live /\ rows' = rows
      BY <2>1 DEF ReadNumber, Live
    <3>2. PICK n \in 0 .. MaxNumber - 1 :
            /\ LastNumber(n)
            /\ request' = [request EXCEPT ![c] =
                 [op |-> "create", id |-> 0, ref |-> Ref("padded", n + 1), rivals |-> {},
                  stray |-> StrayAbout]]
      BY <2>1 DEF ReadNumber
    <3>3. n \in 0 .. MaxNumber
      BY BoundAssumption
    <3>4. \A i \in Live : rows[i].ref.n \in Int
      BY BoundAssumption DEF Live, ManualTypeOK, Row, Reference
    <3>5. /\ request'[c].ref.form = "padded" /\ request'[c].ref.n = n + 1
          /\ request'[c].stray = StrayAbout
          /\ \A d \in Client : d # c => request'[d] = request[d]
      BY <2>0, <3>2 DEF Ref
    <3>6. CASE StrayAbout
      BY <3>1, <3>5, <3>6 DEF NumbersAhead
    <3>7. CASE ~ StrayAbout
      <4>1. \A i \in Live : rows[i].ref.form = "padded" => rows[i].ref.n <= n
        BY <3>2, <3>3, <3>7, LastNumberIsLargest
      <4>2. \A i \in Live : rows[i].ref.form = "padded" => rows[i].ref.n < n + 1
        BY <3>3, <3>4, <4>1
      <4> QED  BY <3>1, <3>5, <4>2 DEF NumbersAhead
    <3> QED  BY <3>6, <3>7
  <2>2. ASSUME NEW c \in Client, NEW content \in Content, NEW ext \in Receipt \cup {Nothing},
               StoreNumbered(c, content, ext)
        PROVE  NumbersAhead'
    <3> DEFINE row == [source |-> "Manual", ref |-> request[c].ref,
             content |-> content, ext |-> ext]
    <3>1. row \in Row
      BY <2>0 DEF Row, Request, Source
    <3>2. Insert(row, [request EXCEPT ![c] = Idle])
      BY <2>2 DEF StoreNumbered
    <3> HIDE DEF row
    <3> QED  BY <3>1, <3>2, <2>0, InsertedRow, WriteKeepsNumbers
  <2>3. ASSUME NEW c \in Client, NEW content \in Content, NEW ext \in Receipt \cup {Nothing},
               NEW source \in Source, NEW ref \in Typed \cup {NoReference},
               StoreAsGiven(c, source, ref, content, ext)
        PROVE  NumbersAhead'
    <3> DEFINE row == [source |-> source, ref |-> ref, content |-> content, ext |-> ext]
    <3>1. row \in Row
      BY ReferencesTyped DEF Row
    <3>2. Insert(row, request)
      BY <2>3 DEF StoreAsGiven
    <3> HIDE DEF row
    <3> QED  BY <3>1, <3>2, <2>0, InsertedRow, WriteKeepsNumbers
  <2>4. ASSUME NEW c \in Client, NEW content \in Content, NEW source \in Source,
               NEW ref \in Typed \cup {NoReference, request[c].ref},
               WriteUpdate(c, source, ref, content)
        PROVE  NumbersAhead'
    <3>1. CASE request[c].id \notin Live
      <4>1. rows' = rows /\ Live' = Live /\ request' = [request EXCEPT ![c] = Idle]
        BY <2>4, <3>1 DEF WriteUpdate, End, Live
      <4>2. \A d \in Client : request'[d] = request[d] \/ request'[d].op = "idle"
        BY <2>0, <4>1
      <4> QED  BY <4>1, <4>2 DEF NumbersAhead
    <3>2. CASE request[c].id \in Live
      <4>1. /\ Live' = Live /\ request[c].id \in Id
            /\ \A j \in Live : j # request[c].id => rows'[j] = rows[j]
            /\ Rivalled(request[c].id, [request EXCEPT ![c] = Idle])
        BY <2>4, <3>2, UpdatedRow DEF Live
      <4> QED  BY <4>1, <2>0, WriteKeepsNumbers
    <3> QED  BY <3>1, <3>2
  <2>5. ASSUME NEW c \in Client, NEW i \in Id, NEW op \in {"update", "delete"}, Load(c, i, op)
        PROVE  NumbersAhead'
    <3>1. rows' = rows /\ Live' = Live
      BY <2>5 DEF Load, Live
    <3>2. \A d \in Client : request'[d] = request[d] \/ request'[d].op # "create"
      BY <2>0, <2>5 DEF Load
    <3> QED  BY <3>1, <3>2 DEF NumbersAhead
  <2>6. ASSUME NEW c \in Client, Remove(c) PROVE NumbersAhead'
    <3>1. Live' \subseteq Live /\ \A j \in Live' : rows'[j] = rows[j]
      BY <2>6 DEF Remove, Live, ManualTypeOK
    <3>2. \A d \in Client : request'[d] = request[d] \/ request'[d].op = "idle"
      BY <2>0, <2>6 DEF Remove, End
    <3> QED  BY <3>1, <3>2 DEF NumbersAhead
  <2>7. ASSUME NEW c \in Client, Fail(c) PROVE NumbersAhead'
    <3>1. rows' = rows /\ Live' = Live
      BY <2>7 DEF Fail, Live
    <3>2. \A d \in Client : request'[d] = request[d] \/ request'[d].op = "idle"
      BY <2>0, <2>7 DEF Fail, End
    <3> QED  BY <3>1, <3>2 DEF NumbersAhead
  <2>8. ASSUME NEW x \in Receipt, NEW content \in Content, ImportReceipt(x, content)
        PROVE  NumbersAhead'
    <3> DEFINE row == [source |-> "Siigo", ref |-> Ref("siigo", 0),
                   content |-> content, ext |-> x]
    <3>1. CASE Insert(row, request)
      <4>1. row \in Row
        BY ReferencesTyped DEF Row, Source
      <4> HIDE DEF row
      <4> QED  BY <4>1, <3>1, <2>0, InsertedRow, WriteKeepsNumbers
    <3>2. ASSUME NEW i \in Live, UNCHANGED <<minted, request>>,
                 rows' = [rows EXCEPT ![i] = [@ EXCEPT !.content = content,
                                                       !.ref = Ref("siigo", 0)]]
          PROVE  NumbersAhead'
      <4>1. rows[i] \in Row
        BY DEF Live, ManualTypeOK
      <4>2. rows'[i] \in Row /\ rows'[i].ref.form = "siigo"
        BY <3>2, <4>1, ReferencesTyped DEF Row, Ref, ManualTypeOK, Live
      <4>3. Live' = Live /\ \A j \in Live : j # i => rows'[j] = rows[j]
        BY <3>2, <4>2, NoRowAssumption DEF Live, ManualTypeOK
      <4> QED  BY <3>2, <4>2, <4>3 DEF NumbersAhead
    <3> QED  BY <2>8, <3>1, <3>2 DEF ImportReceipt
  <2>9. CASE UNCHANGED manualVars
    BY <2>9 DEF manualVars, NumbersAhead, Live
  <2> QED
    BY <2>1, <2>2, <2>3, <2>4, <2>5, <2>6, <2>7, <2>8, <2>9 DEF ManualNext
<1>3. ManualTypeOK /\ NumbersAhead => SharedNumberNeedsOverlap
  <2> SUFFICES ASSUME ManualTypeOK, NumbersAhead, NEW c \in Client, NEW i \in Live,
                      request[c].op = "create", rows[i].ref = request[c].ref
               PROVE  i \in request[c].rivals \/ request[c].stray
    BY DEF SharedNumberNeedsOverlap
  <2>1. request[c].ref.n \in Int
    BY BoundAssumption DEF ManualTypeOK, Request, Reference
  <2> QED  BY <2>1 DEF NumbersAhead
<1> QED  BY <1>1, <1>2, <1>3, ManualTypesHold, PTL DEF ManualSpec

-----------------------------------------------------------------------------
(* The customers table *)

USE CustomerAssumption, PageAssumption, SkewAssumption
USE DEF remoteVars, tableVars, runVars

\* A list has a whole number of pages.
LEMMA PageCountType == ASSUME siigo \subseteq Customer PROVE PageCount \in Int
<1>1. Cardinality(siigo) \in Nat
  BY FS_Subset, FS_CardinalityType
<1> QED BY <1>1 DEF PageCount

\* There is a first page.
LEMMA PageOne == 1 \in Page
  BY DEF Page

\* Every variable keeps its type, and the table never holds a row for a
\* record without an identification.
THEOREM TypeCorrect == Spec => []TypeOK
<1>1. Init => TypeOK
  <2> SUFFICES ASSUME Init PROVE TypeOK
    OBVIOUS
  <2>1. quiet \in [Run -> BOOLEAN]
    BY DEF Init
  <2> QED BY <2>1, SMTT(20) DEF Init, TypeOK, PageState, Ended
<1>2. TypeOK /\ [Next]_vars => TypeOK'
  <2> SUFFICES ASSUME TypeOK, [Next]_vars PROVE TypeOK'
    OBVIOUS
  <2> USE DEF TypeOK
  <2>1. ASSUME NEW c \in Customer, Delete(c) \/ Add(c) \/ Disable(c) PROVE TypeOK'
    <3>1. CASE Delete(c)
      BY <3>1 DEF Delete, Change
    <3>2. CASE Add(c)
      BY <3>2 DEF Add, Change
    <3>3. CASE Disable(c)
      BY <3>3 DEF Disable, Change
    <3> QED BY <2>1, <3>1, <3>2, <3>3
  <2>2. ASSUME NEW r \in Run, Start(r) PROVE TypeOK'
    BY <2>2, PageOne DEF Start, PageState
  <2>3. ASSUME NEW r \in Run, NEW k \in Page, FetchPage(r, k) PROVE TypeOK'
    <3>1. {<<c, c \in enabled>> : c \in Listed(k)} \in SUBSET Record
      <4>1. ASSUME NEW c \in Listed(k) PROVE <<c, c \in enabled>> \in Record
        <5>1. c \in Customer
          BY DEF Listed
        <5>2. (c \in enabled) \in BOOLEAN
          OBVIOUS
        <5> QED BY <5>1, <5>2, Zenon DEF Record
      <4> QED BY <4>1
    <3>2. got' \in [Run -> [Page -> SUBSET Record]]
      BY <2>3, <3>1 DEF FetchPage
    <3>3. total' \in [Run -> Int] /\ page' \in [Run -> [Page -> PageState]]
      BY <2>3, PageCountType DEF FetchPage, PageState, Ended
    <3> QED BY <2>3, <3>2, <3>3 DEF FetchPage
  <2>4. ASSUME NEW r \in Run, NEW k \in Page, LosePage(r, k) \/ FailToSave(r, k) PROVE TypeOK'
    <3>1. CASE LosePage(r, k)
      BY <3>1 DEF LosePage, PageState
    <3>2. CASE FailToSave(r, k)
      <4>1. page' \in [Run -> [Page -> PageState]] /\ got' \in [Run -> [Page -> SUBSET Record]]
        BY <3>2 DEF FailToSave, PageState
      <4> QED BY <3>2, <4>1 DEF FailToSave
    <3> QED BY <2>4, <3>1, <3>2
  <2>5. ASSUME NEW r \in Run, NEW k \in Page, SaveRecord(r, k) PROVE TypeOK'
    <3>1. PICK e \in got[r][k] :
            /\ IF e[1] \in Blank THEN UNCHANGED tableVars ELSE Upsert(r, e[1], e[2])
            /\ got' = [got EXCEPT ![r][k] = @ \ {e}]
            /\ page' = IF got[r][k] = {e} THEN [page EXCEPT ![r][k] = "saved"] ELSE page
      BY <2>5 DEF SaveRecord
    <3>2. e[1] \in Customer /\ e[2] \in BOOLEAN
      BY DEF Record
    <3>3. page' \in [Run -> [Page -> PageState]] /\ got' \in [Run -> [Page -> SUBSET Record]]
      BY <3>1 DEF PageState
    <3>4. UNCHANGED <<remoteVars, stage, started, total, clock, steady, quiet>>
      BY <2>5 DEF SaveRecord
    <3>5. CASE e[1] \in Blank
      BY <3>1, <3>3, <3>4, <3>5
    <3>6. CASE e[1] \notin Blank
      <4>1. Upsert(r, e[1], e[2])
        BY <3>1, <3>6
      <4>2. known' \subseteq Customer \ Blank
        BY <3>2, <3>6, <4>1 DEF Upsert
      <4>3. active' \subseteq known'
        BY <4>1 DEF Upsert
      <4>4. synced' \in [Customer -> Int]
        BY <3>2, <4>1 DEF Upsert
      <4>5. touched' \in [Run -> SUBSET known'] /\ imported' \in [Run -> SUBSET known']
        BY <3>2, <4>1 DEF Upsert
      <4> QED BY <3>3, <3>4, <4>2, <4>3, <4>4, <4>5
    <3> QED BY <3>5, <3>6
  <2>6. ASSUME NEW r \in Run, FanOut(r) PROVE TypeOK'
    BY <2>6 DEF FanOut, PageState
  <2>7. ASSUME NEW r \in Run, Sweep(r) \/ EndWithoutSweep(r) PROVE TypeOK'
    BY <2>7 DEF Sweep, EndWithoutSweep
  <2>8. CASE UNCHANGED vars
    BY <2>8 DEF vars
  <2> QED
    BY <2>1, <2>2, <2>3, <2>4, <2>5, <2>6, <2>7, <2>8 DEF Next, SiigoStep, RunStep, PageStep
<1> QED BY <1>1, <1>2, PTL DEF Spec

-----------------------------------------------------------------------------
\* What storing a record of a page does to the table.
Stores(r, k) ==
  \E c \in Customer, flag \in BOOLEAN :
    /\ <<c, flag>> \in got[r][k] \ got'[r][k]
    /\ UNCHANGED tableVars \/ Upsert(r, c, flag)

\* Storing one record of a page, as the steps below need it: which record it
\* is, and that nothing but the table and the page's own state changed.
LEMMA SaveRecordStep ==
  ASSUME TypeOK, NEW r \in Run, NEW k \in Page, SaveRecord(r, k)
  PROVE  /\ page[r][k] = "saving"
         /\ UNCHANGED <<stage, started, clock>>
         /\ \A q \in Run \ {r}, j \in Page : page'[q][j] = page[q][j]
         /\ Stores(r, k)
<1>1. PICK e \in got[r][k] :
        /\ UNCHANGED tableVars \/ Upsert(r, e[1], e[2])
        /\ got' = [got EXCEPT ![r][k] = @ \ {e}]
        /\ page' = IF got[r][k] = {e} THEN [page EXCEPT ![r][k] = "saved"] ELSE page
  BY DEF SaveRecord
<1>2. e[1] \in Customer /\ e[2] \in BOOLEAN /\ e = <<e[1], e[2]>>
  BY DEF TypeOK, Record
<1>3. e \notin got'[r][k]
  BY <1>1 DEF TypeOK
<1>4. <<e[1], e[2]>> \in got[r][k] \ got'[r][k]
  BY <1>2, <1>3
<1>5. \A q \in Run \ {r}, j \in Page : page'[q][j] = page[q][j]
  BY <1>1 DEF TypeOK
<1>6. page[r][k] = "saving" /\ UNCHANGED <<stage, started, clock>>
  BY DEF SaveRecord
<1>7. Stores(r, k)
  BY <1>1, <1>2, <1>4 DEF Stores, Upsert
<1> QED BY <1>5, <1>6, <1>7

\* Whatever a run stored carries a stamp no older than the run's start: the
\* reason the sweep spares it, whoever stamped it last.  The stamp is the
\* database's and the start the server's: with the database behind, a row
\* stored soon after the start is stamped before it.
THEOREM StampsHold == ASSUME Skew \in Nat PROVE Spec => []StampsFollowStart
<1>1. Init => StampsFollowStart
  BY DEF Init, StampsFollowStart
<1>2. TypeOK /\ StampsFollowStart /\ [Next]_vars => StampsFollowStart'
  <2> SUFFICES ASSUME TypeOK, StampsFollowStart, [Next]_vars, NEW q \in Run
               PROVE  /\ started'[q] <= clock'
                      /\ \A c \in touched'[q] : synced'[c] >= started'[q]
                      /\ stage'[q] = "idle" =>
                           touched'[q] = {} /\ \A j \in Page : page'[q][j] = "idle"
    BY DEF StampsFollowStart
  <2> DEFINE Goal == /\ started'[q] <= clock'
                     /\ \A c \in touched'[q] : synced'[c] >= started'[q]
                     /\ stage'[q] = "idle" =>
                          touched'[q] = {} /\ \A j \in Page : page'[q][j] = "idle"
  <2> USE DEF TypeOK, StampsFollowStart
  <2>1. ASSUME NEW c \in Customer, Delete(c) \/ Add(c) \/ Disable(c) PROVE Goal
    <3>1. UNCHANGED <<started, clock, touched, synced, stage, page>>
      BY <2>1 DEF Delete, Add, Disable, Change
    <3> QED BY <3>1
  <2>2. ASSUME NEW r \in Run, Start(r) PROVE Goal
    <3>1. CASE q = r
      BY <2>2, <3>1 DEF Start
    <3>2. CASE q # r
      BY <2>2, <3>2 DEF Start
    <3> QED BY <3>1, <3>2
  <2>3. ASSUME NEW r \in Run, NEW k \in Page, FetchPage(r, k) PROVE Goal
    <3>1. UNCHANGED <<started, clock, touched, synced, stage>>
      BY <2>3 DEF FetchPage
    <3>2. stage[r] # "idle"
      BY <2>3 DEF FetchPage
    <3>3. q # r => page'[q] = page[q]
      BY <2>3 DEF FetchPage
    <3> QED BY <3>1, <3>2, <3>3
  <2>4. ASSUME NEW r \in Run, NEW k \in Page, LosePage(r, k) \/ FailToSave(r, k) PROVE Goal
    <3>1. UNCHANGED <<started, clock, touched, synced, stage>>
      BY <2>4 DEF LosePage, FailToSave
    <3>2. stage[r] # "idle"
      BY <2>4 DEF LosePage, FailToSave
    <3>3. q # r => page'[q] = page[q]
      BY <2>4 DEF LosePage, FailToSave
    <3> QED BY <3>1, <3>2, <3>3
  <2>5. ASSUME NEW r \in Run, NEW k \in Page, SaveRecord(r, k) PROVE Goal
    <3>1. stage[r] # "idle"
      BY <2>5, SaveRecordStep
    <3>2. UNCHANGED <<stage, started, clock>> /\ (q # r => \A j \in Page : page'[q][j] = page[q][j])
      BY <2>5, SaveRecordStep
    <3>3. PICK c \in Customer, flag \in BOOLEAN : UNCHANGED tableVars \/ Upsert(r, c, flag)
      <4>1. Stores(r, k)
        BY <2>5, SaveRecordStep
      <4> QED BY <4>1 DEF Stores, Upsert
    <3>4. CASE UNCHANGED tableVars
      BY <3>1, <3>2, <3>4
    <3>5. CASE Upsert(r, c, flag)
      <4>1. touched'[q] \subseteq touched[q] \cup {c} /\ (q # r => touched'[q] = touched[q])
        BY <3>5 DEF Upsert
      <4>2. synced' = [synced EXCEPT ![c] = clock + Skew]
        BY <3>5 DEF Upsert
      <4>3. \A d \in touched'[q] : synced'[d] >= started[q]
        <5> SUFFICES ASSUME NEW d \in touched'[q] PROVE synced'[d] >= started[q]
          OBVIOUS
        <5>1. CASE d = c
          <6>1. synced'[c] = clock + Skew /\ started[q] <= clock
            BY <4>2
          <6> QED BY <5>1, <6>1
        <5>2. CASE d # c
          <6>1. d \in touched[q] /\ d \in Customer
            BY <4>1, <5>2
          <6>2. synced'[d] = synced[d]
            BY <4>2, <5>2, <6>1
          <6> QED BY <6>1, <6>2
        <5> QED BY <5>1, <5>2
      <4> QED BY <3>1, <3>2, <4>1, <4>3
    <3> QED BY <3>3, <3>4, <3>5
  <2>6. ASSUME NEW r \in Run, FanOut(r) PROVE Goal
    BY <2>6 DEF FanOut
  <2>7. ASSUME NEW r \in Run, Sweep(r) \/ EndWithoutSweep(r) PROVE Goal
    <3>1. CASE Sweep(r)
      BY <3>1 DEF Sweep, Joined
    <3>2. CASE EndWithoutSweep(r)
      BY <3>2 DEF EndWithoutSweep, Joined
    <3> QED BY <2>7, <3>1, <3>2
  <2>8. CASE UNCHANGED vars
    BY <2>8 DEF vars
  <2> QED
    BY <2>1, <2>2, <2>3, <2>4, <2>5, <2>6, <2>7, <2>8 DEF Next, SiigoStep, RunStep, PageStep
<1> QED BY <1>1, <1>2, TypeCorrect, PTL DEF Spec

-----------------------------------------------------------------------------
\* However many runs overlap, a third party is only deactivated because Siigo
\* returned it as inactive, or by the sweep of a run that stored every page
\* and did not meet it; as long as the database's clock is not behind.
THEOREM DeactivationSound == ASSUME Skew \in Nat PROVE Spec => DeactivationHasCause
<1> DEFINE Cause(c) == \E r \in Run :
      \/ stage[r] # "swept" /\ stage'[r] = "swept" /\ Clean(r) /\ c \notin touched[r]
      \/ \E k \in Page : <<c, FALSE>> \in got[r][k] \ got'[r][k]
<1>1. TypeOK /\ StampsFollowStart /\ [Next]_vars => [\A c \in active \ active' : Cause(c)]_vars
  <2> SUFFICES ASSUME TypeOK, StampsFollowStart, [Next]_vars, NEW c \in active \ active'
               PROVE  Cause(c)
    OBVIOUS
  <2> USE DEF TypeOK
  <2>1. ASSUME NEW r \in Run, Sweep(r) PROVE Cause(c)
    <3>1. synced[c] < started[r]
      BY <2>1 DEF Sweep
    <3>2. c \notin touched[r]
      BY <3>1 DEF StampsFollowStart
    <3>3. stage[r] # "swept" /\ stage'[r] = "swept" /\ Clean(r)
      BY <2>1 DEF Sweep, Joined
    <3> QED BY <3>2, <3>3
  <2>2. ASSUME NEW r \in Run, NEW k \in Page, SaveRecord(r, k) PROVE Cause(c)
    <3>1. PICK d \in Customer, flag \in BOOLEAN :
            /\ <<d, flag>> \in got[r][k] \ got'[r][k]
            /\ UNCHANGED tableVars \/ Upsert(r, d, flag)
      <4>1. Stores(r, k)
        BY <2>2, SaveRecordStep
      <4> QED BY <4>1 DEF Stores, Upsert
    <3>2. Upsert(r, d, flag)
      BY <3>1 DEF tableVars
    <3>3. c = d /\ flag = FALSE
      BY <3>2 DEF Upsert
    <3> QED BY <3>1, <3>3
  <2>3. ASSUME NEW d \in Customer, Delete(d) \/ Add(d) \/ Disable(d) PROVE FALSE
    BY <2>3 DEF Delete, Add, Disable, Change, tableVars
  <2>4. ASSUME NEW r \in Run, Start(r) \/ FanOut(r) \/ EndWithoutSweep(r) PROVE FALSE
    BY <2>4 DEF Start, FanOut, EndWithoutSweep, tableVars
  <2>5. ASSUME NEW r \in Run, NEW k \in Page,
               FetchPage(r, k) \/ LosePage(r, k) \/ FailToSave(r, k)
        PROVE  FALSE
    BY <2>5 DEF FetchPage, LosePage, FailToSave, tableVars
  <2>6. CASE UNCHANGED vars
    BY <2>6 DEF vars, tableVars
  <2> QED
    BY <2>1, <2>2, <2>3, <2>4, <2>5, <2>6 DEF Next, SiigoStep, RunStep, PageStep
<1>2. Spec => []StampsFollowStart
  BY StampsHold
<1> QED BY <1>1, <1>2, TypeCorrect, PTL DEF Spec, DeactivationHasCause

-----------------------------------------------------------------------------
\* Every row of the table was counted as imported by one run and by no other.
THEOREM ImportedOnceHolds == Spec => []ImportedOnce
<1>1. Init => ImportedOnce
  BY DEF Init, ImportedOnce
<1>2. TypeOK /\ ImportedOnce /\ [Next]_vars => ImportedOnce'
  <2> SUFFICES ASSUME TypeOK, ImportedOnce, [Next]_vars PROVE ImportedOnce'
    OBVIOUS
  <2> USE DEF TypeOK, ImportedOnce
  <2>1. ASSUME NEW r \in Run, NEW k \in Page, SaveRecord(r, k) PROVE ImportedOnce'
    <3>1. PICK c \in Customer, flag \in BOOLEAN : UNCHANGED tableVars \/ Upsert(r, c, flag)
      <4>1. Stores(r, k)
        BY <2>1, SaveRecordStep
      <4> QED BY <4>1 DEF Stores, Upsert
    <3>2. CASE UNCHANGED tableVars
      BY <3>2
    <3>3. CASE Upsert(r, c, flag) /\ c \in known
      BY <3>3 DEF Upsert
    <3>4. CASE Upsert(r, c, flag) /\ c \notin known
      <4>1. known' = known \cup {c} /\ imported' = [imported EXCEPT ![r] = @ \cup {c}]
        BY <3>4 DEF Upsert
      <4>2. \A q \in Run : c \notin imported[q]
        BY <3>4
      <4> QED BY <4>1, <4>2
    <3> QED BY <3>1, <3>2, <3>3, <3>4
  <2>2. ASSUME NEW d \in Customer, Delete(d) \/ Add(d) \/ Disable(d) PROVE ImportedOnce'
    BY <2>2 DEF Delete, Add, Disable, Change, tableVars
  <2>3. ASSUME NEW r \in Run, Start(r) \/ FanOut(r) \/ Sweep(r) \/ EndWithoutSweep(r)
        PROVE  ImportedOnce'
    BY <2>3 DEF Start, FanOut, Sweep, EndWithoutSweep, tableVars
  <2>4. ASSUME NEW r \in Run, NEW k \in Page,
               FetchPage(r, k) \/ LosePage(r, k) \/ FailToSave(r, k)
        PROVE  ImportedOnce'
    BY <2>4 DEF FetchPage, LosePage, FailToSave, tableVars
  <2>5. CASE UNCHANGED vars
    BY <2>5 DEF vars, tableVars
  <2> QED
    BY <2>1, <2>2, <2>3, <2>4, <2>5 DEF Next, SiigoStep, RunStep, PageStep
<1> QED BY <1>1, <1>2, TypeCorrect, PTL DEF Spec

-----------------------------------------------------------------------------
(* A quiet run of the customers *)

\* Division by the page size, as the page numbers need it.
LEMMA Division ==
  ASSUME NEW n \in Nat, NEW p \in Nat \ {0}
  PROVE  /\ n \div p \in Nat
         /\ (n \div p) * p <= n /\ n < (n \div p + 1) * p
OBVIOUS

\* More whole pages hold at least as much.
LEMMA MorePages ==
  ASSUME NEW i \in Int, NEW j \in Int, NEW p \in Nat, i <= j
  PROVE  i * p <= j * p
<1>1. (j - i) * p >= 0
  OBVIOUS
<1>2. (j - i) * p = j * p - i * p
  OBVIOUS
<1> QED BY <1>1, <1>2

\* The record of rank n is on a page, and that page is among the announced ones.
LEMMA PageOfRank ==
  ASSUME NEW p \in Nat \ {0}, NEW n \in Nat \ {0}, NEW m \in Nat, n <= m
  PROVE  \E k \in Nat \ {0} : /\ (k - 1) * p < n /\ n <= k * p
                              /\ k <= (m + p - 1) \div p
<1> DEFINE k == (n + p - 1) \div p
           t == (m + p - 1) \div p
<1>1. k \in Nat /\ k * p <= n + p - 1 /\ n + p - 1 < (k + 1) * p
  BY Division
<1>2. t \in Nat /\ m + p - 1 < (t + 1) * p
  BY Division
<1> HIDE DEF k, t
<1>3. (k - 1) * p = k * p - p /\ (k + 1) * p = k * p + p
  BY <1>1
<1>4. (k - 1) * p < n /\ n <= k * p
  BY <1>1, <1>3
<1>5. k # 0
  <2>1. 0 * p = 0
    OBVIOUS
  <2> QED BY <1>4, <2>1
<1>6. k <= t
  <2> SUFFICES ASSUME t + 1 <= k PROVE FALSE
    BY <1>1, <1>2
  <2>1. (t + 1) * p <= k * p
    BY <1>1, <1>2, MorePages
  <2> QED BY <1>1, <1>2, <2>1
<1>7. k \in Nat \ {0} /\ k <= (m + p - 1) \div p
  BY <1>1, <1>5, <1>6 DEF t
<1> QED BY <1>4, <1>7

\* Every third party Siigo lists is on one of the pages page 1 announces, and
\* the model has room for that page.
LEMMA PagesCover ==
  ASSUME siigo \subseteq Customer, NEW c \in siigo
  PROVE  \E k \in Page : c \in Listed(k) /\ k <= PageCount
<1>1. IsFiniteSet(siigo) /\ Cardinality(siigo) \in Nat /\ Cardinality(Customer) \in Nat
      /\ Cardinality(siigo) <= Cardinality(Customer)
  BY FS_Subset, FS_CardinalityType
<1>2. Rank(c) \in Nat \ {0} /\ Rank(c) <= Cardinality(siigo)
  <2> DEFINE before == {d \in siigo : d <= c}
  <2>1. before \subseteq siigo /\ c \in before
    OBVIOUS
  <2>2. IsFiniteSet(before) /\ Cardinality(before) <= Cardinality(siigo)
    BY <1>1, <2>1, FS_Subset
  <2>3. Cardinality(before) \in Nat /\ Cardinality(before) # 0
    BY <2>1, <2>2, FS_CardinalityType, FS_EmptySet
  <2> QED BY <2>2, <2>3 DEF Rank
<1>3. PICK k \in Nat \ {0} : /\ (k - 1) * PageSize < Rank(c) /\ Rank(c) <= k * PageSize
                             /\ k <= PageCount
  BY <1>1, <1>2, PageOfRank DEF PageCount
<1>4. k <= MaxPages
  <2> SUFFICES ASSUME MaxPages <= k - 1 PROVE FALSE
    OBVIOUS
  <2>1. MaxPages * PageSize <= (k - 1) * PageSize
    BY MorePages
  <2>2. Cardinality(Customer) <= MaxPages * PageSize
    BY CapacityAssumption
  <2> QED BY <1>1, <1>2, <1>3, <2>1, <2>2
<1> QED BY <1>3, <1>4 DEF Page, Listed

\* Storing one record of a page: which record it is, and what becomes of the
\* table and of the page.
LEMMA StoredRecord ==
  ASSUME TypeOK, NEW r \in Run, NEW k \in Page, SaveRecord(r, k)
  PROVE  \E c \in Customer, flag \in BOOLEAN :
           /\ <<c, flag>> \in got[r][k]
           /\ IF c \in Blank THEN UNCHANGED tableVars ELSE Upsert(r, c, flag)
           /\ got' = [got EXCEPT ![r][k] = @ \ {<<c, flag>>}]
           /\ page' = IF got[r][k] = {<<c, flag>>} THEN [page EXCEPT ![r][k] = "saved"] ELSE page
<1>1. PICK e \in got[r][k] :
        /\ IF e[1] \in Blank THEN UNCHANGED tableVars ELSE Upsert(r, e[1], e[2])
        /\ got' = [got EXCEPT ![r][k] = @ \ {e}]
        /\ page' = IF got[r][k] = {e} THEN [page EXCEPT ![r][k] = "saved"] ELSE page
  BY DEF SaveRecord
<1>2. e[1] \in Customer /\ e[2] \in BOOLEAN /\ e = <<e[1], e[2]>>
  BY DEF TypeOK, Record
<1>3. /\ <<e[1], e[2]>> \in got[r][k]
      /\ got' = [got EXCEPT ![r][k] = @ \ {<<e[1], e[2]>>}]
      /\ page' = IF got[r][k] = {<<e[1], e[2]>>} THEN [page EXCEPT ![r][k] = "saved"] ELSE page
  BY <1>1, <1>2, Zenon
<1> QED BY <1>1, <1>2, <1>3, Zenon

\* No row carries a stamp of a time still to come.
LEMMA ClockStep == TypeOK /\ StampsFollowClock /\ [Next]_vars => StampsFollowClock'
<1> SUFFICES ASSUME TypeOK, StampsFollowClock, [Next]_vars PROVE StampsFollowClock'
  OBVIOUS
<1> USE DEF TypeOK, StampsFollowClock
<1>1. ASSUME NEW r \in Run, NEW k \in Page, SaveRecord(r, k) PROVE StampsFollowClock'
  <2>1. PICK c \in Customer, flag \in BOOLEAN : UNCHANGED tableVars \/ Upsert(r, c, flag)
    <3>1. Stores(r, k)
      BY <1>1, SaveRecordStep
    <3> QED BY <3>1 DEF Stores, Upsert
  <2>2. UNCHANGED clock
    BY <1>1 DEF SaveRecord
  <2>3. synced' = synced \/ synced' = [synced EXCEPT ![c] = clock + Skew]
    BY <2>1 DEF Upsert
  <2>4. clock + Skew \in Int
    OBVIOUS
  <2>5. ASSUME NEW d \in Customer PROVE synced'[d] <= clock + Skew
    <3>1. synced'[d] = synced[d] \/ synced'[d] = clock + Skew
      BY <2>3
    <3> QED BY <2>4, <3>1
  <2> QED BY <2>2, <2>5
<1>2. ASSUME NEW r \in Run, Start(r) PROVE StampsFollowClock'
  BY <1>2 DEF Start
<1>3. ASSUME UNCHANGED <<synced, clock>> PROVE StampsFollowClock'
  BY <1>3
<1>4. ASSUME NEW r \in Run, FanOut(r) \/ Sweep(r) \/ EndWithoutSweep(r) PROVE StampsFollowClock'
  BY <1>3, <1>4 DEF FanOut, Sweep, EndWithoutSweep
<1>5. ASSUME NEW r \in Run, NEW k \in Page,
             FetchPage(r, k) \/ LosePage(r, k) \/ FailToSave(r, k)
      PROVE  StampsFollowClock'
  BY <1>3, <1>5 DEF FetchPage, LosePage, FailToSave
<1>6. CASE SiigoStep \/ UNCHANGED vars
  BY <1>3, <1>6 DEF SiigoStep, Delete, Add, Disable, Change, vars
<1> QED BY <1>1, <1>2, <1>4, <1>5, <1>6 DEF Next, RunStep, PageStep

\* Pages are only under way while the pass is, and the later ones only after
\* page 1 was stored.
LEMMA PagesStep ==
  TypeOK /\ StampsFollowStart /\ PagesFollowStage /\ [Next]_vars => PagesFollowStage'
<1> SUFFICES ASSUME TypeOK, StampsFollowStart, PagesFollowStage, [Next]_vars,
                    NEW q \in Run, NEW j \in Page, page'[q][j] \in {"todo", "saving"}
             PROVE  /\ stage'[q] = "passing"
                    /\ j = 1 \/ (page'[q][1] = "saved" /\ j <= total'[q])
  BY DEF PagesFollowStage, Expected
<1> DEFINE Goal == /\ stage'[q] = "passing"
                   /\ j = 1 \/ (page'[q][1] = "saved" /\ j <= total'[q])
<1> USE PageOne DEF TypeOK
<1>1. page[q][j] \in {"todo", "saving"} =>
        /\ stage[q] = "passing"
        /\ j = 1 \/ (page[q][1] = "saved" /\ j <= total[q])
  BY DEF PagesFollowStage, Expected
<1>2. CASE SiigoStep \/ UNCHANGED vars
  BY <1>1, <1>2 DEF SiigoStep, Delete, Add, Disable, Change, vars
<1>3. ASSUME NEW r \in Run, Start(r) PROVE Goal
  <2>1. /\ stage' = [stage EXCEPT ![r] = "passing"] /\ page' = [page EXCEPT ![r][1] = "todo"]
        /\ stage[r] = "idle" /\ UNCHANGED total
    BY <1>3 DEF Start
  <2>2. \A k \in Page : page[r][k] = "idle"
    BY <2>1 DEF StampsFollowStart
  <2> QED BY <1>1, <2>1, <2>2
<1>4. ASSUME NEW r \in Run, FanOut(r) PROVE Goal
  <2>1. CASE q = r
    <3>1. /\ stage[r] = "passing" /\ page[r][1] = "saved" /\ UNCHANGED <<stage, total>>
          /\ page'[r][j] = IF j \in Expected(r) \ {1} THEN "todo" ELSE page[r][j]
          /\ page'[r][1] = page[r][1]
      BY <1>4 DEF FanOut
    <3> QED BY <1>1, <2>1, <3>1 DEF Expected
  <2>2. CASE q # r
    BY <1>1, <1>4, <2>2 DEF FanOut
  <2> QED BY <2>1, <2>2
<1>5. ASSUME NEW r \in Run, Sweep(r) \/ EndWithoutSweep(r) PROVE Goal
  <2>1. /\ UNCHANGED <<page, total>> /\ \A p \in Run \ {r} : stage'[p] = stage[p]
        /\ Joined(r)
    BY <1>5 DEF Sweep, EndWithoutSweep
  <2>2. page[q][j] \in {"todo", "saving"} => q # r
    <3> SUFFICES ASSUME page[q][j] \in {"todo", "saving"}, q = r PROVE FALSE
      OBVIOUS
    <3>1. /\ page[r][1] \in Ended
          /\ page[r][1] = "saved" => \A k \in Expected(r) : page[r][k] \in Ended
      BY <2>1 DEF Joined
    <3>2. CASE j = 1
      BY <3>1, <3>2 DEF Ended
    <3>3. CASE j # 1
      BY <1>1, <3>1, <3>3 DEF Ended, Expected
    <3> QED BY <3>2, <3>3
  <2> QED BY <1>1, <2>1, <2>2
<1>6. ASSUME NEW r \in Run, NEW k \in Page, FetchPage(r, k) PROVE Goal
  <2>1. /\ page[r][k] = "todo" /\ UNCHANGED stage
        /\ total' = IF k = 1 THEN [total EXCEPT ![r] = PageCount] ELSE total
    BY <1>6 DEF FetchPage
  <2>2. \E s \in {"saved", "saving"} : page' = [page EXCEPT ![r][k] = s]
    BY <1>6 DEF FetchPage
  <2>3. CASE q # r
    BY <1>1, <2>1, <2>2, <2>3
  <2>4. CASE q = r
    <3>1. page[q][j] \in {"todo", "saving"}
      BY <2>1, <2>2, <2>4
    <3>2. j = 1 \/ (page[r][1] = "saved" /\ j <= total[r] /\ k # 1)
      BY <1>1, <2>1, <2>4, <3>1
    <3> QED BY <1>1, <2>1, <2>2, <2>4, <3>1, <3>2
  <2> QED BY <2>3, <2>4
<1>7. ASSUME NEW r \in Run, NEW k \in Page, LosePage(r, k) \/ FailToSave(r, k) PROVE Goal
  <2>1. /\ page[r][k] \in {"todo", "saving"} /\ UNCHANGED <<stage, total>>
        /\ \E s \in {"lost", "dberr"} : page' = [page EXCEPT ![r][k] = s]
    BY <1>7 DEF LosePage, FailToSave
  <2>2. page[q][j] \in {"todo", "saving"} /\ (page[q][1] = "saved" => page'[q][1] = "saved")
    BY <2>1
  <2> QED BY <1>1, <2>1, <2>2
<1>8. ASSUME NEW r \in Run, NEW k \in Page, SaveRecord(r, k) PROVE Goal
  <2>1. page[r][k] = "saving" /\ UNCHANGED <<stage, total>>
    BY <1>8 DEF SaveRecord
  <2>2. page' = page \/ page' = [page EXCEPT ![r][k] = "saved"]
    BY <1>8, StoredRecord
  <2>3. page[q][j] \in {"todo", "saving"} /\ (page[q][1] = "saved" => page'[q][1] = "saved")
    <3>1. CASE page' = page
      BY <3>1
    <3>2. CASE page' = [page EXCEPT ![r][k] = "saved"]
      BY <3>2
    <3> QED BY <2>2, <3>1, <3>2
  <2> QED BY <1>1, <2>1, <2>3
<1> QED BY <1>2, <1>3, <1>4, <1>5, <1>6, <1>7, <1>8 DEF Next, RunStep, PageStep

\* No other run is passing next to a quiet one.
LEMMA AloneStep == TypeOK /\ QuietRunIsAlone /\ [Next]_vars => QuietRunIsAlone'
<1> SUFFICES ASSUME TypeOK, QuietRunIsAlone, [Next]_vars PROVE QuietRunIsAlone'
  OBVIOUS
<1> USE DEF TypeOK, QuietRunIsAlone
<1>1. CASE SiigoStep
  <2>1. \A r \in Run : quiet'[r] = FALSE
    BY <1>1 DEF SiigoStep, Delete, Add, Disable, Change
  <2> QED BY <2>1
<1>2. ASSUME NEW r \in Run, Start(r) PROVE QuietRunIsAlone'
  <2>1. stage' = [stage EXCEPT ![r] = "passing"]
    BY <1>2 DEF Start
  <2>2. \A q \in Run : quiet'[q] => q = r /\ \A s \in Run : stage[s] # "passing"
    BY <1>2, Zenon DEF Start
  <2> QED BY <2>1, <2>2
<1>3. ASSUME UNCHANGED quiet, \A q \in Run : stage'[q] = "passing" => stage[q] = "passing"
      PROVE  QuietRunIsAlone'
  BY <1>3
<1>4. ASSUME NEW r \in Run, FanOut(r) \/ Sweep(r) \/ EndWithoutSweep(r) PROVE QuietRunIsAlone'
  BY <1>3, <1>4 DEF FanOut, Sweep, EndWithoutSweep
<1>5. ASSUME NEW r \in Run, NEW k \in Page, PageStep(r, k) PROVE QuietRunIsAlone'
  BY <1>3, <1>5 DEF PageStep, FetchPage, LosePage, SaveRecord, FailToSave
<1>6. CASE UNCHANGED vars
  BY <1>3, <1>6 DEF vars
<1> QED BY <1>1, <1>2, <1>4, <1>5, <1>6 DEF Next, RunStep

\* What QuietRunReads says of one run, the parts its steps disturb apart.
CountsPages(r) == page[r][1] \in {"saving", "saved"} => total[r] = PageCount

PageReads(r, k) ==
  /\ page[r][k] = "saving" =>
       \A e \in got[r][k] : e[1] \in Listed(k) /\ e[2] = (e[1] \in enabled)
  /\ page[r][k] \in {"saving", "saved"} => \A c \in Listed(k) :
       \/ c \in Blank \cup touched[r]
       \/ page[r][k] = "saving" /\ <<c, c \in enabled>> \in got[r][k]

RowsRead(r) ==
  /\ \A c \in touched[r] : c \in active <=> c \in enabled
  /\ \A c \in known \ touched[r] : synced[c] < started[r] + Skew

\* The parts are the whole.
LEMMA ReadsInParts ==
  QuietRunReads <=> \A r \in Run : quiet[r] /\ stage[r] = "passing" =>
    CountsPages(r) /\ (\A k \in Page : PageReads(r, k)) /\ RowsRead(r)
BY DEF QuietRunReads, CountsPages, PageReads, RowsRead

\* What a quiet run fetched is what Siigo lists, and the rows it has not
\* stored carry an older stamp.
LEMMA QuietStep ==
  TypeOK /\ CustomerInvariant /\ [Next]_vars => QuietRunReads'
<1> SUFFICES ASSUME TypeOK, StampsFollowStart, StampsFollowClock, PagesFollowStage,
                    QuietRunIsAlone, QuietRunReads, [Next]_vars,
                    NEW q \in Run, quiet'[q], stage'[q] = "passing"
             PROVE  CountsPages(q)' /\ (\A j \in Page : PageReads(q, j)') /\ RowsRead(q)'
  BY DEF CustomerInvariant, QuietRunReads, CountsPages, PageReads, RowsRead
<1> DEFINE Goal == CountsPages(q)' /\ (\A j \in Page : PageReads(q, j)') /\ RowsRead(q)'
<1> USE PageOne DEF TypeOK
<1>1. quiet[q] /\ stage[q] = "passing" =>
        CountsPages(q) /\ (\A j \in Page : PageReads(q, j)) /\ RowsRead(q)
  BY ReadsInParts
<1>2. SiigoStep => FALSE
  <2>1. SiigoStep => \A r \in Run : quiet'[r] = FALSE
    BY DEF SiigoStep, Delete, Add, Disable, Change
  <2> QED BY <2>1
<1>3. ASSUME NEW r \in Run, Start(r) PROVE Goal
  <2>1. q = r
    <3>1. \A p \in Run : quiet'[p] => p = r
      BY <1>3, Zenon DEF Start
    <3> QED BY <3>1
  <2>2. /\ stage[r] = "idle" /\ started' = [started EXCEPT ![r] = clock + 1]
        /\ page' = [page EXCEPT ![r][1] = "todo"] /\ UNCHANGED tableVars
    BY <1>3 DEF Start
  <2>3. touched[r] = {} /\ \A j \in Page : page[r][j] = "idle"
    BY <2>2 DEF StampsFollowStart
  <2>4. \A j \in Page : page'[r][j] \in {"idle", "todo"}
    BY <2>2, <2>3
  <2>5. RowsRead(r)'
    <3>1. \A c \in known : synced[c] < clock + 1 + Skew
      <4>1. \A c \in Customer : synced[c] \in Int /\ synced[c] <= clock + Skew
        BY DEF StampsFollowClock
      <4>2. \A c \in Customer : synced[c] < clock + 1 + Skew
        BY <4>1
      <4> QED BY <4>2
    <3> QED BY <2>2, <2>3, <3>1 DEF RowsRead
  <2> QED BY <2>1, <2>4, <2>5 DEF CountsPages, PageReads
<1>4. ASSUME UNCHANGED <<remoteVars, tableVars, started, total, got, quiet>>,
             quiet[q] /\ stage[q] = "passing",
             \A j \in Page : page'[q][j] \in {"saving", "saved"} => page'[q][j] = page[q][j]
      PROVE  Goal
  <2>1. CountsPages(q)'
    BY <1>1, <1>4 DEF CountsPages, PageCount
  <2>2. RowsRead(q)'
    BY <1>1, <1>4 DEF RowsRead
  <2>3. ASSUME NEW j \in Page PROVE PageReads(q, j)'
    <3>1. PageReads(q, j)
      BY <1>1, <1>4
    <3>2. Listed(j)' = Listed(j)
      BY <1>4 DEF Listed, Rank
    <3> QED BY <1>4, <3>1, <3>2 DEF PageReads
  <2> QED BY <2>1, <2>2, <2>3
<1>5. ASSUME NEW r \in Run, FanOut(r) PROVE Goal
  <2>1. UNCHANGED <<remoteVars, tableVars, stage, started, total, got, quiet>>
    BY <1>5 DEF FanOut
  <2>2. \A j \in Page : page'[q][j] = "todo" \/ page'[q][j] = page[q][j]
    BY <1>5 DEF FanOut
  <2> QED BY <1>4, <2>1, <2>2
<1>6. ASSUME NEW r \in Run, Sweep(r) \/ EndWithoutSweep(r) PROVE Goal
  <2>1. /\ stage[r] = "passing" /\ UNCHANGED quiet /\ stage'[r] # "passing"
        /\ \A p \in Run \ {r} : stage'[p] = stage[p]
    BY <1>6 DEF Sweep, EndWithoutSweep, Joined
  <2>2. q # r /\ stage[q] = "passing" /\ quiet[q]
    BY <2>1
  <2> QED BY <2>1, <2>2 DEF QuietRunIsAlone
<1>7. ASSUME NEW r \in Run, NEW k \in Page, PageStep(r, k)
      PROVE  /\ q = r /\ quiet[r] /\ stage[r] = "passing"
             /\ UNCHANGED <<remoteVars, stage, started, quiet>>
  <2>1. /\ page[r][k] \in {"todo", "saving"} /\ UNCHANGED <<remoteVars, stage, started, quiet>>
    BY <1>7 DEF PageStep, FetchPage, LosePage, SaveRecord, FailToSave
  <2>2. stage[r] = "passing"
    BY <2>1 DEF PagesFollowStage
  <2> QED BY <2>1, <2>2 DEF QuietRunIsAlone
<1>8. ASSUME NEW r \in Run, NEW k \in Page, FetchPage(r, k) PROVE Goal
  <2>1. q = r /\ quiet[r] /\ stage[r] = "passing" /\ UNCHANGED <<remoteVars, tableVars, started>>
    BY <1>7, <1>8 DEF PageStep, FetchPage
  <2>2. /\ got' = [got EXCEPT ![r][k] = {<<c, c \in enabled>> : c \in Listed(k)}]
        /\ page' = [page EXCEPT ![r][k] = IF Listed(k) = {} THEN "saved" ELSE "saving"]
        /\ total' = IF k = 1 THEN [total EXCEPT ![r] = PageCount] ELSE total
    BY <1>8 DEF FetchPage
  <2>3. Listed(k)' = Listed(k) /\ PageCount' = PageCount
    BY <2>1 DEF Listed, Rank, PageCount
  <2>4. CountsPages(r)'
    BY <1>1, <2>1, <2>2, <2>3 DEF CountsPages
  <2>5. RowsRead(r)'
    BY <1>1, <2>1 DEF RowsRead
  <2>6. ASSUME NEW j \in Page PROVE PageReads(r, j)'
    <3>1. CASE j = k
      <4>1. got'[r][k] = {<<c, c \in enabled>> : c \in Listed(k)}
        BY <2>2
      <4>2. page'[r][k] = IF Listed(k) = {} THEN "saved" ELSE "saving"
        BY <2>2
      <4>3. \A e \in got'[r][k] : e[1] \in Listed(k) /\ e[2] = (e[1] \in enabled)
        BY <4>1
      <4>4. \A c \in Listed(k) : <<c, c \in enabled>> \in got'[r][k]
        BY <4>1
      <4>5. enabled' = enabled
        BY <2>1
      <4> HIDE DEF TypeOK
      <4> QED BY <2>3, <3>1, <4>2, <4>3, <4>4, <4>5, Zenon DEF PageReads
    <3>2. CASE j # k
      <4>1. PageReads(r, j)
        BY <1>1, <2>1
      <4>2. got'[r][j] = got[r][j] /\ page'[r][j] = page[r][j] /\ Listed(j)' = Listed(j)
        BY <2>1, <2>2, <3>2 DEF Listed, Rank
      <4> QED BY <2>1, <4>1, <4>2 DEF PageReads
    <3> QED BY <3>1, <3>2
  <2> QED BY <2>1, <2>4, <2>5, <2>6
<1>9. ASSUME NEW r \in Run, NEW k \in Page, LosePage(r, k) PROVE Goal
  <2>1. q = r /\ quiet[r] /\ stage[r] = "passing"
    BY <1>7, <1>9 DEF PageStep
  <2>2. UNCHANGED <<remoteVars, tableVars, started, total, got, quiet>>
    BY <1>9 DEF LosePage
  <2>3. \A j \in Page : page'[r][j] = "lost" \/ page'[r][j] = page[r][j]
    BY <1>9 DEF LosePage
  <2> QED BY <1>4, <2>1, <2>2, <2>3
<1>10. ASSUME NEW r \in Run, NEW k \in Page, FailToSave(r, k) PROVE Goal
  <2>1. /\ q = r /\ quiet[r] /\ stage[r] = "passing"
        /\ UNCHANGED <<remoteVars, tableVars, started, total>>
    BY <1>7, <1>10 DEF PageStep, FailToSave
  <2>2. /\ page'[r][k] = "dberr"
        /\ \A j \in Page \ {k} : page'[r][j] = page[r][j] /\ got'[r][j] = got[r][j]
    BY <1>10 DEF FailToSave
  <2>3. CountsPages(r)'
    BY <1>1, <2>1, <2>2 DEF CountsPages, PageCount
  <2>4. RowsRead(r)'
    BY <1>1, <2>1 DEF RowsRead
  <2>5. ASSUME NEW j \in Page PROVE PageReads(r, j)'
    <3>1. PageReads(r, j) /\ Listed(j)' = Listed(j)
      BY <1>1, <2>1 DEF Listed, Rank
    <3>2. CASE j = k
      BY <2>2, <3>2 DEF PageReads
    <3>3. CASE j # k
      <4>1. page'[r][j] = page[r][j] /\ got'[r][j] = got[r][j]
        BY <2>2, <3>3
      <4> QED BY <2>1, <3>1, <4>1 DEF PageReads
    <3> QED BY <3>2, <3>3
  <2> QED BY <2>1, <2>3, <2>4, <2>5
<1>11. ASSUME NEW r \in Run, NEW k \in Page, SaveRecord(r, k) PROVE Goal
  <2>1. q = r /\ quiet[r] /\ stage[r] = "passing" /\ UNCHANGED <<remoteVars, started, total, clock>>
    BY <1>7, <1>11 DEF PageStep, SaveRecord
  <2>2. page[r][k] = "saving"
    BY <1>11 DEF SaveRecord
  <2>3. PICK c \in Customer, flag \in BOOLEAN :
           /\ <<c, flag>> \in got[r][k]
           /\ IF c \in Blank THEN UNCHANGED tableVars ELSE Upsert(r, c, flag)
           /\ got' = [got EXCEPT ![r][k] = @ \ {<<c, flag>>}]
           /\ page' = IF got[r][k] = {<<c, flag>>} THEN [page EXCEPT ![r][k] = "saved"] ELSE page
    BY <1>11, StoredRecord
  <2>4. flag = (c \in enabled)
    BY <1>1, <2>1, <2>2, <2>3 DEF PageReads
  <2>5. \A j \in Page : \A d \in got[r][j] : j # k \/ d # <<c, flag>> => d \in got'[r][j]
    BY <2>3
  <2>6. \A j \in Page : got'[r][j] \subseteq got[r][j]
    BY <2>3
  <2>7. /\ \A j \in Page \ {k} : page'[r][j] = page[r][j]
        /\ page'[r][k] = IF got[r][k] = {<<c, flag>>} THEN "saved" ELSE "saving"
    BY <2>2, <2>3
  <2>8. c \in Blank \/ c \in touched'[r]
    BY <2>3 DEF Upsert
  <2>9. touched[r] \subseteq touched'[r]
    BY <2>3 DEF Upsert
  <2>10. CountsPages(r)'
    BY <1>1, <2>1, <2>2, <2>7 DEF CountsPages, PageCount
  <2>11. RowsRead(r)'
    <3>1. CASE c \in Blank
      BY <1>1, <2>1, <2>3, <3>1 DEF RowsRead
    <3>2. CASE c \notin Blank
      <4>1. Upsert(r, c, flag)
        BY <2>3, <3>2
      <4>2. /\ touched'[r] = touched[r] \cup {c} /\ known' = known \cup {c}
            /\ (c \in active') = flag /\ \A d \in Customer \ {c} : d \in active' <=> d \in active
            /\ \A d \in Customer \ {c} : synced'[d] = synced[d]
        BY <4>1 DEF Upsert
      <4>3. ASSUME NEW d \in touched'[r] PROVE d \in active' <=> d \in enabled
        BY <1>1, <2>1, <2>4, <4>2 DEF RowsRead
      <4>4. ASSUME NEW d \in known' \ touched'[r] PROVE synced'[d] < started[r] + Skew
        BY <1>1, <2>1, <4>2 DEF RowsRead
      <4> QED BY <2>1, <4>3, <4>4 DEF RowsRead
    <3> QED BY <3>1, <3>2
  <2>12. ASSUME NEW j \in Page PROVE PageReads(r, j)'
    <3>1. PageReads(r, j) /\ Listed(j)' = Listed(j) /\ enabled' = enabled
      BY <1>1, <2>1 DEF Listed, Rank
    <3>2. page'[r][j] = "saving" =>
            \A e \in got'[r][j] : e[1] \in Listed(j) /\ e[2] = (e[1] \in enabled)
      BY <2>2, <2>6, <2>7, <3>1 DEF PageReads
    <3>3. ASSUME page'[r][j] \in {"saving", "saved"}, NEW d \in Listed(j)
          PROVE  \/ d \in Blank \cup touched'[r]
                 \/ page'[r][j] = "saving" /\ <<d, d \in enabled>> \in got'[r][j]
      <4>1. \/ d \in Blank \cup touched[r]
            \/ page[r][j] = "saving" /\ <<d, d \in enabled>> \in got[r][j]
        BY <2>2, <2>7, <3>1, <3>3 DEF PageReads
      <4>2. CASE d \in Blank \cup touched[r]
        BY <2>9, <4>2
      <4>3. CASE page[r][j] = "saving" /\ <<d, d \in enabled>> \in got[r][j] /\ j # k
        BY <2>5, <2>7, <4>3
      <4>4. CASE page[r][j] = "saving" /\ <<d, d \in enabled>> \in got[r][j] /\ j = k /\ d # c
        <5>1. <<d, d \in enabled>> # <<c, flag>>
          BY <4>4
        <5>2. page'[r][k] = "saving"
          BY <2>7, <4>4, <5>1
        <5> QED BY <2>5, <4>4, <5>1, <5>2
      <4>5. CASE d = c
        BY <2>8, <4>5
      <4> QED BY <4>1, <4>2, <4>3, <4>4, <4>5
    <3> QED BY <3>1, <3>2, <3>3 DEF PageReads
  <2> QED BY <2>1, <2>10, <2>11, <2>12
<1>12. CASE UNCHANGED vars
  BY <1>4, <1>12 DEF vars
<1> QED
  BY <1>2, <1>3, <1>5, <1>6, <1>8, <1>9, <1>10, <1>11, <1>12 DEF Next, RunStep, PageStep

\* What a quiet run stored by the time it sweeps is all that Siigo lists.
LEMMA QuietRunMeetsAll ==
  ASSUME TypeOK, QuietRunReads, NEW r \in Run, quiet[r], stage[r] = "passing", Clean(r)
  PROVE  siigo \subseteq Blank \cup touched[r]
<1> SUFFICES ASSUME NEW c \in siigo PROVE c \in Blank \cup touched[r]
  OBVIOUS
<1> USE DEF TypeOK
<1>1. PICK k \in Page : c \in Listed(k) /\ k <= PageCount
  BY PagesCover
<1>2. page[r][1] = "saved"
  BY PageOne DEF Clean, Expected
<1>3. total[r] = PageCount
  BY <1>2, ReadsInParts DEF CountsPages
<1>4. page[r][k] = "saved"
  BY <1>1, <1>3 DEF Clean, Expected
<1> QED BY <1>1, <1>4, ReadsInParts DEF PageReads

\* What a quiet run believes and stored agrees with Siigo in every behaviour.
LEMMA CustomerInvariantHolds == ASSUME Skew \in Nat PROVE Spec => []CustomerInvariant
<1> DEFINE Inv == StampsFollowClock /\ PagesFollowStage /\ QuietRunIsAlone /\ QuietRunReads
<1>1. Init => Inv
  BY DEF Init, StampsFollowClock, PagesFollowStage, QuietRunIsAlone, QuietRunReads
<1>2. TypeOK /\ StampsFollowStart /\ Inv /\ [Next]_vars => Inv'
  BY ClockStep, PagesStep, AloneStep, QuietStep DEF CustomerInvariant
<1>3. Inv /\ StampsFollowStart => CustomerInvariant
  BY DEF CustomerInvariant
<1>4. Spec => []StampsFollowStart
  BY StampsHold
<1> QED BY <1>1, <1>2, <1>3, <1>4, TypeCorrect, PTL DEF Spec

\* The sweep of a clean run during which nothing else happened.  It keeps every
\* third party Siigo holds as active; when the two clocks agree it keeps no
\* other.  A database clock ahead of the server's lets a row stamped just
\* before the run pass for one of the run's own.
LEMMA QuietSweep ==
  ASSUME TypeOK, CustomerInvariant, NEW r \in Run, Sweep(r), quiet[r]
  PROVE  /\ enabled \ Blank \subseteq active'
         /\ Skew = 0 => active' \subseteq enabled \ Blank
<1> USE DEF TypeOK
<1>1. stage[r] = "passing" /\ Clean(r) /\ active' = {c \in active : synced[c] >= started[r]}
  BY DEF Sweep, Joined
<1>2. RowsRead(r) /\ siigo \subseteq Blank \cup touched[r]
  BY <1>1, QuietRunMeetsAll, ReadsInParts DEF CustomerInvariant
<1>3. ASSUME NEW c \in enabled \ Blank PROVE c \in active'
  <2>1. c \in touched[r] /\ synced[c] >= started[r]
    BY <1>2 DEF CustomerInvariant, StampsFollowStart
  <2> QED BY <1>1, <1>2, <2>1 DEF RowsRead
<1>4. ASSUME Skew = 0, NEW c \in active' PROVE c \in enabled \ Blank
  <2>1. c \in known /\ c \in active /\ c \in Customer \ Blank /\ synced[c] >= started[r]
    BY <1>1
  <2>2. c \in touched[r]
    BY <1>2, <1>4, <2>1 DEF RowsRead
  <2> QED BY <1>2, <2>1, <2>2 DEF RowsRead
<1> QED BY <1>3, <1>4

\* Only its own sweep makes a run swept.
LEMMA SweptBySweep ==
  ASSUME TypeOK, Next, NEW r \in Run, stage[r] = "passing", stage'[r] = "swept"
  PROVE  Sweep(r)
<1> USE DEF TypeOK
<1>1. ASSUME NEW q \in Run, Start(q) \/ FanOut(q) \/ EndWithoutSweep(q) PROVE FALSE
  BY <1>1 DEF Start, FanOut, EndWithoutSweep
<1>2. ASSUME NEW q \in Run, Sweep(q) PROVE q = r
  BY <1>2 DEF Sweep
<1>3. ASSUME NEW q \in Run, NEW k \in Page, PageStep(q, k) PROVE FALSE
  BY <1>3 DEF PageStep, FetchPage, LosePage, SaveRecord, FailToSave
<1>4. ~SiigoStep
  BY DEF SiigoStep, Delete, Add, Disable, Change
<1> QED BY <1>1, <1>2, <1>3, <1>4 DEF Next, RunStep

\* When the database's clock and the server's agree, a clean run during which
\* nothing else happened leaves exactly the third parties active that Siigo
\* holds as active.
THEOREM QuietRunMirrorsSiigoHolds == ASSUME Skew = 0 PROVE Spec => QuietRunMirrorsSiigo
<1> DEFINE Mirrored == \A r \in Run :
             stage[r] = "passing" /\ stage'[r] = "swept" /\ quiet[r] =>
               active' = enabled \ Blank
<1>1. TypeOK /\ CustomerInvariant /\ [Next]_vars => [Mirrored]_vars
  <2> SUFFICES ASSUME TypeOK, CustomerInvariant, Next, NEW r \in Run,
                      stage[r] = "passing", stage'[r] = "swept", quiet[r]
               PROVE  active' = enabled \ Blank
    BY DEF vars
  <2>1. Sweep(r)
    BY SweptBySweep
  <2>2. enabled \ Blank \subseteq active' /\ active' \subseteq enabled \ Blank
    BY <2>1, QuietSweep
  <2> QED BY <2>2
<1>2. Spec => []CustomerInvariant
  BY CustomerInvariantHolds
<1> QED BY <1>1, <1>2, TypeCorrect, PTL DEF Spec, QuietRunMirrorsSiigo

\* With the database's clock anything but behind, such a run leaves no third
\* party inactive that Siigo holds as active.
THEOREM QuietRunKeepsActive ==
  ASSUME Skew \in Nat
  PROVE  Spec => [][\A r \in Run :
                      stage[r] = "passing" /\ stage'[r] = "swept" /\ quiet[r] =>
                        enabled \ Blank \subseteq active']_vars
<1> DEFINE KeepsActive == \A r \in Run :
             stage[r] = "passing" /\ stage'[r] = "swept" /\ quiet[r] =>
               enabled \ Blank \subseteq active'
<1>1. TypeOK /\ CustomerInvariant /\ [Next]_vars => [KeepsActive]_vars
  <2> SUFFICES ASSUME TypeOK, CustomerInvariant, Next, NEW r \in Run,
                      stage[r] = "passing", stage'[r] = "swept", quiet[r]
               PROVE  enabled \ Blank \subseteq active'
    BY DEF vars
  <2> QED BY SweptBySweep, QuietSweep
<1>2. Spec => []CustomerInvariant
  BY CustomerInvariantHolds
<1> QED BY <1>1, <1>2, TypeCorrect, PTL DEF Spec
=============================================================================
