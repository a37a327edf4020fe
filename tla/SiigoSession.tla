---------------------------- MODULE SiigoSession ----------------------------
(***************************************************************************)
(* The connection to Siigo: the token each Client holds and renews         *)
(* (src/internal/siigo/client.go), the one Client the handler keeps for    *)
(* everybody, and the account stored beside it (Connect, AutoConnect and   *)
(* ensureClient of src/internal/handler/siigo.go).                         *)
(*                                                                         *)
(* A Client authenticates with its write lock held, so whoever reads its   *)
(* token waits for the answer, then takes a copy of it and calls with that *)
(* while time passes and others renew.  The handler's client and the       *)
(* stored account are two variables changed one after the other, by        *)
(* Connect and by any request that finds the client lapsed.  A restart     *)
(* loses the clients and keeps the account.                                *)
(***************************************************************************)
EXTENDS Integers, FiniteSets

CONSTANTS
  Caller,      \* goroutines serving requests, and those of a sync
  Main,        \* the one that runs AutoConnect before the server listens
  Account,     \* Siigo credentials
  EnvAccount,  \* those of the environment, or None
  None,        \* no account, no holder
  Lifetime,    \* expires_in, in ticks
  Ahead,       \* how long before the end the refresher renews (10 minutes)
  Margin,      \* how long before the end a caller renews (5 minutes)
  Retry,       \* how long the refresher sleeps when it is late (1 hour)
  CallTime,    \* longest a call takes, the HTTP client's timeout (15 s)
  MaxClients,  \* bound: clients ever created
  LastTick,    \* bound: time
  MaxRestarts  \* bound: restarts

Process == Caller \cup {Main}
Client  == 1 .. MaxClients

ASSUME NoneAssumption    == None \notin Process \cup Account \cup {"refresher"}
ASSUME ProcessAssumption == Main \notin Caller /\ "refresher" \notin Process
ASSUME AccountAssumption == EnvAccount \in Account \cup {None}
ASSUME TimeAssumption    ==
  /\ {Lifetime, Ahead, Margin, Retry, CallTime} \subseteq Nat \ {0}
  /\ Margin < Lifetime /\ CallTime <= Margin
ASSUME BoundAssumption   == {MaxClients, LastTick, MaxRestarts} \subseteq Nat

VARIABLES
  now,
  made,      \* clients created so far
  account,   \* client -> its credentials
  exp,       \* client -> tokenExp; 0 before the first token
  lock,      \* client -> who holds mu for writing, or None
  auto,      \* client -> its refresher: "none", "asleep", "due"
  wake,      \* client -> when the refresher fires
  slot,      \* h.client, or 0 for nil
  config,    \* account of the siigo_configs row, or None
  pc,        \* process -> where it is
  with,      \* process -> the client it works with, or 0
  cred,      \* process -> the credentials it works with, or None
  taken,     \* process -> when it took the token its call carries, and when
             \* that token ends
  restarts,  \* restarts so far
  alone,     \* history: process -> no other changed the session meanwhile
  settled    \* history: the last change of the session was made alone

clientVars  == <<made, account, exp, lock, auto, wake>>
sessionVars == <<slot, config>>
procVars    == <<pc, with, cred, taken>>
ghostVars   == <<alone, settled>>
connectionVars == <<now, clientVars, sessionVars, procVars, restarts, ghostVars>>

-----------------------------------------------------------------------------
PC == {"idle", "connecting", "slotting", "saving", "rebuilding", "installing",
         "calling", "wanting", "renewing", "sending"}

\* Between the first and the last change a request makes to the session.
Changing == {"connecting", "slotting", "saving", "rebuilding", "installing"}
Busy(p)  == pc[p] \in Changing

Connected(c) == now < exp[c]
Fit(c)       == now < exp[c] - Margin

TokensTypeOK == taken \in [Process -> [at : Nat, end : Nat]]

ConnectionTypeOK ==
  /\ now \in 0 .. LastTick /\ made \in 0 .. MaxClients
  /\ account \in [Client -> Account \cup {None}]
  /\ \A c \in 1 .. made : account[c] \in Account
  /\ exp \in [Client -> Nat]
  /\ lock \in [Client -> Process \cup {"refresher", None}]
  /\ auto \in [Client -> {"none", "asleep", "due"}] /\ wake \in [Client -> Int]
  /\ slot \in 0 .. made /\ config \in Account \cup {None}
  /\ pc \in [Process -> PC] /\ with \in [Process -> 0 .. made]
  /\ cred \in [Process -> Account \cup {None}]
  /\ \A p \in Process : Busy(p) => cred[p] \in Account
  /\ TokensTypeOK
  /\ restarts \in 0 .. MaxRestarts
  /\ alone \in [Process -> BOOLEAN] /\ settled \in BOOLEAN

\* A process of its own starts with nothing; Main starts with AutoConnect when
\* the environment has credentials, and the server listens after it.
BootPc   == [p \in Process |->
               IF p = Main /\ EnvAccount # None THEN "connecting" ELSE "idle"]
BootCred == [p \in Process |-> IF p = Main THEN EnvAccount ELSE None]
NoTokens == [p \in Process |-> [at |-> 0, end |-> 0]]
Nobody   == [c \in Client |-> None]
Zero     == [c \in Client |-> 0]

ConnectionInit ==
  /\ now = 0 /\ made = 0 /\ restarts = 0
  /\ account = Nobody /\ lock = Nobody /\ exp = Zero /\ wake = Zero
  /\ auto = [c \in Client |-> "none"]
  /\ slot = 0 /\ config = None
  /\ pc = BootPc /\ cred = BootCred /\ with = [p \in Process |-> 0]
  /\ taken = NoTokens
  /\ alone = [p \in Process |-> TRUE] /\ settled = TRUE

\* The instance stops (Render puts an idle one to sleep) and starts again.
Restart ==
  /\ restarts < MaxRestarts
  /\ restarts' = restarts + 1
  /\ made' = 0
  /\ account' = Nobody /\ lock' = Nobody /\ exp' = Zero /\ wake' = Zero
  /\ auto' = [c \in Client |-> "none"]
  /\ slot' = 0
  /\ pc' = BootPc /\ cred' = BootCred /\ with' = [p \in Process |-> 0]
  /\ taken' = NoTokens
  /\ alone' = [p \in Process |-> TRUE] /\ settled' = TRUE
  /\ UNCHANGED <<now, config>>

\* No call is out for longer than the HTTP client allows, the few instructions
\* between getToken and the request included.
Tick ==
  /\ now < LastTick
  /\ \A p \in Process : pc[p] = "sending" => now < taken[p].at + CallTime
  /\ now' = now + 1
  /\ UNCHANGED <<clientVars, sessionVars, procVars, restarts, ghostVars>>

-----------------------------------------------------------------------------
(* Changing the session *)

Listening == pc[Main] = "idle"
Goto(p, step) == pc' = [pc EXCEPT ![p] = step]

\* A process that starts to change the session is alone if nobody else is at
\* it, and ends the solitude of those that are.
BeginChange(p) ==
  alone' = [q \in Process |->
              IF q = p THEN \A o \in Process \ {p} : ~Busy(o) ELSE ~Busy(q)]
EndChange(p) == alone' = [alone EXCEPT ![p] = TRUE]

\* The request is over.
Leave(p) ==
  /\ pc' = [pc EXCEPT ![p] = "idle"]
  /\ with' = [with EXCEPT ![p] = 0]
  /\ cred' = [cred EXCEPT ![p] = None]
  /\ EndChange(p)

\* NewClient and a Client.Connect that succeeds: nobody else knows the client.
NewClient(p, who, refreshed) ==
  /\ made < MaxClients
  /\ made' = made + 1
  /\ account' = [account EXCEPT ![made + 1] = who]
  /\ exp' = [exp EXCEPT ![made + 1] = now + Lifetime]
  /\ auto' = [auto EXCEPT ![made + 1] = IF refreshed THEN "asleep" ELSE "none"]
  /\ wake' = [wake EXCEPT ![made + 1] = IF refreshed THEN now + Lifetime - Ahead ELSE 0]
  /\ with' = [with EXCEPT ![p] = made + 1]
  /\ UNCHANGED lock

\* Connect: credentials from the body; Siigo accepts them, or nothing happens.
Connect(p, who) ==
  /\ Listening /\ p \in Caller /\ pc[p] = "idle"
  /\ NewClient(p, who, TRUE)
  /\ cred' = [cred EXCEPT ![p] = who]
  /\ Goto(p, "slotting")
  /\ BeginChange(p)
  /\ UNCHANGED <<now, sessionVars, restarts, settled, taken>>

\* AutoConnect; if Siigo refuses, the server listens all the same.
AutoConnect ==
  /\ pc[Main] = "connecting"
  /\ \/ /\ NewClient(Main, cred[Main], TRUE)
        /\ Goto(Main, "slotting")
        /\ UNCHANGED <<cred, alone>>
     \/ Leave(Main) /\ UNCHANGED clientVars
  /\ UNCHANGED <<now, sessionVars, restarts, settled, taken>>

SetClient(p) ==
  /\ pc[p] = "slotting"
  /\ slot' = with[p]
  /\ Goto(p, "saving")
  /\ UNCHANGED <<now, clientVars, config, with, cred, restarts, ghostVars, taken>>

\* Variant: the account is stored for the first connection only.
SaveConfigOnce(p) ==
  /\ pc[p] = "saving"
  /\ config' = IF config = None THEN cred[p] ELSE config
  /\ settled' = alone[p]
  /\ Leave(p)
  /\ UNCHANGED <<now, clientVars, slot, restarts, taken>>

\* SetSiigoConfig
SaveConfig(p) ==
  /\ pc[p] = "saving"
  /\ config' = cred[p]
  /\ settled' = alone[p]
  /\ Leave(p)
  /\ UNCHANGED <<now, clientVars, slot, restarts, taken>>

\* The store fails: 500, with the new client already in the handler.
FailToSave(p) ==
  /\ pc[p] = "saving"
  /\ settled' = FALSE
  /\ Leave(p)
  /\ UNCHANGED <<now, clientVars, sessionVars, restarts, taken>>

-----------------------------------------------------------------------------
(* A sync asks for the client *)

\* ensureClient: the handler's client will do.  IsConnected waits for a
\* renewal in progress.
UseClient(p) ==
  /\ Listening /\ p \in Caller /\ pc[p] = "idle"
  /\ slot # 0 /\ lock[slot] = None /\ Connected(slot)
  /\ with' = [with EXCEPT ![p] = slot]
  /\ Goto(p, "calling")
  /\ UNCHANGED <<now, clientVars, sessionVars, cred, restarts, ghostVars, taken>>

\* ensureClient: it will not, and GetSiigoConfig has an account (or 503).
ReadConfig(p) ==
  /\ Listening /\ p \in Caller /\ pc[p] = "idle"
  /\ slot # 0 => lock[slot] = None /\ ~Connected(slot)
  /\ config # None
  /\ cred' = [cred EXCEPT ![p] = config]
  /\ Goto(p, "rebuilding")
  /\ BeginChange(p)
  /\ UNCHANGED <<now, clientVars, sessionVars, with, restarts, settled, taken>>

\* No refresher is started for this client.
Rebuild(p) ==
  /\ pc[p] = "rebuilding"
  /\ \/ /\ NewClient(p, cred[p], FALSE)
        /\ Goto(p, "installing")
        /\ UNCHANGED <<cred, alone>>
     \/ Leave(p) /\ UNCHANGED clientVars
  /\ UNCHANGED <<now, sessionVars, restarts, settled, taken>>

Install(p) ==
  /\ pc[p] = "installing"
  /\ slot' = with[p]
  /\ settled' = (settled /\ alone[p])
  /\ Goto(p, "calling")
  /\ cred' = [cred EXCEPT ![p] = None]
  /\ EndChange(p)
  /\ UNCHANGED <<now, clientVars, config, with, restarts, taken>>

-----------------------------------------------------------------------------
(* Calls: get and getToken *)

\* The token is copied: what becomes of the client's is no longer seen.
TakeToken(p, end) == taken' = [taken EXCEPT ![p] = [at |-> now, end |-> end]]

\* Variant: any token that has not lapsed is sent.
LookForAnyToken(p) ==
  LET c == with[p] IN
  /\ pc[p] = "calling" /\ lock[c] = None
  /\ \/ Connected(c) /\ Goto(p, "sending") /\ TakeToken(p, exp[c])
     \/ ~Connected(c) /\ Goto(p, "wanting") /\ UNCHANGED taken
  /\ UNCHANGED <<now, clientVars, sessionVars, with, cred, restarts, ghostVars>>

\* The first look, under the read lock.
Look(p) ==
  LET c == with[p] IN
  /\ pc[p] = "calling" /\ lock[c] = None
  /\ \/ Fit(c) /\ Goto(p, "sending") /\ TakeToken(p, exp[c])
     \/ ~Fit(c) /\ Goto(p, "wanting") /\ UNCHANGED taken
  /\ UNCHANGED <<now, clientVars, sessionVars, with, cred, restarts, ghostVars>>

\* Variant: the token is not looked at again under the write lock.
LookOnce(p) ==
  LET c == with[p] IN
  /\ pc[p] = "wanting" /\ lock[c] = None
  /\ Goto(p, "renewing")
  /\ lock' = [lock EXCEPT ![c] = p]
  /\ UNCHANGED <<now, made, account, exp, auto, wake, sessionVars, with, cred, taken, restarts,
                 ghostVars>>

\* The second look, under the write lock.
LookAgain(p) ==
  LET c == with[p] IN
  /\ pc[p] = "wanting" /\ lock[c] = None
  /\ \/ Fit(c) /\ Goto(p, "sending") /\ TakeToken(p, exp[c]) /\ UNCHANGED lock
     \/ /\ ~Fit(c) /\ Goto(p, "renewing")
        /\ lock' = [lock EXCEPT ![c] = p]
        /\ UNCHANGED taken
  /\ UNCHANGED <<now, made, account, exp, auto, wake, sessionVars, with, cred, restarts, ghostVars>>

\* refreshToken under the write lock: it succeeds, or the call fails and the
\* old token stays.
Renew(p) ==
  LET c == with[p] IN
  /\ pc[p] = "renewing"
  /\ lock' = [lock EXCEPT ![c] = None]
  /\ \/ /\ exp' = [exp EXCEPT ![c] = now + Lifetime]
        /\ Goto(p, "sending")
        /\ TakeToken(p, now + Lifetime)
        /\ UNCHANGED with
     \/ /\ Goto(p, "idle")
        /\ with' = [with EXCEPT ![p] = 0]
        /\ UNCHANGED <<exp, taken>>
  /\ UNCHANGED <<now, made, account, auto, wake, sessionVars, cred, restarts, ghostVars>>

\* The request went out and was answered, or given up on; the sync makes
\* another call or is done.
Send(p) ==
  /\ pc[p] = "sending"
  /\ taken' = [taken EXCEPT ![p] = [at |-> 0, end |-> 0]]
  /\ \/ Goto(p, "calling") /\ UNCHANGED with
     \/ Goto(p, "idle") /\ with' = [with EXCEPT ![p] = 0]
  /\ UNCHANGED <<now, clientVars, sessionVars, cred, restarts, ghostVars>>

-----------------------------------------------------------------------------
(* The refresher: StartAutoRefresh *)

\* It takes the lock when its time has come, whatever the token is by then.
Fire(c) ==
  /\ auto[c] = "asleep" /\ now >= wake[c] /\ lock[c] = None
  /\ auto' = [auto EXCEPT ![c] = "due"]
  /\ lock' = [lock EXCEPT ![c] = "refresher"]
  /\ UNCHANGED <<now, made, account, exp, wake, sessionVars, procVars, restarts, ghostVars>>

\* refreshToken, and the next sleep: an hour when the token is already near
\* its end, which is where a failure leaves it.
Refresh(c) ==
  /\ auto[c] = "due"
  /\ auto' = [auto EXCEPT ![c] = "asleep"]
  /\ lock' = [lock EXCEPT ![c] = None]
  /\ \E end \in {exp[c], now + Lifetime} :
       /\ exp' = [exp EXCEPT ![c] = end]
       /\ wake' = [wake EXCEPT ![c] = IF now < end - Ahead THEN end - Ahead ELSE now + Retry]
  /\ UNCHANGED <<now, made, account, sessionVars, procVars, restarts, ghostVars>>

ChangeStep(p) ==
  \/ SetClient(p) \/ SaveConfig(p) \/ FailToSave(p)
  \/ Rebuild(p) \/ Install(p)
CallStep(p) == Look(p) \/ LookAgain(p) \/ Renew(p) \/ Send(p)

ConnectionNext ==
  \/ Tick \/ Restart \/ AutoConnect
  \/ \E p \in Process :
       \/ \E who \in Account : Connect(p, who)
       \/ UseClient(p) \/ ReadConfig(p)
       \/ ChangeStep(p) \/ CallStep(p)
  \/ \E c \in Client : Fire(c) \/ Refresh(c)

ConnectionSpec == ConnectionInit /\ [][ConnectionNext]_connectionVars

-----------------------------------------------------------------------------
(* Properties *)

\* getToken's margin: a call that is out carries a token that has not ended,
\* however long the call takes between its look at the token and the answer,
\* and whatever renews, fails to renew or replaces the client meanwhile.
TokenOutlivesCall ==
  \A p \in Process : pc[p] = "sending" => now < taken[p].end

\* getToken's second look: callers that found the same token old do not renew
\* it one after the other; the ones that waited use what the first obtained.
OneRenewalPerLapse ==
  [][\A p \in Caller, c \in Client :
       pc[p] = "renewing" /\ with[p] = c /\ exp'[c] # exp[c] => ~Fit(c)]_connectionVars

\* The lock of a client is held exactly by whoever is authenticating it.
LockHeldToRenew ==
  \A c \in Client :
    /\ \A p \in Process : lock[c] = p <=> pc[p] = "renewing" /\ with[p] = c
    /\ lock[c] = "refresher" <=> auto[c] = "due"

\* Connect, AutoConnect and ensureClient: after a change made alone, and after
\* any restart, the handler's client is of the stored account, so that the
\* status shown and the data synced are of the same company.
SessionIsOfStoredAccount ==
  settled /\ slot # 0 /\ (\A p \in Process : ~Busy(p)) => account[slot] = config

-----------------------------------------------------------------------------
(* The inductive invariants *)

\* Whoever works with a client has one, and clients not yet made are blank.
ClientsAreMade ==
  /\ \A p \in Process :
       pc[p] \in {"slotting", "saving", "installing", "calling", "wanting", "renewing", "sending"}
         => with[p] # 0
  /\ \A c \in Client : c > made => auto[c] = "none"

\* Who renews a token found it old, and nobody else renewed it since.
RenewalsAreDue ==
  /\ LockHeldToRenew
  /\ \A p \in Process : pc[p] = "renewing" => ~Fit(with[p])

\* The token of a call was taken with more than the margin left, and not longer
\* ago than a call takes.
CallsAreFit ==
  \A p \in Process : pc[p] = "sending" =>
    /\ taken[p].at + Margin < taken[p].end
    /\ now <= taken[p].at + CallTime

\* A change made alone finds the session as it left it, and nobody is at "saving"
\* with the stored account and the client apart unless the change is unsettled.
ChangesKeepOrder ==
  /\ \A p, q \in Process : Busy(p) /\ alone[p] /\ q # p => ~Busy(q)
  /\ \A p \in Process :
       /\ pc[p] \in {"slotting", "saving", "installing"} => account[with[p]] = cred[p]
       /\ alone[p] /\ pc[p] = "saving" => slot = with[p]
       /\ alone[p] /\ pc[p] \in {"rebuilding", "installing"} => cred[p] = config
  /\ settled /\ slot # 0 /\ (\A p \in Process : pc[p] # "saving") => account[slot] = config
=============================================================================
