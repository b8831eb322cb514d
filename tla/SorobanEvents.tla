---------------------------- MODULE SorobanEvents ----------------------------
(***************************************************************************)
(* Clicks, impressions and administration through the HTTP interface of the *)
(* Soroban contracts: GET /api/click-soroban and processClickSorobanAsync,   *)
(* the Soroban branch of POST /api/impression, the /api/soroban endpoints    *)
(* that change something (adRoutes.js), and sorobanContractsService.js.      *)
(*                                                                         *)
(* An action is a callback of the event loop, a step of the contracts        *)
(* behind the interface, or the death of the process.  A request is sent     *)
(* once and never again; it may be decided after its caller has given up.    *)
(* An answer carries no payments, or numbers that add up to the price the    *)
(* contract debits: what else the interface might report is not modelled.    *)
(***************************************************************************)
EXTENDS Integers, FiniteSets

CONSTANTS Clicks,      \* requests of GET /api/click-soroban
          Views,       \* of POST /api/impression and POST .../submit-event
          Admins,      \* of the administration endpoints
          Campaigns,
          Publishers,
          Price,       \* pricePerEvent
          Deposit,     \* what a campaign holds at the contract at first
          NoOrder,     \* the order of a request that has not come yet
          Unknown,     \* a setting of which the operator knows nothing
          Allowed,     \* publishers allowed at first
          Faults,      \* subset of {"db", "lost", "kill"}
          MaxRequests, \* bound on the requests that come
          MaxRestarts  \* bound on the restarts of the process

Requests == Clicks \union Views \union Admins
Events   == Clicks \union Views

(* Each administration endpoint sets one of these at the contracts: paused,  *)
(* a publisher allowed, a campaign closed, the registry's owner or a         *)
(* verifier named, the vault configured, tokens minted.                      *)
Facts    == {"owner", "verifier", "config", "minted"}
Settings == {"paused"} \union Publishers \union Campaigns \union Facts

EventOrders  == [op : {"click", "impression", "event"},
                 campaign : Campaigns, publisher : Publishers]
SetOrders    == [op : {"set"}, setting : Settings, value : BOOLEAN]
RefundOrders == [op : {"refund"}, campaign : Campaigns]
Orders       == EventOrders \union SetOrders \union RefundOrders

ASSUME RequestsDiffer ==
  /\ Clicks \intersect Views = {}
  /\ Events \intersect Admins = {}
  /\ NoOrder \notin Orders \union Campaigns /\ Unknown \notin BOOLEAN
ASSUME RequestsFinite == IsFiniteSet(Requests)
ASSUME Amounts ==
  /\ Price \in Nat \ {0} /\ Deposit \in [Campaigns -> Nat]
  /\ Allowed \subseteq Publishers
  /\ {MaxRequests, MaxRestarts} \subseteq Nat

VARIABLES restarts,
          stage,    \* where the handler of each request stands
          order,    \* what each request asks for
          fate,     \* each request at the contracts
          setting,  \* what the contracts have set
          funds,    \* what a campaign still holds at the contract
          row,      \* clicks.payment_status, "none" if no row
          spent,    \* campaigns.spent_xlm
          told,     \* history: what the operator was last told of a setting
          alone     \* history: orders no other order of their setting met

serverVars   == <<restarts, stage, row, spent>>
contractVars == <<setting, funds>>
operatorVars == <<told, alone>>
vars == <<restarts, stage, order, fate, setting, funds, row, spent, told, alone>>

InFlight == {"queued", "awaiting", "charge"}
Ended    == {"done",    \* success was answered or written
             "failed",  \* failure was
             "threw",   \* an exception ended the handler in its catch block
             "lost"}    \* the process went away under it

Running == \A c \in Clicks : stage[c] # "charge"
At(r, st) == Running /\ stage[r] = st
Goto(r, st) == stage' = [stage EXCEPT ![r] = st]

(* A request comes to the server. *)
Comes(r) == At(r, "idle") /\ Cardinality({q \in Requests : stage[q] # "idle"}) < MaxRequests

Init ==
  /\ restarts = 0
  /\ stage = [r \in Requests |-> "idle"]
  /\ order = [r \in Requests |-> NoOrder]
  /\ fate = [r \in Requests |-> "none"]
  /\ setting = [s \in Settings |-> s \in Allowed]
  /\ funds = Deposit
  /\ row = [c \in Clicks |-> "none"]
  /\ spent = [k \in Campaigns |-> 0]
  /\ told = [s \in Settings |-> Unknown]
  /\ alone = {}

-----------------------------------------------------------------------------
(* callContractsApi, up to its fetch. *)
Ask(r, o) ==
  /\ order' = [order EXCEPT ![r] = o]
  /\ fate' = [fate EXCEPT ![r] = "sent"]
  /\ Goto(r, "awaiting")

(* Mutant: response.ok is not looked at. *)
AcceptedAnyStatus(r) == fate[r] \in {"applied", "refused"}

(* callContractsApi returns success: an answer came and response.ok holds.   *)
Accepted(r) == fate[r] = "applied"

(* Mutant: only an answer of the contracts ends the wait. *)
RejectedInTime(r) == fate[r] = "refused"

(* callContractsApi returns failure: the contracts refused, or no answer     *)
(* that can be read came, whatever they did or are still to do.              *)
Rejected(r) == fate[r] = "refused" \/ "lost" \in Faults

-----------------------------------------------------------------------------
(* The contracts, external: what the endpoints' names and comments say.      *)
Payable(r) ==
  /\ ~setting["paused"]
  /\ setting[order[r].publisher]
  /\ ~setting[order[r].campaign]
  /\ funds[order[r].campaign] >= Price

Decide(r, f) == fate[r] = "sent" /\ fate' = [fate EXCEPT ![r] = f]

PayEvent(r) ==
  /\ Decide(r, "applied")
  /\ order[r] \in EventOrders /\ Payable(r)
  /\ funds' = [funds EXCEPT ![order[r].campaign] = @ - Price]
  /\ UNCHANGED setting

SetSetting(r) ==
  /\ Decide(r, "applied")
  /\ order[r] \in SetOrders
  /\ setting' = [setting EXCEPT ![order[r].setting] = order[r].value]
  /\ UNCHANGED funds

Refund(r) ==
  /\ Decide(r, "applied")
  /\ order[r] \in RefundOrders
  /\ funds' = [funds EXCEPT ![order[r].campaign] = 0]
  /\ UNCHANGED setting

(* Not payable, not initialised, not authorised, or the network refuses.     *)
Refuse(r) == Decide(r, "refused") /\ UNCHANGED contractVars

Contracts(r) ==
  /\ PayEvent(r) \/ SetSetting(r) \/ Refund(r) \/ Refuse(r)
  /\ UNCHANGED <<serverVars, order, operatorVars>>

-----------------------------------------------------------------------------
(* GET /api/click-soroban: the redirect, and setImmediate. *)
HandleClick(c) ==
  /\ Comes(c)
  /\ \E k \in Campaigns, p \in Publishers :
       order' = [order EXCEPT ![c] = [op |-> "click", campaign |-> k, publisher |-> p]]
  /\ Goto(c, "queued")
  /\ UNCHANGED <<restarts, fate, contractVars, row, spent, operatorVars>>

(* recordClick, then submitEvent up to its fetch.  (A death between the two  *)
(* is a request that is never decided.)                                      *)
RegisterClick(c) ==
  /\ At(c, "queued")
  /\ \/ row' = [row EXCEPT ![c] = "pending"] /\ Ask(c, order[c])
     \/ "db" \in Faults /\ Goto(c, "threw") /\ UNCHANGED <<order, fate, row>>
  /\ UNCHANGED <<restarts, contractVars, spent, operatorVars>>

(* Mutant: every end of the call completes the click. *)
CompleteClickUnchecked(c) ==
  /\ At(c, "awaiting") /\ (Accepted(c) \/ Rejected(c))
  /\ row' = [row EXCEPT ![c] = "completed"]
  /\ Goto(c, "charge")
  /\ UNCHANGED <<restarts, order, fate, contractVars, spent, operatorVars>>

(* Mutant: an answer without payments is let pass. *)
CompleteClickUncharged(c) ==
  /\ At(c, "awaiting") /\ Accepted(c)
  /\ \/ /\ row' = [row EXCEPT ![c] = "completed"]
        /\ Goto(c, "charge") \/ Goto(c, "done")
     \/ "db" \in Faults /\ Goto(c, "threw") /\ UNCHANGED row
  /\ UNCHANGED <<restarts, order, fate, contractVars, spent, operatorVars>>

(* Success: the row, then payments.publisher, which throws if the answer has *)
(* no payments.                                                              *)
CompleteClick(c) ==
  /\ At(c, "awaiting") /\ Accepted(c)
  /\ \/ /\ row' = [row EXCEPT ![c] = "completed"]
        /\ Goto(c, "charge") \/ Goto(c, "threw")
     \/ "db" \in Faults /\ Goto(c, "threw") /\ UNCHANGED row
  /\ UNCHANGED <<restarts, order, fate, contractVars, spent, operatorVars>>

(* Then updateCampaignSpent, with the sum of the payments, the price. *)
ChargeCampaign(c) ==
  /\ stage[c] = "charge"
  /\ \/ /\ spent' = [spent EXCEPT ![order[c].campaign] = @ + Price]
        /\ Goto(c, "done")
     \/ "db" \in Faults /\ Goto(c, "threw") /\ UNCHANGED spent
  /\ UNCHANGED <<restarts, order, fate, contractVars, row, operatorVars>>

FailClick(c) ==
  /\ At(c, "awaiting") /\ Rejected(c)
  /\ \/ row' = [row EXCEPT ![c] = "failed"] /\ Goto(c, "failed")
     \/ "db" \in Faults /\ Goto(c, "threw") /\ UNCHANGED row
  /\ UNCHANGED <<restarts, order, fate, contractVars, spent, operatorVars>>

(* POST /api/impression with a wallet and a publisher, after recordImpression;*)
(* POST /api/soroban/advault/submit-event.                                   *)
HandleView(v) ==
  /\ Comes(v)
  /\ \E o \in EventOrders : o.op # "click" /\ Ask(v, o)
  /\ UNCHANGED <<restarts, contractVars, row, spent, operatorVars>>

(* An impression whose answer has no payments throws at payments.viewer and  *)
(* is answered with a warning.                                               *)
AnswerView(v) ==
  /\ At(v, "awaiting")
  /\ \/ Accepted(v) /\ Goto(v, "done")
     \/ Accepted(v) /\ order[v].op = "impression" /\ Goto(v, "threw")
     \/ Rejected(v) /\ Goto(v, "failed")
  /\ UNCHANGED <<restarts, order, fate, contractVars, row, spent, operatorVars>>

-----------------------------------------------------------------------------
OrdersOf(s) == {a \in Admins : order[a] \in SetOrders /\ order[a].setting = s}

(* An endpoint that sets s to v sends its order. *)
Command(a, s, v) ==
  /\ Comes(a)
  /\ Ask(a, [op |-> "set", setting |-> s, value |-> v])
  /\ told' = [told EXCEPT ![s] = Unknown]
  /\ alone' = (alone \ OrdersOf(s))
              \union {b \in {a} : \A d \in OrdersOf(s) : fate[d] # "sent"}
  /\ UNCHANGED <<restarts, contractVars, row, spent>>

PauseProtocol(a)      == Command(a, "paused", TRUE)
UnpauseProtocol(a)    == Command(a, "paused", FALSE)
SetPublisherStatus(a) == \E p \in Publishers, v \in BOOLEAN : Command(a, p, v)
CloseCampaign(a)      == \E k \in Campaigns : Command(a, k, TRUE)
InitRegistry(a)       == Command(a, "owner", TRUE)
AddVerifier(a)        == Command(a, "verifier", TRUE)
InitAdVault(a)        == Command(a, "config", TRUE)
MintTokens(a)         == Command(a, "minted", TRUE)

RefundUnspent(a) ==
  /\ Comes(a)
  /\ \E k \in Campaigns : Ask(a, [op |-> "refund", campaign |-> k])
  /\ UNCHANGED <<restarts, contractVars, row, spent, operatorVars>>

(* The endpoint answers 200 and the operator takes the setting for set.      *)
Acknowledge(a) ==
  /\ At(a, "awaiting") /\ Accepted(a)
  /\ Goto(a, "done")
  /\ told' = IF a \in alone THEN [told EXCEPT ![order[a].setting] = order[a].value] ELSE told
  /\ UNCHANGED <<restarts, order, fate, contractVars, row, spent, alone>>

(* The endpoint answers 500. *)
ReportError(a) ==
  /\ At(a, "awaiting") /\ Rejected(a)
  /\ Goto(a, "failed")
  /\ UNCHANGED <<restarts, order, fate, contractVars, row, spent, operatorVars>>

-----------------------------------------------------------------------------
(* The process dies, inside a callback or between two, and starts again: the *)
(* rows and the contracts outlive it, and startServer asks the contracts     *)
(* for nothing but their health.                                             *)
Restart ==
  /\ "kill" \in Faults /\ restarts < MaxRestarts
  /\ restarts' = restarts + 1
  /\ stage' = [r \in Requests |-> IF stage[r] \in InFlight THEN "lost" ELSE stage[r]]
  /\ UNCHANGED <<order, fate, contractVars, row, spent, operatorVars>>

Administer(a) ==
  \/ PauseProtocol(a) \/ UnpauseProtocol(a) \/ SetPublisherStatus(a) \/ CloseCampaign(a)
  \/ InitRegistry(a) \/ AddVerifier(a) \/ InitAdVault(a) \/ MintTokens(a)
  \/ RefundUnspent(a)

(* A callback of a request that has come. *)
Continue(r) ==
  \/ r \in Clicks /\ (RegisterClick(r) \/ CompleteClick(r) \/ ChargeCampaign(r) \/ FailClick(r))
  \/ r \in Views /\ AnswerView(r)
  \/ r \in Admins /\ (Acknowledge(r) \/ ReportError(r))

Next ==
  \/ \E c \in Clicks : HandleClick(c)
  \/ \E v \in Views : HandleView(v)
  \/ \E a \in Admins : Administer(a)
  \/ \E r \in Requests : Continue(r) \/ Contracts(r)
  \/ Restart

Spec == Init /\ [][Next]_vars

(* The event loop runs one of the callbacks that are due, and fetch ends by  *)
(* itself: its time-outs for headers and body are five minutes each.         *)
FairSpec == Spec /\ WF_vars(\E r \in Requests : Continue(r))

-----------------------------------------------------------------------------
(* Every variable keeps its type. *)
TypeOK ==
  /\ restarts \in 0..MaxRestarts
  /\ stage \in [Requests -> {"idle"} \union InFlight \union Ended]
  /\ order \in [Requests -> Orders \union {NoOrder}]
  /\ fate \in [Requests -> {"none", "sent", "applied", "refused"}]
  /\ setting \in [Settings -> BOOLEAN]
  /\ funds \in [Campaigns -> Nat]
  /\ row \in [Clicks -> {"none", "pending", "completed", "failed"}]
  /\ spent \in [Campaigns -> Nat]
  /\ told \in [Settings -> BOOLEAN \union {Unknown}]
  /\ alone \subseteq Admins

(* What the operator was told of a setting is what the contracts have, until *)
(* another order for it goes out: no answer that is late or lost, no order   *)
(* applied after its 500 and no crash makes a success answered to an order   *)
(* that met no other false (sorobanContractsService.js 59-85, adRoutes.js    *)
(* 419-465).                                                                 *)
OperatorKnows == \A s \in Settings : told[s] # Unknown => setting[s] = told[s]

(* What makes it so.  A request has no order before it comes, and only the    *)
(* operator's set something; an order that met no other of its setting has   *)
(* the last word on it; what was told is not in question.                    *)
OrdersMatch ==
  /\ \A r \in Requests : stage[r] = "idle" => order[r] = NoOrder /\ fate[r] = "none"
  /\ \A r \in Events : order[r] \in EventOrders \union {NoOrder}

Settled(s, a) == \A d \in OrdersOf(s) \ {a} : fate[d] # "sent"

AloneHasLastWord ==
  \A a \in alone :
    /\ order[a] \in SetOrders
    /\ fate[a] # "none"
    /\ Settled(order[a].setting, a)
    /\ fate[a] = "applied" => setting[order[a].setting] = order[a].value

ToldStands ==
  \A s \in Settings : told[s] # Unknown =>
    setting[s] = told[s] /\ \A d \in OrdersOf(s) : fate[d] # "sent"

OperatorInv == OrdersMatch /\ AloneHasLastWord /\ ToldStands

(* The books of the Soroban clicks keep the promise of ClickBooks, with the  *)
(* contract's payment in place of the publisher's transaction (adRoutes.js   *)
(* 1536-1601).                                                               *)
BooksCampaign == [c \in Clicks |-> IF order[c] = NoOrder THEN NoOrder ELSE order[c].campaign]
BooksPaid     == {c \in Clicks : fate[c] = "applied"}
BooksCharged  == {c \in Clicks : stage[c] = "done"}
Books == INSTANCE ClickBooks
           WITH Cost <- [k \in Campaigns |-> Price], NoCampaign <- NoOrder,
                campaign <- BooksCampaign, status <- row, paid <- BooksPaid,
                charged <- BooksCharged, books <- spent
KeepsBooks == Books!Spec

(* What makes it so: the row and the request of a click follow its handler.  *)
RowsAgree ==
  \A c \in Clicks :
    /\ order[c] = NoOrder <=> stage[c] = "idle"
    /\ stage[c] \in {"idle", "queued"} => row[c] = "none" /\ fate[c] = "none"
    /\ stage[c] = "awaiting" => row[c] = "pending" /\ fate[c] # "none"
    /\ stage[c] \in {"charge", "done"} => row[c] = "completed" /\ fate[c] = "applied"
    /\ fate[c] # "none" => row[c] # "none"

(* The contracts' payments for views of a campaign. *)
PaidViews(k) == {v \in Views : fate[v] = "applied" /\ order[v].campaign = k}

(* What the books charge a campaign for Soroban clicks and what its views    *)
(* were paid stays within what it deposited: no click that found the deposit *)
(* empty is charged, whatever is answered late, lost or cut short by a       *)
(* restart (adRoutes.js 1568-1582, sorobanContractsService.js 268-296).      *)
BooksWithinDeposit ==
  \A k \in Campaigns : spent[k] + Price * Cardinality(PaidViews(k)) <= Deposit[k]

(* What makes it so: the contract's payments come out of the deposit, those  *)
(* for clicks and those for views.                                           *)
PaidEvents(k) ==
  {r \in Events : fate[r] = "applied" /\ order[r].campaign = k}

DepositCovers ==
  \A k \in Campaigns : funds[k] + Price * Cardinality(PaidEvents(k)) <= Deposit[k]

(* Clicks whose handler an exception or the end of the process cut short.    *)
CutShort == {c \in Clicks : stage[c] \in {"threw", "lost"}}

ChargeDue(k) ==
  {c \in Clicks \ CutShort : row[c] = "completed" /\ order[c].campaign = k}

(* A click the books do not follow had its own handler cut short: between    *)
(* two callbacks a campaign is charged for every completed click but those,  *)
(* and only theirs are the rows that stay pending with nothing to come.  A   *)
(* restart, a lost answer or an exception of one click costs no other click  *)
(* its charge or its status (adRoutes.js 1561-1600).                         *)
MishapsExplain ==
  /\ Running => \A k \in Campaigns : spent[k] = Price * Cardinality(ChargeDue(k))
  /\ \A c \in Clicks \ CutShort : row[c] = "pending" => stage[c] = "awaiting"

(* Success is only answered for what the contracts did, whatever is lost or  *)
(* killed; a failure means that they refused wherever no answer is lost; and *)
(* a click's row waits for nobody only where SQLite throws or the process    *)
(* dies (sorobanContractsService.js 59-85, adRoutes.js 1561-1601).           *)
AnswersTrue ==
  /\ \A r \in Requests : stage[r] = "done" => fate[r] = "applied"
  /\ "lost" \notin Faults => \A r \in Requests : stage[r] = "failed" => fate[r] = "refused"
  /\ \A c \in Clicks : row[c] = "failed" => stage[c] = "failed"
  /\ Faults \intersect {"db", "kill"} = {} =>
       \A c \in Clicks : row[c] = "pending" => stage[c] = "awaiting"

Waiting == {r \in Requests : stage[r] \in InFlight}

(* The server comes to rest: every request it took is answered or settled,   *)
(* or lost with its process, and no answer of the contracts is waited for    *)
(* without end (sorobanContractsService.js 73).                              *)
EveryRequestSettles == Waiting # {} ~> Waiting = {}
=============================================================================
