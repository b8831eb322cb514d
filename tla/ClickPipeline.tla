---------------------------- MODULE ClickPipeline ----------------------------
(***************************************************************************)
(* GET /api/click and the background work behind it: processClickAsync      *)
(* (adRoutes.js), processClickWithUserReward (adMatchingService.js) and     *)
(* processClickPayment (stellarService.js).                                 *)
(*                                                                         *)
(* An action is one callback of the event loop, from one await to the next, *)
(* so the clicks in flight interleave exactly at the awaits.  The one       *)
(* exception is the callback that settles a paid click: its two autocommit  *)
(* statements are two actions, with no other callback in between, because   *)
(* the process can die after the first.                                     *)
(***************************************************************************)
EXTENDS PlatformAccount

CONSTANTS Campaigns,
          Sites,
          PayableSites,     \* sites whose stellar_public_key is a valid address
          Wallets,          \* values of ?destinationWallet, a missing one included
          PayableWallets,   \* those that are valid addresses
          Cost,             \* campaigns.cost_per_click, in 0.001 XLM
          Budget,           \* campaigns.budget_xlm, in 0.001 XLM
          NoRequest         \* the request of a click that has not come yet

ASSUME PayableKnown ==
  /\ PayableSites \subseteq Sites
  /\ PayableWallets \subseteq Wallets
ASSUME Prices ==
  /\ Cost \in [Campaigns -> Nat \ {0}]
  /\ Budget \in [Campaigns -> Nat]

Requests == [campaign : Campaigns, site : Sites, wallet : Wallets]

ASSUME NoRequestDiffers == NoRequest \notin Requests \union Campaigns

VARIABLES up,      \* the server process is running
          pc,      \* where each click's background work stands
          req,     \* campaign, site and wallet each click was made with
          row,     \* clicks.payment_status of the click's row, "none" if no row
          spent    \* campaigns.spent_xlm, in 0.001 XLM

serverVars == <<up, pc, req, row, spent>>
vars       == <<up, pc, req, row, spent, acctSeq, txStatus, txSeq>>

Idle     == "idle"
InFlight == {"queued", "rewardLoad", "rewardSubmit",
             "publisherLoad", "publisherSubmit", "charge"}
Ended    == {"done",    \* processClickAsync returned
             "threw",   \* an exception ended it in its catch block
             "lost"}    \* the process went away under it

Reward(c)    == <<c, "reward">>
Publisher(c) == <<c, "publisher">>

(* No callback is half way: the event loop may run another one. *)
Running == up /\ \A c \in Clicks : pc[c] # "charge"

At(c, label) == Running /\ pc[c] = label

Goto(c, label) == pc' = [pc EXCEPT ![c] = label]

SetRow(c, status) == row' = [row EXCEPT ![c] = status]

Init ==
  /\ LedgerInit
  /\ up = TRUE
  /\ pc = [c \in Clicks |-> Idle]
  /\ req = [c \in Clicks |-> NoRequest]
  /\ row = [c \in Clicks |-> "none"]
  /\ spent = [k \in Campaigns |-> 0]

-----------------------------------------------------------------------------
(* The handler.  Campaign and site exist (a request for others is answered  *)
(* 404 and changes nothing).  Neither active nor budget is looked at.       *)
HandleClick(c) ==
  /\ At(c, Idle)
  /\ \E r \in Requests : req' = [req EXCEPT ![c] = r]
  /\ Goto(c, "queued")
  /\ UNCHANGED <<up, row, spent, ledgerVars>>

(* The setImmediate callback, up to the await of loadAccount.  The cooldown *)
(* check always lets the click through: user_rewards never has a row whose  *)
(* key is an IP and User-Agent fingerprint.                                 *)
StartReward(c) ==
  /\ At(c, "queued")
  /\ Goto(c, "rewardLoad")
  /\ UNCHANGED <<up, req, row, spent, ledgerVars>>

(* Mutant: a recordClick that throws is logged and the payment made anyway. *)
RegisterClickIgnored(c) ==
  /\ SetRow(c, "pending") \/ ("db" \in Faults /\ UNCHANGED row)
  /\ Goto(c, "publisherLoad")

(* recordClick, then processClickPayment up to its loadAccount. *)
RegisterClick(c) ==
  \/ /\ SetRow(c, "pending")
     /\ Goto(c, "publisherLoad")
  \/ /\ "db" \in Faults
     /\ Goto(c, "threw")
     /\ UNCHANGED row

(* A query of processClickWithUserReward throws: its catch returns null.    *)
RewardSkipped(c) ==
  /\ At(c, "queued")
  /\ "db" \in Faults
  /\ RegisterClick(c)
  /\ UNCHANGED <<up, req, spent, ledgerVars>>

(* An address the SDK refuses makes Operation.payment throw, which the catch *)
(* of processClickWithUserReward turns into null like a rejected load.       *)
RewardNotSent(c) ==
  /\ At(c, "rewardLoad")
  /\ "load" \in Faults \/ req[c].wallet \notin PayableWallets
  /\ RegisterClick(c)
  /\ UNCHANGED <<up, req, spent, ledgerVars>>

SubmitReward(c) ==
  /\ At(c, "rewardLoad")
  /\ req[c].wallet \in PayableWallets
  /\ Submit(Reward(c))
  /\ Goto(c, "rewardSubmit")
  /\ UNCHANGED <<up, req, row, spent>>

(* submitTransaction settles: with the network's decision, or with an error *)
(* that says nothing about it.                                              *)
Answered(t) ==
  \/ txStatus[t] \in {"applied", "failed", "refused"}
  \/ "timeout" \in Faults

(* Mutant: the rejection of submitTransaction is not caught. *)
RewardReturnsUncaught(c) ==
  /\ At(c, "rewardSubmit")
  /\ txStatus[Reward(c)] = "applied"
  /\ RegisterClick(c)
  /\ UNCHANGED <<up, req, spent, ledgerVars>>

(* Mutant: processClickWithUserReward is called without await. *)
RewardReturnsUnawaited(c) ==
  /\ At(c, "rewardSubmit")
  /\ RegisterClick(c)
  /\ UNCHANGED <<up, req, spent, ledgerVars>>

(* Success and error both lead on to recordClick. *)
RewardReturns(c) ==
  /\ At(c, "rewardSubmit")
  /\ Answered(Reward(c))
  /\ RegisterClick(c)
  /\ UNCHANGED <<up, req, spent, ledgerVars>>

SettleFailed(c) ==
  \/ /\ SetRow(c, "failed")
     /\ Goto(c, "done")
  \/ /\ "db" \in Faults
     /\ Goto(c, "threw")
     /\ UNCHANGED row

PublisherNotSent(c) ==
  /\ At(c, "publisherLoad")
  /\ "load" \in Faults \/ req[c].site \notin PayableSites
  /\ SettleFailed(c)
  /\ UNCHANGED <<up, req, spent, ledgerVars>>

(* Mutant: the sequence number is incremented by hand and by the builder. *)
SubmitPublisherGap(c) ==
  /\ At(c, "publisherLoad")
  /\ req[c].site \in PayableSites
  /\ txStatus' = [txStatus EXCEPT ![Publisher(c)] = "sent"]
  /\ txSeq' = [txSeq EXCEPT ![Publisher(c)] = acctSeq + 2]
  /\ Goto(c, "publisherSubmit")
  /\ UNCHANGED <<up, req, row, spent, acctSeq>>

(* Mutant: the account loaded for the reward is used again. *)
SubmitPublisherCached(c) ==
  /\ At(c, "publisherLoad")
  /\ req[c].site \in PayableSites
  /\ txStatus' = [txStatus EXCEPT ![Publisher(c)] = "sent"]
  /\ txSeq' = [txSeq EXCEPT ![Publisher(c)] = txSeq[Reward(c)]]
  /\ Goto(c, "publisherSubmit")
  /\ UNCHANGED <<up, req, row, spent, acctSeq>>

SubmitPublisher(c) ==
  /\ At(c, "publisherLoad")
  /\ req[c].site \in PayableSites
  /\ Submit(Publisher(c))
  /\ Goto(c, "publisherSubmit")
  /\ UNCHANGED <<up, req, row, spent>>

(* Mutant: paymentResult.success is not looked at. *)
PublisherPaidUnchecked(c) ==
  /\ At(c, "publisherSubmit")
  /\ Answered(Publisher(c))
  /\ SetRow(c, "completed")
  /\ Goto(c, "charge")
  /\ UNCHANGED <<up, req, spent, ledgerVars>>

(* First statement of the success branch: the row. *)
PublisherPaid(c) ==
  /\ At(c, "publisherSubmit")
  /\ txStatus[Publisher(c)] = "applied"
  /\ \/ /\ SetRow(c, "completed")
        /\ Goto(c, "charge")
     \/ /\ "db" \in Faults
        /\ Goto(c, "threw")
        /\ UNCHANGED row
  /\ UNCHANGED <<up, req, spent, ledgerVars>>

PublisherErrs(c) ==
  /\ At(c, "publisherSubmit")
  /\ \/ txStatus[Publisher(c)] \in {"failed", "refused"}
     \/ "timeout" \in Faults
  /\ SettleFailed(c)
  /\ UNCHANGED <<up, req, spent, ledgerVars>>

(* Mutant: spent_xlm is written from the campaign row the handler read. *)
ChargeCampaignStale(c) ==
  /\ up
  /\ pc[c] = "charge"
  /\ spent' = [spent EXCEPT ![req[c].campaign] = Cost[req[c].campaign]]
  /\ Goto(c, "done")
  /\ UNCHANGED <<up, req, row, ledgerVars>>

(* Second statement of the success branch: campaigns.spent_xlm. *)
ChargeCampaign(c) ==
  /\ up
  /\ pc[c] = "charge"
  /\ \/ /\ spent' = [spent EXCEPT ![req[c].campaign] = @ + Cost[req[c].campaign]]
        /\ Goto(c, "done")
     \/ /\ "db" \in Faults
        /\ Goto(c, "threw")
        /\ UNCHANGED spent
  /\ UNCHANGED <<up, req, row, ledgerVars>>

-----------------------------------------------------------------------------
(* Mutant: the two statements are awaited, and a stop may come between them. *)
CrashBetween ==
  /\ up
  /\ Faults \intersect {"crash", "kill"} # {}
  /\ up' = FALSE
  /\ pc' = [c \in Clicks |-> IF pc[c] \in InFlight THEN "lost" ELSE pc[c]]
  /\ UNCHANGED <<req, row, spent, ledgerVars>>

(* The rows and the ledger outlive the process, the continuations do not.   *)
Crash ==
  /\ up
  /\ "kill" \in Faults \/ ("crash" \in Faults /\ Running)
  /\ up' = FALSE
  /\ pc' = [c \in Clicks |-> IF pc[c] \in InFlight THEN "lost" ELSE pc[c]]
  /\ UNCHANGED <<req, row, spent, ledgerVars>>

(* Mutant: startup puts failed clicks back to pending. *)
RestartReopens ==
  /\ ~up
  /\ up' = TRUE
  /\ row' = [c \in Clicks |-> IF row[c] = "failed" THEN "pending" ELSE row[c]]
  /\ UNCHANGED <<pc, req, spent, ledgerVars>>

(* Mutant: startup runs the clicks again that the last process left. *)
RestartRequeues ==
  /\ ~up
  /\ up' = TRUE
  /\ pc' = [c \in Clicks |-> IF pc[c] = "lost" THEN "queued" ELSE pc[c]]
  /\ UNCHANGED <<req, row, spent, ledgerVars>>

(* startServer looks at no click row. *)
Restart ==
  /\ ~up
  /\ up' = TRUE
  /\ UNCHANGED <<pc, req, row, spent, ledgerVars>>

LedgerStep(t) ==
  /\ Decide(t)
  /\ UNCHANGED serverVars

(* One callback of a click that has been accepted. *)
Continue(c) ==
  \/ StartReward(c)
  \/ RewardSkipped(c)
  \/ RewardNotSent(c)
  \/ SubmitReward(c)
  \/ RewardReturns(c)
  \/ PublisherNotSent(c)
  \/ SubmitPublisher(c)
  \/ PublisherPaid(c)
  \/ PublisherErrs(c)
  \/ ChargeCampaign(c)

Next ==
  \/ \E c \in Clicks : HandleClick(c) \/ Continue(c)
  \/ \E t \in Txs : LedgerStep(t)
  \/ Crash
  \/ Restart

Spec == Init /\ [][Next]_vars

(* The event loop runs every callback that is due, and Horizon settles every *)
(* promise; the network decides every transaction, if only by its time bound.*)
Fairness ==
  /\ \A c \in Clicks : WF_vars(Continue(c))
  /\ \A t \in Txs : WF_vars(LedgerStep(t))

FairSpec == Spec /\ Fairness
-----------------------------------------------------------------------------
(* Every variable keeps its type: the type invariant of the click pipeline.  *)
TypeOK ==
  /\ LedgerTypeOK
  /\ up \in BOOLEAN
  /\ pc \in [Clicks -> {Idle} \union InFlight \union Ended]
  /\ req \in [Clicks -> Requests \union {NoRequest}]
  /\ row \in [Clicks -> {"none", "pending", "completed", "failed"}]
  /\ spent \in [Campaigns -> Nat]

(* A row says "completed" only when the network has paid the publisher: of   *)
(* all the answers, losses and crashes between the submission and the        *)
(* UPDATE, none marks an unpaid click completed (adRoutes.js 764-779).        *)
CompletedMeansPaid ==
  \A c \in Clicks : row[c] = "completed" => txStatus[Publisher(c)] = "applied"

(* No publisher payment reaches the network for a click without a row, even  *)
(* when recordClick throws (adRoutes.js 749, 756).                           *)
PaymentHasRow ==
  \A c \in Clicks : txStatus[Publisher(c)] # "none" => row[c] # "none"

(* Clicks of campaign k that ran to the end of the success branch. *)
Charged(k) ==
  {c \in Clicks : pc[c] = "done" /\ row[c] = "completed" /\ req[c].campaign = k}

(* spent_xlm is the price of the campaign's clicks that were completed and   *)
(* whose callback was not cut before the second UPDATE: no interleaving of   *)
(* clicks, crash or restart charges a click twice, or one that was not       *)
(* completed (adRoutes.js 765-772).                                          *)
SpentMatchesCharged ==
  \A k \in Campaigns : spent[k] = Cost[k] * Cardinality(Charged(k))

(* payment_status moves none, pending, then completed or failed, and neither *)
(* of the two is ever left: not by a late answer, not after a restart.       *)
RowLifecycle ==
  [][\A c \in Clicks :
       row'[c] # row[c] =>
         \/ row[c] = "none" /\ row'[c] = "pending"
         \/ row[c] = "pending" /\ row'[c] \in {"completed", "failed"}]_vars

(* A transaction is refused only because a transaction of another callback,  *)
(* built from the same loadAccount answer, took its sequence number: what    *)
(* concurrent clicks lose to each other is never lost by all of them.        *)
ConflictHasWinner ==
  "expire" \notin Faults =>
    \A t \in Txs : txStatus[t] = "refused" =>
      \E u \in Consumed : u # t /\ txSeq[u] = txSeq[t]

(* The reward transaction of a click never takes the number from the         *)
(* publisher's payment of the same click: processClickAsync awaits the       *)
(* reward before it loads the account again (adRoutes.js 732, 756).          *)
NoSelfConflict ==
  "timeout" \notin Faults =>
    \A c \in Clicks :
      txStatus[Publisher(c)] # "none" => txStatus[Reward(c)] # "sent"

(* However many clicks collide on the account's sequence number, when they   *)
(* have all been worked off at least one publisher has been paid.            *)
SomePublisherPaid ==
  ( /\ Faults \subseteq {"crash", "kill"}
    /\ PayableSites = Sites
    /\ \A c \in Clicks : pc[c] \in {Idle, "done"}
    /\ \E c \in Clicks : pc[c] = "done" )
  => \E c \in Clicks : row[c] = "completed"

(* Every accepted click ends with a final status in its row, unless the       *)
(* process goes away under it or SQLite throws: no collision of clicks, error *)
(* or lost answer leaves one waiting or pending.                              *)
EveryClickSettles ==
  \A c \in Clicks :
    pc[c] = "queued" ~>
      row[c] \in {"completed", "failed"} \/ pc[c] \in {"lost", "threw"}

(* The books as ClickBooks sees them. *)
BooksCampaign ==
  [c \in Clicks |-> IF req[c] = NoRequest THEN NoRequest ELSE req[c].campaign]
BooksPaid    == {c \in Clicks : txStatus[Publisher(c)] = "applied"}
BooksCharged == {c \in Clicks : pc[c] = "done" /\ row[c] = "completed"}

Books == INSTANCE ClickBooks WITH
  NoCampaign <- NoRequest,
  campaign   <- BooksCampaign,
  status     <- row,
  paid       <- BooksPaid,
  charged    <- BooksCharged,
  books      <- spent

(* Every behaviour of the pipeline is a behaviour of ClickBooks. *)
KeepsBooks == Books!Spec

-----------------------------------------------------------------------------
(* Where a click's work stands, what its row says and what its transactions *)
(* are, together.                                                           *)
StageAgrees(c) ==
  /\ IF pc[c] = Idle THEN req[c] = NoRequest ELSE req[c] \in Requests
  /\ pc[c] \in {Idle, "queued", "rewardLoad", "rewardSubmit"} => row[c] = "none"
  /\ pc[c] \in {Idle, "queued", "rewardLoad"} => txStatus[Reward(c)] = "none"
  /\ pc[c] \in {"publisherLoad", "publisherSubmit"} => row[c] = "pending"
  /\ pc[c] = "publisherLoad" => txStatus[Publisher(c)] = "none"
  /\ pc[c] = "charge" => row[c] = "completed"
  /\ pc[c] = "done" => row[c] \in {"completed", "failed"}
  /\ "timeout" \notin Faults /\ row[c] # "none" => txStatus[Reward(c)] # "sent"
  /\ txStatus[Publisher(c)] # "none" => row[c] # "none"
  /\ row[c] = "completed" => txStatus[Publisher(c)] = "applied"

StagesAgree == \A c \in Clicks : StageAgrees(c)

(* The numbers 1 .. acctSeq have each been consumed, and nothing is built     *)
(* further ahead than the next one.                                          *)
SequenceGapless ==
  /\ \A t \in Txs : txStatus[t] # "none" => txSeq[t] \in 1 .. acctSeq + 1
  /\ \A t \in Consumed : txSeq[t] <= acctSeq
  /\ \A n \in 1 .. acctSeq : \E t \in Consumed : txSeq[t] = n
  /\ "expire" \notin Faults =>
       \A t \in Txs : txStatus[t] = "refused" => txSeq[t] <= acctSeq

(* The inductive invariant behind the safety properties: with the stages and *)
(* the sequence numbers spelled out, each of them is kept by every step.     *)
PipelineInv ==
  /\ TypeOK
  /\ StagesAgree
  /\ SpentMatchesCharged
  /\ SequenceGapless

-----------------------------------------------------------------------------
(* What the documents say and the code does not do.                          *)

(* CONTEXTO.md 93: "Limite de gastos por campanha". *)
BudgetRespected == \A k \in Campaigns : spent[k] <= Budget[k]

(* CONTEXTO-SISTEMA.md 93-94: the payment, then "Confirmacao: status           *)
(* atualizado no banco".  A click marked failed has not been paid.            *)
FailedIsUnpaid ==
  \A c \in Clicks : row[c] = "failed" => txStatus[Publisher(c)] # "applied"

-----------------------------------------------------------------------------
(* Clicks of campaign k whose row says completed. *)
Completed(k) == {c \in Clicks : row[c] = "completed" /\ req[c].campaign = k}

(* Which fault it takes for the books to disagree.  A click marked failed     *)
(* has been paid only where a submission may go unanswered; a completed click *)
(* is missing in spent_xlm only where SQLite throws or the process dies       *)
(* inside a callback, never because clicks collide, answers are late or the   *)
(* server is stopped between callbacks; and a row is left pending only where  *)
(* the process stops or SQLite throws (adRoutes.js 764-790, index.js 186-194).*)
FaultsExplain ==
  /\ "timeout" \notin Faults => FailedIsUnpaid
  /\ Faults \intersect {"db", "kill"} = {} /\ (\A c \in Clicks : pc[c] # "charge") =>
       \A k \in Campaigns : spent[k] = Cost[k] * Cardinality(Completed(k))
  /\ Faults \intersect {"db", "crash", "kill"} = {} =>
       \A c \in Clicks : row[c] = "pending" => pc[c] \in {"publisherLoad", "publisherSubmit"}

(* What makes it so, click by click. *)
OutcomeAgrees(c) ==
  /\ "timeout" \notin Faults /\ row[c] = "failed" =>
       txStatus[Publisher(c)] \in {"none", "failed", "refused"}
  /\ Faults \intersect {"db", "kill"} = {} /\ row[c] = "completed" =>
       pc[c] \in {"charge", "done"}
  /\ Faults \intersect {"db", "crash", "kill"} = {} /\ row[c] = "pending" =>
       pc[c] \in {"publisherLoad", "publisherSubmit"}

OutcomesAgree == \A c \in Clicks : OutcomeAgrees(c)
=============================================================================
