# Verification of the Adescentralized ad server and SDK

TLA+ modules, TLC configurations and TLAPS proofs for the program in this
repository: an Express server that serves ads and pays for clicks in XLM over
the Stellar network, and the JavaScript SDK that shows the ads. Paths below are
those of the repository; `adRoutes.js`, `adMatchingService.js`,
`stellarService.js`, `sorobanContractsService.js`, `database.js` and `sdk.js`
are named without their directories.

## The system

| Component | State it keeps | Operations |
|---|---|---|
| Click pipeline: `GET /api/click`, `processClickAsync`, `processClickWithUserReward`, `processClickPayment` | the continuation of each click in flight; `clicks.payment_status`; `campaigns.spent_xlm` | accept and redirect; pay the user; register the click; pay the publisher; settle the row; charge the campaign |
| Stellar account (external) | the account's sequence number; submitted transactions | loadAccount, submitTransaction; apply, refuse, expire |
| Impressions and rewards: `recordImpression`, `canUserReceiveRewards`, `recordUserReward`, `processImpressionPayment` | `impressions`, `user_rewards`, `user_wallets` | record an impression, look up the cooldown, record a reward, simulate its payment |
| Wallet handshake: `StellarWalletInterface`, `checkUserWallet`, `connectWallet`, the extension events | `isConnected`, `currentAccount`, `userWallet`, `isConnecting`, `walletCheckAttempts`, the open listeners | connect, getBalance, sendPayment, detect the extension, reconnect |
| Ad delivery: `initializeStellarAds`, `fetchAndRenderAd`, `renderAd`, `trackAdImpression`, `GET /api/ad` | the container; the attempts under way; the rows of a page's views | initialise (twice), fetch with retry, render, report an impression |
| Ad matching: `findAdForSite` | none of its own; reads `spent_xlm` | active campaigns, weights, tag scores, the draw |
| Soroban path: `processClickSorobanAsync`, `submitEvent`, administration endpoints | rows as above; the contracts' state (external) | submit an event, pause, allow, close, refund, configure |
| Site registry: `POST /api/sites` | `sites` | create a site |
| Lifecycle: `index.js` | the process | initialise the services, listen, stop on a signal |

The server is one Node.js process: callbacks run one at a time, and everything
between two `await`s is atomic except for the death of the process. SQLite is
called synchronously and each statement commits by itself. All clicks sign
transactions from the same Stellar account, so what they share is that
account's sequence number, the campaign's `spent_xlm` and the database file.
The SDK runs in the visitor's page and meets the server through `/api/ad`,
`/api/impression` and the click URL, and the wallet extension through
`postMessage`. The server retries nothing and resumes nothing after a restart.

### What is hard, and what makes each part correct

* **Click pipeline.** Clicks interleave at five awaits; Horizon may reject,
  answer late or not at all, in which case the transaction may still be
  applied; SQLite may throw; the process may stop at any await or die between
  two statements. It is correct when the rows never claim a payment that was
  not made, a publisher is paid only for a registered click, final statuses are
  final, a campaign is charged once per completed click, collisions on the
  sequence number always have a winner, and every accepted click is worked off.
* **Rewards.** The cooldown compares two formats of a date as text, its table
  is dropped at every start and has a foreign key nobody fills, and clicks look
  it up under a key nobody stores. The documents promise one reward per site in
  six hours; what the code does hold is a cooldown in the six hours after
  midnight UTC, for wallets of an older version.
* **Wallet handshake.** Listeners outlive their time-outs and take every answer
  of their method for their own; four kinds of callers share one interface. It
  is correct when no confusion of answers shows a wallet nobody granted, the
  event's flag comes down, and every call returns.
* **Ad delivery.** Two initialisations, time-outs with retry and late answers
  meet in one container, beside a wallet that may connect at any moment. It is
  correct when what is shown is what is reported, an ended chain stays ended,
  and the container shows something in the end.
* **Soroban path.** An answer without payments throws after the row was
  completed; an order whose answer is lost may be applied after a later one.
  It is correct when the books keep the promise the Stellar path keeps and what
  an operator was told is true.
* **Matching, registry.** Sequential; boundary values (a remainder below 0.1
  XLM, a score of 0, a domain in two spellings).

`PROJECT.json` lists the hazards with their lines and the properties that
cover them.

## Modules

| Module | Models |
|---|---|
| `PlatformAccount` | The platform's Stellar account as Horizon shows it: `acctSeq`, and for each of a click's two transactions its fate `txStatus` and its number `txSeq`. External, from the calls in the payment code. Declares the faults a run may contain. |
| `ClickPipeline` | The click pipeline on top of it. `pc` is the await a click's continuation stands at, `row` is `clicks.payment_status`, `spent` is `campaigns.spent_xlm`, `req` what the click URL carried, `up` the process. |
| `ClickBooks` | The abstract specification of the books: what they promise about a click whatever happens beneath. `ClickPipeline` and `SorobanEvents` both implement it. |
| `SorobanEvents` | The Soroban clicks, impressions and events and the administration endpoints, with the contracts behind their HTTP interface as an external part. |
| `VisitorRewards` | The impressions and clicks of one visitor, `user_rewards`, the cooldown and the simulated payment, over days, deaths and restarts. |
| `AdCatalogue` | The site registry, the active campaigns, weights, tag scores and the draw. |
| `PageWallet` | The abstract wallet of a page: null, then set for good. `WalletHandshake` implements it, `AdDelivery` is built on it. |
| `WalletHandshake` | The handshakes of one page with the wallet extension. |
| `AdDelivery` | How an ad reaches the container of a page, and how both sides count it. |
| `AdPage` | One page with both: the conjunction of `WalletHandshake` and `AdDelivery` over one `userWallet`, and the theorems about it. |
| `ClickBooksProofs`, `ClickPipelineProofs`, `SorobanEventsProofs`, `VisitorRewardsProofs`, `AdCatalogueProofs`, `WalletHandshakeProofs`, `AdDeliveryProofs` | The theorems about the module each is named for. |
| `MC...` | Values for TLC. |

Two pairs of modules compose. `WalletHandshake` and `AdDelivery` meet in
`PageWallet`: the second uses exactly what the first is proved to implement,
and `AdPage` is the page in which both run.
The two kinds of clicks write `clicks` and `spent_xlm` under click ids of their
own, and each is shown to implement `ClickBooks`, whose charge adds to the
counter and reads nothing else of it.

### How ClickPipeline follows the code

An action is one callback, from the `await` it resumes at to the next one:

| Action | Code |
|---|---|
| `HandleClick` | the route up to `setImmediate`; an unknown campaign or site is answered 404 and changes nothing |
| `StartReward`, `RewardSkipped` | `processClickWithUserReward` up to `loadAccount`; or a query throws and its `catch` returns null |
| `RewardNotSent` | `loadAccount` rejects, or `Operation.payment` throws on an invalid `destinationWallet`; `null` is returned and the click goes on in the same callback |
| `SubmitReward`, `RewardReturns` | the reward transaction is submitted; its promise settles, either way the click goes on |
| `RegisterClick` | part of the three before: `recordClick`, then `processClickPayment` up to its `loadAccount`; if `recordClick` throws the click ends |
| `PublisherNotSent`, `SubmitPublisher`, `PublisherErrs` | `processClickPayment`; every error becomes `{success: false}` and the row `failed` |
| `PublisherPaid`, `ChargeCampaign` | the success branch: its two UPDATEs are two actions, between which no other callback runs but the process can die |
| `Crash`, `Restart` | the signal handlers and `startServer` |
| `LedgerStep` | the network decides a transaction |

Abstractions. Horizon's answer to `loadAccount` and the callback that uses it
are one step; the callback only builds and submits, and the submission stays a
step of its own, so no order of effects is lost. Horizon is taken to answer
with the current sequence number. Amounts are thousandths of an XLM.
Each element of `Clicks` is one request: a visitor who clicks twice is two of
them. The branch for an uninitialised Stellar service (`skipped`) is left out:
the constructor of `adMatchingService` throws at load time without a valid
`PLATFORM_SECRET_KEY`, so a server that listens has initialised it.

`Faults` names what may go wrong in a run: `load` (loadAccount rejects),
`timeout` (submitTransaction rejects whatever the network does), `opfail`
(the transaction consumes its number and its payment fails), `expire` (it is
never included), `db` (a statement throws), `crash` (a signal, between
callbacks), `kill` (death anywhere). The theorems hold for every subset.

### How SorobanEvents follows the code

| Action | Code |
|---|---|
| `HandleClick` | `GET /api/click-soroban` up to its redirect and `setImmediate` |
| `RegisterClick` | `recordClick`, then `submitEvent` up to its `fetch` |
| `CompleteClick`, `ChargeCampaign`, `FailClick` | the two UPDATEs of the success branch, between which an answer without `payments` throws; the failure branch |
| `HandleView`, `AnswerView` | `POST /api/impression` for a wallet and a publisher, `POST .../submit-event` |
| `PauseProtocol`, `UnpauseProtocol`, `SetPublisherStatus`, `CloseCampaign`, `InitRegistry`, `AddVerifier`, `InitAdVault`, `MintTokens`, `RefundUnspent` | the administration endpoints up to their `fetch` |
| `Acknowledge`, `ReportError` | their answers, 200 and 500 |
| `PayEvent`, `SetSetting`, `Refund`, `Refuse` | the contracts (external) decide a request |
| `Restart` | the process dies, inside a callback or between two, and starts again |

`callContractsApi` sends a request once. With the fault `lost` it may report a
failure for a request the contracts have applied or will still apply. An
answer with status 200 is taken to mean that they applied it, and its `payments`
to be numbers that add up to the price the contract debits, or to be missing.
The code checks neither: of three payments with one missing the sum is NaN,
which `spent_xlm` (NOT NULL) refuses, so that the click ends completed and
uncharged like one without payments; texts would be concatenated and charged as
one long number, and the books would then leave the deposit. A death between
`recordClick` and the `fetch` is a request that is never decided. `fate` and
`funds` belong to the contracts, `told` and `alone` are history: what the
operator was last told of a setting, and the orders that met no other order of
their setting. `OperatorKnows` speaks of those only: of orders that met, the
last one answered need not be the last one applied, and the operator may believe
either. `create-campaign` and `deposit` read a field the service does
not have and always answer 500, so they are no action.

### How VisitorRewards follows the code

| Action | Code |
|---|---|
| `View` | `recordImpression` from the look-up of the cooldown to `setImmediate`, for a served ad (no key) or a reported view (the page's wallet) |
| `ViewCutShort` | the process dies after the impression's insert |
| `Click` | `processClickWithUserReward` asks for the cooldown of a fingerprint |
| `PayImpression` | `processImpressionPayment`, which settles the row; an exception marks it failed |
| `Crash`, `Restart` | a signal, or the unhandled rejection when that second update throws too; `createTables` drops `user_rewards` |
| `Tick` | time |

`Recent` is the comparison `created_at > sixHoursAgo`. The row's text has a
blank where the ISO text has a `T`, so on one UTC day the row always sorts
below, and between days the day decides: only `Day` enters. `RewardInserts` is
the foreign key: `Registered` are the wallets with a row in `user_wallets`,
which only a database from an earlier version has, since the one route that
would insert there, `POST /api/user-wallet`, calls a method that does not exist
and answers 500. `updateWalletStats` fails the same way inside a `catch`.

### How AdCatalogue follows the code

`CreateSite` is `POST /api/sites`, `ServeAd` and `ServeNothing` are
`findAdForSite` for a known and an unknown `siteId`, `Spend` is the charge of a
click. `Base`, `Score` and `Weight` are `weightedMatching`,
`calculateTagMatchScore` and `tagAwareWeightedMatching`, with the arithmetic of
the code (rounded-down tenths of an XLM, at least 1; two points for a tag, one
for a part of one). A draw from the list of weights is the choice of any
campaign the list holds. Tags are members of a small set; `Overlap` says which
contain which.

### How WalletHandshake follows the code

An action is one task of the page's event loop with the promise continuations
that run at its end.

| Action | Code |
|---|---|
| `InitializeReady`, `Initialize`, `Poll`, `PollFindsExtension`, `PollAgain`, `ReconnectWallet` | `checkUserWallet`, called in a document that is ready, on `DOMContentLoaded` and on `load`, by its own timers, and by `reconnectWallet`, which puts the counter to 0 beside timers that run |
| `ConnectWallet` | `StellarAdsSDK.connectWallet` |
| `InstalledEvent` | the `stellarWalletInstalled` listener, guarded by `isConnecting` |
| `PageRequest` | the page's own use of the interface `onWalletReady` hands out |
| `Approve`, `Refuse` | an answer of the extension: every listener of the method takes it, is removed, and its promise settles if it still can; a connect writes the account whatever became of its promise; the callers go on |
| `Timeout` | the `setTimeout` of a request, which leaves its listener |
| `BalanceTimer`, `ApiAnswers` | the balance a second after the event's connect; the API asked when the extension does not tell it |
| `ExtensionInstalled` | the content script (external) |

An approval of a connect is taken to carry a `publicKey`; without one the
handler throws after it removed its listener and its timer, and the promise
never settles. `userBalance`, on which nothing decides, is left out. `granted`
and `refused` are history.

### How AdDelivery follows the code

| Action | Code |
|---|---|
| `WalletConnects` | a step of `PageWallet` |
| `InsertContainer` | the page's script |
| `Initialize`, `InitializeSkipped` | `initializeStellarAds` with and without a `siteId` and a container |
| `TimeOut`, `ConnectionBreaks`, `HttpError`, `Retry` | the ways an attempt fails, and the next one |
| `Headers`, `Body`, `RenderAd` | the answer in two parts, the time-out covering the first; the render |
| `ImageLoads`, `ImageFails` | the image's listeners, which outlive the image in the page |
| `ServeAd`, `ServeNothing`, `RecordServed`, `CountLost` | `GET /api/ad`, and the impression its `setImmediate` records, or does not because a statement throws or the process stops |
| `RecordViewed` | `POST /api/impression` |
| `RequestLost` | the network; also a reported view whose row could not be written, since the page is answered the same |

`displayed`, `received` and `uncounted` are history. A body that has begun may
stall for ever: `response.json()` has no time-out. `AdStays` names the late
failure of an image as the one event that may put something else in the place of
a shown ad, also when the image belongs to an ad that is no longer there. The reward pop-ups are
left out: they wait for an answer the server never gives.

## Runs

| Run | Instance | Shows |
|---|---|---|
| `click_faults` | 2 clicks, 2 campaigns with different prices, every fault; 202,419 states up to symmetry | `CompletedMeansPaid`, `PaymentHasRow`, `SpentMatchesCharged`, the inductive `PipelineInv` (which contains `TypeOK`), `RowLifecycle`, and `KeepsBooks`: the pipeline implements `ClickBooks` |
| `click_contention` | 3 clicks, 1 campaign, only stops of the process; 132,513 states | `ConflictHasWinner`, `NoSelfConflict`, `SomePublisherPaid`, `FaultsExplain`, and under fairness `EveryClickSettles` |
| `wallet_handshake` | 2 calls of any kind, 2 accounts, 1 poll, 2 timers; 176,437 states | `TypeOK`, `OneEventHandshake`, `WalletMeansGranted`, `ListenersAwaitAnswer`, `LostGrantNeedsRefusal`, `AccountsDivergeOutside`, `ImplementsPageWallet`, and under fairness `FlagReleased`, `EveryCallReturns` |
| `ad_delivery` | 2 chains of 2 attempts; 203,700 states | `TypeOK`, `ReportedWasDisplayed`, `ViewCountedTwice`, `AdNamesWallet`, `AdStays`, `ChainEndsOnce`, and under fairness `SomethingIsShown`: a chain that asks for an ad shows something in the end, unless a body it waits for stalls for good |
| `visitor_rewards` | 3 visits in three quarters of a day around midnight, 2 wallets, 1 fingerprint, 2 sites, 1 death; 962,001 states | `PendingIsDueOrLost`, `NightCooldown`, `WaitFollowsReward`, `ImpressionLifecycle`, and under fairness `EveryImpressionSettles` |
| `soroban_events` | any 3 of a click, an event and two orders; 1 campaign, 1 publisher, a deposit for one event, every fault, 1 restart; 757,802 states | `BooksWithinDeposit`, `MishapsExplain`, `OperatorKnows`, `KeepsBooks`, and under fairness `EveryRequestSettles` |
| `ad_catalogue` | 3 domains in 4 spellings, 2 campaigns, at most 2 tags; 1,400 states | `UniqueDomains`, `OffersEveryFunded`, `BestMatchGains` |
| `budget_overrun` | no fault | `BudgetRespected` fails: nothing looks at the budget when a click is paid |
| `failed_but_paid` | lost answers | `FailedIsUnpaid` fails: a click marked failed whose publisher is paid |
| `ad_without_wallet` | 1 chain | `AnsweredAdIsShown` fails: the ad that comes before the wallet is thrown away |
| `cooldown_by_day` | 2 visits of a registered wallet on one evening | `SixHourCooldown` fails: both are rewarded |
| `no_key_waits` | 4 visits of a wallet without a row in `user_wallets` and its fingerprint, no fault | `SomeKeyWaits` fails: in one night two views and two clicks on one site are all rewarded |

The `TypeOK` of every module is proved; TLC checks those of the SDK, and that of
the pipeline within `PipelineInv`. `AdPage` has no run: its two parts have one
each, and its theorem follows from theirs.

`FaultsExplain` has an implication for each kind of fault. `click_contention`,
in which the process is only stopped and started, is where the second one bites:
a stop between the two UPDATEs of a settlement would break it. The theorem
covers the other sets.

`MishapsExplain` is the counterpart for the Soroban clicks. It goes click by
click: one that is completed and not charged, or pending with nothing to come,
is one whose own handler threw or died, as it does between the two UPDATEs or
after the contract has paid. `KeepsBooks` and `BooksWithinDeposit` permit such
clicks, and `KeepsBooks` and `SpentMatchesCharged` permit those of the pipeline;
`MishapsExplain` and `FaultsExplain` say which they are. The run has one
Soroban click, so that it shows the own mishaps; that the mishap of one click
does not touch another is the theorem's.

### The bounds

* Clicks meet only in the sequence number and in `spent_xlm`. Two clicks give
  every pair of awaits, with four transactions on one account, and every fault
  at each of them; two campaigns show a charge that goes to the wrong one or
  overwrites another. Three clicks are the fewest among which a click can lose
  the number twice, to two others. A click URL without a valid wallet and a
  site without a valid key only make certain what `load` allows, so the runs
  use valid ones.
* Calls of the wallet meet in the listeners of one method, the flag and the
  account. Two calls are every pair, each with its connect and its balance, and
  an answer to one may be taken by the other before or after its time-out. Two
  accounts tell the answers apart. The code polls 10 times; the property of a
  poll does not depend on the number, and one poll has a last attempt and one
  before it. `MaxTimers` bounds the timers `reconnectWallet` adds to.
* Two chains and two attempts are what the code has: `DOMContentLoaded` and
  `load`, `RETRY_ATTEMPTS = 2`. `reinitialize` would be a third chain of the
  same kind.
* A tick is a quarter of a day, so that six hours are one tick and the
  comparison by day has a quarter in which it works (after midnight) and others
  in which it does not; the run goes from an evening to the noon after it. Three
  visits are a rewarded one, one that waits and one that would follow from the
  row of the second. Four visits are the fewest that reward both keys of one
  visitor twice. The theorems hold for any length of the day above the cooldown.
* Two orders are the fewest that can disagree about a setting, and a third
  request is an event that pays or is refused according to it. The deposit pays
  one event, so that a second is refused and a refund matters.
* The small campaign of the catalogue keeps less than 0.1 XLM after one click,
  the case in which a weight without its floor of 1 would be 0.

The theorems carry the safety results beyond these bounds. Deadlock is
not checked where a run comes to rest: with no click, call, visit or request
left to come, the system rightly stops. `ad_catalogue` can always serve and is
checked for it.

Each property has a mutant, a definition beside the one it changes and marked
`Mutant` in its comment: a missing `await`, a result that is not looked at, a
charge computed from a stale row, a restart that reopens or requeues what was
lost, a stop between the two statements of a settlement, a listener that goes by the wrong field or is removed by its time-out, a
flag that stays up on an error, a late answer that is rendered, a cooldown that
ignores the site. No specification uses them.

### Fairness

* `ClickPipeline`: a click whose callback is due is continued, and the network
  decides each transaction. The first is the event loop's, and for the two
  submissions also the 60 s time-out of the Stellar client; for the two
  `loadAccount`s it is an assumption that Horizon answers or the connection
  breaks, since the code sets no time-out of its own. The second is the 30 s
  time bound every transaction is built with. Nothing is assumed of new clicks,
  of stops and of restarts.
* `WalletHandshake`: the timers of the requests and of the balance fire, and
  the fetch of the balance settles. The extension owes nobody an answer, and
  nobody has to poll or initialise.
* `AdDelivery`: the time-out and the retry timer fire, and nothing else: the
  network owes neither an answer nor the rest of a body, and the wallet need not
  connect. `SomethingIsShown` therefore excepts the chain whose body stalls for
  good, which the code's time-out, ending with the headers, does not cover.
* `VisitorRewards`: a callback `setImmediate` has queued runs while the process
  lives. `SorobanEvents`: one of the callbacks that are due runs, and a `fetch`
  ends by itself, by the time-outs of five minutes that Node sets for headers
  and body. Neither assumes a restart.

### Disagreements with the documents

1. `CONTEXTO.md` 93 promises a spending limit per campaign; the click handler
   (`adRoutes.js` 675) and the pipeline never compare `spent_xlm` with
   `budget_xlm` (`budget_overrun`).
2. `CONTEXTO-SISTEMA.md` 94 has the status follow the confirmation;
   `stellarService.js` 170 turns every error of the submission, a time-out
   included, into `failed`, also when the network applies the payment. The
   campaign is then never charged for it (`failed_but_paid`).
3. `README.md` 327 says that the ad will load automatically; `sdk.js` 601 reads
   `userWallet.publicKey` although line 594 has just found that there may be no
   wallet, the exception ends in the error placeholder, and no later connection
   asks for an ad again (`ad_without_wallet`).
4. `CONTEXTO-SISTEMA.md` 22 promises a cooldown of six hours per user and site;
   `database.js` 457 compares two formats of a date as text, so that a reward
   of the same UTC day never counts as recent from 06:00 on
   (`cooldown_by_day`).
5. The same promise, and `CONTEXTO-SISTEMA.md` 92 for impressions and clicks
   alike, fails at any hour for two more causes. The row of a view's reward has a
   foreign key on `user_wallets` (`database.js` 133), which nothing that is reached
   fills, so for a wallet this version meets first the insert fails and
   `recordUserReward` swallows the error. A click looks the cooldown up under a
   fingerprint (`adMatchingService.js` 422) and stores no row at all. `SomeKeyWaits`
   asks only that one of a visitor's two keys has a cooldown, in the hours when
   the dates do compare; neither has (`no_key_waits`).

No run shows a sixth, which is a comparison of constants: `adMatchingService.js`
433 and 462 describe the reward as 10% or 15% of the click's price, and line 462
pays 0.15 XLM, more than the 0.12 XLM of the sample campaign
`campaign_elearning_003`.

## Proofs

Every invariant and every action property that a passing run checks is also a
theorem, for all constants that satisfy the named assumptions of the module,
and so are the three refinements.

* `ClickPipelineProofs`. None of the safety properties is inductive alone. That
  a completed click is paid needs the position of its continuation and that a
  decided transaction stays decided; that the counter equals the charges needs
  that a click about to be charged is completed and belongs to a campaign; that
  a refused transaction has a winner needs that the numbers up to `acctSeq` are
  all consumed. `PipelineInv` says this: `StageAgrees` ties the position, the
  row and the two transactions of a click together, `SequenceGapless` describes
  the numbers. One lemma per part (`TypeOKStep`, `StagesStep`, `SpentStep`,
  `SequenceStep`), one step per action; `SpentStep` counts with the library's
  cardinality facts. From it follow `CompletedPaid`, `PaymentRegistered`,
  `SpentExact`, `ConflictWinner`, `SelfConflictFree` and `RowsMoveForward`.
  `PublisherAlwaysPaid` adds `CalmInv`: when only the process may fail, the
  reward of a click took an earlier number than its publisher's payment. The
  last number that was consumed therefore went to a publisher, because a reward
  that took it would be followed by the later payment of its own click.
  `FaultsExplained` turns the fault model round: it names for each way in which
  the books can disagree the faults it takes, so that a `failed` that is paid
  or a `completed` that is not charged can be traced. `OutcomesAgree` is its strengthening: a
  publisher whose refusal was reported stays refused, a completed click is
  charged or about to be.
* `ClickBooksProofs`, `BooksStayExact`: the books alone, without any of the code
  beneath, imply that a charged click is completed, paid and registered, and
  that a campaign's counter is the price of its charged clicks. The proof is
  made once for whatever refines `ClickBooks`; `BooksAreExact` takes it to the
  Soroban clicks through their refinement (the pipeline has `SpentExact`, from
  its own invariant). Its premise `Prices`
  is a definition rather than an `ASSUME` because the module is instantiated.
* `ImplementsBooks`, twice. `BooksStep` maps every step of `ClickPipeline` and
  of `SorobanEvents` to one of `ClickBooks` or to a stutter: `recordClick` to
  `Register`, the network's or the contracts' decision to `Pay`, the two
  UPDATEs to `Complete` and `Charge`. For the Soroban clicks `RowsAgree` ties
  the row to the handler and the request.
* `SorobanEventsProofs`, `OperatorAlwaysKnows`: `OperatorInv` says that an order
  that met no other has the last word on its setting, and that what was told is
  not in question (no order for it is under way). `DepositNeverExceeded` meets
  the books with the contract: `DepositCovers` says that what the contract still
  holds and what it paid for events is the deposit at most, `BooksAreExact` that
  every charged click is one of those payments, and clicks and views differ.
  `AnswersStayTrue` says what a success and a failure tell about the contracts;
  it needs `RowsAgree`. `MishapsAlwaysExplain` adds `RowsFollow`, which names the
  stages of a handler that leave a row completed or pending, and counts with
  `BooksAreExact`.
* `VisitorRewardsProofs`: the cooldown rests on two facts of integer division,
  `DayMonotone` and `NightIsAnotherDay` (six hours before a moment of the night
  is the day before, of any other moment the same day). `RewardsInv` adds
  that no visit is of the future. `ImpressionsSettleOnce` needs that what is due is pending, and
  `NothingWaitsForNothing` is the converse: what is pending is due or lost.
* `WalletHandshakeProofs`: `HandshakeInv` says which promise each call waits
  for, that a listener is there only for a promise that is pending or timed
  out, that the flag is held by one event, and that a connect which lost its
  listener lost it to an answer that connected or was refused. The lemma
  `StepCases` sorts the actions by what they do to the interface, so that each
  part of the invariant is shown once per sort. From it the five invariants
  and `ImplementsWallet`.
* `AdDeliveryProofs`: `DeliveryInv` says that no request is answered before it
  is made or twice, and that a served ad is counted, about to be, or lost. From
  it the three invariants; `ChainsEndOnce` and `AdsStay` from the steps.
* `AdPage`. `WalletAsAssumed` discharges what `AdDelivery` takes for granted of
  the wallet: the handshakes imply it, so composing the two forbids no handshake.
  `ShownAdsAlwaysPayGranted` then combines an invariant of each side:
  `AdNamesWallet` and `ReportedWasDisplayed` say that there is a wallet,
  `WalletMeansGranted` whose it is. `PageConstants` collects the assumptions of
  both modules.
* `ClicksOnlyAdvance`, `CallsOnlyAdvance`, `ChainsOnlyAdvance` and
  `RequestsOnlyAdvance` are the safety halves of the liveness properties. `Left`
  counts the callbacks or tasks an actor has before it at most (for a chain,
  three for each attempt that remains), and no step of anyone raises it: a late
  answer, a crash and a restart included. With the fairness above a step that is
  due is taken (but for the rest of a body), and only finitely many are; that part of the argument needs
  `ENABLED` and stays with TLC.
* `AdCatalogueProofs`: `DomainsStayUnique` by induction; `EveryFundedStaysOffered`
  from the positivity of the weights; `BestMatchAlwaysGains` from the
  monotonicity of the multiplier, for any budgets, tags and scores.

Assumed are only the named assumptions on constants: finite sets, amounts that
are natural numbers, positive prices and attempts, constants for "nothing" that
differ from the things, a cooldown shorter than a day, sample sites with
distinct domains.

Only model-checked: liveness under fairness, which is out of the prover's reach
(`EveryClickSettles`, `FlagReleased`, `EveryCallReturns`, `SomethingIsShown`,
`EveryImpressionSettles`, `EveryRequestSettles`), and the five violations.

## Not modelled

* `sorobanService.js`, the wrapper of the Soroban command line: it is never
  initialised and none of its operations is called.
* The demonstration pages and the SDK generator: they hold no state beyond the
  SDK they load.
* The statistics and the other read-only endpoints, which change nothing, and
  those that always fail before they write: `POST /api/user-wallet`,
  `create-campaign`, `deposit`.
* `createAccount`, `sendPayment` and `processUserRewardPayment` of the Stellar
  service, `randomMatching` and `taggedMatching`, which no route reaches.
* The SDK's pop-ups and prompts, whose conditions the server never fulfils or
  that stand behind the exception of line 601; wording, logging and layout.
* `total_earned`: its one writer fails, its value is always 0.
* The amounts of the reward and of the publisher's share.
* What the Soroban contracts do with a repeated event, and payments in their
  answers other than those assumed above: they are not in this repository, and
  this server sends each request once.

## Order of the work

The order in which the modules were written, and would be read: the click
pipeline and its books; the visitor's rewards; the handshake and, on its
abstraction, ad delivery; the Soroban path on the same books; matching and the
registry. What could still be added: a page that lives through several
navigations, and the contracts themselves, once their code is kept here.
