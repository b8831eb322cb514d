--------------------------- MODULE WalletHandshake ---------------------------
(***************************************************************************)
(* The handshakes between one page and the wallet extension (sdk.js):       *)
(* StellarWalletInterface, checkUserWallet with its polling, connectWallet, *)
(* the stellarWalletInstalled event and the page's own use of the interface.*)
(*                                                                         *)
(* A request is a postMessage with a promise, a time-out and a listener.    *)
(* The listener goes by the method of an answer only, and it outlives the   *)
(* time-out.  An action is one task of the page's event loop with the       *)
(* promise continuations that run at its end.  The extension may answer any *)
(* request, in any order, late or never, and approve or refuse it.          *)
(***************************************************************************)
EXTENDS Integers, FiniteSets

CONSTANTS Calls,      \* calls of the SDK's functions by the page, bounded
          Accounts,   \* accounts the extension's user may choose
          NoAccount,  \* no account
          MaxPolls,   \* bound on walletCheckAttempts, 10 in the code
          MaxTimers   \* bound on the timers reconnectWallet may add to

ASSUME CallsFinite == IsFiniteSet(Calls)
ASSUME NoAccountDiffers == NoAccount \notin Accounts
ASSUME PollsBounded == MaxPolls \in Nat /\ MaxTimers \in Nat

Methods  == {"connect", "getBalance", "sendPayment"}
Requests == Calls \X Methods
Method(r) == r[2]
Connect(c) == <<c, "connect">>
Balance(c) == <<c, "getBalance">>

VARIABLES
  installed,       \* window.isStellarWalletInstalled
  boot,            \* initialisations of the SDK still to come
  kind,            \* who made each call
  pc,              \* what each call waits for
  promise,         \* state of each request's promise
  listening,       \* requests whose message listener is registered
  asked,           \* requests the extension has not answered
  isConnected, currentAccount,   \* of the StellarWalletInterface
  userWallet,      \* StellarAdsSDK.userWallet, its public key
  isConnecting,    \* flag of the event listener
  attempts,        \* StellarAdsSDK.walletCheckAttempts
  polls,           \* checkUserWallet timers that are set
  granted, refused \* history: accounts connected to, whether a connect was refused

extension == <<installed, granted, refused>>
interface == <<promise, listening, asked, isConnected, currentAccount>>
sdk       == <<boot, kind, pc, userWallet, isConnecting, attempts, polls>>
vars      == <<extension, interface, sdk>>

Kinds == {"check", "connectWallet", "event", "page"}
Waits == {"idle", "connect", "balanceTimer", "balance", "api", "page", "done"}

Init ==
  /\ installed \in BOOLEAN
  /\ boot \in {"ready", "two"}
  /\ kind = [c \in Calls |-> "page"]
  /\ pc = [c \in Calls |-> "idle"]
  /\ promise = [r \in Requests |-> "none"]
  /\ listening = {}
  /\ asked = {}
  /\ isConnected = FALSE
  /\ currentAccount = NoAccount
  /\ userWallet = NoAccount
  /\ isConnecting = FALSE
  /\ attempts = 0
  /\ polls = 0
  /\ granted = {}
  /\ refused = FALSE

-----------------------------------------------------------------------------
(* connect(), getBalance() and sendPayment(): one promise, one message, one *)
(* listener each.                                                           *)
Request(rs) ==
  /\ promise' = [r \in Requests |-> IF r \in rs THEN "pending" ELSE promise[r]]
  /\ listening' = listening \union rs
  /\ asked' = asked \union rs

(* Call c of kind k starts with a connect request. *)
StartConnect(c, k) ==
  /\ pc[c] = "idle"
  /\ kind' = [kind EXCEPT ![c] = k]
  /\ pc' = [pc EXCEPT ![c] = "connect"]
  /\ Request({Connect(c)})
  /\ UNCHANGED <<isConnected, currentAccount>>

(* Mutant: one attempt too many. *)
AttemptsLeftOneMore(n) == n <= MaxPolls

(* walletCheckAttempts < 10. *)
AttemptsLeft(n) == n < MaxPolls

(* checkUserWallet: connected already, or an extension to connect to, or    *)
(* another look in two seconds while attempts are left.  base is the number *)
(* of attempts the check starts from, counted tells whether the one it      *)
(* makes is remembered.                                                     *)
CheckUserWallet(base, counted) ==
  \/ /\ userWallet # NoAccount
     /\ attempts' = base
     /\ UNCHANGED <<kind, pc, polls, interface>>
  \/ /\ userWallet = NoAccount
     /\ installed
     /\ attempts' = base
     /\ \E c \in Calls : StartConnect(c, "check")
     /\ UNCHANGED polls
  \/ /\ userWallet = NoAccount
     /\ ~installed
     /\ \/ /\ AttemptsLeft(base)
           /\ polls' = polls + 1
           /\ attempts' = IF counted THEN base + 1 ELSE base
        \/ ~AttemptsLeft(base) /\ attempts' = base /\ UNCHANGED polls
     /\ UNCHANGED <<kind, pc, interface>>

(* The script ran in a document that was ready: initializeStellarAds runs   *)
(* before the assignment to window.StellarAdsSDK puts the counter to 0.     *)
InitializeReady ==
  /\ boot = "ready"
  /\ boot' = "none"
  /\ CheckUserWallet(0, FALSE)
  /\ UNCHANGED <<userWallet, isConnecting, extension>>

(* DOMContentLoaded, then load. *)
Initialize ==
  /\ boot \in {"one", "two"}
  /\ boot' = IF boot = "two" THEN "one" ELSE "none"
  /\ CheckUserWallet(attempts, TRUE)
  /\ UNCHANGED <<userWallet, isConnecting, extension>>

(* The timer of an earlier check. *)
Poll ==
  /\ polls > 0
  /\ userWallet # NoAccount
  /\ polls' = polls - 1
  /\ UNCHANGED <<boot, kind, pc, userWallet, isConnecting, attempts,
                 interface, extension>>

PollFindsExtension ==
  /\ polls > 0
  /\ userWallet = NoAccount
  /\ installed
  /\ polls' = polls - 1
  /\ \E c \in Calls : StartConnect(c, "check")
  /\ UNCHANGED <<boot, userWallet, isConnecting, attempts, extension>>

(* The timer that fired is replaced by the one it sets. *)
PollAgain ==
  /\ polls > 0
  /\ userWallet = NoAccount
  /\ ~installed
  /\ \/ AttemptsLeft(attempts) /\ attempts' = attempts + 1 /\ UNCHANGED polls
     \/ ~AttemptsLeft(attempts) /\ polls' = polls - 1 /\ UNCHANGED attempts
  /\ UNCHANGED <<boot, kind, pc, userWallet, isConnecting, interface, extension>>

(* StellarAdsSDK.reconnectWallet, called by the page. *)
ReconnectWallet ==
  /\ boot # "ready"
  /\ polls < MaxTimers
  /\ CheckUserWallet(0, TRUE)
  /\ UNCHANGED <<boot, userWallet, isConnecting, extension>>

(* StellarAdsSDK.connectWallet, called by the page. *)
ConnectWallet(c) ==
  /\ boot # "ready" /\ installed
  /\ StartConnect(c, "connectWallet")
  /\ UNCHANGED <<boot, userWallet, isConnecting, attempts, polls, extension>>

(* Mutant: the flag is set when connect() has returned. *)
InstalledEventFlagLate(c) ==
  /\ boot # "ready" /\ installed
  /\ ~isConnecting /\ userWallet = NoAccount
  /\ StartConnect(c, "event")
  /\ UNCHANGED <<boot, userWallet, isConnecting, attempts, polls, extension>>

(* The stellarWalletInstalled listener, when it does not return at once. *)
InstalledEvent(c) ==
  /\ boot # "ready" /\ installed
  /\ ~isConnecting /\ userWallet = NoAccount
  /\ isConnecting' = TRUE
  /\ StartConnect(c, "event")
  /\ UNCHANGED <<boot, userWallet, attempts, polls, extension>>

(* The page's own script uses the interface onWalletReady handed it. *)
PageRequest(c) ==
  /\ boot # "ready" /\ installed
  /\ pc[c] = "idle"
  /\ \E m \in Methods : Request({<<c, m>>})
  /\ kind' = [kind EXCEPT ![c] = "page"]
  /\ pc' = [pc EXCEPT ![c] = "page"]
  /\ UNCHANGED <<boot, userWallet, isConnecting, attempts, polls,
                 isConnected, currentAccount, extension>>

-----------------------------------------------------------------------------
(* The calls that wait for a promise of rs. *)
WaitingOn(rs) == {r[1] : r \in {q \in rs : promise[q] = "pending"}}

(* What a call of the SDK does when its promise resolves: after a connect it *)
(* asks for the balance, the event listener a second later; else it is over. *)
AfterSuccess(c) ==
  IF pc[c] # "connect" THEN "done"
  ELSE IF kind[c] = "event" THEN "balanceTimer" ELSE "balance"

(* A failed connect ends the call, a failed getBalance turns to the API. *)
AfterFailure(c) == IF pc[c] = "balance" THEN "api" ELSE "done"

(* Mutant: connectWallet and the event leave the account to the interface. *)
SavesWalletChecked(c) == kind[c] = "check" /\ pc[c] = "connect"

(* Callers that write the account of their connect to StellarAdsSDK. *)
SavesWallet(c) == pc[c] = "connect"

(* Mutant: the listener looks at the type of the message, not at its method. *)
HitsAnyMethod(r) == listening

(* The listeners an answer to r sets off. *)
Hits(r) == {q \in listening : Method(q) = Method(r)}

(* Mutant: a listener whose time-out has fired is left registered. *)
ListenersLeftPending(hits) == listening \ {r \in hits : promise[r] = "pending"}

(* An answer removes the listeners it sets off, timed out or not. *)
ListenersLeft(hits) == listening \ hits

(* The event listener's finally. *)
ReleaseFlag(cs) ==
  isConnecting' = (isConnecting /\ ~ \E c \in cs : kind[c] = "event" /\ pc[c] = "connect")

(* checkUserWallet got through: it resets the counter. *)
ResetAttempts(cs) ==
  attempts' = IF \E c \in cs : kind[c] = "check" /\ pc[c] \in {"balance", "api"}
                THEN 0 ELSE attempts

(* The extension answers r with a success; for a connect, with an account.  *)
(* Every listener of the method takes the answer for its own: its promise   *)
(* resolves if it still can, and that of a connect writes to the interface  *)
(* whatever became of its promise.  The callers go on at once.              *)
Approve(r) ==
  LET hits    == Hits(r)
      callers == WaitingOn(hits)
      savers  == {c \in callers : SavesWallet(c)}
      asking  == {Balance(c) : c \in {d \in savers : AfterSuccess(d) = "balance"}}
  IN
  /\ r \in asked
  /\ asked' = (asked \ {r}) \union asking
  /\ listening' = ListenersLeft(hits) \union asking
  /\ promise' = [q \in Requests |->
       IF q \in asking THEN "pending"
       ELSE IF q \in hits /\ promise[q] = "pending" THEN "resolved" ELSE promise[q]]
  /\ \E a \in Accounts :
       /\ granted' = IF Method(r) = "connect" THEN granted \union {a} ELSE granted
       /\ IF \E q \in hits : Method(q) = "connect"
            THEN isConnected' = TRUE /\ currentAccount' = a
            ELSE UNCHANGED <<isConnected, currentAccount>>
       /\ userWallet' = IF savers # {} THEN a ELSE userWallet
  /\ pc' = [c \in Calls |-> IF c \in callers THEN AfterSuccess(c) ELSE pc[c]]
  /\ ReleaseFlag(callers)
  /\ ResetAttempts(callers)
  /\ UNCHANGED <<installed, boot, kind, polls, refused>>

(* Mutant: a request that fails takes the wallet for gone. *)
RejectForgetsWallet(rs, as) ==
  /\ promise' = [q \in Requests |-> IF q \in rs /\ promise[q] = "pending"
                                      THEN as ELSE promise[q]]
  /\ pc' = [c \in Calls |-> IF c \in WaitingOn(rs) THEN AfterFailure(c) ELSE pc[c]]
  /\ ReleaseFlag(WaitingOn(rs))
  /\ userWallet' = NoAccount
  /\ UNCHANGED <<installed, granted, boot, kind, attempts, polls,
                 isConnected, currentAccount>>

(* The promises of rs reject, and their callers go on. *)
Reject(rs, as) ==
  /\ promise' = [q \in Requests |-> IF q \in rs /\ promise[q] = "pending"
                                      THEN as ELSE promise[q]]
  /\ pc' = [c \in Calls |-> IF c \in WaitingOn(rs) THEN AfterFailure(c) ELSE pc[c]]
  /\ ReleaseFlag(WaitingOn(rs))
  /\ UNCHANGED <<installed, granted, boot, kind, userWallet, attempts, polls,
                 isConnected, currentAccount>>

(* The extension answers r with an error, or a getBalance with nothing. *)
Refuse(r) ==
  /\ r \in asked
  /\ asked' = asked \ {r}
  /\ listening' = ListenersLeft(Hits(r))
  /\ Reject(Hits(r), "rejected")
  /\ refused' = (refused \/ Method(r) = "connect")

(* Mutant: the time-out takes its listener with it. *)
TimeoutCleansUp(r) ==
  /\ promise[r] = "pending"
  /\ Reject({r}, "timedOut")
  /\ listening' = listening \ {r}
  /\ UNCHANGED <<asked, refused>>

(* Mutant: the event listener resets its flag in the try only. *)
TimeoutKeepsFlag(r) ==
  /\ promise[r] = "pending"
  /\ promise' = [promise EXCEPT ![r] = "timedOut"]
  /\ pc' = [pc EXCEPT ![r[1]] = AfterFailure(r[1])]
  /\ UNCHANGED <<extension, boot, kind, userWallet, attempts, polls, isConnecting,
                 isConnected, currentAccount, listening, asked>>

(* Mutant: getBalance has no time-out. *)
TimeoutNotForBalance(r) ==
  /\ promise[r] = "pending" /\ Method(r) # "getBalance"
  /\ Reject({r}, "timedOut")
  /\ UNCHANGED <<listening, asked, refused>>

(* The setTimeout of a request: 10 s, 5 s or 30 s.  Its listener stays. *)
Timeout(r) ==
  /\ promise[r] = "pending"
  /\ Reject({r}, "timedOut")
  /\ UNCHANGED <<listening, asked, refused>>

(* The event listener asks for the balance a second after it connected. *)
BalanceTimer(c) ==
  /\ pc[c] = "balanceTimer"
  /\ pc' = [pc EXCEPT ![c] = "balance"]
  /\ Request({Balance(c)})
  /\ UNCHANGED <<extension, boot, kind, userWallet, isConnecting, attempts, polls,
                 isConnected, currentAccount>>

(* checkUserBalanceFromAPI: its fetch settles, either way the call is over. *)
ApiAnswers(c) ==
  /\ pc[c] = "api"
  /\ pc' = [pc EXCEPT ![c] = "done"]
  /\ ResetAttempts({c})
  /\ UNCHANGED <<extension, interface, boot, kind, userWallet, isConnecting, polls>>

(* The content script of the extension is injected. *)
ExtensionInstalled ==
  /\ ~installed
  /\ installed' = TRUE
  /\ UNCHANGED <<granted, refused, interface, sdk>>

Next ==
  \/ InitializeReady \/ Initialize
  \/ Poll \/ PollFindsExtension \/ PollAgain
  \/ ReconnectWallet \/ ExtensionInstalled
  \/ \E c \in Calls : \/ ConnectWallet(c) \/ InstalledEvent(c) \/ PageRequest(c)
                      \/ BalanceTimer(c) \/ ApiAnswers(c)
  \/ \E r \in Requests : Approve(r) \/ Refuse(r) \/ Timeout(r)

Spec == Init /\ [][Next]_vars

(* Timers fire and fetches settle.  The extension owes nobody an answer. *)
Fairness ==
  /\ \A r \in Requests : WF_vars(Timeout(r))
  /\ \A c \in Calls : WF_vars(BalanceTimer(c)) /\ WF_vars(ApiAnswers(c))

FairSpec == Spec /\ Fairness

-----------------------------------------------------------------------------
TypeOK ==
  /\ installed \in BOOLEAN
  /\ boot \in {"ready", "two", "one", "none"}
  /\ kind \in [Calls -> Kinds]
  /\ pc \in [Calls -> Waits]
  /\ promise \in [Requests -> {"none", "pending", "resolved", "rejected", "timedOut"}]
  /\ listening \subseteq Requests
  /\ asked \subseteq Requests
  /\ isConnected \in BOOLEAN
  /\ currentAccount \in Accounts \union {NoAccount}
  /\ userWallet \in Accounts \union {NoAccount}
  /\ isConnecting \in BOOLEAN
  /\ attempts \in 0..MaxPolls
  /\ polls \in Nat
  /\ granted \subseteq Accounts
  /\ refused \in BOOLEAN

(* isConnecting is up exactly while the event listener waits for its        *)
(* connect, and never for two of them, however many events the extension    *)
(* dispatches (sdk.js 1249-1316).                                           *)
OneEventHandshake ==
  LET connecting == {c \in Calls : kind[c] = "event" /\ pc[c] = "connect"}
  IN  /\ isConnecting <=> connecting # {}
      /\ Cardinality(connecting) <= 1

(* A wallet the SDK shows was granted by the extension's user, and the      *)
(* interface knows it is connected, whichever requests the answers were     *)
(* taken for (sdk.js 70-94, 261, 1172, 1285).                               *)
WalletMeansGranted ==
  userWallet # NoAccount => /\ isConnected
                            /\ {userWallet, currentAccount} \subseteq granted

(* A listener is registered only while its own request is unanswered: the   *)
(* ones a time-out leaves behind go with the next answer of their method    *)
(* (sdk.js 57-59, 76).                                                      *)
ListenersAwaitAnswer == listening \subseteq asked

(* A grant is lost on the interface only after the user refused some other  *)
(* connect, whose answer removed the listener of this one: a time-out alone *)
(* loses none (sdk.js 57-79).                                               *)
LostGrantNeedsRefusal == granted # {} /\ ~isConnected => refused

(* The SDK's wallet and the interface's account differ only by the answer   *)
(* to a connect that had timed out or that the page made itself (sdk.js 79, *)
(* 261, 1172, 1285).                                                        *)
AccountsDivergeOutside ==
  userWallet # currentAccount =>
    \E c \in Calls : \/ promise[Connect(c)] = "timedOut"
                     \/ kind[c] = "page" /\ promise[Connect(c)] = "resolved"

(* To the rest of the page the handshakes are a wallet that is null, is set *)
(* and stays set: no refusal, time-out or late initialisation takes it back *)
(* (sdk.js 261, 1157, 1172, 1285).                                          *)
Wallet == INSTANCE PageWallet WITH connected <- userWallet # NoAccount
ImplementsPageWallet == Wallet!Spec

(* Whatever the extension does not answer, the event listener's flag comes  *)
(* down again, so that a later event can connect (sdk.js 1313).             *)
FlagReleased == isConnecting ~> ~isConnecting

(* Every call of the SDK returns, with or without an answer (sdk.js 57,     *)
(* 102, 149, 325).                                                          *)
EveryCallReturns == \A c \in Calls : pc[c] # "idle" ~> pc[c] = "done"
=============================================================================
