------------------------ MODULE WalletHandshakeProofs ------------------------
(***************************************************************************)
(* Theorems about WalletHandshake, for any calls, accounts and bounds on the *)
(* polling.                                                                  *)
(***************************************************************************)
EXTENDS WalletHandshake, FiniteSetTheorems, TLAPS

Connecting == {c \in Calls : kind[c] = "event" /\ pc[c] = "connect"}

(* What a pending promise says of the call that waits for it. *)
WaitsAt(c, m) ==
  \/ pc[c] = "page"
  \/ pc[c] = "connect" /\ m = "connect"
  \/ pc[c] = "balance" /\ m = "getBalance"

(* A call that has not begun has asked for nothing, and one that waits waits *)
(* for one promise.                                                          *)
PromisesFollowCalls ==
  /\ \A c \in Calls, m \in Methods :
       /\ pc[c] = "idle" => promise[<<c, m>>] = "none"
       /\ promise[<<c, m>>] = "pending" => WaitsAt(c, m)
  /\ \A c \in Calls, m, n \in Methods :
       promise[<<c, m>>] = "pending" /\ promise[<<c, n>>] = "pending" => m = n
  /\ \A c \in Calls : /\ pc[c] = "page" => kind[c] = "page"
                      /\ pc[c] = "balanceTimer" => kind[c] # "page"

(* A listener is there for a promise that is pending or timed out. *)
ListenersFollowPromises ==
  /\ ListenersAwaitAnswer
  /\ \A r \in listening : promise[r] \in {"pending", "timedOut"}

(* The flag and the one event that holds it. *)
FlagHeldOnce ==
  /\ isConnecting <=> Connecting # {}
  /\ \A c, d \in Connecting : c = d

(* A connect whose listener went before its answer lost it to the answer to  *)
(* another one.                                                              *)
LostListenersWereAnswered ==
  (\E c \in Calls : Connect(c) \in asked \ listening) => isConnected \/ refused

HandshakeInv ==
  /\ TypeOK
  /\ PromisesFollowCalls
  /\ ListenersFollowPromises
  /\ FlagHeldOnce
  /\ WalletMeansGranted
  /\ LostListenersWereAnswered
  /\ LostGrantNeedsRefusal
  /\ AccountsDivergeOutside

LEMMA Pairs ==
  /\ \A c \in Calls, m \in Methods : <<c, m>> \in Requests
  /\ \A c \in Calls : /\ Connect(c) \in Requests /\ Method(Connect(c)) = "connect"
                      /\ Balance(c) \in Requests /\ Method(Balance(c)) = "getBalance"
                      /\ Connect(c)[1] = c /\ Balance(c)[1] = c
  /\ \A r \in Requests : r[1] \in Calls /\ Method(r) \in Methods /\ r = <<r[1], Method(r)>>
BY DEF Requests, Methods, Method, Connect, Balance

LEMMA HandshakeInit == Init => HandshakeInv
<1> SUFFICES ASSUME Init
             PROVE  HandshakeInv
  OBVIOUS
<1>1. TypeOK
  <2>1. attempts \in 0..MaxPolls /\ polls \in Nat
    BY PollsBounded DEF Init
  <2>2. kind \in [Calls -> Kinds] /\ pc \in [Calls -> Waits]
    BY DEF Init, Kinds, Waits
  <2>3. promise \in [Requests -> {"none", "pending", "resolved", "rejected", "timedOut"}]
    BY DEF Init
  <2>4. /\ installed \in BOOLEAN /\ isConnected \in BOOLEAN
        /\ isConnecting \in BOOLEAN /\ refused \in BOOLEAN
    BY DEF Init
  <2>5. /\ boot \in {"ready", "two", "one", "none"}
        /\ listening \subseteq Requests /\ asked \subseteq Requests /\ granted \subseteq Accounts
        /\ currentAccount \in Accounts \union {NoAccount}
        /\ userWallet \in Accounts \union {NoAccount}
    BY DEF Init
  <2> QED
    BY <2>1, <2>2, <2>3, <2>4, <2>5 DEF TypeOK
<1>2. PromisesFollowCalls
  BY Pairs DEF Init, PromisesFollowCalls
<1>3. ListenersFollowPromises /\ FlagHeldOnce /\ LostListenersWereAnswered
  BY DEF Init, ListenersFollowPromises, ListenersAwaitAnswer, FlagHeldOnce, Connecting,
         LostListenersWereAnswered
<1>4. WalletMeansGranted /\ LostGrantNeedsRefusal /\ AccountsDivergeOutside
  BY DEF Init, WalletMeansGranted, LostGrantNeedsRefusal, AccountsDivergeOutside
<1> QED
  BY <1>1, <1>2, <1>3, <1>4 DEF HandshakeInv

-----------------------------------------------------------------------------
(* A step that starts no request and ends none. *)
Quiet == UNCHANGED <<kind, pc, interface, userWallet, isConnecting, granted, refused>>

(* A step in which the SDK begins a call. *)
Begins(c) ==
  \E k \in {"check", "connectWallet", "event"} :
    /\ StartConnect(c, k)
    /\ UNCHANGED <<userWallet, granted, refused>>
    /\ k = "event" => ~isConnecting /\ isConnecting' = TRUE
    /\ k # "event" => isConnecting' = isConnecting

LEMMA CheckCases ==
  ASSUME NEW base, NEW counted, CheckUserWallet(base, counted),
         UNCHANGED <<userWallet, isConnecting, granted, refused>>
  PROVE  Quiet \/ \E c \in Calls : Begins(c)
BY DEF CheckUserWallet, Quiet, Begins

LEMMA StepCases ==
  ASSUME [Next]_vars
  PROVE  \/ Quiet
         \/ \E c \in Calls : Begins(c) \/ PageRequest(c) \/ BalanceTimer(c) \/ ApiAnswers(c)
         \/ \E r \in Requests : Approve(r) \/ Refuse(r) \/ Timeout(r)
<1>1. CASE InitializeReady \/ Initialize \/ ReconnectWallet
  BY <1>1, CheckCases DEF InitializeReady, Initialize, ReconnectWallet, extension
<1>2. CASE Poll \/ PollAgain \/ ExtensionInstalled
  BY <1>2 DEF Poll, PollAgain, ExtensionInstalled, Quiet, interface, sdk, extension
<1>3. CASE PollFindsExtension
  BY <1>3 DEF PollFindsExtension, Begins, extension
<1>4. ASSUME NEW c \in Calls, ConnectWallet(c) \/ InstalledEvent(c)
      PROVE  Begins(c)
  BY <1>4 DEF ConnectWallet, InstalledEvent, Begins, extension
<1>5. CASE UNCHANGED vars
  BY <1>5 DEF vars, Quiet, interface, sdk, extension
<1> QED
  BY <1>1, <1>2, <1>3, <1>4, <1>5 DEF Next

-----------------------------------------------------------------------------
(* The type invariant, first of the calls and the interface. *)
CallTypes ==
  /\ kind \in [Calls -> Kinds]
  /\ pc \in [Calls -> Waits]
  /\ promise \in [Requests -> {"none", "pending", "resolved", "rejected", "timedOut"}]
  /\ listening \subseteq Requests /\ asked \subseteq Requests
  /\ isConnected \in BOOLEAN /\ isConnecting \in BOOLEAN /\ refused \in BOOLEAN
  /\ currentAccount \in Accounts \union {NoAccount}
  /\ userWallet \in Accounts \union {NoAccount}
  /\ granted \subseteq Accounts

LEMMA BeginsFacts ==
  ASSUME NEW c \in Calls, Begins(c)
  PROVE  /\ pc[c] = "idle" /\ pc' = [pc EXCEPT ![c] = "connect"]
         /\ \E k \in {"check", "connectWallet", "event"} :
              /\ kind' = [kind EXCEPT ![c] = k]
              /\ k = "event" => ~isConnecting /\ isConnecting' = TRUE
              /\ k # "event" => isConnecting' = isConnecting
         /\ Request({Connect(c)})
         /\ UNCHANGED <<isConnected, currentAccount, userWallet, granted, refused>>
BY DEF Begins, StartConnect

LEMMA RejectFacts ==
  ASSUME NEW rs, NEW as, Reject(rs, as)
  PROVE  /\ promise' = [q \in Requests |-> IF q \in rs /\ promise[q] = "pending"
                                             THEN as ELSE promise[q]]
         /\ pc' = [c \in Calls |-> IF c \in WaitingOn(rs) THEN AfterFailure(c) ELSE pc[c]]
         /\ ReleaseFlag(WaitingOn(rs))
         /\ UNCHANGED <<kind, userWallet, isConnected, currentAccount, granted>>
BY DEF Reject

(* The parts of an approval. *)
Savers(r) == {c \in WaitingOn(Hits(r)) : SavesWallet(c)}
Asking(r) == {Balance(c) : c \in {d \in Savers(r) : AfterSuccess(d) = "balance"}}

LEMMA ApproveFacts ==
  ASSUME NEW r \in Requests, Approve(r)
  PROVE  /\ r \in asked
         /\ asked' = (asked \ {r}) \union Asking(r)
         /\ listening' = (listening \ Hits(r)) \union Asking(r)
         /\ promise' = [q \in Requests |->
              IF q \in Asking(r) THEN "pending"
              ELSE IF q \in Hits(r) /\ promise[q] = "pending" THEN "resolved" ELSE promise[q]]
         /\ \E a \in Accounts :
              /\ granted' = IF Method(r) = "connect" THEN granted \union {a} ELSE granted
              /\ IF \E q \in Hits(r) : Method(q) = "connect"
                   THEN isConnected' = TRUE /\ currentAccount' = a
                   ELSE UNCHANGED <<isConnected, currentAccount>>
              /\ userWallet' = IF Savers(r) # {} THEN a ELSE userWallet
         /\ pc' = [c \in Calls |-> IF c \in WaitingOn(Hits(r)) THEN AfterSuccess(c) ELSE pc[c]]
         /\ ReleaseFlag(WaitingOn(Hits(r)))
         /\ UNCHANGED <<kind, refused>>
BY DEF Approve, Savers, Asking, ListenersLeft

LEMMA HitsAre ==
  ASSUME NEW r \in Requests
  PROVE  /\ Hits(r) \subseteq listening
         /\ \A q \in Hits(r) : Method(q) = Method(r)
         /\ r \in listening => r \in Hits(r)
BY DEF Hits

LEMMA WaitingOnIs ==
  ASSUME NEW rs \in SUBSET Requests
  PROVE  /\ WaitingOn(rs) \subseteq Calls
         /\ \A q \in rs : promise[q] = "pending" => q[1] \in WaitingOn(rs)
         /\ \A c \in WaitingOn(rs) : \E m \in Methods :
              <<c, m>> \in rs /\ promise[<<c, m>>] = "pending"
BY Pairs DEF WaitingOn

LEMMA CallTypesStep == TypeOK /\ [Next]_vars => CallTypes'
<1> SUFFICES ASSUME TypeOK, [Next]_vars
             PROVE  CallTypes'
  OBVIOUS
<1>1. CallTypes
  BY DEF TypeOK, CallTypes
<1>2. CASE Quiet
  BY <1>1, <1>2 DEF Quiet, CallTypes, interface
<1>3. ASSUME NEW c \in Calls, Begins(c)
      PROVE  CallTypes'
  <2>1. /\ kind' \in [Calls -> Kinds] /\ pc' \in [Calls -> Waits]
    <3>1. PICK k \in {"check", "connectWallet", "event"} : kind' = [kind EXCEPT ![c] = k]
      BY <1>3, BeginsFacts
    <3>2. kind' \in [Calls -> Kinds]
      BY <1>1, <3>1 DEF CallTypes, Kinds
    <3>3. pc' = [pc EXCEPT ![c] = "connect"]
      BY <1>3, BeginsFacts
    <3>4. pc' \in [Calls -> Waits]
      BY <1>1, <3>3 DEF CallTypes, Waits
    <3> QED
      BY <3>2, <3>4
  <2>2. isConnecting' \in BOOLEAN
    BY <1>1, <1>3, BeginsFacts DEF CallTypes
  <2>3. /\ promise' \in [Requests -> {"none", "pending", "resolved", "rejected", "timedOut"}]
        /\ listening' \subseteq Requests /\ asked' \subseteq Requests
    <3>1. Request({Connect(c)})
      BY <1>3, BeginsFacts
    <3> QED
      BY <1>1, <3>1, Pairs DEF CallTypes, Request
  <2>4. UNCHANGED <<isConnected, currentAccount, userWallet, granted, refused>>
    BY <1>3, BeginsFacts
  <2> QED
    BY <1>1, <2>1, <2>2, <2>3, <2>4 DEF CallTypes
<1>4. ASSUME NEW c \in Calls, PageRequest(c)
      PROVE  CallTypes'
  <2>1. PICK m \in Methods : Request({<<c, m>>})
    BY <1>4 DEF PageRequest
  <2>2. /\ kind' \in [Calls -> Kinds] /\ pc' \in [Calls -> Waits]
    BY <1>1, <1>4 DEF PageRequest, CallTypes, Kinds, Waits
  <2>3. /\ promise' \in [Requests -> {"none", "pending", "resolved", "rejected", "timedOut"}]
        /\ listening' \subseteq Requests /\ asked' \subseteq Requests
    BY <1>1, <2>1, Pairs DEF CallTypes, Request
  <2>4. UNCHANGED <<isConnected, isConnecting, currentAccount, userWallet, granted, refused>>
    BY <1>4 DEF PageRequest, extension
  <2> QED
    BY <1>1, <2>2, <2>3, <2>4 DEF CallTypes
<1>5. ASSUME NEW c \in Calls, BalanceTimer(c)
      PROVE  CallTypes'
  <2>1. Request({Balance(c)}) /\ pc' \in [Calls -> Waits]
    BY <1>1, <1>5 DEF BalanceTimer, CallTypes, Waits
  <2>2. /\ promise' \in [Requests -> {"none", "pending", "resolved", "rejected", "timedOut"}]
        /\ listening' \subseteq Requests /\ asked' \subseteq Requests
    BY <1>1, <2>1, Pairs DEF CallTypes, Request
  <2>3. UNCHANGED <<kind, isConnected, isConnecting, currentAccount, userWallet, granted, refused>>
    BY <1>5 DEF BalanceTimer, extension
  <2> QED
    BY <1>1, <2>1, <2>2, <2>3 DEF CallTypes
<1>6. ASSUME NEW c \in Calls, ApiAnswers(c)
      PROVE  CallTypes'
  <2>1. pc' \in [Calls -> Waits]
    BY <1>1, <1>6 DEF ApiAnswers, CallTypes, Waits
  <2>2. UNCHANGED <<kind, interface, isConnecting, userWallet, granted, refused>>
    BY <1>6 DEF ApiAnswers, extension
  <2> QED
    BY <1>1, <2>1, <2>2 DEF CallTypes, interface
<1>7. ASSUME NEW rs \in SUBSET Requests, NEW as \in {"rejected", "timedOut"}, Reject(rs, as)
      PROVE  /\ promise' \in [Requests -> {"none", "pending", "resolved", "rejected", "timedOut"}]
             /\ pc' \in [Calls -> Waits] /\ isConnecting' \in BOOLEAN
             /\ UNCHANGED <<kind, userWallet, isConnected, currentAccount, granted>>
  <2>1. \A c : AfterFailure(c) \in Waits
    BY DEF AfterFailure, Waits
  <2>2. promise' \in [Requests -> {"none", "pending", "resolved", "rejected", "timedOut"}]
    <3>1. promise' = [q \in Requests |-> IF q \in rs /\ promise[q] = "pending"
                                            THEN as ELSE promise[q]]
      BY <1>7, Zenon DEF Reject
    <3> QED
      BY <1>1, <3>1 DEF CallTypes
  <2>3. pc' \in [Calls -> Waits]
    <3>1. pc' = [c \in Calls |-> IF c \in WaitingOn(rs) THEN AfterFailure(c) ELSE pc[c]]
      BY <1>7, RejectFacts
    <3> QED
      BY <1>1, <2>1, <3>1 DEF CallTypes
  <2>4. isConnecting' \in BOOLEAN
    BY <1>1, <1>7, RejectFacts DEF ReleaseFlag, CallTypes
  <2> QED
    BY <1>7, <2>2, <2>3, <2>4, RejectFacts
<1>8. ASSUME NEW r \in Requests, Refuse(r)
      PROVE  CallTypes'
  <2>1. Hits(r) \in SUBSET Requests
    BY <1>1, HitsAre DEF CallTypes
  <2>2. Reject(Hits(r), "rejected") /\ asked' \subseteq asked /\ listening' \subseteq listening
    BY <1>8 DEF Refuse, ListenersLeft
  <2>3. refused' \in BOOLEAN
    BY <1>8 DEF Refuse
  <2> QED
    BY <1>1, <1>7, <2>1, <2>2, <2>3 DEF CallTypes
<1>9. ASSUME NEW r \in Requests, Timeout(r)
      PROVE  CallTypes'
  <2>1. Reject({r}, "timedOut") /\ UNCHANGED <<listening, asked, refused>>
    BY <1>9 DEF Timeout
  <2> QED
    BY <1>1, <1>7, <2>1 DEF CallTypes
<1>10. ASSUME NEW r \in Requests, Approve(r)
       PROVE  CallTypes'
  <2>1. Hits(r) \in SUBSET Requests
    BY <1>1, HitsAre DEF CallTypes
  <2>2. Asking(r) \subseteq Requests
    BY <2>1, WaitingOnIs, Pairs DEF Asking, Savers
  <2>3. \A c : AfterSuccess(c) \in Waits
    BY DEF AfterSuccess, Waits
  <2>4. promise' \in [Requests -> {"none", "pending", "resolved", "rejected", "timedOut"}]
    BY <1>1, <1>10, ApproveFacts DEF CallTypes
  <2>5. pc' \in [Calls -> Waits]
    <3>1. pc' = [c \in Calls |-> IF c \in WaitingOn(Hits(r)) THEN AfterSuccess(c) ELSE pc[c]]
      BY <1>10, ApproveFacts
    <3> QED
      BY <1>1, <2>3, <3>1 DEF CallTypes
  <2>6. isConnecting' \in BOOLEAN /\ isConnected' \in BOOLEAN
    BY <1>1, <1>10, ApproveFacts DEF ReleaseFlag, CallTypes
  <2>7. /\ granted' \subseteq Accounts
        /\ currentAccount' \in Accounts \union {NoAccount}
        /\ userWallet' \in Accounts \union {NoAccount}
    <3>1. PICK a \in Accounts :
            /\ granted' = IF Method(r) = "connect" THEN granted \union {a} ELSE granted
            /\ IF \E q \in Hits(r) : Method(q) = "connect"
                 THEN isConnected' = TRUE /\ currentAccount' = a
                 ELSE UNCHANGED <<isConnected, currentAccount>>
            /\ userWallet' = IF Savers(r) # {} THEN a ELSE userWallet
      BY <1>10, ApproveFacts
    <3> QED
      BY <1>1, <3>1 DEF CallTypes
  <2>8. listening' \subseteq Requests /\ asked' \subseteq Requests
    BY <1>1, <1>10, <2>2, ApproveFacts DEF CallTypes
  <2>9. UNCHANGED <<kind, refused>>
    BY <1>10, ApproveFacts
  <2> QED
    BY <1>1, <2>4, <2>5, <2>6, <2>7, <2>8, <2>9 DEF CallTypes
<1> QED
  BY StepCases, <1>2, <1>3, <1>4, <1>5, <1>6, <1>8, <1>9, <1>10

(* The counters of the polling and the order of the initialisations. *)
LEMMA CountersStep ==
  TypeOK /\ [Next]_vars =>
    /\ installed' \in BOOLEAN /\ boot' \in {"ready", "two", "one", "none"}
    /\ attempts' \in 0..MaxPolls /\ polls' \in Nat
<1> SUFFICES ASSUME TypeOK, [Next]_vars
             PROVE  /\ installed' \in BOOLEAN /\ boot' \in {"ready", "two", "one", "none"}
                    /\ attempts' \in 0..MaxPolls /\ polls' \in Nat
  OBVIOUS
<1>1. MaxPolls \in Nat /\ 0 \in 0..MaxPolls
  BY PollsBounded
<1>2. attempts \in 0..MaxPolls /\ polls \in Nat
  BY DEF TypeOK
<1>3. installed' \in BOOLEAN /\ boot' \in {"ready", "two", "one", "none"}
  <2>1. installed' = installed \/ installed' = TRUE
    BY DEF Next, vars, extension, InitializeReady, Initialize, Poll, PollFindsExtension, PollAgain,
           ReconnectWallet, ExtensionInstalled, ConnectWallet, InstalledEvent, PageRequest,
           BalanceTimer, ApiAnswers, Approve, Refuse, Reject, Timeout
  <2>2. boot' = boot \/ boot' = "one" \/ boot' = "none"
    BY DEF Next, vars, sdk, InitializeReady, Initialize, Poll, PollFindsExtension, PollAgain,
           ReconnectWallet, ExtensionInstalled, ConnectWallet, InstalledEvent, PageRequest,
           BalanceTimer, ApiAnswers, Approve, Refuse, Reject, Timeout
  <2> QED
    BY <2>1, <2>2 DEF TypeOK
<1> SUFFICES attempts' \in 0..MaxPolls /\ polls' \in Nat
  BY <1>3
<1>4. ASSUME NEW base \in 0..MaxPolls, NEW counted \in BOOLEAN, CheckUserWallet(base, counted)
      PROVE  attempts' \in 0..MaxPolls /\ polls' \in Nat
  BY <1>1, <1>2, <1>4 DEF CheckUserWallet, AttemptsLeft
<1>5. CASE InitializeReady \/ Initialize \/ ReconnectWallet
  BY <1>1, <1>2, <1>4, <1>5 DEF InitializeReady, Initialize, ReconnectWallet
<1>6. CASE Poll \/ PollFindsExtension \/ PollAgain
  BY <1>1, <1>2, <1>6 DEF Poll, PollFindsExtension, PollAgain, AttemptsLeft
<1>7. CASE ExtensionInstalled
  BY <1>2, <1>7 DEF ExtensionInstalled, sdk
<1>8. ASSUME NEW c \in Calls,
             ConnectWallet(c) \/ InstalledEvent(c) \/ PageRequest(c) \/ BalanceTimer(c)
      PROVE  attempts' \in 0..MaxPolls /\ polls' \in Nat
  BY <1>2, <1>8 DEF ConnectWallet, InstalledEvent, PageRequest, BalanceTimer
<1>9. ASSUME NEW c \in Calls, ApiAnswers(c)
      PROVE  attempts' \in 0..MaxPolls /\ polls' \in Nat
  BY <1>1, <1>2, <1>9 DEF ApiAnswers, ResetAttempts
<1>10. ASSUME NEW r \in Requests, Approve(r)
       PROVE  attempts' \in 0..MaxPolls /\ polls' \in Nat
  BY <1>1, <1>2, <1>10 DEF Approve, ResetAttempts
<1>11. ASSUME NEW r \in Requests, Refuse(r) \/ Timeout(r)
       PROVE  attempts' \in 0..MaxPolls /\ polls' \in Nat
  BY <1>2, <1>11 DEF Refuse, Timeout, Reject
<1>12. CASE UNCHANGED vars
  BY <1>2, <1>12 DEF vars, sdk
<1> QED
  BY <1>5, <1>6, <1>7, <1>8, <1>9, <1>10, <1>11, <1>12 DEF Next

LEMMA TypeStep == TypeOK /\ [Next]_vars => TypeOK'
<1> SUFFICES ASSUME TypeOK, [Next]_vars
             PROVE  TypeOK'
  OBVIOUS
<1>1. CallTypes'
  BY CallTypesStep
<1>2. /\ installed' \in BOOLEAN /\ boot' \in {"ready", "two", "one", "none"}
      /\ attempts' \in 0..MaxPolls /\ polls' \in Nat
  BY CountersStep
<1> QED
  BY <1>1, <1>2 DEF CallTypes, TypeOK

-----------------------------------------------------------------------------
(* What waits for a promise, and what an answer settles. *)
LEMMA SaversConnect ==
  ASSUME TypeOK, PromisesFollowCalls, NEW r \in Requests, NEW c \in Savers(r)
  PROVE  /\ c \in Calls /\ pc[c] = "connect"
         /\ Connect(c) \in Hits(r) /\ promise[Connect(c)] = "pending"
         /\ Method(r) = "connect"
<1>1. Hits(r) \in SUBSET Requests
  BY HitsAre DEF TypeOK
<1>2. c \in WaitingOn(Hits(r)) /\ pc[c] = "connect" /\ c \in Calls
  BY <1>1, WaitingOnIs DEF Savers, SavesWallet
<1>3. PICK m \in Methods : <<c, m>> \in Hits(r) /\ promise[<<c, m>>] = "pending"
  BY <1>1, <1>2, WaitingOnIs
<1>4. m = "connect"
  BY <1>2, <1>3 DEF PromisesFollowCalls, WaitsAt
<1> QED
  BY <1>2, <1>3, <1>4, HitsAre, Pairs DEF Connect

(* What an approval does to one promise and to one call. *)
LEMMA ApprovedPromises ==
  ASSUME TypeOK, PromisesFollowCalls, NEW r \in Requests, Approve(r), NEW q \in Requests
  PROVE  /\ q \in Hits(r) /\ promise[q] = "pending" => promise'[q] = "resolved"
         /\ q \in Asking(r) =>
              Method(q) = "getBalance" /\ q \notin Hits(r) /\ promise'[q] = "pending"
         /\ ~(q \in Hits(r) /\ promise[q] = "pending") /\ q \notin Asking(r) =>
              promise'[q] = promise[q]
<1>1. promise'[q] = IF q \in Asking(r) THEN "pending"
                    ELSE IF q \in Hits(r) /\ promise[q] = "pending" THEN "resolved" ELSE promise[q]
  BY ApproveFacts
<1>2. q \in Asking(r) => Method(q) = "getBalance" /\ q \notin Hits(r)
  <2> SUFFICES ASSUME q \in Asking(r)
               PROVE  Method(q) = "getBalance" /\ q \notin Hits(r)
    OBVIOUS
  <2>1. PICK c \in Savers(r) : q = Balance(c)
    BY DEF Asking
  <2>2. c \in Calls /\ Method(r) = "connect"
    BY SaversConnect
  <2> QED
    BY <2>1, <2>2, HitsAre, Pairs
<1> QED
  BY <1>1, <1>2

LEMMA ApprovedCalls ==
  ASSUME NEW r \in Requests, Approve(r), NEW c \in Calls
  PROVE  pc'[c] = IF c \in WaitingOn(Hits(r)) THEN AfterSuccess(c) ELSE pc[c]
BY ApproveFacts

(* The promise a caller waits for is one of its hits. *)
LEMMA WaitersArePending ==
  ASSUME TypeOK, PromisesFollowCalls, NEW rs \in SUBSET Requests, NEW c \in WaitingOn(rs)
  PROVE  /\ pc[c] \in {"connect", "balance", "page"}
         /\ \A m \in Methods : promise[<<c, m>>] = "pending" => <<c, m>> \in rs
<1>1. PICK n \in Methods : <<c, n>> \in rs /\ promise[<<c, n>>] = "pending"
  BY WaitingOnIs
<1>2. c \in Calls
  BY WaitingOnIs
<1>3. WaitsAt(c, n)
  BY <1>1, <1>2 DEF PromisesFollowCalls
<1>4. \A m \in Methods : promise[<<c, m>>] = "pending" => m = n
  BY <1>1, <1>2 DEF PromisesFollowCalls
<1> QED
  BY <1>1, <1>3, <1>4 DEF WaitsAt

-----------------------------------------------------------------------------
(* Calls wait for the promises they made. *)
LEMMA PromisesStep ==
  TypeOK /\ PromisesFollowCalls /\ [Next]_vars => PromisesFollowCalls'
<1> SUFFICES ASSUME TypeOK, PromisesFollowCalls, [Next]_vars
             PROVE  PromisesFollowCalls'
  OBVIOUS
<1>1. CASE Quiet
  BY <1>1 DEF Quiet, interface, PromisesFollowCalls, WaitsAt
<1>2. ASSUME NEW c \in Calls, NEW m \in Methods, pc[c] \in {"idle", "balanceTimer"},
             Request({<<c, m>>}),
             NEW k, kind' = [kind EXCEPT ![c] = k],
             NEW st, pc' = [pc EXCEPT ![c] = st],
             \/ st = "page" /\ k = "page"
             \/ st = "connect" /\ m = "connect"
             \/ st = "balance" /\ m = "getBalance"
      PROVE  PromisesFollowCalls'
  <2>1. \A n \in Methods : promise[<<c, n>>] # "pending"
    BY <1>2 DEF PromisesFollowCalls, WaitsAt
  <2>2. /\ \A n \in Methods : promise'[<<c, n>>] = "pending" <=> n = m
        /\ \A d \in Calls, n \in Methods : d # c => promise'[<<d, n>>] = promise[<<d, n>>]
    BY <1>2, <2>1, Pairs DEF Request
  <2>3. /\ pc'[c] = st /\ kind'[c] = k
        /\ \A d \in Calls : d # c => pc'[d] = pc[d] /\ kind'[d] = kind[d]
    BY <1>2 DEF TypeOK
  <2> QED
    BY <1>2, <2>2, <2>3 DEF PromisesFollowCalls, WaitsAt
<1>3. ASSUME NEW c \in Calls, Begins(c)
      PROVE  PromisesFollowCalls'
  <2>1. /\ "connect" \in Methods /\ Connect(c) = <<c, "connect">>
    BY DEF Methods, Connect
  <2>2. PICK k : kind' = [kind EXCEPT ![c] = k]
    BY <1>3, BeginsFacts
  <2> QED
    BY <1>2, <1>3, <2>1, <2>2, BeginsFacts
<1>4. ASSUME NEW c \in Calls, PageRequest(c)
      PROVE  PromisesFollowCalls'
  BY <1>2, <1>4 DEF PageRequest
<1>5. ASSUME NEW c \in Calls, BalanceTimer(c)
      PROVE  PromisesFollowCalls'
  <2>1. "getBalance" \in Methods /\ Balance(c) = <<c, "getBalance">>
    BY DEF Methods, Balance
  <2>2. kind' = [kind EXCEPT ![c] = kind[c]]
    BY <1>5 DEF BalanceTimer, TypeOK
  <2> QED
    BY <1>2, <1>5, <2>1, <2>2 DEF BalanceTimer
<1>6. ASSUME NEW c \in Calls, ApiAnswers(c)
      PROVE  PromisesFollowCalls'
  <2>1. \A n \in Methods : promise[<<c, n>>] # "pending"
    BY <1>6 DEF ApiAnswers, PromisesFollowCalls, WaitsAt
  <2>2. /\ pc'[c] = "done" /\ UNCHANGED <<promise, kind>>
        /\ \A d \in Calls : d # c => pc'[d] = pc[d]
    BY <1>6 DEF ApiAnswers, interface, TypeOK
  <2> QED
    BY <2>1, <2>2 DEF PromisesFollowCalls, WaitsAt
<1>7. ASSUME NEW rs \in SUBSET Requests, NEW as \in {"rejected", "timedOut"}, Reject(rs, as)
      PROVE  PromisesFollowCalls'
  <2>1. promise' = [q \in Requests |-> IF q \in rs /\ promise[q] = "pending"
                                         THEN as ELSE promise[q]]
    BY <1>7, Zenon DEF Reject
  <2>2. pc' = [c \in Calls |-> IF c \in WaitingOn(rs) THEN AfterFailure(c) ELSE pc[c]]
    BY <1>7, RejectFacts
  <2>3. UNCHANGED kind
    BY <1>7, RejectFacts
  <2>4. ASSUME NEW c \in Calls, c \in WaitingOn(rs)
        PROVE  /\ \A m \in Methods : promise'[<<c, m>>] # "pending"
               /\ pc'[c] \in {"api", "done"}
    BY <1>7, <2>1, <2>2, <2>4, WaitersArePending, Pairs DEF AfterFailure
  <2>5. ASSUME NEW c \in Calls, c \notin WaitingOn(rs)
        PROVE  /\ \A m \in Methods : promise'[<<c, m>>] = promise[<<c, m>>]
               /\ pc'[c] = pc[c]
    BY <1>7, <2>1, <2>2, <2>5, WaitingOnIs, Pairs
  <2> QED
    BY <2>3, <2>4, <2>5 DEF PromisesFollowCalls, WaitsAt
<1>8. ASSUME NEW r \in Requests, Refuse(r) \/ Timeout(r)
      PROVE  PromisesFollowCalls'
  <2>1. Hits(r) \in SUBSET Requests
    BY HitsAre DEF TypeOK
  <2> QED
    BY <1>7, <1>8, <2>1 DEF Refuse, Timeout
<1>9. ASSUME NEW r \in Requests, Approve(r)
      PROVE  PromisesFollowCalls'
  <2>1. Hits(r) \in SUBSET Requests /\ UNCHANGED kind
    BY <1>9, HitsAre, ApproveFacts DEF TypeOK
  <2>2. ASSUME NEW c \in Calls, c \notin WaitingOn(Hits(r))
        PROVE  /\ \A m \in Methods : promise'[<<c, m>>] = promise[<<c, m>>]
               /\ pc'[c] = pc[c]
    <3>1. pc'[c] = pc[c]
      BY <1>9, <2>2, ApprovedCalls
    <3>2. \A m \in Methods : <<c, m>> \notin Asking(r)
      <4> SUFFICES ASSUME NEW m \in Methods, <<c, m>> \in Asking(r)
                   PROVE  FALSE
        OBVIOUS
      <4>1. PICK d \in Savers(r) : <<c, m>> = Balance(d)
        BY DEF Asking
      <4> QED
        BY <2>2, <4>1 DEF Savers, Balance
    <3>3. \A m \in Methods : ~(<<c, m>> \in Hits(r) /\ promise[<<c, m>>] = "pending")
      BY <2>1, <2>2, WaitingOnIs
    <3> QED
      BY <1>9, <3>1, <3>2, <3>3, ApprovedPromises, Pairs
  <2>3. ASSUME NEW c \in Calls, c \in WaitingOn(Hits(r)), Balance(c) \notin Asking(r)
        PROVE  \A m \in Methods : promise'[<<c, m>>] # "pending"
    <3>1. \A m \in Methods : <<c, m>> \notin Asking(r)
      BY <2>3 DEF Asking, Balance
    <3>2. \A m \in Methods : promise[<<c, m>>] = "pending" => <<c, m>> \in Hits(r)
      BY <2>1, <2>3, WaitersArePending
    <3> QED
      BY <1>9, <3>1, <3>2, ApprovedPromises, Pairs
  <2>4. ASSUME NEW c \in Calls, c \in WaitingOn(Hits(r)), Balance(c) \in Asking(r)
        PROVE  /\ pc'[c] = "balance"
               /\ \A m \in Methods : promise'[<<c, m>>] = "pending" => m = "getBalance"
    <3>1. PICK d \in Savers(r) : AfterSuccess(d) = "balance" /\ Balance(c) = Balance(d)
      BY <2>4 DEF Asking
    <3>2. d = c
      BY <3>1 DEF Balance
    <3>3. pc[c] = "connect"
      BY <3>2, SaversConnect
    <3>4. \A m \in Methods : m # "getBalance" => <<c, m>> \notin Asking(r)
      BY <1>9, Pairs, ApprovedPromises DEF Method
    <3>5. \A m \in Methods : promise[<<c, m>>] = "pending" => <<c, m>> \in Hits(r)
      BY <2>1, <2>4, WaitersArePending
    <3>6. pc'[c] = "balance"
      BY <1>9, <2>4, <3>1, <3>2, <3>3, ApprovedCalls
    <3> QED
      BY <1>9, <3>4, <3>5, <3>6, ApprovedPromises, Pairs
  <2>5. ASSUME NEW c \in Calls, c \in WaitingOn(Hits(r))
        PROVE  /\ pc'[c] \in {"balance", "balanceTimer", "done"}
               /\ pc'[c] = "balanceTimer" => kind[c] # "page"
    BY <1>9, <2>5, ApprovedCalls DEF AfterSuccess
  <2> QED
    BY <2>1, <2>2, <2>3, <2>4, <2>5 DEF PromisesFollowCalls, WaitsAt
<1> QED
  BY StepCases, <1>1, <1>3, <1>4, <1>5, <1>6, <1>8, <1>9

(* No answer leaves a listener without a request behind it. *)
LEMMA ListenersStep ==
  TypeOK /\ PromisesFollowCalls /\ ListenersFollowPromises /\ [Next]_vars =>
    ListenersFollowPromises'
<1> SUFFICES ASSUME TypeOK, PromisesFollowCalls, ListenersFollowPromises, [Next]_vars
             PROVE  ListenersFollowPromises'
  OBVIOUS
<1> USE DEF ListenersFollowPromises, ListenersAwaitAnswer
<1>1. CASE Quiet
  BY <1>1 DEF Quiet, interface
<1>2. ASSUME NEW q \in Requests, Request({q})
      PROVE  ListenersFollowPromises'
  BY <1>2 DEF Request, TypeOK
<1>3. ASSUME NEW c \in Calls, Begins(c) \/ PageRequest(c) \/ BalanceTimer(c)
      PROVE  ListenersFollowPromises'
  BY <1>2, <1>3, BeginsFacts, Pairs DEF PageRequest, BalanceTimer
<1>4. ASSUME NEW c \in Calls, ApiAnswers(c)
      PROVE  ListenersFollowPromises'
  BY <1>4 DEF ApiAnswers, interface
<1>5. ASSUME NEW r \in Requests, Refuse(r)
      PROVE  ListenersFollowPromises'
  <2>1. /\ listening' = listening \ Hits(r) /\ asked' = asked \ {r}
        /\ Reject(Hits(r), "rejected")
    BY <1>5 DEF Refuse, ListenersLeft
  <2>2. promise' = [q \in Requests |-> IF q \in Hits(r) /\ promise[q] = "pending"
                                         THEN "rejected" ELSE promise[q]]
    BY <2>1, Zenon DEF Reject
  <2> QED
    BY <2>1, <2>2, HitsAre DEF TypeOK
<1>6. ASSUME NEW r \in Requests, Timeout(r)
      PROVE  ListenersFollowPromises'
  <2>1. Reject({r}, "timedOut") /\ UNCHANGED <<listening, asked>>
    BY <1>6 DEF Timeout
  <2>2. promise' = [q \in Requests |-> IF q \in {r} /\ promise[q] = "pending"
                                         THEN "timedOut" ELSE promise[q]]
    BY <2>1, Zenon DEF Reject
  <2> QED
    BY <2>1, <2>2 DEF TypeOK
<1>7. ASSUME NEW r \in Requests, Approve(r)
      PROVE  ListenersFollowPromises'
  <2>1. /\ asked' = (asked \ {r}) \union Asking(r)
        /\ listening' = (listening \ Hits(r)) \union Asking(r)
    BY <1>7, ApproveFacts
  <2>2. Asking(r) \subseteq Requests
    BY SaversConnect, Pairs DEF Asking
  <2>3. ASSUME NEW q \in listening'
        PROVE  promise'[q] \in {"pending", "timedOut"}
    BY <1>7, <2>1, <2>2, <2>3, ApprovedPromises DEF TypeOK
  <2> QED
    BY <2>1, <2>3, HitsAre
<1> QED
  BY StepCases, <1>1, <1>3, <1>4, <1>5, <1>6, <1>7

-----------------------------------------------------------------------------
(* The flag goes with the call that raised it. *)
LEMMA FlagReleases ==
  ASSUME FlagHeldOnce, NEW cs \in SUBSET Calls, ReleaseFlag(cs), Connecting' = Connecting \ cs
  PROVE  FlagHeldOnce'
<1>1. isConnecting' <=> isConnecting /\ cs \intersect Connecting = {}
  BY DEF ReleaseFlag, Connecting
<1>2. ASSUME isConnecting, cs \intersect Connecting = {}
      PROVE  Connecting' # {}
  BY <1>2 DEF FlagHeldOnce
<1>3. ASSUME cs \intersect Connecting # {}
      PROVE  Connecting' = {}
  BY <1>3 DEF FlagHeldOnce
<1>4. ASSUME ~isConnecting
      PROVE  Connecting' = {}
  BY <1>4 DEF FlagHeldOnce
<1>5. \A c, d \in Connecting' : c = d
  BY DEF FlagHeldOnce
<1>6. isConnecting' <=> Connecting' # {}
  BY <1>1, <1>2, <1>3, <1>4
<1> QED
  BY <1>5, <1>6 DEF FlagHeldOnce

LEMMA FlagStep ==
  TypeOK /\ PromisesFollowCalls /\ FlagHeldOnce /\ [Next]_vars => FlagHeldOnce'
<1> SUFFICES ASSUME TypeOK, PromisesFollowCalls, FlagHeldOnce, [Next]_vars
             PROVE  FlagHeldOnce'
  OBVIOUS
<1>1. ASSUME UNCHANGED isConnecting, Connecting' = Connecting
      PROVE  FlagHeldOnce'
  BY <1>1 DEF FlagHeldOnce
<1>2. CASE Quiet
  BY <1>1, <1>2 DEF Quiet, Connecting
<1>3. ASSUME NEW c \in Calls, Begins(c)
      PROVE  FlagHeldOnce'
  <2>1. PICK k \in {"check", "connectWallet", "event"} :
          /\ kind' = [kind EXCEPT ![c] = k]
          /\ k = "event" => ~isConnecting /\ isConnecting' = TRUE
          /\ k # "event" => isConnecting' = isConnecting
    BY <1>3, BeginsFacts
  <2>2. pc[c] = "idle" /\ pc' = [pc EXCEPT ![c] = "connect"]
    BY <1>3, BeginsFacts
  <2>3. CASE k = "event"
    <3>1. Connecting = {} /\ isConnecting' = TRUE
      BY <2>1, <2>3 DEF FlagHeldOnce
    <3>2. Connecting' = {c}
      BY <2>1, <2>2, <2>3, <3>1 DEF Connecting, TypeOK
    <3> QED
      BY <3>1, <3>2 DEF FlagHeldOnce
  <2>4. CASE k # "event"
    <3>1. Connecting' = Connecting
      BY <2>1, <2>2, <2>4 DEF Connecting, TypeOK
    <3> QED
      BY <1>1, <2>1, <2>4, <3>1
  <2> QED
    BY <2>3, <2>4
<1>4. ASSUME NEW c \in Calls, PageRequest(c)
      PROVE  FlagHeldOnce'
  <2>1. Connecting' = Connecting
    BY <1>4 DEF PageRequest, Connecting, TypeOK
  <2> QED
    BY <1>1, <1>4, <2>1 DEF PageRequest
<1>5. ASSUME NEW c \in Calls, BalanceTimer(c) \/ ApiAnswers(c)
      PROVE  FlagHeldOnce'
  <2>1. Connecting' = Connecting
    BY <1>5 DEF BalanceTimer, ApiAnswers, Connecting, TypeOK
  <2> QED
    BY <1>1, <1>5, <2>1 DEF BalanceTimer, ApiAnswers
<1>6. ASSUME NEW rs \in SUBSET Requests, NEW as \in {"rejected", "timedOut"}, Reject(rs, as)
      PROVE  FlagHeldOnce'
  <2>1. /\ pc' = [c \in Calls |-> IF c \in WaitingOn(rs) THEN AfterFailure(c) ELSE pc[c]]
        /\ ReleaseFlag(WaitingOn(rs)) /\ UNCHANGED kind
    BY <1>6, RejectFacts
  <2>2. \A c : AfterFailure(c) # "connect"
    BY DEF AfterFailure
  <2>3. Connecting' = Connecting \ WaitingOn(rs)
    BY <2>1, <2>2 DEF Connecting
  <2> QED
    BY <2>1, <2>3, FlagReleases, WaitingOnIs
<1>7. ASSUME NEW r \in Requests, Refuse(r) \/ Timeout(r)
      PROVE  FlagHeldOnce'
  <2>1. Hits(r) \in SUBSET Requests
    BY HitsAre DEF TypeOK
  <2> QED
    BY <1>6, <1>7, <2>1 DEF Refuse, Timeout
<1>8. ASSUME NEW r \in Requests, Approve(r)
      PROVE  FlagHeldOnce'
  <2>1. Hits(r) \in SUBSET Requests
    BY HitsAre DEF TypeOK
  <2>2. /\ pc' = [c \in Calls |-> IF c \in WaitingOn(Hits(r)) THEN AfterSuccess(c) ELSE pc[c]]
        /\ ReleaseFlag(WaitingOn(Hits(r))) /\ UNCHANGED kind
    BY <1>8, ApproveFacts
  <2>3. \A c : AfterSuccess(c) # "connect"
    BY DEF AfterSuccess
  <2>4. Connecting' = Connecting \ WaitingOn(Hits(r))
    BY <2>2, <2>3 DEF Connecting
  <2> QED
    BY <2>1, <2>2, <2>4, FlagReleases, WaitingOnIs
<1> QED
  BY StepCases, <1>2, <1>3, <1>4, <1>5, <1>7, <1>8

-----------------------------------------------------------------------------
(* The accounts change only with an approval of a connect. *)
Accounting == <<isConnected, currentAccount, userWallet, granted>>

LEMMA AccountsUntouched ==
  ASSUME [Next]_vars
  PROVE  \/ UNCHANGED Accounting
         \/ \E r \in Requests : Approve(r)
BY StepCases, BeginsFacts, RejectFacts DEF Accounting, Quiet, interface, extension, PageRequest,
   BalanceTimer, ApiAnswers, Refuse, Timeout

LEMMA ApprovedAccounts ==
  ASSUME TypeOK, PromisesFollowCalls, NEW r \in Requests, Approve(r)
  PROVE  \/ /\ Method(r) = "connect" /\ Hits(r) # {}
            /\ \E a \in Accounts : /\ granted' = granted \union {a}
                                   /\ isConnected' = TRUE /\ currentAccount' = a
                                   /\ userWallet' = IF Savers(r) # {} THEN a ELSE userWallet
         \/ /\ Hits(r) = {} \/ Method(r) # "connect"
            /\ \E a \in Accounts : granted' \in {granted, granted \union {a}}
            /\ Method(r) # "connect" => granted' = granted
            /\ Savers(r) = {} /\ UNCHANGED <<isConnected, currentAccount, userWallet>>
<1>1. PICK a \in Accounts :
        /\ granted' = IF Method(r) = "connect" THEN granted \union {a} ELSE granted
        /\ IF \E q \in Hits(r) : Method(q) = "connect"
             THEN isConnected' = TRUE /\ currentAccount' = a
             ELSE UNCHANGED <<isConnected, currentAccount>>
        /\ userWallet' = IF Savers(r) # {} THEN a ELSE userWallet
  BY ApproveFacts
<1>2. CASE Method(r) = "connect" /\ Hits(r) # {}
  BY <1>1, <1>2, HitsAre
<1>3. CASE Method(r) # "connect" \/ Hits(r) = {}
  <2>1. Savers(r) = {}
    BY <1>3, SaversConnect
  <2> QED
    BY <1>1, <1>3, <2>1, HitsAre
<1> QED
  BY <1>2, <1>3

LEMMA WalletStep ==
  TypeOK /\ PromisesFollowCalls /\ WalletMeansGranted /\ [Next]_vars => WalletMeansGranted'
<1> SUFFICES ASSUME TypeOK, PromisesFollowCalls, WalletMeansGranted, [Next]_vars
             PROVE  WalletMeansGranted'
  OBVIOUS
<1>1. CASE UNCHANGED Accounting
  BY <1>1 DEF Accounting, WalletMeansGranted
<1>2. ASSUME NEW r \in Requests, Approve(r)
      PROVE  WalletMeansGranted'
  BY <1>2, ApprovedAccounts DEF WalletMeansGranted
<1> QED
  BY <1>1, <1>2, AccountsUntouched

(* A connect that goes unheard lost its listener to the answer to another.   *)
LEMMA LostStep ==
  /\ TypeOK /\ PromisesFollowCalls /\ ListenersFollowPromises
  /\ LostListenersWereAnswered /\ LostGrantNeedsRefusal /\ [Next]_vars
  => LostListenersWereAnswered' /\ LostGrantNeedsRefusal'
<1> SUFFICES ASSUME TypeOK, PromisesFollowCalls, ListenersFollowPromises,
                    LostListenersWereAnswered, LostGrantNeedsRefusal, [Next]_vars
             PROVE  LostListenersWereAnswered' /\ LostGrantNeedsRefusal'
  OBVIOUS
<1>1. ASSUME UNCHANGED <<isConnected, granted, refused>>,
             \A c \in Calls : Connect(c) \in asked' \ listening' => Connect(c) \in asked \ listening
      PROVE  LostListenersWereAnswered' /\ LostGrantNeedsRefusal'
  BY <1>1 DEF LostListenersWereAnswered, LostGrantNeedsRefusal
<1>2. CASE Quiet
  BY <1>1, <1>2 DEF Quiet, interface
<1>3. ASSUME NEW c \in Calls, Begins(c)
      PROVE  LostListenersWereAnswered' /\ LostGrantNeedsRefusal'
  BY <1>1, <1>3, BeginsFacts DEF Request
<1>4. ASSUME NEW c \in Calls, PageRequest(c) \/ BalanceTimer(c)
      PROVE  LostListenersWereAnswered' /\ LostGrantNeedsRefusal'
  BY <1>1, <1>4 DEF PageRequest, BalanceTimer, Request, extension
<1>5. ASSUME NEW c \in Calls, ApiAnswers(c)
      PROVE  LostListenersWereAnswered' /\ LostGrantNeedsRefusal'
  BY <1>1, <1>5 DEF ApiAnswers, interface, extension
<1>6. ASSUME NEW r \in Requests, Refuse(r)
      PROVE  LostListenersWereAnswered' /\ LostGrantNeedsRefusal'
  <2>1. /\ asked' = asked \ {r} /\ listening' = listening \ Hits(r)
        /\ refused' = (refused \/ Method(r) = "connect")
        /\ UNCHANGED <<isConnected, granted>>
    BY <1>6, RejectFacts DEF Refuse, ListenersLeft
  <2>2. CASE Method(r) = "connect"
    BY <2>1, <2>2 DEF LostListenersWereAnswered, LostGrantNeedsRefusal
  <2>3. CASE Method(r) # "connect"
    <3>1. \A c \in Calls : Connect(c) \notin Hits(r)
      BY <2>3, HitsAre, Pairs
    <3> QED
      BY <2>1, <3>1 DEF LostListenersWereAnswered, LostGrantNeedsRefusal
  <2> QED
    BY <2>2, <2>3
<1>7. ASSUME NEW r \in Requests, Timeout(r)
      PROVE  LostListenersWereAnswered' /\ LostGrantNeedsRefusal'
  BY <1>1, <1>7, RejectFacts DEF Timeout
<1>8. ASSUME NEW r \in Requests, Approve(r)
      PROVE  LostListenersWereAnswered' /\ LostGrantNeedsRefusal'
  <2>1. /\ r \in asked /\ asked' = (asked \ {r}) \union Asking(r)
        /\ listening' = (listening \ Hits(r)) \union Asking(r) /\ UNCHANGED refused
    BY <1>8, ApproveFacts
  <2>2. CASE Method(r) = "connect" /\ Hits(r) # {}
    <3>1. isConnected' = TRUE
      BY <1>8, <2>2, ApprovedAccounts
    <3> QED
      BY <3>1 DEF LostListenersWereAnswered, LostGrantNeedsRefusal
  <2>3. CASE Method(r) = "connect" /\ Hits(r) = {}
    <3>1. r \notin listening /\ r = Connect(r[1]) /\ r[1] \in Calls
      BY <2>3, HitsAre, Pairs DEF Connect
    <3>2. isConnected \/ refused
      BY <2>1, <3>1 DEF LostListenersWereAnswered
    <3>3. UNCHANGED isConnected
      BY <1>8, <2>3, ApprovedAccounts
    <3> QED
      BY <2>1, <3>2, <3>3 DEF LostListenersWereAnswered, LostGrantNeedsRefusal
  <2>4. CASE Method(r) # "connect"
    <3>1. \A c \in Calls : Connect(c) \notin Hits(r)
      BY <2>4, HitsAre, Pairs
    <3>2. UNCHANGED <<isConnected, granted>>
      BY <1>8, <2>4, ApprovedAccounts
    <3> QED
      BY <1>1, <2>1, <3>1, <3>2
  <2> QED
    BY <2>2, <2>3, <2>4
<1> QED
  BY StepCases, <1>2, <1>3, <1>4, <1>5, <1>6, <1>7, <1>8

-----------------------------------------------------------------------------
(* A connect that the SDK does not follow up. *)
Outside(c) ==
  \/ promise[Connect(c)] = "timedOut"
  \/ kind[c] = "page" /\ promise[Connect(c)] = "resolved"

LEMMA OutsideStays ==
  ASSUME TypeOK, PromisesFollowCalls, [Next]_vars, NEW c \in Calls, Outside(c)
  PROVE  Outside(c)'
<1>1. pc[c] # "idle"
  BY DEF Outside, PromisesFollowCalls, Connect, Methods
<1>2. ASSUME UNCHANGED <<kind[c], promise[Connect(c)]>>
      PROVE  Outside(c)'
  BY <1>2 DEF Outside
<1>3. CASE Quiet
  BY <1>2, <1>3 DEF Quiet, interface
<1>4. ASSUME NEW d \in Calls, NEW m \in Methods, Request({<<d, m>>}), d # c \/ m # "connect"
      PROVE  UNCHANGED promise[Connect(c)]
  BY <1>4, Pairs DEF Request, Connect
<1>5. ASSUME NEW d \in Calls, Begins(d)
      PROVE  Outside(c)'
  <2>1. d # c /\ Request({<<d, "connect">>}) /\ "connect" \in Methods
    BY <1>1, <1>5, BeginsFacts DEF Connect, Methods
  <2>2. PICK k : kind' = [kind EXCEPT ![d] = k]
    BY <1>5, BeginsFacts
  <2> QED
    BY <1>2, <1>4, <2>1, <2>2 DEF TypeOK
<1>6. ASSUME NEW d \in Calls, PageRequest(d)
      PROVE  Outside(c)'
  <2>1. d # c /\ kind' = [kind EXCEPT ![d] = "page"]
    BY <1>1, <1>6 DEF PageRequest
  <2> QED
    BY <1>2, <1>4, <1>6, <2>1 DEF PageRequest, TypeOK
<1>7. ASSUME NEW d \in Calls, BalanceTimer(d)
      PROVE  Outside(c)'
  <2>1. Request({<<d, "getBalance">>}) /\ "getBalance" \in Methods /\ UNCHANGED kind
    BY <1>7 DEF BalanceTimer, Balance, Methods
  <2> QED
    BY <1>2, <1>4, <2>1
<1>8. ASSUME NEW d \in Calls, ApiAnswers(d)
      PROVE  Outside(c)'
  BY <1>2, <1>8 DEF ApiAnswers, interface
<1>9. ASSUME NEW rs, NEW as, Reject(rs, as)
      PROVE  Outside(c)'
  <2>1. promise' = [q \in Requests |-> IF q \in rs /\ promise[q] = "pending"
                                         THEN as ELSE promise[q]]
    BY <1>9, Zenon DEF Reject
  <2>2. promise[Connect(c)] # "pending"
    BY DEF Outside
  <2>3. UNCHANGED kind
    BY <1>9, RejectFacts
  <2> QED
    BY <1>2, <2>1, <2>2, <2>3, Pairs
<1>10. ASSUME NEW r \in Requests, Refuse(r) \/ Timeout(r)
       PROVE  Outside(c)'
  BY <1>9, <1>10 DEF Refuse, Timeout
<1>11. ASSUME NEW r \in Requests, Approve(r)
       PROVE  Outside(c)'
  <2>1. promise[Connect(c)] # "pending" /\ Method(Connect(c)) # "getBalance"
    BY Pairs DEF Outside
  <2>2. UNCHANGED promise[Connect(c)]
    BY <1>11, <2>1, ApprovedPromises, Pairs
  <2>3. UNCHANGED kind
    BY <1>11, ApproveFacts
  <2> QED
    BY <1>2, <2>2, <2>3
<1> QED
  BY StepCases, <1>3, <1>5, <1>6, <1>7, <1>8, <1>10, <1>11

LEMMA DivergeStep ==
  /\ TypeOK /\ PromisesFollowCalls /\ ListenersFollowPromises
  /\ AccountsDivergeOutside /\ [Next]_vars
  => AccountsDivergeOutside'
<1> SUFFICES ASSUME TypeOK, PromisesFollowCalls, ListenersFollowPromises,
                    AccountsDivergeOutside, [Next]_vars, userWallet' # currentAccount'
             PROVE  \E c \in Calls : Outside(c)'
  BY DEF AccountsDivergeOutside, Outside
<1>1. ASSUME UNCHANGED <<userWallet, currentAccount>>
      PROVE  \E c \in Calls : Outside(c)'
  <2>1. PICK c \in Calls : Outside(c)
    BY <1>1 DEF AccountsDivergeOutside, Outside
  <2> QED
    BY <2>1, OutsideStays
<1>2. ASSUME NEW r \in Requests, Approve(r), Method(r) = "connect", Hits(r) # {}, Savers(r) = {}
      PROVE  \E c \in Calls : Outside(c)'
  <2>1. PICK q \in Hits(r) : TRUE
    BY <1>2
  <2>2. /\ q \in Requests /\ q[1] \in Calls /\ q = Connect(q[1])
        /\ promise[q] \in {"pending", "timedOut"}
    BY <1>2, <2>1, HitsAre, Pairs DEF TypeOK, ListenersFollowPromises, Connect
  <2>3. CASE promise[q] = "timedOut"
    <3>1. Outside(q[1])
      BY <2>2, <2>3 DEF Outside
    <3> QED
      BY <2>2, <3>1, OutsideStays
  <2>4. CASE promise[q] = "pending"
    <3>1. promise'[q] = "resolved"
      BY <1>2, <2>1, <2>2, <2>4, ApprovedPromises
    <3>2. q[1] \in WaitingOn(Hits(r))
      BY <2>1, <2>4 DEF WaitingOn
    <3>3. pc[q[1]] # "connect"
      BY <1>2, <3>2 DEF Savers, SavesWallet
    <3>4. "connect" \in Methods /\ q = <<q[1], "connect">>
      BY <2>2 DEF Methods, Connect
    <3>5. WaitsAt(q[1], "connect")
      BY <2>2, <2>4, <3>4 DEF PromisesFollowCalls
    <3>6. kind[q[1]] = "page"
      BY <2>2, <3>3, <3>5 DEF WaitsAt, PromisesFollowCalls
    <3>7. UNCHANGED kind
      BY <1>2, ApproveFacts
    <3> QED
      BY <2>2, <3>1, <3>6, <3>7 DEF Outside
  <2> QED
    BY <2>2, <2>3, <2>4
<1>3. ASSUME NEW r \in Requests, Approve(r)
      PROVE  \/ UNCHANGED <<userWallet, currentAccount>>
             \/ Method(r) = "connect" /\ Hits(r) # {} /\ Savers(r) = {}
  BY <1>3, ApprovedAccounts
<1> QED
  BY <1>1, <1>2, <1>3, AccountsUntouched DEF Accounting

LEMMA HandshakeInvStep == HandshakeInv /\ [Next]_vars => HandshakeInv'
<1> SUFFICES ASSUME HandshakeInv, [Next]_vars
             PROVE  HandshakeInv'
  OBVIOUS
<1>1. TypeOK' /\ PromisesFollowCalls'
  BY TypeStep, PromisesStep DEF HandshakeInv
<1>2. ListenersFollowPromises' /\ FlagHeldOnce'
  BY ListenersStep, FlagStep DEF HandshakeInv
<1>3. WalletMeansGranted' /\ AccountsDivergeOutside'
  BY WalletStep, DivergeStep DEF HandshakeInv
<1>4. LostListenersWereAnswered' /\ LostGrantNeedsRefusal'
  BY LostStep DEF HandshakeInv
<1> QED
  BY <1>1, <1>2, <1>3, <1>4 DEF HandshakeInv

LEMMA HandshakeInvariant == Spec => []HandshakeInv
BY HandshakeInit, HandshakeInvStep, PTL DEF Spec

-----------------------------------------------------------------------------
(* Type correctness of the calls, the promises and the accounts. *)
THEOREM TypeCorrect == Spec => []TypeOK
<1>1. HandshakeInv => TypeOK
  BY DEF HandshakeInv
<1> QED
  BY <1>1, HandshakeInvariant, PTL

(* One event at a time connects, and the flag says so (sdk.js 1249-1316).    *)
THEOREM EventsConnectOnce == Spec => []OneEventHandshake
<1>1. HandshakeInv => OneEventHandshake
  <2> SUFFICES ASSUME HandshakeInv
               PROVE  /\ isConnecting <=> Connecting # {}
                      /\ Cardinality(Connecting) <= 1
    BY DEF OneEventHandshake, Connecting
  <2>1. FlagHeldOnce
    BY DEF HandshakeInv
  <2>2. CASE Connecting = {}
    BY <2>1, <2>2, FS_EmptySet DEF FlagHeldOnce
  <2>3. CASE Connecting # {}
    <3>1. PICK c \in Connecting : Connecting = {c}
      BY <2>1, <2>3 DEF FlagHeldOnce
    <3>2. Cardinality(Connecting) = 1
      BY <3>1, FS_Singleton
    <3> QED
      BY <2>1, <3>2 DEF FlagHeldOnce
  <2> QED
    BY <2>2, <2>3
<1> QED
  BY <1>1, HandshakeInvariant, PTL

(* The SDK shows no wallet nobody granted, whichever request an answer is    *)
(* taken for (sdk.js 70-94, 261, 1172, 1285).                                *)
THEOREM WalletsAreGranted == Spec => []WalletMeansGranted
<1>1. HandshakeInv => WalletMeansGranted
  BY DEF HandshakeInv
<1> QED
  BY <1>1, HandshakeInvariant, PTL

(* No listener outlives the request it is registered for (sdk.js 57-59, 76). *)
THEOREM ListenersEnd == Spec => []ListenersAwaitAnswer
<1>1. HandshakeInv => ListenersAwaitAnswer
  BY DEF HandshakeInv, ListenersFollowPromises
<1> QED
  BY <1>1, HandshakeInvariant, PTL

(* Only a refusal can cost the interface a grant (sdk.js 57-79).             *)
THEOREM GrantsOutliveTimeouts == Spec => []LostGrantNeedsRefusal
<1>1. HandshakeInv => LostGrantNeedsRefusal
  BY DEF HandshakeInv
<1> QED
  BY <1>1, HandshakeInvariant, PTL

(* The two accounts differ only by a connect that had timed out or that the  *)
(* page made itself (sdk.js 79, 261, 1172, 1285).                            *)
THEOREM AccountsDiverge == Spec => []AccountsDivergeOutside
<1>1. HandshakeInv => AccountsDivergeOutside
  BY DEF HandshakeInv
<1> QED
  BY <1>1, HandshakeInvariant, PTL

(* The handshakes are the wallet AdDelivery relies on: null, then set for    *)
(* good (sdk.js 261, 1157, 1172, 1285).                                      *)
THEOREM ImplementsWallet == Spec => ImplementsPageWallet
<1> DEFINE set == userWallet # NoAccount
<1>1. Init => Wallet!Init
  BY DEF Init, Wallet!Init
<1>2. HandshakeInv /\ [Next]_vars => [Wallet!Connect]_set
  <2> SUFFICES ASSUME HandshakeInv, [Next]_vars
               PROVE  set' = TRUE \/ set' = set
    BY DEF Wallet!Connect
  <2>1. TypeOK /\ PromisesFollowCalls
    BY DEF HandshakeInv
  <2>2. CASE UNCHANGED Accounting
    BY <2>2 DEF Accounting
  <2>3. ASSUME NEW r \in Requests, Approve(r)
        PROVE  userWallet' \in Accounts \/ userWallet' = userWallet
    BY <2>1, <2>3, ApprovedAccounts
  <2> QED
    BY <2>2, <2>3, AccountsUntouched, NoAccountDiffers
<1> QED
  BY <1>1, <1>2, HandshakeInvariant, PTL DEF Spec, ImplementsPageWallet, Wallet!Spec
-----------------------------------------------------------------------------
(* How many tasks a call has still before it, at most. *)
Left == [idle |-> 5, connect |-> 4, balanceTimer |-> 3, balance |-> 2,
         api |-> 1, page |-> 1, done |-> 0]

LEMMA LeftValues ==
  /\ Left["idle"] = 5 /\ Left["connect"] = 4 /\ Left["balanceTimer"] = 3
  /\ Left["balance"] = 2 /\ Left["api"] = 1 /\ Left["page"] = 1 /\ Left["done"] = 0
BY DEF Left

(* A call whose promise settles moves on. *)
LEMMA SettledCallsAdvance ==
  ASSUME TypeOK, PromisesFollowCalls, NEW rs \in SUBSET Requests, NEW c \in WaitingOn(rs)
  PROVE  Left[AfterSuccess(c)] < Left[pc[c]] /\ Left[AfterFailure(c)] < Left[pc[c]]
<1>1. pc[c] \in {"connect", "balance", "page"}
  BY WaitersArePending
<1> QED
  BY <1>1, LeftValues DEF AfterSuccess, AfterFailure

(* No answer, however late, and no time-out brings a call back to where it   *)
(* has been, or one that has returned back at all: although the listeners of *)
(* a timed-out promise still hear every answer of their method, a call goes  *)
(* through at most five tasks (sdk.js 57-102, 1299-1316).  This is the       *)
(* safety half of EveryCallReturns.                                          *)
CallsAdvance ==
  [][\A c \in Calls : pc'[c] = pc[c] \/ Left[pc'[c]] < Left[pc[c]]]_vars

(* Any number of calls, and any answers in any order (sdk.js 57-102,         *)
(* 1299-1316).                                                               *)
THEOREM CallsOnlyAdvance == Spec => CallsAdvance
<1> DEFINE Advance == \A c \in Calls : pc'[c] = pc[c] \/ Left[pc'[c]] < Left[pc[c]]
<1>1. HandshakeInv /\ [Next]_vars => [Advance]_vars
  <2> SUFFICES ASSUME HandshakeInv, [Next]_vars, NEW d \in Calls
               PROVE  pc'[d] = pc[d] \/ Left[pc'[d]] < Left[pc[d]]
    OBVIOUS
  <2>1. TypeOK /\ PromisesFollowCalls
    BY DEF HandshakeInv
  <2>2. CASE Quiet
    BY <2>2 DEF Quiet
  <2>3. ASSUME NEW c \in Calls, Begins(c)
        PROVE  pc'[d] = pc[d] \/ Left[pc'[d]] < Left[pc[d]]
    <3>1. pc[c] = "idle" /\ pc' = [pc EXCEPT ![c] = "connect"]
      BY <2>3, BeginsFacts
    <3>2. Left["connect"] < Left["idle"]
      BY LeftValues
    <3> QED
      BY <2>1, <3>1, <3>2 DEF TypeOK
  <2>4. ASSUME NEW c \in Calls, PageRequest(c) \/ BalanceTimer(c) \/ ApiAnswers(c)
        PROVE  pc'[d] = pc[d] \/ Left[pc'[d]] < Left[pc[d]]
    <3>1. PICK st : pc' = [pc EXCEPT ![c] = st] /\ Left[st] < Left[pc[c]]
      BY <2>4, LeftValues DEF PageRequest, BalanceTimer, ApiAnswers
    <3> QED
      BY <2>1, <3>1 DEF TypeOK
  <2>5. ASSUME NEW rs \in SUBSET Requests, NEW as, Reject(rs, as)
        PROVE  pc'[d] = pc[d] \/ Left[pc'[d]] < Left[pc[d]]
    <3>1. pc'[d] = IF d \in WaitingOn(rs) THEN AfterFailure(d) ELSE pc[d]
      BY <2>5, RejectFacts
    <3> QED
      BY <2>1, <3>1, SettledCallsAdvance
  <2>6. ASSUME NEW r \in Requests, Refuse(r) \/ Timeout(r)
        PROVE  pc'[d] = pc[d] \/ Left[pc'[d]] < Left[pc[d]]
    <3>1. Hits(r) \in SUBSET Requests
      BY <2>1, HitsAre DEF TypeOK
    <3> QED
      BY <2>5, <2>6, <3>1 DEF Refuse, Timeout
  <2>7. ASSUME NEW r \in Requests, Approve(r)
        PROVE  pc'[d] = pc[d] \/ Left[pc'[d]] < Left[pc[d]]
    <3>1. Hits(r) \in SUBSET Requests
      BY <2>1, HitsAre DEF TypeOK
    <3>2. pc'[d] = IF d \in WaitingOn(Hits(r)) THEN AfterSuccess(d) ELSE pc[d]
      BY <2>7, ApprovedCalls
    <3> QED
      BY <2>1, <3>1, <3>2, SettledCallsAdvance
  <2> QED
    BY <2>2, <2>3, <2>4, <2>6, <2>7, StepCases
<1> QED
  BY <1>1, HandshakeInvariant, PTL DEF Spec, CallsAdvance
=============================================================================
