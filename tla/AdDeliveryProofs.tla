-------------------------- MODULE AdDeliveryProofs --------------------------
(***************************************************************************)
(* Theorems about AdDelivery, for any number of initialisations and of       *)
(* attempts.                                                                 *)
(***************************************************************************)
EXTENDS AdDelivery, Integers, TLAPS

(* A request that has not been made is not answered, and one that the server *)
(* has not handled neither: no request is answered twice.                    *)
AnswersFollowAttempts ==
  /\ \A i \in Chains : stage[i] = "idle" => attempt[i] = 1
  /\ \A i \in Chains : stage[i] = "retry" => attempt[i] < Attempts
  /\ \A i \in Chains, n \in 1..Attempts :
       stage[i] = "idle" \/ n > attempt[i] =>
         <<i, n>> \notin sent /\ answer[<<i, n>>] = "pending"
  /\ \A r \in sent : answer[r] = "pending"

(* An ad that was shown was served, and what was served is counted, about to *)
(* be, or was lost.                                                          *)
ServedIsCounted ==
  /\ \A i \in displayed : \E r \in Requests : r[1] = i /\ answer[r] = "ad"
  /\ \A r \in Requests : answer[r] = "ad" =>
       Served(r) \in impressions \/ r \in immediates \union uncounted

DeliveryInv ==
  /\ TypeOK
  /\ AnswersFollowAttempts
  /\ ServedIsCounted
  /\ ReportedWasDisplayed
  /\ AdNamesWallet

LEMMA RowsDiffer ==
  ASSUME NEW i, NEW r
  PROVE  Served(r) # Viewed(i)
BY DEF Served, Viewed

LEMMA ServedInjective ==
  ASSUME NEW r, NEW q, Served(r) = Served(q)
  PROVE  r = q
BY DEF Served

LEMMA ViewedInjective ==
  ASSUME NEW i, NEW j, Viewed(i) = Viewed(j)
  PROVE  i = j
BY DEF Viewed

LEMMA Pairs ==
  /\ \A i \in Chains, n \in 1..Attempts : <<i, n>> \in Requests
  /\ \A r \in Requests : r[1] \in Chains /\ r[2] \in 1..Attempts /\ r = <<r[1], r[2]>>
BY DEF Requests

LEMMA DeliveryInit == Init => DeliveryInv
<1> SUFFICES ASSUME Init
             PROVE  DeliveryInv
  OBVIOUS
<1>1. 1 \in 1..Attempts
  BY AttemptsPositive
<1>2. TypeOK
  BY <1>1 DEF Init, TypeOK, Stages, Contents, wallet!Init
<1>3. AnswersFollowAttempts
  BY <1>1, Pairs DEF Init, AnswersFollowAttempts
<1>4. ServedIsCounted /\ ReportedWasDisplayed /\ AdNamesWallet
  BY DEF Init, ServedIsCounted, ReportedWasDisplayed, AdNamesWallet
<1> QED
  BY <1>2, <1>3, <1>4 DEF DeliveryInv

-----------------------------------------------------------------------------
(* The type invariant. *)
LEMMA TypeStep == TypeOK /\ AnswersFollowAttempts /\ [Next]_vars => TypeOK'
<1> SUFFICES ASSUME TypeOK, AnswersFollowAttempts, [Next]_vars
             PROVE  TypeOK'
  OBVIOUS
<1> USE DEF TypeOK
<1>1. CASE WalletConnects \/ InsertContainer \/ RequestLost
  BY <1>1 DEF WalletConnects, wallet!Connect, InsertContainer, RequestLost, page, server
<1>2. ASSUME NEW i \in Chains
      PROVE  FetchFails(i) => content' \in Contents /\ stage' \in [Chains -> Stages]
  BY DEF FetchFails, Contents, Stages
<1>3. ASSUME NEW i \in Chains, InitializeSkipped(i) \/ Initialize(i)
      PROVE  TypeOK'
  <2>1. <<i, 1>> \in Requests
    BY AttemptsPositive, Pairs
  <2> QED
    BY <1>3, <2>1 DEF InitializeSkipped, Initialize, Stages, server
<1>4. ASSUME NEW i \in Chains, TimeOut(i) \/ ConnectionBreaks(i) \/ HttpError(i)
      PROVE  TypeOK'
  BY <1>2, <1>4 DEF TimeOut, ConnectionBreaks, HttpError, server
<1>5. ASSUME NEW i \in Chains, Retry(i)
      PROVE  TypeOK'
  <2>1. attempt[i] \in 1..Attempts /\ attempt[i] < Attempts
    BY <1>5 DEF Retry, AnswersFollowAttempts
  <2>2. attempt[i] + 1 \in 1..Attempts
    BY <2>1, AttemptsPositive
  <2>3. <<i, attempt[i] + 1>> \in Requests
    BY <2>2, Pairs
  <2> QED
    BY <1>5, <2>2, <2>3 DEF Retry, Stages, server
<1>6. ASSUME NEW i \in Chains, Headers(i)
      PROVE  TypeOK'
  BY <1>6 DEF Headers, Stages, server
<1>7. ASSUME NEW i \in Chains, Body(i)
      PROVE  TypeOK'
  <2>1. Shown(i) \in Contents /\ <<"none">> \in Contents /\ <<"error">> \in Contents
    BY DEF Contents
  <2> QED
    BY <1>7, <2>1 DEF Body, RenderAd, Stages, server
<1>8. ASSUME NEW i \in Chains, ImageLoads(i) \/ ImageFails(i)
      PROVE  TypeOK'
  BY <1>8 DEF ImageLoads, ImageFails, Contents, server
<1>9. ASSUME NEW i \in Chains, RecordViewed(i)
      PROVE  TypeOK'
  BY <1>9 DEF RecordViewed, page
<1>10. ASSUME NEW r \in Requests, ServeAd(r) \/ ServeNothing(r) \/ RecordServed(r) \/ CountLost(r)
       PROVE  TypeOK'
  BY <1>10 DEF ServeAd, ServeNothing, RecordServed, CountLost, page
<1>11. CASE UNCHANGED vars
  BY <1>11 DEF vars, page, server
<1> QED
  BY <1>1, <1>3, <1>4, <1>5, <1>6, <1>7, <1>8, <1>9, <1>10, <1>11 DEF Next
-----------------------------------------------------------------------------
(* An attempt is asked for once and answered once. *)
LEMMA AnswersStep ==
  TypeOK /\ AnswersFollowAttempts /\ [Next]_vars => AnswersFollowAttempts'
<1> SUFFICES ASSUME TypeOK, AnswersFollowAttempts, [Next]_vars
             PROVE  AnswersFollowAttempts'
  OBVIOUS
<1> USE DEF AnswersFollowAttempts
<1> USE Pairs, AttemptsPositive
<1>1. CASE WalletConnects \/ InsertContainer \/ RequestLost
  BY <1>1 DEF WalletConnects, InsertContainer, RequestLost, page, server
<1>2. ASSUME NEW i \in Chains, InitializeSkipped(i)
      PROVE  AnswersFollowAttempts'
  BY <1>2 DEF InitializeSkipped, TypeOK, server
<1>3. ASSUME NEW i \in Chains, Initialize(i)
      PROVE  AnswersFollowAttempts'
  <2>1. /\ stage' = [stage EXCEPT ![i] = "fetch"] /\ stage[i] = "idle" /\ attempt[i] = 1
        /\ sent' = sent \union {<<i, 1>>} /\ answer' = answer /\ attempt' = attempt
    BY <1>3 DEF Initialize, server
  <2> QED
    BY <2>1 DEF TypeOK
<1>4. ASSUME NEW i \in Chains, TimeOut(i) \/ ConnectionBreaks(i) \/ HttpError(i)
      PROVE  AnswersFollowAttempts'
  BY <1>4 DEF TimeOut, ConnectionBreaks, HttpError, FetchFails, TypeOK, server
<1>5. ASSUME NEW i \in Chains, Retry(i)
      PROVE  AnswersFollowAttempts'
  <2>1. /\ stage' = [stage EXCEPT ![i] = "fetch"] /\ stage[i] = "retry"
        /\ attempt' = [attempt EXCEPT ![i] = @ + 1] /\ attempt[i] < Attempts
        /\ sent' = sent \union {<<i, attempt[i] + 1>>} /\ answer' = answer
    BY <1>5 DEF Retry, server
  <2> QED
    BY <2>1 DEF TypeOK
<1>6. ASSUME NEW i \in Chains, Headers(i) \/ Body(i)
      PROVE  AnswersFollowAttempts'
  BY <1>6 DEF Headers, Body, TypeOK, server
<1>7. ASSUME NEW i \in Chains, ImageLoads(i) \/ ImageFails(i) \/ RecordViewed(i)
      PROVE  AnswersFollowAttempts'
  BY <1>7 DEF ImageLoads, ImageFails, RecordViewed, page, server
<1>8. ASSUME NEW r \in Requests, ServeAd(r) \/ ServeNothing(r)
      PROVE  AnswersFollowAttempts'
  <2>1. /\ r \in sent /\ sent' = sent \ {r} /\ stage' = stage /\ attempt' = attempt
        /\ \E a : answer' = [answer EXCEPT ![r] = a]
    BY <1>8 DEF ServeAd, ServeNothing, page
  <2> QED
    BY <2>1 DEF TypeOK
<1>9. ASSUME NEW r \in Requests, RecordServed(r) \/ CountLost(r)
      PROVE  AnswersFollowAttempts'
  BY <1>9 DEF RecordServed, CountLost, page
<1>10. CASE UNCHANGED vars
  BY <1>10 DEF vars, page, server
<1> QED
  BY <1>1, <1>2, <1>3, <1>4, <1>5, <1>6, <1>7, <1>8, <1>9, <1>10 DEF Next

(* No answer is taken back, and no row. *)
LEMMA CountedStep ==
  DeliveryInv /\ [Next]_vars => ServedIsCounted'
<1> SUFFICES ASSUME DeliveryInv, [Next]_vars
             PROVE  ServedIsCounted'
  OBVIOUS
<1>1. TypeOK /\ AnswersFollowAttempts /\ ServedIsCounted
  BY DEF DeliveryInv
<1>2. ASSUME displayed' = displayed, UNCHANGED <<answer, immediates, impressions, uncounted>>
      PROVE  ServedIsCounted'
  BY <1>1, <1>2 DEF ServedIsCounted
<1>3. CASE WalletConnects \/ InsertContainer \/ RequestLost
  BY <1>2, <1>3 DEF WalletConnects, InsertContainer, RequestLost, page, server
<1>4. ASSUME NEW i \in Chains,
             \/ InitializeSkipped(i) \/ Initialize(i) \/ TimeOut(i) \/ ConnectionBreaks(i)
             \/ Retry(i) \/ Headers(i) \/ HttpError(i) \/ ImageLoads(i) \/ ImageFails(i)
      PROVE  ServedIsCounted'
  BY <1>2, <1>4 DEF InitializeSkipped, Initialize, TimeOut, ConnectionBreaks, Retry, Headers,
                    HttpError, ImageLoads, ImageFails, server
<1>5. ASSUME NEW i \in Chains, Body(i)
      PROVE  ServedIsCounted'
  <2>1. <<i, attempt[i]>> \in Requests /\ <<i, attempt[i]>>[1] = i
    BY <1>1, Pairs DEF TypeOK
  <2>2. \/ displayed' = displayed
        \/ /\ answer[<<i, attempt[i]>>] = "ad"
           /\ displayed' = displayed \union {i}
    BY <1>5 DEF Body, RenderAd
  <2>3. UNCHANGED <<answer, immediates, impressions, uncounted>>
    BY <1>5 DEF Body, server
  <2>4. ASSUME NEW j \in displayed'
        PROVE  \E r \in Requests : r[1] = j /\ answer[r] = "ad"
    <3>1. CASE j \in displayed
      BY <1>1, <3>1 DEF ServedIsCounted
    <3>2. CASE j = i /\ answer[<<i, attempt[i]>>] = "ad"
      BY <2>1, <3>2
    <3> QED
      BY <2>2, <3>1, <3>2
  <2> QED
    BY <1>1, <2>3, <2>4 DEF ServedIsCounted
<1>6. ASSUME NEW i \in Chains, RecordViewed(i)
      PROVE  ServedIsCounted'
  <2>1. /\ impressions' = impressions \union {Viewed(i)}
        /\ UNCHANGED <<displayed, answer, immediates, uncounted>>
    BY <1>6 DEF RecordViewed, page
  <2> QED
    BY <1>1, <2>1 DEF ServedIsCounted
<1>7. ASSUME NEW r \in Requests, ServeAd(r)
      PROVE  ServedIsCounted'
  <2>1. /\ answer' = [answer EXCEPT ![r] = "ad"] /\ immediates' = immediates \union {r}
        /\ UNCHANGED <<displayed, impressions, uncounted>>
    BY <1>7 DEF ServeAd, page
  <2> QED
    BY <1>1, <2>1 DEF ServedIsCounted, TypeOK
<1>8. ASSUME NEW r \in Requests, ServeNothing(r)
      PROVE  ServedIsCounted'
  <2>1. answer[r] = "pending"
    BY <1>1, <1>8 DEF ServeNothing, AnswersFollowAttempts
  <2>2. /\ \E a \in {"none", "error"} : answer' = [answer EXCEPT ![r] = a]
        /\ UNCHANGED <<displayed, immediates, impressions, uncounted>>
    BY <1>8 DEF ServeNothing, page
  <2>3. \A q \in Requests : answer'[q] = "ad" <=> answer[q] = "ad"
    BY <1>1, <2>1, <2>2 DEF TypeOK
  <2> QED
    BY <1>1, <2>2, <2>3 DEF ServedIsCounted
<1>9. ASSUME NEW r \in Requests, RecordServed(r) \/ CountLost(r)
      PROVE  ServedIsCounted'
  <2>1. UNCHANGED <<displayed, answer>> /\ immediates' = immediates \ {r}
    BY <1>9 DEF RecordServed, CountLost, page
  <2>2. \/ impressions' = impressions \union {Served(r)} /\ UNCHANGED uncounted
        \/ uncounted' = uncounted \union {r} /\ UNCHANGED impressions
    BY <1>9 DEF RecordServed, CountLost
  <2> QED
    BY <1>1, <2>1, <2>2 DEF ServedIsCounted
<1>10. CASE UNCHANGED vars
  BY <1>2, <1>10 DEF vars, page, server
<1> QED
  BY <1>3, <1>4, <1>5, <1>6, <1>7, <1>8, <1>9, <1>10 DEF Next

(* Only a render with a wallet displays an ad, and it is what is reported. *)
LEMMA ReportsStep ==
  DeliveryInv /\ [Next]_vars => ReportedWasDisplayed' /\ AdNamesWallet'
<1> SUFFICES ASSUME DeliveryInv, [Next]_vars
             PROVE  ReportedWasDisplayed' /\ AdNamesWallet'
  OBVIOUS
<1> DEFINE viewed == {i \in Chains : Viewed(i) \in impressions}
<1>1. posts \union viewed \subseteq displayed /\ (displayed # {} => connected)
  BY DEF DeliveryInv, ReportedWasDisplayed, AdNamesWallet
<1>2. SUFFICES /\ posts' \union viewed' \subseteq displayed'
               /\ displayed' # {} => connected'
  BY DEF ReportedWasDisplayed, AdNamesWallet
<1>3. CASE WalletConnects
  BY <1>1, <1>3 DEF WalletConnects, wallet!Connect, page, server
<1>4. CASE InsertContainer \/ RequestLost
  BY <1>1, <1>4 DEF InsertContainer, RequestLost, page, server
<1>5. ASSUME NEW i \in Chains,
             \/ InitializeSkipped(i) \/ Initialize(i) \/ TimeOut(i) \/ ConnectionBreaks(i)
             \/ Retry(i) \/ Headers(i) \/ HttpError(i) \/ ImageLoads(i) \/ ImageFails(i)
      PROVE  <1>2!1
  BY <1>1, <1>5 DEF InitializeSkipped, Initialize, TimeOut, ConnectionBreaks, Retry, Headers,
                    HttpError, ImageLoads, ImageFails, server
<1>6. ASSUME NEW i \in Chains, Body(i)
      PROVE  <1>2!1
  BY <1>1, <1>6 DEF Body, RenderAd, server
<1>7. ASSUME NEW i \in Chains, RecordViewed(i)
      PROVE  <1>2!1
  <2>1. /\ i \in posts /\ posts' = posts \ {i} /\ UNCHANGED <<displayed, connected>>
        /\ impressions' = impressions \union {Viewed(i)}
    BY <1>7 DEF RecordViewed, page
  <2>2. viewed' \subseteq viewed \union {i}
    BY <2>1, ViewedInjective
  <2> QED
    BY <1>1, <2>1, <2>2
<1>8. ASSUME NEW r \in Requests, ServeAd(r) \/ ServeNothing(r) \/ CountLost(r)
      PROVE  <1>2!1
  BY <1>1, <1>8 DEF ServeAd, ServeNothing, CountLost, page
<1>9. ASSUME NEW r \in Requests, RecordServed(r)
      PROVE  <1>2!1
  <2>1. /\ UNCHANGED <<posts, displayed, connected>>
        /\ impressions' = impressions \union {Served(r)}
    BY <1>9 DEF RecordServed, page
  <2>2. viewed' \subseteq viewed
    BY <2>1, RowsDiffer
  <2> QED
    BY <1>1, <2>1, <2>2
<1>10. CASE UNCHANGED vars
  BY <1>1, <1>10 DEF vars, page, server
<1> QED
  BY <1>3, <1>4, <1>5, <1>6, <1>7, <1>8, <1>9, <1>10 DEF Next

LEMMA DeliveryInvStep == DeliveryInv /\ [Next]_vars => DeliveryInv'
BY TypeStep, AnswersStep, CountedStep, ReportsStep DEF DeliveryInv

LEMMA DeliveryInvariant == Spec => []DeliveryInv
BY DeliveryInit, DeliveryInvStep, PTL DEF Spec
-----------------------------------------------------------------------------
(* Type correctness of the page, the requests and the rows. *)
THEOREM TypeCorrect == Spec => []TypeOK
<1>1. DeliveryInv => TypeOK
  BY DEF DeliveryInv
<1> QED
  BY <1>1, DeliveryInvariant, PTL

(* The page reports only ads it showed, whatever is late or lost (sdk.js     *)
(* 575-689, 769).                                                            *)
THEOREM ReportsFollowDisplays == Spec => []ReportedWasDisplayed
<1>1. DeliveryInv => ReportedWasDisplayed
  BY DEF DeliveryInv
<1> QED
  BY <1>1, DeliveryInvariant, PTL

(* A view that is reported is counted twice, unless the first count was lost *)
(* (adRoutes.js 635, 916).                                                   *)
THEOREM ReportsCountTwice == Spec => []ViewCountedTwice
<1>1. DeliveryInv => ViewCountedTwice
  <2> SUFFICES ASSUME DeliveryInv, NEW i \in Chains, Viewed(i) \in impressions
               PROVE  \E r \in Requests :
                        /\ r[1] = i
                        /\ Served(r) \in impressions \/ r \in immediates \union uncounted
    BY DEF ViewCountedTwice
  <2>1. i \in displayed
    BY DEF DeliveryInv, ReportedWasDisplayed
  <2>2. PICK r \in Requests : r[1] = i /\ answer[r] = "ad"
    BY <2>1 DEF DeliveryInv, ServedIsCounted
  <2> QED
    BY <2>2 DEF DeliveryInv, ServedIsCounted
<1> QED
  BY <1>1, DeliveryInvariant, PTL

(* An ad that is shown names a wallet to pay (sdk.js 601, adRoutes.js 660).  *)
THEOREM AdsNameWallets == Spec => []AdNamesWallet
<1>1. DeliveryInv => AdNamesWallet
  BY DEF DeliveryInv
<1> QED
  BY <1>1, DeliveryInvariant, PTL

(* No late answer brings an ended chain back (sdk.js 519, 541, 558-569).     *)
THEOREM ChainsEndOnce == Spec => ChainEndsOnce
<1> DEFINE Once == \A i \in Chains : stage[i] = "done" => stage'[i] = "done"
<1>1. TypeOK /\ [Next]_vars => [Once]_vars
  <2> SUFFICES ASSUME TypeOK, Next, NEW j \in Chains, stage[j] = "done"
               PROVE  stage'[j] = "done"
    OBVIOUS
  <2>1. ASSUME stage' = stage
        PROVE  stage'[j] = "done"
    BY <2>1
  <2>2. CASE WalletConnects \/ InsertContainer \/ RequestLost
    BY <2>1, <2>2 DEF WalletConnects, InsertContainer, RequestLost, page
  <2>3. ASSUME NEW i \in Chains,
               \/ InitializeSkipped(i) \/ Initialize(i) \/ TimeOut(i) \/ ConnectionBreaks(i)
               \/ Retry(i) \/ Headers(i) \/ HttpError(i) \/ Body(i)
        PROVE  stage'[j] = "done"
    <3>1. stage[i] # "done" /\ \E st : stage' = [stage EXCEPT ![i] = st]
      BY <2>3 DEF InitializeSkipped, Initialize, TimeOut, ConnectionBreaks, Retry, Headers,
                  HttpError, Body, FetchFails
    <3> QED
      BY <3>1 DEF TypeOK
  <2>4. ASSUME NEW i \in Chains, ImageLoads(i) \/ ImageFails(i) \/ RecordViewed(i)
        PROVE  stage'[j] = "done"
    BY <2>1, <2>4 DEF ImageLoads, ImageFails, RecordViewed, page
  <2>5. ASSUME NEW r \in Requests, ServeAd(r) \/ ServeNothing(r) \/ RecordServed(r) \/ CountLost(r)
        PROVE  stage'[j] = "done"
    BY <2>1, <2>5 DEF ServeAd, ServeNothing, RecordServed, CountLost, page
  <2> QED
    BY <2>2, <2>3, <2>4, <2>5 DEF Next
<1>2. Spec => [][Once]_vars
  BY <1>1, TypeCorrect, PTL DEF Spec
<1> QED
  BY <1>2 DEF ChainEndsOnce

(* An ad leaves the container only when a chain ends or an image fails       *)
(* (sdk.js 537-550, 666).                                                    *)
THEOREM AdsStay == Spec => AdStays
<1> DEFINE Leaves == (\E i \in Chains : content = Shown(i)) /\ content' # content =>
                       \/ \E i \in Chains : stage[i] # "done" /\ stage'[i] = "done"
                       \/ images' # images
<1>1. TypeOK /\ [Next]_vars => [Leaves]_vars
  <2> SUFFICES ASSUME TypeOK, Next, content' # content
               PROVE  \/ \E i \in Chains : stage[i] # "done" /\ stage'[i] = "done"
                      \/ images' # images
    OBVIOUS
  <2>1. ~(WalletConnects \/ InsertContainer \/ RequestLost)
    BY DEF WalletConnects, InsertContainer, RequestLost, page
  <2>2. ASSUME NEW i \in Chains, TimeOut(i) \/ ConnectionBreaks(i) \/ HttpError(i)
        PROVE  stage[i] # "done" /\ stage'[i] = "done"
    BY <2>2 DEF TimeOut, ConnectionBreaks, HttpError, FetchFails, TypeOK
  <2>3. ASSUME NEW i \in Chains, Body(i)
        PROVE  stage[i] # "done" /\ stage'[i] = "done"
    BY <2>3 DEF Body, TypeOK
  <2>4. ASSUME NEW i \in Chains, ImageFails(i)
        PROVE  images' # images
    BY <2>4 DEF ImageFails
  <2>5. ASSUME NEW i \in Chains
        PROVE  ~ \/ InitializeSkipped(i) \/ Initialize(i) \/ Retry(i) \/ Headers(i)
                 \/ ImageLoads(i) \/ RecordViewed(i)
    BY DEF InitializeSkipped, Initialize, Retry, Headers, ImageLoads, RecordViewed, page
  <2>6. ASSUME NEW r \in Requests
        PROVE  ~ (ServeAd(r) \/ ServeNothing(r) \/ RecordServed(r) \/ CountLost(r))
    BY DEF ServeAd, ServeNothing, RecordServed, CountLost, page
  <2> QED
    BY <2>1, <2>2, <2>3, <2>4, <2>5, <2>6 DEF Next
<1>2. Spec => [][Leaves]_vars
  BY <1>1, TypeCorrect, PTL DEF Spec
<1> QED
  BY <1>2 DEF AdStays
-----------------------------------------------------------------------------
(* How many tasks a chain has still before it, at most: three for an attempt *)
(* and one to begin.                                                         *)
StagesLeft == [idle |-> 4, fetch |-> 3, body |-> 2, retry |-> 1, done |-> 0]

Left(st, n) == 3 * (Attempts - n) + StagesLeft[st]

LEMMA LeftValues ==
  ASSUME NEW n \in Nat
  PROVE  /\ Left("fetch", n) < Left("idle", n)
         /\ Left("body", n) < Left("fetch", n)
         /\ Left("retry", n) < Left("body", n)
         /\ Left("done", n) < Left("retry", n)
         /\ Left("fetch", n + 1) < Left("retry", n)
         /\ \A s \in Stages : Left(s, n) \in Int
BY AttemptsPositive DEF Left, StagesLeft, Stages

(* A chain never comes back to where it has been: a late answer, an answer   *)
(* to an attempt it has given up, a lost request or another initialisation   *)
(* moves it no step, and with each step of its own it comes nearer its end   *)
(* (sdk.js 519-569).  This is the safety half of SomethingIsShown.           *)
ChainsAdvance ==
  [][\A i \in Chains :
       \/ stage'[i] = stage[i] /\ attempt'[i] = attempt[i]
       \/ Left(stage'[i], attempt'[i]) < Left(stage[i], attempt[i])]_vars

(* However many initialisations a page makes, each has at most 3 * Attempts  *)
(* tasks after its first (sdk.js 519-569).                                   *)
THEOREM ChainsOnlyAdvance == Spec => ChainsAdvance
<1> DEFINE Stays(i) == stage'[i] = stage[i] /\ attempt'[i] = attempt[i]
           Nearer(i) == Left(stage'[i], attempt'[i]) < Left(stage[i], attempt[i])
           Advance == \A i \in Chains :
                        \/ stage'[i] = stage[i] /\ attempt'[i] = attempt[i]
                        \/ Left(stage'[i], attempt'[i]) < Left(stage[i], attempt[i])
<1>1. TypeOK /\ [Next]_vars => [Advance]_vars
  <2> SUFFICES ASSUME TypeOK, Next, NEW j \in Chains
               PROVE  Stays(j) \/ Nearer(j)
    OBVIOUS
  <2>1. CASE UNCHANGED <<stage, attempt>>
    BY <2>1
  <2>2. ASSUME NEW i \in Chains, NEW st, NEW n,
               stage' = [stage EXCEPT ![i] = st], attempt' = [attempt EXCEPT ![i] = n],
               Left(st, n) < Left(stage[i], attempt[i])
        PROVE  Stays(j) \/ Nearer(j)
    BY <2>2 DEF TypeOK
  <2>3. ASSUME NEW i \in Chains, NEW st, stage' = [stage EXCEPT ![i] = st], attempt' = attempt,
               Left(st, attempt[i]) < Left(stage[i], attempt[i])
        PROVE  Stays(j) \/ Nearer(j)
    <3>1. attempt' = [attempt EXCEPT ![i] = attempt[i]]
      BY <2>3 DEF TypeOK
    <3> QED
      BY <2>2, <2>3, <3>1
  <2>4. ASSUME NEW i \in Chains
        PROVE  /\ attempt[i] \in Nat
               /\ Left("fetch", attempt[i]) < Left("idle", attempt[i])
               /\ Left("body", attempt[i]) < Left("fetch", attempt[i])
               /\ Left("retry", attempt[i]) < Left("body", attempt[i])
               /\ Left("done", attempt[i]) < Left("retry", attempt[i])
               /\ Left("fetch", attempt[i] + 1) < Left("retry", attempt[i])
               /\ \A s \in Stages : Left(s, attempt[i]) \in Int
    BY AttemptsPositive, LeftValues DEF TypeOK
  <2>5. ASSUME NEW i \in Chains, FetchFails(i), stage[i] \in {"fetch", "body"}, attempt' = attempt
        PROVE  Stays(j) \/ Nearer(j)
    <3>1. PICK st \in {"retry", "done"} : stage' = [stage EXCEPT ![i] = st]
      BY <2>5 DEF FetchFails
    <3>2. Left(st, attempt[i]) < Left(stage[i], attempt[i])
      BY <2>4, <2>5, <3>1 DEF Stages
    <3> QED
      BY <2>3, <2>5, <3>1, <3>2
  <2>6. ASSUME NEW i \in Chains, TimeOut(i) \/ ConnectionBreaks(i) \/ HttpError(i)
        PROVE  Stays(j) \/ Nearer(j)
    BY <2>5, <2>6 DEF TimeOut, ConnectionBreaks, HttpError
  <2>7. ASSUME NEW i \in Chains, InitializeSkipped(i) \/ Initialize(i) \/ Headers(i) \/ Body(i)
        PROVE  Stays(j) \/ Nearer(j)
    <3>1. /\ attempt' = attempt
          /\ \E st \in Stages : /\ stage' = [stage EXCEPT ![i] = st]
                                /\ Left(st, attempt[i]) < Left(stage[i], attempt[i])
      BY <2>4, <2>7 DEF InitializeSkipped, Initialize, Headers, Body, Stages
    <3> QED
      BY <2>3, <3>1
  <2>8. ASSUME NEW i \in Chains, Retry(i)
        PROVE  Stays(j) \/ Nearer(j)
    <3>1. attempt' = [attempt EXCEPT ![i] = attempt[i] + 1]
      BY <2>8 DEF Retry
    <3> QED
      BY <2>2, <2>4, <2>8, <3>1 DEF Retry
  <2>9. ASSUME NEW i \in Chains, ImageLoads(i) \/ ImageFails(i) \/ RecordViewed(i)
        PROVE  Stays(j) \/ Nearer(j)
    BY <2>1, <2>9 DEF ImageLoads, ImageFails, RecordViewed, page
  <2>10. CASE \/ WalletConnects \/ InsertContainer \/ RequestLost
              \/ \E r \in Requests : ServeAd(r) \/ ServeNothing(r) \/ RecordServed(r) \/ CountLost(r)
    BY <2>1, <2>10 DEF WalletConnects, InsertContainer, RequestLost, ServeAd, ServeNothing,
                       RecordServed, CountLost, page
  <2> QED
    BY <2>6, <2>7, <2>8, <2>9, <2>10 DEF Next
<1> QED
  BY <1>1, TypeCorrect, PTL DEF Spec, ChainsAdvance
=============================================================================
