----------------------------- MODULE AdDelivery -----------------------------
(***************************************************************************)
(* How an ad gets into a page (sdk.js: initializeStellarAds,                *)
(* fetchAndRenderAd, renderAd, trackAdImpression) and how it is counted     *)
(* (adRoutes.js: GET /api/ad, POST /api/impression).                        *)
(*                                                                         *)
(* Every initialisation of the SDK, on DOMContentLoaded, on load and by     *)
(* reinitialize, starts a chain of its own: one fetch, one retry, one       *)
(* container for all.  An action is one task of the page's event loop or    *)
(* one callback of the server.  The network may lose a request or an        *)
(* answer and delay either beyond the time-out of 5 s.                      *)
(***************************************************************************)
EXTENDS Naturals, FiniteSets

CONSTANTS Chains,     \* initialisations of the SDK in one page
          Attempts    \* RETRY_ATTEMPTS, 2 in the code

ASSUME ChainsFinite == IsFiniteSet(Chains)
ASSUME AttemptsPositive == Attempts \in Nat \ {0}

Requests == Chains \X (1..Attempts)

VARIABLES
  container,   \* the page has a container, and a siteId is configured
  connected,   \* StellarAdsSDK.userWallet is set
  stage,       \* what each chain waits for
  attempt,     \* number of the attempt a chain is at
  content,     \* what the container shows
  images,      \* chains whose ad image is loading, in the page or detached
  displayed,   \* history: chains whose ad was shown
  received,    \* history: chains that were answered an ad in time
  sent,        \* requests for an ad that the server has not handled
  answer,      \* the server's answer to each request
  immediates,  \* served requests whose impression setImmediate will record
  posts,       \* chains whose POST /api/impression is under way
  impressions, \* rows of the page's views: who reported them
  uncounted    \* history: served requests whose row was never written

wallet == INSTANCE PageWallet

page   == <<container, stage, attempt, content, images, displayed, received>>
server == <<answer, immediates, impressions, uncounted>>
vars   == <<page, connected, sent, posts, server>>

Stages == {"idle", "fetch", "body", "retry", "done"}
Shown(i) == <<"ad", i>>
Contents == {<<"empty">>, <<"none">>, <<"error">>} \union {Shown(i) : i \in Chains}

Served(r) == <<"served", r>>
Viewed(i) == <<"viewed", i>>

Init ==
  /\ container \in BOOLEAN
  /\ wallet!Init
  /\ stage = [i \in Chains |-> "idle"]
  /\ attempt = [i \in Chains |-> 1]
  /\ content = <<"empty">>
  /\ images = {}
  /\ displayed = {}
  /\ received = {}
  /\ sent = {}
  /\ answer = [r \in Requests |-> "pending"]
  /\ immediates = {}
  /\ posts = {}
  /\ impressions = {}
  /\ uncounted = {}

-----------------------------------------------------------------------------
(* The wallet handshake of the page succeeds. *)
WalletConnects ==
  /\ wallet!Connect
  /\ UNCHANGED <<page, sent, posts, server>>

(* The page's script adds the container. *)
InsertContainer ==
  /\ container' = TRUE
  /\ UNCHANGED <<stage, attempt, content, images, displayed, received,
                 connected, sent, posts, server>>

(* initializeStellarAds gives up without a siteId or a container. *)
InitializeSkipped(i) ==
  /\ stage[i] = "idle" /\ ~container
  /\ stage' = [stage EXCEPT ![i] = "done"]
  /\ UNCHANGED <<container, attempt, content, images, displayed, received,
                 connected, sent, posts, server>>

(* initializeStellarAds starts the first fetch of its chain. *)
Initialize(i) ==
  /\ stage[i] = "idle" /\ container
  /\ stage' = [stage EXCEPT ![i] = "fetch"]
  /\ sent' = sent \union {<<i, 1>>}
  /\ UNCHANGED <<container, attempt, content, images, displayed, received,
                 connected, posts, server>>

-----------------------------------------------------------------------------
(* Mutant: the placeholder is rendered before the next attempt. *)
FetchFailsLoudly(i) ==
  /\ content' = <<"error">>
  /\ stage' = [stage EXCEPT ![i] = IF attempt[i] < Attempts THEN "retry" ELSE "done"]

(* Mutant: one attempt too many. *)
FetchFailsOneMore(i) ==
  IF attempt[i] <= Attempts
    THEN stage' = [stage EXCEPT ![i] = "retry"] /\ UNCHANGED content
    ELSE stage' = [stage EXCEPT ![i] = "done"] /\ content' = <<"error">>

(* The catch of fetchAndRenderAd: another attempt, or the placeholder. *)
FetchFails(i) ==
  IF attempt[i] < Attempts
    THEN stage' = [stage EXCEPT ![i] = "retry"] /\ UNCHANGED content
    ELSE stage' = [stage EXCEPT ![i] = "done"] /\ content' = <<"error">>

(* The promise of fetchWithTimeout rejects after 5 s. *)
TimeOut(i) ==
  /\ stage[i] = "fetch"
  /\ FetchFails(i)
  /\ UNCHANGED <<container, attempt, images, displayed, received,
                 connected, sent, posts, server>>

(* The connection breaks, before the headers or inside the body. *)
ConnectionBreaks(i) ==
  /\ stage[i] \in {"fetch", "body"}
  /\ FetchFails(i)
  /\ UNCHANGED <<container, attempt, images, displayed, received,
                 connected, sent, posts, server>>

(* Mutant: the next attempt carries the number of this one. *)
RetryUncounted(i) ==
  /\ stage[i] = "retry"
  /\ stage' = [stage EXCEPT ![i] = "fetch"]
  /\ sent' = sent \union {<<i, attempt[i]>>}
  /\ UNCHANGED <<container, attempt, content, images, displayed, received,
                 connected, posts, server>>

(* The delayed call of fetchAndRenderAd. *)
Retry(i) ==
  /\ stage[i] = "retry"
  /\ stage' = [stage EXCEPT ![i] = "fetch"]
  /\ attempt' = [attempt EXCEPT ![i] = @ + 1]
  /\ sent' = sent \union {<<i, attempt[i] + 1>>}
  /\ UNCHANGED <<container, content, images, displayed, received,
                 connected, posts, server>>

(* Mutant: an answer that lost the race against its time-out is used too. *)
HeadersLate(i) ==
  /\ \E n \in 1..attempt[i] : answer[<<i, n>>] \in {"ad", "none"}
  /\ stage[i] \in {"fetch", "retry", "done"}
  /\ stage' = [stage EXCEPT ![i] = "body"]
  /\ UNCHANGED <<container, attempt, content, images, displayed, received,
                 connected, sent, posts, server>>

(* The headers of an answer arrive in time.  response.json() comes next, and *)
(* the time-out no longer applies.                                          *)
Headers(i) ==
  /\ stage[i] = "fetch"
  /\ answer[<<i, attempt[i]>>] \in {"ad", "none"}
  /\ stage' = [stage EXCEPT ![i] = "body"]
  /\ UNCHANGED <<container, attempt, content, images, displayed, received,
                 connected, sent, posts, server>>

(* Status 500 of the server's catch. *)
HttpError(i) ==
  /\ stage[i] = "fetch"
  /\ answer[<<i, attempt[i]>>] = "error"
  /\ FetchFails(i)
  /\ UNCHANGED <<container, attempt, images, displayed, received,
                 connected, sent, posts, server>>

(* Mutant: the impression is reported although the render failed. *)
RenderAdReportsFirst(i) ==
  /\ posts' = posts \union {i}
  /\ IF connected
       THEN /\ content' = Shown(i)
            /\ images' = images \union {i}
            /\ displayed' = displayed \union {i}
       ELSE content' = <<"error">> /\ UNCHANGED <<images, displayed>>

(* Mutant: the link is built without looking at the wallet. *)
RenderAdAnyWallet(i) ==
  /\ content' = Shown(i)
  /\ images' = images \union {i}
  /\ displayed' = displayed \union {i}
  /\ posts' = posts \union {i}

(* renderAd: without a wallet, userWallet.publicKey throws and the catch     *)
(* leaves a placeholder; with one, the ad is in the container, its image     *)
(* loads, and trackAdImpression reports it.                                 *)
RenderAd(i) ==
  IF connected
    THEN /\ content' = Shown(i)
         /\ images' = images \union {i}
         /\ displayed' = displayed \union {i}
         /\ posts' = posts \union {i}
    ELSE content' = <<"error">> /\ UNCHANGED <<images, displayed, posts>>

(* The body arrives: an ad, or the message that there is none. *)
Body(i) ==
  /\ stage[i] = "body"
  /\ stage' = [stage EXCEPT ![i] = "done"]
  /\ \/ /\ answer[<<i, attempt[i]>>] = "ad"
        /\ received' = received \union {i}
        /\ RenderAd(i)
     \/ /\ answer[<<i, attempt[i]>>] = "none"
        /\ content' = <<"none">>
        /\ UNCHANGED <<images, displayed, received, posts>>
  /\ UNCHANGED <<container, attempt, connected, sent, server>>

(* The image of an ad has loaded. *)
ImageLoads(i) ==
  /\ i \in images
  /\ images' = images \ {i}
  /\ UNCHANGED <<container, stage, attempt, content, displayed, received,
                 connected, sent, posts, server>>

(* It has not, and the listener replaces whatever the container shows, also *)
(* when the image was taken out of the page.                                *)
ImageFails(i) ==
  /\ i \in images
  /\ images' = images \ {i}
  /\ content' = <<"error">>
  /\ UNCHANGED <<container, stage, attempt, displayed, received,
                 connected, sent, posts, server>>

-----------------------------------------------------------------------------
(* Mutant: the impression is left to the page. *)
ServeAdUncounted(r) ==
  /\ r \in sent
  /\ sent' = sent \ {r}
  /\ answer' = [answer EXCEPT ![r] = "ad"]
  /\ UNCHANGED <<page, connected, posts, immediates, impressions, uncounted>>

(* GET /api/ad with an ad: the impression is queued, the ad is sent. *)
ServeAd(r) ==
  /\ r \in sent
  /\ sent' = sent \ {r}
  /\ answer' = [answer EXCEPT ![r] = "ad"]
  /\ immediates' = immediates \union {r}
  /\ UNCHANGED <<page, connected, posts, impressions, uncounted>>

(* GET /api/ad without an ad, or its catch. *)
ServeNothing(r) ==
  /\ r \in sent
  /\ sent' = sent \ {r}
  /\ \E a \in {"none", "error"} : answer' = [answer EXCEPT ![r] = a]
  /\ UNCHANGED <<page, connected, posts, immediates, impressions, uncounted>>

(* The setImmediate callback records the served ad. *)
RecordServed(r) ==
  /\ r \in immediates
  /\ immediates' = immediates \ {r}
  /\ impressions' = impressions \union {Served(r)}
  /\ UNCHANGED <<page, connected, sent, posts, answer, uncounted>>

(* recordImpression catches the exception of a statement, or the process has *)
(* stopped before its setImmediate ran.                                     *)
CountLost(r) ==
  /\ r \in immediates
  /\ immediates' = immediates \ {r}
  /\ uncounted' = uncounted \union {r}
  /\ UNCHANGED <<page, connected, sent, posts, answer, impressions>>

(* POST /api/impression records the view. *)
RecordViewed(i) ==
  /\ i \in posts
  /\ posts' = posts \ {i}
  /\ impressions' = impressions \union {Viewed(i)}
  /\ UNCHANGED <<page, connected, sent, answer, immediates, uncounted>>

(* A request that never reaches the server, or a view whose row it could    *)
(* not write: the page is told it was.                                      *)
RequestLost ==
  \/ /\ \E r \in sent : sent' = sent \ {r}
     /\ UNCHANGED <<page, connected, posts, server>>
  \/ /\ \E i \in posts : posts' = posts \ {i}
     /\ UNCHANGED <<page, connected, sent, server>>

Next ==
  \/ WalletConnects \/ InsertContainer \/ RequestLost
  \/ \E i \in Chains : \/ InitializeSkipped(i) \/ Initialize(i)
                       \/ TimeOut(i) \/ ConnectionBreaks(i) \/ Retry(i)
                       \/ Headers(i) \/ HttpError(i) \/ Body(i)
                       \/ ImageLoads(i) \/ ImageFails(i) \/ RecordViewed(i)
  \/ \E r \in Requests : ServeAd(r) \/ ServeNothing(r) \/ RecordServed(r) \/ CountLost(r)

Spec == Init /\ [][Next]_vars

(* The page's timers fire.  Nothing is assumed of the network. *)
Fairness == \A i \in Chains : WF_vars(TimeOut(i)) /\ WF_vars(Retry(i))

FairSpec == Spec /\ Fairness

-----------------------------------------------------------------------------
TypeOK ==
  /\ container \in BOOLEAN
  /\ connected \in BOOLEAN
  /\ stage \in [Chains -> Stages]
  /\ attempt \in [Chains -> 1..Attempts]
  /\ content \in Contents
  /\ images \subseteq Chains
  /\ displayed \subseteq Chains
  /\ received \subseteq Chains
  /\ sent \subseteq Requests
  /\ answer \in [Requests -> {"pending", "ad", "none", "error"}]
  /\ immediates \subseteq Requests
  /\ posts \subseteq Chains
  /\ impressions \subseteq {Served(r) : r \in Requests} \union {Viewed(i) : i \in Chains}
  /\ uncounted \subseteq Requests

(* The page reports exactly the ads it shows: nothing for an ad whose render *)
(* failed, nothing for a late answer, once per chain (sdk.js 575-689, 769).  *)
ReportedWasDisplayed ==
  posts \union {i \in Chains : Viewed(i) \in impressions} \subseteq displayed

(* A view the page reports is a second row beside the one of the request    *)
(* that served it, so a view counts once only when the first count was lost *)
(* (adRoutes.js 635, 916).                                                  *)
ViewCountedTwice ==
  \A i \in Chains : Viewed(i) \in impressions =>
    \E r \in Requests : /\ r[1] = i
                        /\ Served(r) \in impressions \/ r \in immediates \union uncounted

(* An ad is shown only with a wallet in its click URL, so every click of a  *)
(* page names a destination (sdk.js 601, adRoutes.js 660).                  *)
AdNamesWallet == displayed # {} => connected

(* An ad that is in the container is replaced only when some chain comes to *)
(* its end or the image of a shown ad fails: no failed attempt, no late     *)
(* answer and no lost request touches it (sdk.js 537-550, 666).             *)
AdStays ==
  [][(\E i \in Chains : content = Shown(i)) /\ content' # content =>
       \/ \E i \in Chains : stage[i] # "done" /\ stage'[i] = "done"
       \/ images' # images]_vars

(* A chain renders once: neither the late answer to an attempt that timed   *)
(* out nor the answer to the attempt after it brings an ended chain back    *)
(* (sdk.js 519, 541, 558-569).                                              *)
ChainEndsOnce == [][\A i \in Chains : stage[i] = "done" => stage'[i] = "done"]_vars

(* Every chain that starts to fetch ends, and the container then shows an   *)
(* ad or a placeholder, whatever server and network do, but for one case: a *)
(* body that stalls for ever, since the time-out is off once the headers    *)
(* are there and response.json() has none (sdk.js 520-550).                 *)
SomethingIsShown ==
  \A i \in Chains : stage[i] = "fetch" ~> \/ stage[i] = "done" /\ content # <<"empty">>
                                          \/ [](stage[i] = "body")

(* "The ad will load automatically" (README.md): an ad that the server      *)
(* answered in time is shown.                                               *)
AnsweredAdIsShown == received \subseteq displayed
=============================================================================
