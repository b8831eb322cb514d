------------------------------- MODULE AdPage -------------------------------
(***************************************************************************)
(* One page with the whole SDK in it: the wallet handshakes and the ad      *)
(* delivery, which share StellarAdsSDK.userWallet.  WalletHandshake writes  *)
(* it, renderAd reads it (sdk.js 601).  The page is the conjunction of the  *)
(* two specifications, so that a task of the event loop may belong to       *)
(* either or, as initializeStellarAds does, to both.                        *)
(***************************************************************************)
EXTENDS FiniteSets, Naturals, TLAPS

CONSTANTS Calls, Accounts, NoAccount, MaxPolls, MaxTimers,   \* of WalletHandshake
          Chains, Attempts                                   \* of AdDelivery

VARIABLES installed, boot, kind, pc, promise, listening, asked, isConnected,
          currentAccount, userWallet, isConnecting, attempts, polls, granted, refused,
          container, stage, attempt, content, images, displayed, received, sent,
          answer, immediates, posts, impressions, uncounted

Handshake == INSTANCE WalletHandshakeProofs

Delivery == INSTANCE AdDeliveryProofs WITH connected <- userWallet # NoAccount

Spec == Handshake!Spec /\ Delivery!Spec

(* What the two modules assume of their constants. *)
PageConstants ==
  /\ IsFiniteSet(Calls) /\ NoAccount \notin Accounts
  /\ MaxPolls \in Nat /\ MaxTimers \in Nat
  /\ IsFiniteSet(Chains) /\ Attempts \in Nat \ {0}

-----------------------------------------------------------------------------
(* The constants satisfy the assumptions of both modules. *)
LEMMA ConstantsFit ==
  ASSUME PageConstants
  PROVE  Handshake!IsFiniteSet(Calls) /\ Delivery!IsFiniteSet(Chains)
BY DEF PageConstants, IsFiniteSet, Handshake!IsFiniteSet, Delivery!IsFiniteSet

(* The handshakes alone already give the delivery the wallet it relies on,   *)
(* so the conjunction rules out no handshake: whatever the extension answers,*)
(* userWallet starts as null and, once set, stays set (sdk.js 261, 1157,     *)
(* 1172, 1285).                                                              *)
THEOREM WalletAsAssumed ==
  ASSUME PageConstants
  PROVE  Handshake!Spec => Delivery!wallet!Spec
<1>1. Handshake!Spec => Handshake!ImplementsPageWallet
  BY ConstantsFit, Handshake!ImplementsWallet DEF PageConstants
<1>2. Handshake!Wallet!Init => Delivery!wallet!Init
  BY DEF Handshake!Wallet!Init, Delivery!wallet!Init
<1>3. [Handshake!Wallet!Connect]_(userWallet # NoAccount)
        => [Delivery!wallet!Connect]_(userWallet # NoAccount)
  BY DEF Handshake!Wallet!Connect, Delivery!wallet!Connect
<1> QED
  BY <1>1, <1>2, <1>3, PTL
     DEF Handshake!ImplementsPageWallet, Handshake!Wallet!Spec, Delivery!wallet!Spec

(* An ad is shown, and a view reported, only in a page whose wallet is one   *)
(* its user granted and whose interface knows it is connected: no late or    *)
(* crossed answer of the extension, no time-out and no retry of the fetch    *)
(* gets an ad into a page that cannot name the wallet its clicks pay         *)
(* (sdk.js 70-94, 601, 769).                                                 *)
ShownAdsPayGranted ==
  displayed \union posts \union {i \in Chains : Delivery!Viewed(i) \in impressions} # {} =>
    isConnected /\ {userWallet, currentAccount} \subseteq granted

(* With any number of calls, initialisations and attempts, whatever the      *)
(* extension, the server and the network answer and when (sdk.js 601, 1285). *)
THEOREM ShownAdsAlwaysPayGranted ==
  ASSUME PageConstants
  PROVE  Spec => []ShownAdsPayGranted
<1>1. Handshake!WalletMeansGranted /\ Delivery!AdNamesWallet /\ Delivery!ReportedWasDisplayed
        => ShownAdsPayGranted
  BY DEF Handshake!WalletMeansGranted, Delivery!AdNamesWallet, Delivery!ReportedWasDisplayed,
         ShownAdsPayGranted
<1>2. Handshake!Spec => []Handshake!WalletMeansGranted
  BY ConstantsFit, Handshake!WalletsAreGranted DEF PageConstants
<1>3. Delivery!Spec => []Delivery!AdNamesWallet
  BY ConstantsFit, Delivery!AdsNameWallets DEF PageConstants
<1>4. Delivery!Spec => []Delivery!ReportedWasDisplayed
  BY ConstantsFit, Delivery!ReportsFollowDisplays DEF PageConstants
<1> QED
  BY <1>1, <1>2, <1>3, <1>4, PTL DEF Spec
=============================================================================
