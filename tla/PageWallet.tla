----------------------------- MODULE PageWallet -----------------------------
(***************************************************************************)
(* What the rest of the SDK may rely on about StellarAdsSDK.userWallet      *)
(* (sdk.js 261, 594, 744, 932, 1157, 1172, 1285): it is null when the page  *)
(* starts, and once it is set it stays set.  WalletHandshake implements it, *)
(* AdDelivery uses it.                                                      *)
(***************************************************************************)
VARIABLE connected   \* userWallet is set, connected is true in it

Init == connected = FALSE

Connect == connected' = TRUE

Spec == Init /\ [][Connect]_connected
=============================================================================
