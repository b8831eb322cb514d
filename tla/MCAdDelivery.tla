---------------------------- MODULE MCAdDelivery ----------------------------
(* A small instance of AdDelivery for TLC. *)
EXTENDS AdDelivery, TLC

(* RETRY_ATTEMPTS of sdk.js. *)
MCAttempts == 2
=============================================================================
