-------------------------- MODULE MCWalletHandshake --------------------------
(* A small instance of WalletHandshake for TLC. *)
EXTENDS WalletHandshake, TLC

(* One poll and one that gives up; a second timer by reconnectWallet. *)
MCMaxPolls  == 1
MCMaxTimers == 2
=============================================================================
