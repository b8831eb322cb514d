-------------------------- MODULE MCVisitorRewards --------------------------
(* Small instances of VisitorRewards for TLC. *)
EXTENDS VisitorRewards, TLC

CONSTANTS inherited, fresh   \* a wallet with a row in user_wallets, one without

(* Ticks are the quarters of a day, so that six hours before a moment is the *)
(* quarter before: from an evening, 3, to the morning after the night, 5.    *)
MCDayLength == 4
MCCooldown  == 1
MCStart     == 3
MCEnd       == 5
=============================================================================
