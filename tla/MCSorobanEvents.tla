-------------------------- MODULE MCSorobanEvents --------------------------
(* A small instance of SorobanEvents for TLC. *)
EXTENDS SorobanEvents, TLC

CONSTANT k1

(* The campaign can pay one event. *)
MCDeposit == k1 :> Price
=============================================================================
