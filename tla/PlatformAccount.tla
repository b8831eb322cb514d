--------------------------- MODULE PlatformAccount ---------------------------
(***************************************************************************)
(* The platform's one Stellar account, as the payment code meets it through *)
(* Horizon: loadAccount reads the account's sequence number, a transaction  *)
(* is built for the number after it, and submitTransaction answers once the *)
(* network has decided.  External: modelled from the calls in               *)
(* adMatchingService.js and stellarService.js.                              *)
(*                                                                         *)
(* A click can make the platform sign two transactions: the user's reward   *)
(* and the publisher's payment.                                             *)
(***************************************************************************)
EXTENDS Integers, FiniteSets

CONSTANTS Clicks,    \* click requests, each a call of GET /api/click
          Faults     \* what may go wrong in a run; a subset of FaultKinds

(* "load"     loadAccount rejects                                          *)
(* "timeout"  submitTransaction rejects although the network is undecided  *)
(*            or has decided (HTTP timeout, 504, connection reset)         *)
(* "opfail"   the transaction takes its sequence number and its payment    *)
(*            fails (no destination account, platform underfunded)         *)
(* "expire"   never included: the 30 s time bound passes                   *)
(* "db"       a SQLite statement throws (disk full, I/O error, locked)     *)
(* "crash"    SIGTERM or SIGINT: process.exit between two callbacks        *)
(* "kill"     the process dies anywhere, also inside a callback            *)
FaultKinds ==
  {"load", "timeout", "opfail", "expire", "db", "crash", "kill"}

ASSUME ClicksFinite == IsFiniteSet(Clicks)
ASSUME FaultsKnown  == Faults \subseteq FaultKinds

VARIABLES acctSeq,   \* last sequence number the account has consumed
          txStatus,  \* what became of each transaction
          txSeq      \* sequence number each transaction was built with

ledgerVars == <<acctSeq, txStatus, txSeq>>

Txs      == Clicks \X {"reward", "publisher"}
TxStates == {"none", "sent", "applied", "failed", "refused"}
Consumed == {t \in Txs : txStatus[t] \in {"applied", "failed"}}

LedgerTypeOK ==
  /\ acctSeq \in Nat
  /\ txStatus \in [Txs -> TxStates]
  /\ txSeq \in [Txs -> Nat]

LedgerInit ==
  /\ acctSeq = 0
  /\ txStatus = [t \in Txs |-> "none"]
  /\ txSeq = [t \in Txs |-> 0]

-----------------------------------------------------------------------------
(* Used by the server: sign and submit t, built from a loadAccount answered *)
(* in this same callback.  Horizon's read and the callback are one step:    *)
(* everything the callback does commutes with what others do in between,    *)
(* and the submission itself stays a separate, later decision.              *)
Submit(t) ==
  /\ txStatus' = [txStatus EXCEPT ![t] = "sent"]
  /\ txSeq' = [txSeq EXCEPT ![t] = acctSeq + 1]
  /\ UNCHANGED acctSeq

Consume(t, outcome) ==
  /\ txStatus[t] = "sent"
  /\ txSeq[t] = acctSeq + 1
  /\ acctSeq' = acctSeq + 1
  /\ txStatus' = [txStatus EXCEPT ![t] = outcome]
  /\ UNCHANGED txSeq

Apply(t) == Consume(t, "applied")

FailPayment(t) ==
  /\ "opfail" \in Faults
  /\ Consume(t, "failed")

Refuse(t) ==
  /\ txStatus[t] = "sent"
  /\ txStatus' = [txStatus EXCEPT ![t] = "refused"]
  /\ UNCHANGED <<acctSeq, txSeq>>

(* tx_bad_seq: another transaction took the number first. *)
RefuseStale(t) ==
  /\ txSeq[t] # acctSeq + 1
  /\ Refuse(t)

(* tx_too_late. *)
Expire(t) ==
  /\ "expire" \in Faults
  /\ Refuse(t)

(* The network decides the fate of t. *)
Decide(t) ==
  \/ Apply(t)
  \/ FailPayment(t)
  \/ RefuseStale(t)
  \/ Expire(t)
=============================================================================
