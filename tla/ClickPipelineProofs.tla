------------------------- MODULE ClickPipelineProofs -------------------------
(***************************************************************************)
(* Theorems about ClickPipeline, for any set of clicks, any campaigns,      *)
(* sites, wallets and prices, and any combination of faults.                *)
(***************************************************************************)
EXTENDS ClickPipeline, FiniteSetTheorems, TLAPS

(* Each purpose names a transaction, and different clicks different ones. *)
LEMMA TxsOfClicks ==
  ASSUME NEW c \in Clicks
  PROVE  Reward(c) \in Txs /\ Publisher(c) \in Txs
BY DEF Txs, Reward, Publisher

(* The type invariant is inductive. *)
LEMMA TypeOKInit == Init => TypeOK
BY Prices DEF Init, LedgerInit, TypeOK, LedgerTypeOK, Idle, TxStates

LEMMA TypeOKStep == TypeOK /\ [Next]_vars => TypeOK'
<1> SUFFICES ASSUME TypeOK, [Next]_vars
             PROVE  TypeOK'
  OBVIOUS
<1> USE DEF TypeOK, LedgerTypeOK, Idle, InFlight, Ended, TxStates
<1>1. ASSUME NEW c \in Clicks, HandleClick(c)
      PROVE  TypeOK'
  BY <1>1 DEF HandleClick, Goto, ledgerVars
<1>2. ASSUME NEW c \in Clicks, Continue(c)
      PROVE  TypeOK'
  <2>1. CASE StartReward(c)
    BY <2>1 DEF StartReward, Goto, ledgerVars
  <2>2. CASE RewardSkipped(c)
    BY <2>2 DEF RewardSkipped, RegisterClick, Goto, SetRow, ledgerVars
  <2>3. CASE RewardNotSent(c)
    BY <2>3 DEF RewardNotSent, RegisterClick, Goto, SetRow, ledgerVars
  <2>4. CASE SubmitReward(c)
    BY <2>4, TxsOfClicks DEF SubmitReward, Submit, Goto
  <2>5. CASE RewardReturns(c)
    BY <2>5 DEF RewardReturns, RegisterClick, Goto, SetRow, ledgerVars
  <2>6. CASE PublisherNotSent(c)
    BY <2>6 DEF PublisherNotSent, SettleFailed, Goto, SetRow, ledgerVars
  <2>7. CASE SubmitPublisher(c)
    BY <2>7, TxsOfClicks DEF SubmitPublisher, Submit, Goto
  <2>8. CASE PublisherPaid(c)
    BY <2>8 DEF PublisherPaid, Goto, SetRow, ledgerVars
  <2>9. CASE PublisherErrs(c)
    BY <2>9 DEF PublisherErrs, SettleFailed, Goto, SetRow, ledgerVars
  <2>10. CASE ChargeCampaign(c)
    <3>1. ASSUME NEW k \in Campaigns
          PROVE  spent[k] + Cost[k] \in Nat
      BY Prices
    <3> QED
      BY <2>10, <3>1 DEF ChargeCampaign, Goto, ledgerVars
  <2> QED
    BY <1>2, <2>1, <2>2, <2>3, <2>4, <2>5, <2>6, <2>7, <2>8, <2>9, <2>10 DEF Continue
<1>3. ASSUME NEW t \in Txs, LedgerStep(t)
      PROVE  TypeOK'
  BY <1>3 DEF LedgerStep, Decide, Apply, FailPayment, RefuseStale, Expire, Consume,
              Refuse, serverVars
<1>4. CASE Crash
  BY <1>4 DEF Crash, ledgerVars
<1>5. CASE Restart
  BY <1>5 DEF Restart, ledgerVars
<1>6. CASE UNCHANGED vars
  BY <1>6 DEF vars
<1> QED
  BY <1>1, <1>2, <1>3, <1>4, <1>5, <1>6 DEF Next

(* Type correctness of the click pipeline. *)
THEOREM TypeCorrect == Spec => []TypeOK
<1>1. Init => TypeOK
  BY TypeOKInit
<1>2. TypeOK /\ [Next]_vars => TypeOK'
  BY TypeOKStep
<1> QED
  BY <1>1, <1>2, PTL DEF Spec
-----------------------------------------------------------------------------
(* Transactions of different clicks, or of different purposes, differ. *)
LEMMA TxsDiffer ==
  ASSUME NEW c \in Clicks, NEW d \in Clicks
  PROVE  /\ Reward(c) # Publisher(d)
         /\ Reward(c) = Reward(d) => c = d
         /\ Publisher(c) = Publisher(d) => c = d
BY DEF Reward, Publisher

(* What the network's decision about one transaction does to all of them. *)
LEMMA DecideEffect ==
  ASSUME LedgerTypeOK, NEW t \in Txs, Decide(t)
  PROVE  /\ txStatus[t] = "sent"
         /\ txSeq' = txSeq
         /\ \E s \in {"applied", "failed", "refused"} :
              txStatus' = [txStatus EXCEPT ![t] = s]
BY DEF Decide, Apply, FailPayment, RefuseStale, Expire, Consume, Refuse, LedgerTypeOK

(* Stages, rows and transactions keep agreeing. *)
LEMMA StagesStep ==
  ASSUME TypeOK, StagesAgree, [Next]_vars
  PROVE  StagesAgree'
<1> SUFFICES ASSUME NEW d \in Clicks
             PROVE  StageAgrees(d)'
  BY DEF StagesAgree
<1> USE DEF TypeOK, LedgerTypeOK, StageAgrees, Idle
<1>0. StageAgrees(d) /\ Reward(d) \in Txs /\ Publisher(d) \in Txs
  BY TxsOfClicks DEF StagesAgree
<1>1. ASSUME NEW c \in Clicks, HandleClick(c)
      PROVE  StageAgrees(d)'
  BY <1>0, <1>1 DEF HandleClick, At, Goto, ledgerVars
<1>2. ASSUME NEW c \in Clicks, Continue(c)
      PROVE  StageAgrees(d)'
  <2>0. /\ Reward(c) \in Txs /\ Publisher(c) \in Txs
        /\ Reward(c) # Publisher(d) /\ Publisher(c) # Reward(d)
        /\ Reward(c) = Reward(d) => c = d
        /\ Publisher(c) = Publisher(d) => c = d
        /\ StageAgrees(c)
    BY TxsOfClicks, TxsDiffer DEF StagesAgree
  <2>1. CASE StartReward(c)
    BY <1>0, <2>0, <2>1 DEF StartReward, At, Goto, ledgerVars
  <2>2. CASE RewardSkipped(c)
    BY <1>0, <2>0, <2>2 DEF RewardSkipped, RegisterClick, SetRow, At, Goto, ledgerVars
  <2>3. CASE RewardNotSent(c)
    BY <1>0, <2>0, <2>3 DEF RewardNotSent, RegisterClick, SetRow, At, Goto, ledgerVars
  <2>4. CASE SubmitReward(c)
    BY <1>0, <2>0, <2>4 DEF SubmitReward, Submit, At, Goto
  <2>5. CASE RewardReturns(c)
    BY <1>0, <2>0, <2>5 DEF RewardReturns, Answered, RegisterClick, SetRow, At, Goto,
                            ledgerVars
  <2>6. CASE PublisherNotSent(c)
    BY <1>0, <2>0, <2>6 DEF PublisherNotSent, SettleFailed, SetRow, At, Goto, ledgerVars
  <2>7. CASE SubmitPublisher(c)
    BY <1>0, <2>0, <2>7 DEF SubmitPublisher, Submit, At, Goto
  <2>8. CASE PublisherPaid(c)
    BY <1>0, <2>0, <2>8 DEF PublisherPaid, SetRow, At, Goto, ledgerVars
  <2>9. CASE PublisherErrs(c)
    BY <1>0, <2>0, <2>9 DEF PublisherErrs, SettleFailed, SetRow, At, Goto, ledgerVars
  <2>10. CASE ChargeCampaign(c)
    BY <1>0, <2>0, <2>10 DEF ChargeCampaign, Goto, ledgerVars
  <2> QED
    BY <1>2, <2>1, <2>2, <2>3, <2>4, <2>5, <2>6, <2>7, <2>8, <2>9, <2>10 DEF Continue
<1>3. ASSUME NEW t \in Txs, LedgerStep(t)
      PROVE  StageAgrees(d)'
  <2>1. Decide(t) /\ UNCHANGED <<up, pc, req, row, spent>>
    BY <1>3 DEF LedgerStep, serverVars
  <2> QED
    BY <1>0, <2>1, DecideEffect
<1>4. CASE Crash
  BY <1>0, <1>4 DEF Crash, InFlight, ledgerVars
<1>5. CASE Restart
  BY <1>0, <1>5 DEF Restart, ledgerVars
<1>6. CASE UNCHANGED vars
  BY <1>0, <1>6 DEF vars
<1> QED
  BY <1>1, <1>2, <1>3, <1>4, <1>5, <1>6 DEF Next
-----------------------------------------------------------------------------
(* The clicks charged to a campaign are finitely many. *)
LEMMA ChargedFinite ==
  ASSUME NEW k \in Campaigns
  PROVE  IsFiniteSet(Charged(k)) /\ Cardinality(Charged(k)) \in Nat
<1>1. Charged(k) \in SUBSET Clicks
  BY DEF Charged
<1> QED
  BY <1>1, ClicksFinite, FS_Subset, FS_CardinalityType

(* A step that leaves spent_xlm alone completes no click's success branch. *)
LEMMA ChargedFrame ==
  ASSUME TypeOK, StagesAgree, [Next]_vars,
         NEW k \in Campaigns,
         \A c \in Clicks : ~ ChargeCampaign(c)
  PROVE  Charged(k)' = Charged(k) /\ spent' = spent
<1> SUFFICES /\ spent' = spent
             /\ \A d \in Clicks : d \in Charged(k)' <=> d \in Charged(k)
  BY DEF Charged
<1> USE DEF Charged, TypeOK
<1>1. ASSUME NEW c \in Clicks, HandleClick(c)
      PROVE  /\ spent' = spent
             /\ \A d \in Clicks : d \in Charged(k)' <=> d \in Charged(k)
  BY <1>1 DEF HandleClick, At, Goto, Idle
<1>2. ASSUME NEW c \in Clicks, Continue(c)
      PROVE  /\ spent' = spent
             /\ \A d \in Clicks : d \in Charged(k)' <=> d \in Charged(k)
  <2>1. CASE StartReward(c)
    BY <2>1 DEF StartReward, At, Goto
  <2>2. CASE RewardSkipped(c)
    BY <2>2 DEF RewardSkipped, RegisterClick, SetRow, At, Goto
  <2>3. CASE RewardNotSent(c)
    BY <2>3 DEF RewardNotSent, RegisterClick, SetRow, At, Goto
  <2>4. CASE SubmitReward(c)
    BY <2>4 DEF SubmitReward, At, Goto
  <2>5. CASE RewardReturns(c)
    BY <2>5 DEF RewardReturns, RegisterClick, SetRow, At, Goto
  <2>6. CASE PublisherNotSent(c)
    BY <2>6 DEF PublisherNotSent, SettleFailed, SetRow, At, Goto
  <2>7. CASE SubmitPublisher(c)
    BY <2>7 DEF SubmitPublisher, At, Goto
  <2>8. CASE PublisherPaid(c)
    BY <2>8 DEF PublisherPaid, SetRow, At, Goto
  <2>9. CASE PublisherErrs(c)
    BY <2>9 DEF PublisherErrs, SettleFailed, SetRow, At, Goto
  <2> QED
    BY <1>2, <2>1, <2>2, <2>3, <2>4, <2>5, <2>6, <2>7, <2>8, <2>9 DEF Continue
<1>3. ASSUME NEW t \in Txs, LedgerStep(t)
      PROVE  /\ spent' = spent
             /\ \A d \in Clicks : d \in Charged(k)' <=> d \in Charged(k)
  BY <1>3 DEF LedgerStep, serverVars
<1>4. CASE Crash
  BY <1>4 DEF Crash, InFlight
<1>5. CASE Restart
  BY <1>5 DEF Restart
<1>6. CASE UNCHANGED vars
  BY <1>6 DEF vars
<1> QED
  BY <1>1, <1>2, <1>3, <1>4, <1>5, <1>6 DEF Next

(* spent_xlm follows the clicks charged. *)
LEMMA SpentStep ==
  ASSUME TypeOK, StagesAgree, SpentMatchesCharged, [Next]_vars
  PROVE  SpentMatchesCharged'
<1> SUFFICES ASSUME NEW k \in Campaigns
             PROVE  spent'[k] = Cost[k] * Cardinality(Charged(k)')
  BY DEF SpentMatchesCharged, Charged
<1>0. spent[k] = Cost[k] * Cardinality(Charged(k)) /\ Cost[k] \in Nat
  BY Prices DEF SpentMatchesCharged
<1>1. CASE \A c \in Clicks : ~ ChargeCampaign(c)
  BY <1>0, <1>1, ChargedFrame
<1>2. ASSUME NEW c \in Clicks, ChargeCampaign(c)
      PROVE  spent'[k] = Cost[k] * Cardinality(Charged(k)')
  <2> USE DEF TypeOK
  <2>0. /\ pc[c] = "charge" /\ row[c] = "completed" /\ row' = row /\ req' = req
        /\ req[c].campaign \in Campaigns
    BY <1>2 DEF ChargeCampaign, StagesAgree, StageAgrees, Idle, Requests
  <2>1. CASE /\ spent' = [spent EXCEPT ![req[c].campaign] = @ + Cost[req[c].campaign]]
             /\ Goto(c, "done")
    <3>1. CASE k = req[c].campaign
      <4>1. Charged(k)' = Charged(k) \union {c} /\ c \notin Charged(k)
        BY <2>0, <2>1, <3>1 DEF Charged, Goto
      <4>2. Cardinality(Charged(k)') = Cardinality(Charged(k)) + 1
        BY <4>1, ChargedFinite, FS_AddElement
      <4>3. spent'[k] = spent[k] + Cost[k]
        BY <2>0, <2>1, <3>1
      <4>4. \A a, n \in Nat : a * (n + 1) = a * n + a
        OBVIOUS
      <4> QED
        BY <1>0, <4>2, <4>3, <4>4, ChargedFinite
    <3>2. CASE k # req[c].campaign
      <4>1. Charged(k)' = Charged(k)
        BY <2>0, <2>1, <3>2 DEF Charged, Goto
      <4>2. spent'[k] = spent[k]
        BY <2>0, <2>1, <3>2
      <4> QED
        BY <1>0, <4>1, <4>2
    <3> QED
      BY <3>1, <3>2
  <2>2. CASE Goto(c, "threw") /\ UNCHANGED spent
    <3>1. Charged(k)' = Charged(k)
      BY <2>0, <2>2 DEF Charged, Goto
    <3> QED
      BY <1>0, <2>2, <3>1
  <2> QED
    BY <1>2, <2>1, <2>2 DEF ChargeCampaign
<1> QED
  BY <1>1, <1>2

-----------------------------------------------------------------------------
(* The network's decision keeps the sequence numbers gapless. *)
LEMMA SequenceDecide ==
  ASSUME LedgerTypeOK, SequenceGapless, NEW t \in Txs, Decide(t)
  PROVE  SequenceGapless'
<1> USE DEF LedgerTypeOK, SequenceGapless, Consumed
<1>1. CASE \E s \in {"applied", "failed"} : Consume(t, s)
  BY <1>1 DEF Consume
<1>2. CASE RefuseStale(t)
  BY <1>2 DEF RefuseStale, Refuse
<1>3. CASE Expire(t)
  BY <1>3 DEF Expire, Refuse
<1> QED
  BY <1>1, <1>2, <1>3 DEF Decide, Apply, FailPayment

(* So does the submission of a transaction that was not submitted before. *)
LEMMA SequenceSubmit ==
  ASSUME LedgerTypeOK, SequenceGapless, NEW t \in Txs, txStatus[t] = "none", Submit(t)
  PROVE  SequenceGapless'
BY DEF LedgerTypeOK, SequenceGapless, Consumed, Submit

LEMMA SequenceStep ==
  ASSUME TypeOK, StagesAgree, SequenceGapless, [Next]_vars
  PROVE  SequenceGapless'
<1> USE DEF TypeOK
<1>1. CASE UNCHANGED ledgerVars
  BY <1>1 DEF ledgerVars, SequenceGapless, Consumed
<1>2. ASSUME NEW c \in Clicks, SubmitReward(c)
      PROVE  SequenceGapless'
  BY <1>2, SequenceSubmit, TxsOfClicks DEF SubmitReward, At, StagesAgree, StageAgrees
<1>3. ASSUME NEW c \in Clicks, SubmitPublisher(c)
      PROVE  SequenceGapless'
  BY <1>3, SequenceSubmit, TxsOfClicks DEF SubmitPublisher, At, StagesAgree, StageAgrees
<1>4. ASSUME NEW t \in Txs, LedgerStep(t)
      PROVE  SequenceGapless'
  BY <1>4, SequenceDecide DEF LedgerStep
<1>5. \/ UNCHANGED ledgerVars
      \/ \E c \in Clicks : SubmitReward(c) \/ SubmitPublisher(c)
      \/ \E t \in Txs : LedgerStep(t)
  BY DEF Next, Continue, HandleClick, StartReward, RewardSkipped, RewardNotSent,
         RewardReturns, PublisherNotSent, PublisherPaid, PublisherErrs, ChargeCampaign,
         Crash, Restart, vars, ledgerVars
<1> QED
  BY <1>1, <1>2, <1>3, <1>4, <1>5
-----------------------------------------------------------------------------
(* The inductive invariant holds at the start and is kept by every step. *)
LEMMA PipelineInvInit == Init => PipelineInv
<1> SUFFICES ASSUME Init
             PROVE  PipelineInv
  OBVIOUS
<1> USE DEF Init, LedgerInit
<1>1. TypeOK
  BY TypeOKInit
<1>2. StagesAgree
  BY TxsOfClicks DEF StagesAgree, StageAgrees, Idle
<1>3. SpentMatchesCharged
  <2> SUFFICES ASSUME NEW k \in Campaigns
               PROVE  spent[k] = Cost[k] * Cardinality(Charged(k))
    BY DEF SpentMatchesCharged
  <2>1. Charged(k) = {}
    BY DEF Charged, Idle
  <2> QED
    BY <2>1, FS_EmptySet, Prices
<1>4. SequenceGapless
  BY DEF SequenceGapless, Consumed
<1> QED
  BY <1>1, <1>2, <1>3, <1>4 DEF PipelineInv

LEMMA PipelineInvStep == PipelineInv /\ [Next]_vars => PipelineInv'
BY TypeOKStep, StagesStep, SpentStep, SequenceStep DEF PipelineInv

(* The inductive invariant of the click pipeline. *)
THEOREM PipelineInvariant == Spec => []PipelineInv
BY PipelineInvInit, PipelineInvStep, PTL DEF Spec

(* Completed means paid, with any number of clicks and any faults. *)
THEOREM CompletedPaid == Spec => []CompletedMeansPaid
<1>1. PipelineInv => CompletedMeansPaid
  BY DEF PipelineInv, StagesAgree, StageAgrees, CompletedMeansPaid
<1> QED
  BY <1>1, PipelineInvariant, PTL

(* A publisher is paid only for a click that has a row. *)
THEOREM PaymentRegistered == Spec => []PaymentHasRow
<1>1. PipelineInv => PaymentHasRow
  BY DEF PipelineInv, StagesAgree, StageAgrees, PaymentHasRow
<1> QED
  BY <1>1, PipelineInvariant, PTL

(* spent_xlm is the price of the clicks that were charged, each once. *)
THEOREM SpentExact == Spec => []SpentMatchesCharged
<1>1. PipelineInv => SpentMatchesCharged
  BY DEF PipelineInv
<1> QED
  BY <1>1, PipelineInvariant, PTL

(* A transaction refused for its sequence number lost it to another one. *)
THEOREM ConflictWinner == Spec => []ConflictHasWinner
<1>1. PipelineInv => ConflictHasWinner
  <2> SUFFICES ASSUME PipelineInv, "expire" \notin Faults,
                      NEW t \in Txs, txStatus[t] = "refused"
               PROVE  \E u \in Consumed : u # t /\ txSeq[u] = txSeq[t]
    BY DEF ConflictHasWinner
  <2>1. txSeq[t] \in 1 .. acctSeq
    BY DEF PipelineInv, SequenceGapless, TypeOK, LedgerTypeOK
  <2>2. PICK u \in Consumed : txSeq[u] = txSeq[t]
    BY <2>1 DEF PipelineInv, SequenceGapless
  <2>3. u # t
    BY <2>2 DEF Consumed
  <2> QED
    BY <2>2, <2>3
<1> QED
  BY <1>1, PipelineInvariant, PTL

(* A click never loses the race for the sequence number against itself. *)
THEOREM SelfConflictFree == Spec => []NoSelfConflict
<1>1. PipelineInv => NoSelfConflict
  BY DEF PipelineInv, StagesAgree, StageAgrees, NoSelfConflict
<1> QED
  BY <1>1, PipelineInvariant, PTL

-----------------------------------------------------------------------------
(* When only the process may fail, a click that is worked off had its        *)
(* publisher's payment decided, its row says which way, and its reward took  *)
(* an earlier number.                                                        *)
Calm == Faults \subseteq {"crash", "kill"} /\ PayableSites = Sites

CalmAgrees(c) ==
  /\ txStatus[Reward(c)] # "failed" /\ txStatus[Publisher(c)] # "failed"
  /\ pc[c] = "done" => txStatus[Publisher(c)] \in {"applied", "refused"}
  /\ pc[c] = "done" /\ row[c] = "failed" => txStatus[Publisher(c)] = "refused"
  /\ txStatus[Reward(c)] = "applied" /\ txStatus[Publisher(c)] # "none" =>
       txSeq[Reward(c)] < txSeq[Publisher(c)]

CalmInv == Calm => \A c \in Clicks : CalmAgrees(c)

LEMMA CalmInit == Init => CalmInv
BY TxsOfClicks DEF Init, LedgerInit, CalmInv, CalmAgrees, Idle

LEMMA CalmStep ==
  ASSUME PipelineInv, CalmInv, [Next]_vars
  PROVE  CalmInv'
<1> SUFFICES ASSUME Calm, NEW d \in Clicks
             PROVE  CalmAgrees(d)'
  BY DEF CalmInv, Calm
<1>0. /\ CalmAgrees(d) /\ StageAgrees(d)
      /\ Reward(d) \in Txs /\ Publisher(d) \in Txs /\ Reward(d) # Publisher(d)
      /\ TypeOK /\ LedgerTypeOK /\ SequenceGapless
      /\ {"load", "timeout", "opfail", "db"} \intersect Faults = {}
  BY TxsOfClicks, TxsDiffer DEF CalmInv, Calm, PipelineInv, StagesAgree, TypeOK
<1>1. ASSUME UNCHANGED <<txStatus, txSeq>>,
             pc'[d] = "done" => pc[d] = "done" /\ row'[d] = row[d]
      PROVE  CalmAgrees(d)'
  BY <1>0, <1>1 DEF CalmAgrees
<1>2. ASSUME NEW c \in Clicks,
             \/ HandleClick(c) \/ StartReward(c) \/ RewardSkipped(c) \/ RewardNotSent(c)
             \/ RewardReturns(c) \/ PublisherPaid(c)
      PROVE  CalmAgrees(d)'
  <2>1. /\ UNCHANGED <<txStatus, txSeq>> /\ pc[c] # "done"
        /\ \E st : st # "done" /\ pc' = [pc EXCEPT ![c] = st]
        /\ row' = row \/ \E st : row' = [row EXCEPT ![c] = st]
    BY <1>2 DEF HandleClick, StartReward, RewardSkipped, RewardNotSent, RewardReturns, PublisherPaid,
                RegisterClick, SetRow, At, Goto, Idle, ledgerVars
  <2>2. pc'[d] = "done" => pc[d] = "done" /\ d # c
    BY <1>0, <2>1 DEF TypeOK
  <2>3. d # c => row'[d] = row[d]
    BY <1>0, <2>1 DEF TypeOK
  <2> QED
    BY <1>1, <2>1, <2>2, <2>3
<1>3. ASSUME NEW c \in Clicks, PublisherNotSent(c)
      PROVE  FALSE
  <2>1. pc[c] = "publisherLoad" /\ req[c].site \notin PayableSites
    BY <1>0, <1>3 DEF PublisherNotSent, At
  <2>2. req[c] \in Requests
    BY <2>1 DEF PipelineInv, StagesAgree, StageAgrees, Idle
  <2> QED
    BY <2>1, <2>2 DEF Requests, Calm
<1>4. ASSUME NEW c \in Clicks, SubmitReward(c)
      PROVE  CalmAgrees(d)'
  <2>1. /\ StageAgrees(c) /\ Reward(c) \in Txs /\ Publisher(d) # Reward(c)
        /\ Reward(d) = Reward(c) => d = c
    BY TxsOfClicks, TxsDiffer DEF PipelineInv, StagesAgree
  <2>2. /\ pc[c] = "rewardLoad" /\ pc' = [pc EXCEPT ![c] = "rewardSubmit"] /\ row' = row
        /\ txStatus' = [txStatus EXCEPT ![Reward(c)] = "sent"]
        /\ txSeq' = [txSeq EXCEPT ![Reward(c)] = acctSeq + 1]
    BY <1>4 DEF SubmitReward, Submit, At, Goto
  <2> QED
    BY <1>0, <2>1, <2>2 DEF CalmAgrees, TypeOK, LedgerTypeOK
<1>5. ASSUME NEW c \in Clicks, SubmitPublisher(c)
      PROVE  CalmAgrees(d)'
  <2>1. /\ StageAgrees(c) /\ Publisher(c) \in Txs /\ Reward(d) # Publisher(c)
        /\ Publisher(d) = Publisher(c) => d = c
    BY TxsOfClicks, TxsDiffer DEF PipelineInv, StagesAgree
  <2>2. /\ pc[c] = "publisherLoad" /\ pc' = [pc EXCEPT ![c] = "publisherSubmit"] /\ row' = row
        /\ txStatus' = [txStatus EXCEPT ![Publisher(c)] = "sent"]
        /\ txSeq' = [txSeq EXCEPT ![Publisher(c)] = acctSeq + 1]
    BY <1>5 DEF SubmitPublisher, Submit, At, Goto
  <2>3. txStatus[Reward(d)] = "applied" => txSeq[Reward(d)] < acctSeq + 1
    BY <1>0 DEF SequenceGapless, Consumed, LedgerTypeOK
  <2> QED
    BY <1>0, <2>1, <2>2, <2>3 DEF CalmAgrees, TypeOK, LedgerTypeOK
<1>6. ASSUME NEW c \in Clicks, PublisherErrs(c)
      PROVE  CalmAgrees(d)'
  <2>1. /\ txStatus[Publisher(c)] \in {"failed", "refused"} /\ UNCHANGED <<txStatus, txSeq>>
        /\ pc' = [pc EXCEPT ![c] = "done"] /\ row' = [row EXCEPT ![c] = "failed"]
    BY <1>0, <1>6 DEF PublisherErrs, SettleFailed, SetRow, Goto, ledgerVars
  <2>2. CASE d = c
    BY <1>0, <2>1, <2>2 DEF CalmAgrees
  <2>3. CASE d # c
    BY <1>0, <1>1, <2>1, <2>3 DEF TypeOK
  <2> QED
    BY <2>2, <2>3
<1>7. ASSUME NEW c \in Clicks, ChargeCampaign(c)
      PROVE  CalmAgrees(d)'
  <2>1. /\ pc[c] = "charge" /\ pc' = [pc EXCEPT ![c] = "done"]
        /\ row' = row /\ UNCHANGED <<txStatus, txSeq>>
    BY <1>0, <1>7 DEF ChargeCampaign, Goto, ledgerVars
  <2>2. CASE d = c
    BY <1>0, <2>1, <2>2 DEF CalmAgrees, StageAgrees
  <2>3. CASE d # c
    BY <1>0, <1>1, <2>1, <2>3 DEF TypeOK
  <2> QED
    BY <2>2, <2>3
<1>8. ASSUME NEW t \in Txs, LedgerStep(t)
      PROVE  CalmAgrees(d)'
  <2>1. txStatus[t] = "sent" /\ UNCHANGED <<pc, row, txSeq>>
    BY <1>0, <1>8, DecideEffect DEF LedgerStep, serverVars
  <2>2. \E s \in {"applied", "refused"} : txStatus' = [txStatus EXCEPT ![t] = s]
    BY <1>0, <1>8 DEF LedgerStep, Decide, Apply, FailPayment, RefuseStale, Expire, Consume, Refuse
  <2>3. t = Reward(d) => txStatus[Publisher(d)] = "none"
    BY <1>0, <2>1 DEF StageAgrees
  <2> QED
    BY <1>0, <2>1, <2>2, <2>3 DEF CalmAgrees, LedgerTypeOK
<1>9. CASE Crash
  BY <1>0, <1>1, <1>9 DEF Crash, TypeOK, ledgerVars
<1>10. CASE Restart
  BY <1>0, <1>1, <1>10 DEF Restart, ledgerVars
<1>11. CASE UNCHANGED vars
  BY <1>1, <1>11 DEF vars
<1> QED
  BY <1>2, <1>3, <1>4, <1>5, <1>6, <1>7, <1>8, <1>9, <1>10, <1>11 DEF Next, Continue

(* When all clicks are worked off, the last number went to a payment of a     *)
(* publisher: a reward's own click has submitted a payment after it.          *)
THEOREM PublisherAlwaysPaid == Spec => []SomePublisherPaid
<1>1. PipelineInv /\ CalmInv => SomePublisherPaid
  <2> SUFFICES ASSUME PipelineInv, CalmInv, Calm,
                      \A c \in Clicks : pc[c] \in {Idle, "done"},
                      NEW d \in Clicks, pc[d] = "done"
               PROVE  \E c \in Clicks : row[c] = "completed"
    BY DEF SomePublisherPaid, Calm
  <2>1. /\ \A c \in Clicks : CalmAgrees(c) /\ StageAgrees(c)
        /\ TypeOK /\ LedgerTypeOK /\ SequenceGapless /\ "expire" \notin Faults
    BY DEF CalmInv, PipelineInv, StagesAgree, TypeOK, Calm
  <2>2. \A c \in Clicks : Reward(c) \in Txs /\ Publisher(c) \in Txs
    BY TxsOfClicks
  <2>3. txSeq[Publisher(d)] \in 1 .. acctSeq
    BY <2>1, <2>2 DEF CalmAgrees, SequenceGapless, Consumed, LedgerTypeOK
  <2>4. acctSeq \in 1 .. acctSeq
    BY <2>1, <2>3 DEF LedgerTypeOK
  <2>5. PICK u \in Consumed : txSeq[u] = acctSeq
    BY <2>1, <2>4 DEF SequenceGapless
  <2>6. PICK c \in Clicks : u = Reward(c) \/ u = Publisher(c)
    BY <2>5 DEF Consumed, Txs, Reward, Publisher
  <2>7. txStatus[u] = "applied"
    BY <2>1, <2>5, <2>6 DEF CalmAgrees, Consumed
  <2>8. pc[c] = "done"
    BY <2>1, <2>6, <2>7 DEF StageAgrees, Idle
  <2>9. txStatus[Publisher(c)] = "applied"
    <3>1. ASSUME u = Reward(c), txStatus[Publisher(c)] = "refused"
          PROVE  FALSE
      <4>1. txSeq[Publisher(c)] <= acctSeq
        BY <2>1, <2>2, <3>1 DEF SequenceGapless
      <4>2. acctSeq < txSeq[Publisher(c)]
        BY <2>1, <2>5, <2>7, <3>1 DEF CalmAgrees
      <4> QED
        BY <2>1, <2>2, <4>1, <4>2 DEF LedgerTypeOK
    <3> QED
      BY <2>1, <2>6, <2>7, <2>8, <3>1 DEF CalmAgrees
  <2>10. row[c] \in {"completed", "failed"}
    BY <2>1, <2>8 DEF StageAgrees
  <2> QED
    BY <2>1, <2>8, <2>9, <2>10 DEF CalmAgrees
<1>2. PipelineInv /\ CalmInv /\ [Next]_vars => CalmInv'
  BY CalmStep
<1> QED
  BY <1>1, <1>2, CalmInit, PipelineInvariant, PTL DEF Spec

-----------------------------------------------------------------------------
(* What a click came to agrees with the faults there are. *)
LEMMA OutcomesInit == Init => OutcomesAgree
BY DEF Init, OutcomesAgree, OutcomeAgrees

LEMMA OutcomesStep ==
  ASSUME TypeOK, StagesAgree, OutcomesAgree, [Next]_vars
  PROVE  OutcomesAgree'
<1> SUFFICES ASSUME NEW d \in Clicks
             PROVE  OutcomeAgrees(d)'
  BY DEF OutcomesAgree
<1> USE DEF TypeOK, LedgerTypeOK, OutcomeAgrees
<1>0. OutcomeAgrees(d) /\ StageAgrees(d) /\ Publisher(d) \in Txs
  BY TxsOfClicks DEF OutcomesAgree, StagesAgree
<1>1. ASSUME NEW c \in Clicks, HandleClick(c)
      PROVE  OutcomeAgrees(d)'
  BY <1>0, <1>1 DEF HandleClick, At, Goto, ledgerVars, StageAgrees, Idle
<1>2. ASSUME NEW c \in Clicks, Continue(c)
      PROVE  OutcomeAgrees(d)'
  <2>0. /\ Reward(c) \in Txs /\ Publisher(c) \in Txs /\ Reward(c) # Publisher(d)
        /\ Publisher(c) = Publisher(d) => c = d
    BY TxsOfClicks, TxsDiffer
  <2>1. CASE StartReward(c)
    BY <1>0, <2>1 DEF StartReward, At, Goto, ledgerVars, StageAgrees
  <2>2. CASE RewardSkipped(c)
    BY <1>0, <2>2 DEF RewardSkipped, RegisterClick, SetRow, At, Goto, ledgerVars, StageAgrees
  <2>3. CASE RewardNotSent(c)
    BY <1>0, <2>3 DEF RewardNotSent, RegisterClick, SetRow, At, Goto, ledgerVars, StageAgrees
  <2>4. CASE SubmitReward(c)
    BY <1>0, <2>0, <2>4 DEF SubmitReward, Submit, At, Goto, StageAgrees
  <2>5. CASE RewardReturns(c)
    BY <1>0, <2>5 DEF RewardReturns, RegisterClick, SetRow, At, Goto, ledgerVars, StageAgrees
  <2>6. CASE PublisherNotSent(c)
    BY <1>0, <2>6 DEF PublisherNotSent, SettleFailed, SetRow, At, Goto, ledgerVars, StageAgrees
  <2>7. CASE SubmitPublisher(c)
    BY <1>0, <2>0, <2>7 DEF SubmitPublisher, Submit, At, Goto, StageAgrees
  <2>8. CASE PublisherPaid(c)
    BY <1>0, <2>8 DEF PublisherPaid, SetRow, At, Goto, ledgerVars, StageAgrees
  <2>9. CASE PublisherErrs(c)
    BY <1>0, <2>9 DEF PublisherErrs, SettleFailed, SetRow, At, Goto, ledgerVars, StageAgrees
  <2>10. CASE ChargeCampaign(c)
    BY <1>0, <2>10 DEF ChargeCampaign, Goto, ledgerVars, StageAgrees
  <2> QED
    BY <1>2, <2>1, <2>2, <2>3, <2>4, <2>5, <2>6, <2>7, <2>8, <2>9, <2>10 DEF Continue
<1>3. ASSUME NEW t \in Txs, LedgerStep(t)
      PROVE  OutcomeAgrees(d)'
  <2>1. Decide(t) /\ UNCHANGED <<up, pc, req, row, spent>>
    BY <1>3 DEF LedgerStep, serverVars
  <2> QED
    BY <1>0, <2>1, DecideEffect
<1>4. CASE Crash
  BY <1>0, <1>4 DEF Crash, Running, InFlight, ledgerVars
<1>5. CASE Restart
  BY <1>0, <1>5 DEF Restart, ledgerVars
<1>6. CASE UNCHANGED vars
  BY <1>0, <1>6 DEF vars
<1> QED
  BY <1>1, <1>2, <1>3, <1>4, <1>5, <1>6 DEF Next

(* Colliding clicks, late answers and clean stops leave the books complete:  *)
(* a payment that is not in them, a charge that is missing and a row that is *)
(* never settled each take the fault FaultsExplain names.                    *)
THEOREM FaultsExplained == Spec => []FaultsExplain
<1>1. PipelineInv /\ OutcomesAgree => FaultsExplain
  <2> SUFFICES ASSUME PipelineInv, OutcomesAgree
               PROVE  FaultsExplain
    OBVIOUS
  <2>1. "timeout" \notin Faults => FailedIsUnpaid
    BY DEF OutcomesAgree, OutcomeAgrees, FailedIsUnpaid
  <2>2. ASSUME Faults \intersect {"db", "kill"} = {}, \A c \in Clicks : pc[c] # "charge",
               NEW k \in Campaigns
        PROVE  spent[k] = Cost[k] * Cardinality(Completed(k))
    <3>1. Completed(k) = Charged(k)
      BY <2>2 DEF Completed, Charged, OutcomesAgree, OutcomeAgrees
    <3> QED
      BY <3>1 DEF PipelineInv, SpentMatchesCharged
  <2>3. Faults \intersect {"db", "crash", "kill"} = {} =>
          \A c \in Clicks : row[c] = "pending" => pc[c] \in {"publisherLoad", "publisherSubmit"}
    BY DEF OutcomesAgree, OutcomeAgrees
  <2> QED
    BY <2>1, <2>2, <2>3 DEF FaultsExplain
<1>2. PipelineInv /\ OutcomesAgree /\ [Next]_vars => OutcomesAgree'
  BY OutcomesStep DEF PipelineInv
<1> QED
  BY <1>1, <1>2, OutcomesInit, PipelineInvariant, PTL DEF Spec

-----------------------------------------------------------------------------
(* What a step can do to the rows: nothing, or one move of one row. *)
LEMMA RowStep ==
  ASSUME TypeOK, StagesAgree, [Next]_vars
  PROVE  \/ row' = row
         \/ \E c \in Clicks :
              \/ RegisterClick(c) /\ row[c] = "none" /\ row' = [row EXCEPT ![c] = "pending"]
              \/ SettleFailed(c) /\ row[c] = "pending" /\ row' = [row EXCEPT ![c] = "failed"]
              \/ PublisherPaid(c) /\ row[c] = "pending" /\ row' = [row EXCEPT ![c] = "completed"]
BY DEF Next, Continue, HandleClick, StartReward, RewardSkipped, RewardNotSent,
       SubmitReward, RewardReturns, PublisherNotSent, SubmitPublisher, PublisherPaid,
       PublisherErrs, ChargeCampaign, Crash, Restart, LedgerStep, serverVars, vars,
       RegisterClick, SettleFailed, SetRow, At, StagesAgree, StageAgrees

(* completed and failed are final, and nothing skips pending. *)
THEOREM RowsMoveForward == Spec => RowLifecycle
<1>1. PipelineInv /\ [Next]_vars =>
        [\A c \in Clicks :
           row'[c] # row[c] =>
             \/ row[c] = "none" /\ row'[c] = "pending"
             \/ row[c] = "pending" /\ row'[c] \in {"completed", "failed"}]_vars
  BY RowStep DEF PipelineInv, TypeOK
<1> QED
  BY <1>1, PipelineInvariant, PTL DEF Spec, RowLifecycle
-----------------------------------------------------------------------------
(* How many callbacks a click has still before it, at most. *)
Left == [idle |-> 7, queued |-> 6, rewardLoad |-> 5, rewardSubmit |-> 4,
         publisherLoad |-> 3, publisherSubmit |-> 2, charge |-> 1,
         done |-> 0, threw |-> 0, lost |-> 0]

LEMMA LeftValues ==
  /\ Left["idle"] = 7 /\ Left["queued"] = 6 /\ Left["rewardLoad"] = 5
  /\ Left["rewardSubmit"] = 4 /\ Left["publisherLoad"] = 3 /\ Left["publisherSubmit"] = 2
  /\ Left["charge"] = 1 /\ Left["done"] = 0 /\ Left["threw"] = 0 /\ Left["lost"] = 0
BY DEF Left

(* A step moves one click from a stage to a later one, or loses the clicks in *)
(* flight, or moves none.                                                    *)
LEMMA ClickMoves ==
  ASSUME TypeOK, NEW c \in Clicks, HandleClick(c) \/ Continue(c)
  PROVE  \E next \in InFlight \union Ended :
           pc' = [pc EXCEPT ![c] = next] /\ Left[next] < Left[pc[c]]
<1> USE LeftValues DEF At, Goto, InFlight, Ended
<1>1. CASE HandleClick(c)
  BY <1>1 DEF HandleClick, Idle
<1>2. CASE StartReward(c) \/ SubmitReward(c) \/ SubmitPublisher(c)
  BY <1>2 DEF StartReward, SubmitReward, SubmitPublisher
<1>3. CASE RewardSkipped(c) \/ RewardNotSent(c) \/ RewardReturns(c)
  BY <1>3 DEF RewardSkipped, RewardNotSent, RewardReturns, RegisterClick
<1>4. CASE PublisherNotSent(c) \/ PublisherErrs(c)
  BY <1>4 DEF PublisherNotSent, PublisherErrs, SettleFailed
<1>5. CASE PublisherPaid(c) \/ ChargeCampaign(c)
  BY <1>5 DEF PublisherPaid, ChargeCampaign
<1> QED
  BY <1>1, <1>2, <1>3, <1>4, <1>5 DEF Continue

(* A click has at most seven callbacks: each of its own brings it nearer its *)
(* end and nothing takes it back, neither another click, nor an answer that  *)
(* is late, nor a restart.  This is the safety half of EveryClickSettles.    *)
ClicksAdvance ==
  [][\A c \in Clicks :
       /\ Left[pc'[c]] <= Left[pc[c]]
       /\ HandleClick(c) \/ Continue(c) => Left[pc'[c]] < Left[pc[c]]]_vars

(* Any number of clicks, with any faults (adRoutes.js 675-791).              *)
THEOREM ClicksOnlyAdvance == Spec => ClicksAdvance
<1> DEFINE Advance == \A c \in Clicks :
             /\ Left[pc'[c]] <= Left[pc[c]]
             /\ HandleClick(c) \/ Continue(c) => Left[pc'[c]] < Left[pc[c]]
<1>1. TypeOK /\ [Next]_vars => [Advance]_vars
  <2> SUFFICES ASSUME TypeOK, Next, NEW d \in Clicks
               PROVE  /\ Left[pc'[d]] <= Left[pc[d]]
                      /\ HandleClick(d) \/ Continue(d) => Left[pc'[d]] < Left[pc[d]]
    OBVIOUS
  <2>1. /\ pc[d] \in {Idle} \union InFlight \union Ended
        /\ \A s \in {Idle} \union InFlight \union Ended : Left[s] \in 0 .. 7
        /\ \A s \in Ended : Left[s] = 0
    BY LeftValues DEF TypeOK, Idle, InFlight, Ended
  <2>2. HandleClick(d) \/ Continue(d) => Left[pc'[d]] < Left[pc[d]]
    BY ClickMoves DEF TypeOK
  <2>3. ASSUME NEW c \in Clicks, HandleClick(c) \/ Continue(c)
        PROVE  Left[pc'[d]] <= Left[pc[d]]
    <3>1. PICK next \in InFlight \union Ended :
            pc' = [pc EXCEPT ![c] = next] /\ Left[next] < Left[pc[c]]
      BY <2>3, ClickMoves
    <3> QED
      BY <2>1, <3>1 DEF TypeOK
  <2>4. ASSUME Crash
        PROVE  Left[pc'[d]] <= Left[pc[d]]
    BY <2>1, <2>4 DEF Crash, Ended
  <2>5. ASSUME Restart \/ \E t \in Txs : LedgerStep(t)
        PROVE  Left[pc'[d]] <= Left[pc[d]]
    <3>1. pc' = pc
      BY <2>5 DEF Restart, LedgerStep, serverVars
    <3> QED
      BY <2>1, <3>1
  <2> QED
    BY <2>2, <2>3, <2>4, <2>5 DEF Next
<1> QED
  BY <1>1, TypeCorrect, PTL DEF Spec, ClicksAdvance

-----------------------------------------------------------------------------
(* Implementation of ClickBooks.                                             *)

LEMMA BooksInit == Init => Books!Init
BY TxsOfClicks DEF Init, LedgerInit, Books!Init, BooksCampaign, BooksPaid, BooksCharged, Idle

(* The campaign an accepted click is for. *)
LEMMA BooksCampaignOf ==
  ASSUME TypeOK, StagesAgree, NEW c \in Clicks, pc[c] # Idle
  PROVE  /\ BooksCampaign[c] = req[c].campaign
         /\ BooksCampaign[c] \in Campaigns
         /\ BooksCampaign[c] # NoRequest
BY NoRequestDiffers DEF BooksCampaign, StagesAgree, StageAgrees, Requests

(* recordClick is Register, a failed settlement Fail. *)
LEMMA BooksRows ==
  ASSUME TypeOK, StagesAgree, NEW c \in Clicks, pc[c] \in InFlight \ {"charge"},
         UNCHANGED <<up, req, spent, ledgerVars>>,
         \/ RegisterClick(c) /\ row[c] = "none"
         \/ SettleFailed(c) /\ row[c] = "pending"
  PROVE  [Books!Next]_Books!booksVars
<1> USE DEF TypeOK, Goto, SetRow, InFlight
<1>1. BooksCampaign' = BooksCampaign /\ BooksPaid' = BooksPaid
  BY DEF BooksCampaign, BooksPaid, ledgerVars
<1>2. BooksCharged' = BooksCharged
  BY DEF BooksCharged, RegisterClick, SettleFailed
<1>3. BooksCampaign[c] # NoRequest
  BY BooksCampaignOf DEF Idle
<1>4. CASE RegisterClick(c) /\ row[c] = "none"
  BY <1>1, <1>2, <1>3, <1>4 DEF RegisterClick, Books!Next, Books!Register, Books!booksVars
<1>5. CASE SettleFailed(c) /\ row[c] = "pending"
  BY <1>1, <1>2, <1>5 DEF SettleFailed, Books!Next, Books!Fail, Books!booksVars
<1> QED
  BY <1>4, <1>5

(* A step that only moves a click on between its awaits changes no book. *)
LEMMA BooksStutter ==
  ASSUME TypeOK,
         UNCHANGED <<req, row, spent>>,
         BooksPaid' = BooksPaid,
         BooksCharged' = BooksCharged
  PROVE  [Books!Next]_Books!booksVars
BY DEF BooksCampaign, Books!booksVars

LEMMA BooksStep ==
  ASSUME TypeOK, StagesAgree, [Next]_vars
  PROVE  [Books!Next]_Books!booksVars
<1> USE DEF TypeOK, LedgerTypeOK
<1>1. ASSUME NEW c \in Clicks, HandleClick(c)
      PROVE  [Books!Next]_Books!booksVars
  <2>1. PICK r \in Requests : req' = [req EXCEPT ![c] = r]
    BY <1>1 DEF HandleClick
  <2>2. BooksCampaign[c] = NoRequest
    BY <1>1 DEF BooksCampaign, HandleClick, At, StagesAgree, StageAgrees
  <2>3. BooksCampaign' = [BooksCampaign EXCEPT ![c] = r.campaign] /\ r.campaign \in Campaigns
    BY <2>1, NoRequestDiffers DEF BooksCampaign, Requests
  <2>4. BooksPaid' = BooksPaid /\ BooksCharged' = BooksCharged
    BY <1>1 DEF BooksPaid, BooksCharged, HandleClick, At, Goto, Idle, ledgerVars
  <2>5. Books!Arrive(c)
    BY <1>1, <2>2, <2>3, <2>4 DEF Books!Arrive, HandleClick
  <2> QED
    BY <2>5 DEF Books!Next
<1>2. ASSUME NEW c \in Clicks, Continue(c)
      PROVE  [Books!Next]_Books!booksVars
  <2> USE DEF At
  <2>1. CASE StartReward(c)
    BY <2>1, BooksStutter DEF StartReward, Goto, ledgerVars, BooksPaid, BooksCharged
  <2>2. CASE RewardSkipped(c)
    BY <2>2, BooksRows DEF RewardSkipped, InFlight, StagesAgree, StageAgrees
  <2>3. CASE RewardNotSent(c)
    BY <2>3, BooksRows DEF RewardNotSent, InFlight, StagesAgree, StageAgrees
  <2>4. CASE SubmitReward(c)
    <3>1. BooksPaid' = BooksPaid
      BY <2>4, TxsOfClicks, TxsDiffer DEF SubmitReward, Submit, BooksPaid
    <3>2. BooksCharged' = BooksCharged
      BY <2>4 DEF SubmitReward, Goto, BooksCharged
    <3> QED
      BY <2>4, <3>1, <3>2, BooksStutter DEF SubmitReward
  <2>5. CASE RewardReturns(c)
    BY <2>5, BooksRows DEF RewardReturns, InFlight, StagesAgree, StageAgrees
  <2>6. CASE PublisherNotSent(c)
    BY <2>6, BooksRows DEF PublisherNotSent, InFlight, StagesAgree, StageAgrees
  <2>7. CASE SubmitPublisher(c)
    <3>1. txStatus[Publisher(c)] = "none"
      BY <2>7 DEF SubmitPublisher, StagesAgree, StageAgrees
    <3>2. BooksPaid' = BooksPaid
      BY <2>7, <3>1, TxsOfClicks, TxsDiffer DEF SubmitPublisher, Submit, BooksPaid
    <3>3. BooksCharged' = BooksCharged
      BY <2>7 DEF SubmitPublisher, Goto, BooksCharged
    <3> QED
      BY <2>7, <3>2, <3>3, BooksStutter DEF SubmitPublisher
  <2>8. CASE PublisherPaid(c)
    <3>1. /\ row[c] = "pending"
          /\ c \in BooksPaid
          /\ BooksPaid' = BooksPaid
          /\ BooksCampaign' = BooksCampaign
          /\ BooksCharged' = BooksCharged
      BY <2>8 DEF PublisherPaid, Goto, SetRow, BooksPaid, BooksCampaign, BooksCharged,
                  ledgerVars, StagesAgree, StageAgrees
    <3> QED
      BY <2>8, <3>1 DEF PublisherPaid, SetRow, Books!Next, Books!Complete, Books!booksVars
  <2>9. CASE PublisherErrs(c)
    BY <2>9, BooksRows DEF PublisherErrs, InFlight, StagesAgree, StageAgrees
  <2>10. CASE ChargeCampaign(c)
    <3>1. /\ pc[c] = "charge"
          /\ row[c] = "completed"
          /\ row' = row
          /\ BooksPaid' = BooksPaid
          /\ BooksCampaign' = BooksCampaign
      BY <2>10 DEF ChargeCampaign, BooksPaid, BooksCampaign, ledgerVars, StagesAgree,
                   StageAgrees
    <3>2. CASE /\ spent' = [spent EXCEPT ![req[c].campaign] = @ + Cost[req[c].campaign]]
               /\ Goto(c, "done")
      <4>1. BooksCharged' = BooksCharged \union {c} /\ c \notin BooksCharged
        BY <3>1, <3>2 DEF BooksCharged, Goto
      <4>2. BooksCampaign[c] = req[c].campaign
        BY <3>1, BooksCampaignOf DEF Idle
      <4>3. Books!Charge(c)
        BY <3>1, <3>2, <4>1, <4>2 DEF Books!Charge
      <4> QED
        BY <4>3 DEF Books!Next
    <3>3. CASE Goto(c, "threw") /\ UNCHANGED spent
      <4>1. BooksCharged' = BooksCharged
        BY <3>1, <3>3 DEF BooksCharged, Goto
      <4> QED
        BY <2>10, <3>1, <3>3, <4>1, BooksStutter DEF ChargeCampaign
    <3> QED
      BY <2>10, <3>2, <3>3 DEF ChargeCampaign
  <2> QED
    BY <1>2, <2>1, <2>2, <2>3, <2>4, <2>5, <2>6, <2>7, <2>8, <2>9, <2>10 DEF Continue
<1>3. ASSUME NEW t \in Txs, LedgerStep(t)
      PROVE  [Books!Next]_Books!booksVars
  <2>1. Decide(t) /\ UNCHANGED <<up, pc, req, row, spent>>
    BY <1>3 DEF LedgerStep, serverVars
  <2>2. PICK s \in {"applied", "failed", "refused"} :
          txStatus[t] = "sent" /\ txStatus' = [txStatus EXCEPT ![t] = s]
    BY <2>1, DecideEffect
  <2>3. BooksCharged' = BooksCharged /\ BooksCampaign' = BooksCampaign
    BY <2>1 DEF BooksCharged, BooksCampaign
  <2>4. CASE \E c \in Clicks : t = Publisher(c) /\ s = "applied"
    <3>1. PICK c \in Clicks : t = Publisher(c) /\ s = "applied"
      BY <2>4
    <3>2. BooksPaid' = BooksPaid \union {c} /\ c \notin BooksPaid
      BY <2>2, <3>1, TxsOfClicks, TxsDiffer DEF BooksPaid
    <3>3. row[c] # "none"
      BY <2>2, <3>1 DEF StagesAgree, StageAgrees
    <3> QED
      BY <2>1, <2>3, <3>2, <3>3 DEF Books!Next, Books!Pay
  <2>5. CASE \A c \in Clicks : ~ (t = Publisher(c) /\ s = "applied")
    <3>1. BooksPaid' = BooksPaid
      BY <2>2, <2>5, TxsOfClicks DEF BooksPaid
    <3> QED
      BY <2>1, <2>3, <3>1, BooksStutter
  <2> QED
    BY <2>4, <2>5
<1>4. CASE Crash
  BY <1>4, BooksStutter DEF Crash, InFlight, ledgerVars, BooksPaid, BooksCharged
<1>5. CASE Restart
  BY <1>5, BooksStutter DEF Restart, ledgerVars, BooksPaid, BooksCharged
<1>6. CASE UNCHANGED vars
  BY <1>6, BooksStutter DEF vars, BooksPaid, BooksCharged
<1> QED
  BY <1>1, <1>2, <1>3, <1>4, <1>5, <1>6 DEF Next

(* The pipeline implements ClickBooks. *)
THEOREM ImplementsBooks == Spec => KeepsBooks
<1>1. PipelineInv /\ [Next]_vars => [Books!Next]_Books!booksVars
  BY BooksStep DEF PipelineInv
<1> QED
  BY <1>1, BooksInit, PipelineInvariant, PTL DEF Spec, KeepsBooks, Books!Spec
=============================================================================
