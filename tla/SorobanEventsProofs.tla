------------------------- MODULE SorobanEventsProofs -------------------------
(***************************************************************************)
(* Theorems about SorobanEvents, for any requests, campaigns, publishers,   *)
(* prices and faults.                                                        *)
(***************************************************************************)
EXTENDS SorobanEvents, FiniteSetTheorems, TLAPS

LEMMA TypeOKInit == Init => TypeOK
BY Amounts DEF Init, TypeOK, Settings

(* An acknowledged order must be known to set something. *)
LEMMA TypeOKStep == TypeOK /\ AloneHasLastWord /\ [Next]_vars => TypeOK'
<1> SUFFICES ASSUME TypeOK, AloneHasLastWord, [Next]_vars
             PROVE  TypeOK'
  OBVIOUS
<1> USE DEF TypeOK, InFlight, Ended, Goto, serverVars, contractVars, operatorVars
<1>1. ASSUME NEW c \in Clicks, HandleClick(c)
      PROVE  TypeOK'
  <2>1. \A k \in Campaigns, p \in Publishers :
          [op |-> "click", campaign |-> k, publisher |-> p] \in Orders
    BY DEF Orders, EventOrders
  <2> QED
    BY <1>1, <2>1 DEF HandleClick, Requests, Events
<1>2. ASSUME NEW v \in Views, HandleView(v)
      PROVE  TypeOK'
  BY <1>2 DEF HandleView, Ask, Orders, Requests, Events
<1>3. ASSUME NEW a \in Admins, Administer(a)
      PROVE  TypeOK'
  <2>1. ASSUME NEW s \in Settings, NEW v \in BOOLEAN, Command(a, s, v)
        PROVE  TypeOK'
    <3>1. [op |-> "set", setting |-> s, value |-> v] \in Orders
      BY DEF Orders, SetOrders
    <3>2. alone' \subseteq Admins
      BY <2>1 DEF Command
    <3> QED
      BY <2>1, <3>1, <3>2 DEF Command, Ask, Requests, Events
  <2>2. CASE RefundUnspent(a)
    <3>1. \A k \in Campaigns : [op |-> "refund", campaign |-> k] \in Orders
      BY DEF Orders, RefundOrders
    <3> QED
      BY <2>2, <3>1 DEF RefundUnspent, Ask, Requests, Events
  <2>3. \A s \in {"paused", "owner", "verifier", "config", "minted"} \union Publishers
                \union Campaigns : s \in Settings
    BY DEF Settings, Facts
  <2> QED
    BY <1>3, <2>1, <2>2, <2>3
       DEF Administer, PauseProtocol, UnpauseProtocol, SetPublisherStatus, CloseCampaign,
           InitRegistry, AddVerifier, InitAdVault, MintTokens
<1>4. ASSUME NEW r \in Requests, Continue(r)
      PROVE  TypeOK'
  <2>1. CASE r \in Clicks /\ RegisterClick(r)
    BY <2>1 DEF RegisterClick, Ask
  <2>2. CASE r \in Clicks /\ CompleteClick(r)
    BY <2>2 DEF CompleteClick
  <2>3. CASE r \in Clicks /\ ChargeCampaign(r)
    <3>1. \A k \in Campaigns : spent[k] + Price \in Nat
      BY Amounts
    <3> QED
      BY <2>3, <3>1 DEF ChargeCampaign
  <2>4. CASE r \in Clicks /\ FailClick(r)
    BY <2>4 DEF FailClick
  <2>5. CASE r \in Views /\ AnswerView(r)
    BY <2>5 DEF AnswerView
  <2>6. CASE r \in Admins /\ Acknowledge(r)
    BY <2>6 DEF Acknowledge, AloneHasLastWord, SetOrders
  <2>7. CASE r \in Admins /\ ReportError(r)
    BY <2>7 DEF ReportError
  <2> QED
    BY <1>4, <2>1, <2>2, <2>3, <2>4, <2>5, <2>6, <2>7 DEF Continue
<1>5. ASSUME NEW r \in Requests, Contracts(r)
      PROVE  TypeOK'
  <2>1. CASE PayEvent(r)
    <3>1. funds[order[r].campaign] - Price \in Nat
      BY <2>1, Amounts DEF PayEvent, Payable, EventOrders
    <3> QED
      BY <1>5, <2>1, <3>1 DEF Contracts, PayEvent, Decide
  <2>2. CASE SetSetting(r)
    BY <1>5, <2>2 DEF Contracts, SetSetting, Decide, SetOrders
  <2>3. CASE Refund(r)
    BY <1>5, <2>3 DEF Contracts, Refund, Decide
  <2>4. CASE Refuse(r)
    BY <1>5, <2>4 DEF Contracts, Refuse, Decide
  <2> QED
    BY <1>5, <2>1, <2>2, <2>3, <2>4 DEF Contracts
<1>6. CASE Restart
  BY <1>6, Amounts DEF Restart
<1>7. CASE UNCHANGED vars
  BY <1>7 DEF vars
<1> QED
  BY <1>1, <1>2, <1>3, <1>4, <1>5, <1>6, <1>7 DEF Next

-----------------------------------------------------------------------------
(* Orders of events and orders of the operator differ. *)
LEMMA OrdersDiffer == EventOrders \intersect SetOrders = {} /\ NoOrder \notin SetOrders
BY RequestsDiffer DEF EventOrders, SetOrders, Orders

LEMMA OperatorInit == Init => OperatorInv
BY DEF Init, OperatorInv, OrdersMatch, AloneHasLastWord, ToldStands, Events, Requests

(* Requests keep the kind of order they came with. *)
LEMMA OrdersMatchStep ==
  ASSUME TypeOK, OrdersMatch, [Next]_vars
  PROVE  OrdersMatch'
<1> USE DEF OrdersMatch, TypeOK, Requests, Events, At, Comes, Goto, Ask, contractVars,
            serverVars, operatorVars
<1>1. ASSUME NEW c \in Clicks, HandleClick(c)
      PROVE  OrdersMatch'
  <2>1. \A k \in Campaigns, p \in Publishers :
          [op |-> "click", campaign |-> k, publisher |-> p] \in EventOrders
    BY DEF EventOrders
  <2> QED
    BY <1>1, <2>1 DEF HandleClick
<1>2. ASSUME NEW v \in Views, HandleView(v)
      PROVE  OrdersMatch'
  BY <1>2 DEF HandleView
<1>3. ASSUME NEW a \in Admins, Administer(a)
      PROVE  OrdersMatch'
  <2>1. ASSUME NEW o, Comes(a), Ask(a, o)
        PROVE  OrdersMatch'
    BY <2>1, RequestsDiffer
  <2> QED
    BY <1>3, <2>1
       DEF Administer, Command, PauseProtocol, UnpauseProtocol, SetPublisherStatus,
           CloseCampaign, InitRegistry, AddVerifier, InitAdVault, MintTokens, RefundUnspent
<1>4. ASSUME NEW r \in Requests, Continue(r)
      PROVE  OrdersMatch'
  <2>1. CASE r \in Clicks /\ RegisterClick(r)
    BY <2>1 DEF RegisterClick
  <2>2. CASE r \in Clicks /\ (CompleteClick(r) \/ ChargeCampaign(r) \/ FailClick(r))
    BY <2>2 DEF CompleteClick, ChargeCampaign, FailClick
  <2>3. CASE r \in Views /\ AnswerView(r)
    BY <2>3 DEF AnswerView
  <2>4. CASE r \in Admins /\ (Acknowledge(r) \/ ReportError(r))
    BY <2>4 DEF Acknowledge, ReportError
  <2> QED
    BY <1>4, <2>1, <2>2, <2>3, <2>4 DEF Continue
<1>5. ASSUME NEW r \in Requests, Contracts(r)
      PROVE  OrdersMatch'
  BY <1>5 DEF Contracts, PayEvent, SetSetting, Refund, Refuse, Decide
<1>6. CASE Restart
  BY <1>6 DEF Restart, InFlight
<1>7. CASE UNCHANGED vars
  BY <1>7 DEF vars
<1> QED
  BY <1>1, <1>2, <1>3, <1>4, <1>5, <1>6, <1>7 DEF Next
-----------------------------------------------------------------------------
(* A step of the server or the contracts that touches neither the orders of  *)
(* the operator nor a setting, nor what the operator was told, keeps both.    *)
LEMMA OtherSteps ==
  ASSUME AloneHasLastWord, ToldStands,
         \A a \in Admins : order'[a] = order[a] /\ fate'[a] = fate[a],
         setting' = setting, told' = told, alone' = alone, alone \subseteq Admins
  PROVE  AloneHasLastWord' /\ ToldStands'
BY DEF AloneHasLastWord, ToldStands, Settled, OrdersOf

(* An order goes out. *)
LEMMA CommandStep ==
  ASSUME TypeOK, OperatorInv, NEW a \in Admins, NEW s \in Settings, NEW v \in BOOLEAN,
         Command(a, s, v)
  PROVE  AloneHasLastWord' /\ ToldStands'
<1> DEFINE o == [op |-> "set", setting |-> s, value |-> v]
<1>1. o \in SetOrders /\ o.setting = s /\ o.value = v
  BY DEF SetOrders
<1>2. /\ order' = [order EXCEPT ![a] = o] /\ fate' = [fate EXCEPT ![a] = "sent"]
      /\ setting' = setting /\ told' = [told EXCEPT ![s] = Unknown]
      /\ alone' = (alone \ OrdersOf(s))
                  \union {b \in {a} : \A d \in OrdersOf(s) : fate[d] # "sent"}
      /\ order[a] = NoOrder /\ fate[a] = "none"
  BY DEF Command, Ask, Comes, At, contractVars, OperatorInv, OrdersMatch, Requests
<1> HIDE DEF o
<1>3. /\ order'[a] = o /\ fate'[a] = "sent"
      /\ \A d \in Admins \ {a} : order'[d] = order[d] /\ fate'[d] = fate[d]
  BY <1>2 DEF TypeOK, Requests
<1>4. \A t \in Settings : OrdersOf(t)' = IF t = s THEN OrdersOf(t) \union {a} ELSE OrdersOf(t)
  BY <1>1, <1>2, <1>3, OrdersDiffer DEF OrdersOf
<1>5. ASSUME NEW b \in alone'
      PROVE  /\ order'[b] \in SetOrders /\ fate'[b] # "none"
             /\ Settled(order[b].setting, b)'
             /\ fate'[b] = "applied" => setting'[order'[b].setting] = order'[b].value
  <2>1. CASE b = a
    <3>1. \A d \in OrdersOf(s) : fate[d] # "sent"
      BY <1>2, <2>1, OrdersDiffer DEF OperatorInv, AloneHasLastWord
    <3>2. order'[b].setting = s
      BY <1>1, <1>3, <2>1
    <3>3. \A d \in OrdersOf(s)' \ {b} : fate'[d] # "sent"
      BY <1>3, <1>4, <2>1, <3>1 DEF OrdersOf
    <3> QED
      BY <1>1, <1>3, <2>1, <3>2, <3>3 DEF Settled
  <2>2. CASE b # a
    <3>1. b \in alone /\ b \in Admins /\ b \notin OrdersOf(s)
      BY <1>2, <2>2 DEF TypeOK
    <3>2. /\ order[b] \in SetOrders /\ fate[b] # "none" /\ Settled(order[b].setting, b)
          /\ fate[b] = "applied" => setting[order[b].setting] = order[b].value
      BY <3>1 DEF OperatorInv, AloneHasLastWord
    <3>3. order[b].setting # s /\ order[b].setting \in Settings
      BY <3>1, <3>2 DEF OrdersOf, SetOrders
    <3>4. \A d \in OrdersOf(order[b].setting)' \ {b} : fate'[d] # "sent"
      <4>1. \A d \in OrdersOf(order[b].setting) : d # a
        BY <1>2, OrdersDiffer DEF OrdersOf
      <4>2. OrdersOf(order[b].setting)' = OrdersOf(order[b].setting)
        <5>1. \A d \in Admins \ {a} : order'[d] = order[d]
          BY <1>3
        <5>2. a \notin OrdersOf(order[b].setting)'
          BY <1>1, <1>3, <2>2, <3>1, <3>3 DEF OrdersOf
        <5>3. order'[b] = order[b]
          BY <1>3, <2>2, <3>1
        <5> QED
          BY <4>1, <5>1, <5>2, <5>3 DEF OrdersOf
      <4> QED
        BY <1>3, <3>1, <3>2, <4>1, <4>2, <2>2 DEF Settled, OrdersOf
    <3> QED
      BY <1>2, <1>3, <2>2, <3>1, <3>2, <3>4 DEF Settled
  <2> QED
    BY <2>1, <2>2
<1>6. AloneHasLastWord'
  BY <1>5 DEF AloneHasLastWord
<1>7. ToldStands'
  <2> SUFFICES ASSUME NEW t \in Settings, told'[t] # Unknown
               PROVE  setting'[t] = told'[t] /\ \A d \in OrdersOf(t)' : fate'[d] # "sent"
    BY DEF ToldStands
  <2>1. t # s /\ told'[t] = told[t]
    BY <1>2 DEF TypeOK
  <2>2. a \notin OrdersOf(t)
    BY <1>2, OrdersDiffer DEF OrdersOf
  <2> QED
    BY <1>2, <1>3, <1>4, <2>1, <2>2 DEF OperatorInv, ToldStands, OrdersOf
<1> QED
  BY <1>6, <1>7
-----------------------------------------------------------------------------
(* An order is answered with success. *)
LEMMA AcknowledgeStep ==
  ASSUME TypeOK, OperatorInv, NEW a \in Admins, Acknowledge(a)
  PROVE  AloneHasLastWord' /\ ToldStands'
<1>1. UNCHANGED <<order, fate, setting, alone>> /\ fate[a] = "applied"
  BY DEF Acknowledge, Accepted, contractVars
<1>2. AloneHasLastWord'
  BY <1>1 DEF OperatorInv, AloneHasLastWord, Settled, OrdersOf
<1>3. CASE a \notin alone
  BY <1>1, <1>2, <1>3 DEF Acknowledge, OperatorInv, ToldStands, OrdersOf
<1>4. CASE a \in alone
  <2> DEFINE s == order[a].setting
  <2>1. /\ Settled(s, a) /\ setting[s] = order[a].value
        /\ told' = [told EXCEPT ![s] = order[a].value]
    BY <1>1, <1>4 DEF Acknowledge, OperatorInv, AloneHasLastWord
  <2>2. \A d \in OrdersOf(s) : fate[d] # "sent"
    BY <1>1, <2>1 DEF Settled
  <2> HIDE DEF s
  <2>3. \A t \in Settings : told'[t] = IF t = s THEN setting[s] ELSE told[t]
    BY <2>1 DEF TypeOK
  <2>4. \A t \in Settings : OrdersOf(t)' = OrdersOf(t)
    BY <1>1 DEF OrdersOf
  <2>5. ToldStands'
    BY <1>1, <2>2, <2>3, <2>4 DEF OperatorInv, ToldStands
  <2> QED
    BY <1>2, <2>5
<1> QED
  BY <1>2, <1>3, <1>4

(* The contracts decide a request. *)
LEMMA ContractsStep ==
  ASSUME TypeOK, OperatorInv, NEW r \in Requests, Contracts(r)
  PROVE  AloneHasLastWord' /\ ToldStands'
<1>1. /\ UNCHANGED <<order, told, alone>> /\ fate[r] = "sent"
      /\ \E f \in {"applied", "refused"} : fate' = [fate EXCEPT ![r] = f]
  BY DEF Contracts, PayEvent, SetSetting, Refund, Refuse, Decide, operatorVars
<1>2. \A s \in Settings : OrdersOf(s)' = OrdersOf(s)
  BY <1>1 DEF OrdersOf
<1>3. \A q \in Requests :
        /\ fate'[q] = "sent" => fate[q] = "sent"
        /\ fate'[q] = "none" => fate[q] = "none"
        /\ q # r => fate'[q] = fate[q]
  BY <1>1 DEF TypeOK
<1>4. \A s \in Settings : told[s] # Unknown => r \notin OrdersOf(s)
  BY <1>1 DEF OperatorInv, ToldStands
<1>5. \A a \in alone : a # r => ~(order[r] \in SetOrders /\ order[r].setting = order[a].setting)
  <2> SUFFICES ASSUME NEW a \in alone, a # r, order[r] \in SetOrders,
                      order[r].setting = order[a].setting
               PROVE  FALSE
    OBVIOUS
  <2>1. r \in Admins
    BY OrdersDiffer DEF OperatorInv, OrdersMatch, Requests, Events
  <2>2. r \in OrdersOf(order[a].setting)
    BY <2>1 DEF OrdersOf
  <2> QED
    BY <1>1, <2>2 DEF OperatorInv, AloneHasLastWord, Settled
<1>6. ASSUME NEW a \in alone
      PROVE  /\ a \in Requests /\ order[a] \in SetOrders /\ order[a].setting \in Settings
             /\ fate'[a] # "none"
             /\ \A d \in OrdersOf(order[a].setting) \ {a} : fate'[d] # "sent"
             /\ fate[a] = "applied" => setting[order[a].setting] = order[a].value
  <2>1. a \in Requests
    BY DEF TypeOK, Requests
  <2>2. /\ order[a] \in SetOrders /\ fate[a] # "none" /\ Settled(order[a].setting, a)
        /\ fate[a] = "applied" => setting[order[a].setting] = order[a].value
    BY DEF OperatorInv, AloneHasLastWord
  <2>3. order[a].setting \in Settings
    BY <2>2 DEF SetOrders
  <2>4. ASSUME NEW d \in OrdersOf(order[a].setting), d # a
        PROVE  fate'[d] # "sent"
    <3>1. fate[d] # "sent" /\ d \in Requests
      BY <2>2, <2>4 DEF Settled, OrdersOf, Requests
    <3> QED
      BY <1>3, <3>1
  <2> QED
    BY <1>3, <2>1, <2>2, <2>3, <2>4
<1>7. CASE SetSetting(r)
  <2> DEFINE s == order[r].setting
  <2>1. /\ order[r] \in SetOrders /\ s \in Settings
        /\ setting' = [setting EXCEPT ![s] = order[r].value]
    BY <1>7 DEF SetSetting, SetOrders
  <2>2. r \in Admins /\ r \in OrdersOf(s)
    BY <2>1, OrdersDiffer DEF OperatorInv, OrdersMatch, Requests, Events, OrdersOf
  <2>3. \A t \in Settings : setting'[t] = IF t = s THEN order[r].value ELSE setting[t]
    BY <2>1 DEF TypeOK
  <2>4. ToldStands'
    BY <1>1, <1>2, <1>3, <1>4, <2>2, <2>3 DEF OperatorInv, ToldStands, OrdersOf, Requests
  <2>5. ASSUME NEW a \in alone, fate'[a] = "applied"
        PROVE  setting'[order[a].setting] = order[a].value
    <3>1. CASE a = r
      BY <1>6, <2>3, <3>1
    <3>2. CASE a # r
      <4>1. order[a].setting # s
        BY <1>5, <2>1, <3>2
      <4>2. fate[a] = "applied"
        BY <1>3, <1>6, <2>5, <3>2
      <4> QED
        BY <1>6, <2>3, <4>1, <4>2
    <3> QED
      BY <3>1, <3>2
  <2>6. AloneHasLastWord'
    BY <1>1, <1>6, <2>5 DEF AloneHasLastWord, Settled, OrdersOf
  <2> QED
    BY <2>4, <2>6
<1>8. CASE ~SetSetting(r)
  <2>1. setting' = setting
    BY <1>8 DEF Contracts, PayEvent, Refund, Refuse, contractVars
  <2>2. fate'[r] = "applied" => order[r] \notin SetOrders
    BY <1>1, <1>8, OrdersDiffer
       DEF Contracts, PayEvent, Refund, Refuse, Decide, TypeOK, RefundOrders, SetOrders
  <2>3. ToldStands'
    BY <1>1, <1>2, <1>3, <2>1 DEF OperatorInv, ToldStands, OrdersOf, Requests
  <2>4. ASSUME NEW a \in alone, fate'[a] = "applied"
        PROVE  setting'[order[a].setting] = order[a].value
    <3>1. a # r
      BY <1>6, <2>2, <2>4
    <3>2. fate[a] = "applied"
      BY <1>3, <1>6, <2>4, <3>1
    <3> QED
      BY <1>6, <2>1, <3>2
  <2>5. AloneHasLastWord'
    BY <1>1, <1>6, <2>4 DEF AloneHasLastWord, Settled, OrdersOf
  <2> QED
    BY <2>3, <2>5
<1> QED
  BY <1>7, <1>8

LEMMA OperatorStep ==
  ASSUME TypeOK, OperatorInv, [Next]_vars
  PROVE  OperatorInv'
<1>0. OrdersMatch'
  BY OrdersMatchStep DEF OperatorInv
<1> SUFFICES AloneHasLastWord' /\ ToldStands'
  BY <1>0 DEF OperatorInv
<1> USE DEF OperatorInv, operatorVars, contractVars, serverVars, Requests, Events
<1>1. ASSUME NEW c \in Clicks, HandleClick(c)
      PROVE  AloneHasLastWord' /\ ToldStands'
  BY <1>1, OtherSteps, RequestsDiffer DEF HandleClick, TypeOK
<1>2. ASSUME NEW v \in Views, HandleView(v)
      PROVE  AloneHasLastWord' /\ ToldStands'
  BY <1>2, OtherSteps, RequestsDiffer DEF HandleView, Ask, TypeOK
<1>3. ASSUME NEW a \in Admins, Administer(a)
      PROVE  AloneHasLastWord' /\ ToldStands'
  <2>1. CASE RefundUnspent(a)
    <3>1. PICK k \in Campaigns : Ask(a, [op |-> "refund", campaign |-> k])
      BY <2>1 DEF RefundUnspent
    <3> DEFINE o == [op |-> "refund", campaign |-> k]
    <3>2. /\ order' = [order EXCEPT ![a] = o] /\ fate' = [fate EXCEPT ![a] = "sent"]
          /\ o \notin SetOrders /\ order[a] = NoOrder
          /\ UNCHANGED <<setting, told, alone>>
      BY <2>1, <3>1 DEF RefundUnspent, Ask, SetOrders, Comes, At, OrdersMatch
    <3> HIDE DEF o
    <3>3. /\ order'[a] = o
          /\ \A d \in Admins \ {a} : order'[d] = order[d] /\ fate'[d] = fate[d]
      BY <3>2 DEF TypeOK
    <3>4. a \notin alone
      BY <3>2, OrdersDiffer DEF AloneHasLastWord
    <3> QED
      BY <3>2, <3>3, <3>4, OrdersDiffer
         DEF AloneHasLastWord, ToldStands, Settled, OrdersOf, TypeOK
  <2>2. ASSUME NEW s \in Settings, NEW v \in BOOLEAN, Command(a, s, v)
        PROVE  AloneHasLastWord' /\ ToldStands'
    BY <2>2, CommandStep
  <2>3. \A s \in {"paused", "owner", "verifier", "config", "minted"} \union Publishers
                \union Campaigns : s \in Settings
    BY DEF Settings, Facts
  <2> QED
    BY <1>3, <2>1, <2>2, <2>3
       DEF Administer, PauseProtocol, UnpauseProtocol, SetPublisherStatus, CloseCampaign,
           InitRegistry, AddVerifier, InitAdVault, MintTokens
<1>4. ASSUME NEW r \in Requests, Continue(r)
      PROVE  AloneHasLastWord' /\ ToldStands'
  <2>1. CASE r \in Clicks /\ RegisterClick(r)
    BY <2>1, OtherSteps, RequestsDiffer DEF RegisterClick, Ask, TypeOK
  <2>2. CASE r \in Clicks /\ (CompleteClick(r) \/ ChargeCampaign(r) \/ FailClick(r))
    BY <2>2, OtherSteps DEF CompleteClick, ChargeCampaign, FailClick, TypeOK
  <2>3. CASE r \in Views /\ AnswerView(r)
    BY <2>3, OtherSteps DEF AnswerView, TypeOK
  <2>4. CASE r \in Admins /\ Acknowledge(r)
    BY <2>4, AcknowledgeStep
  <2>5. CASE r \in Admins /\ ReportError(r)
    BY <2>5, OtherSteps DEF ReportError, TypeOK
  <2> QED
    BY <1>4, <2>1, <2>2, <2>3, <2>4, <2>5 DEF Continue
<1>5. ASSUME NEW r \in Requests, Contracts(r)
      PROVE  AloneHasLastWord' /\ ToldStands'
  BY <1>5, ContractsStep
<1>6. CASE Restart
  BY <1>6, OtherSteps DEF Restart, TypeOK
<1>7. CASE UNCHANGED vars
  BY <1>7, OtherSteps DEF vars, TypeOK
<1> QED
  BY <1>1, <1>2, <1>3, <1>4, <1>5, <1>6, <1>7 DEF Next

LEMMA Invariant == Spec => [](TypeOK /\ OperatorInv)
<1>1. TypeOK /\ OperatorInv /\ [Next]_vars => TypeOK' /\ OperatorInv'
  BY TypeOKStep, OperatorStep DEF OperatorInv
<1> QED
  BY <1>1, TypeOKInit, OperatorInit, PTL DEF Spec

(* Type correctness of the Soroban requests. *)
THEOREM TypeCorrect == Spec => []TypeOK
BY Invariant, PTL

(* What the operator was told of a setting stays true until the next order   *)
(* for it, whatever is late, lost or restarted (sorobanContractsService.js   *)
(* 59-85, adRoutes.js 419-465).                                              *)
THEOREM OperatorAlwaysKnows == Spec => []OperatorKnows
<1>1. OperatorInv => OperatorKnows
  BY DEF OperatorInv, ToldStands, OperatorKnows
<1> QED
  BY <1>1, Invariant, PTL
-----------------------------------------------------------------------------
(* Rows, requests and handlers of clicks keep agreeing. *)
LEMMA RowsInit == Init => RowsAgree
BY DEF Init, RowsAgree, Requests, Events

LEMMA RowsStep ==
  ASSUME TypeOK, OrdersMatch, RowsAgree, [Next]_vars
  PROVE  RowsAgree'
<1> USE DEF RowsAgree, TypeOK, Requests, Events, At, Comes, Goto, contractVars,
            serverVars, operatorVars
<1>1. ASSUME NEW c \in Clicks, HandleClick(c)
      PROVE  RowsAgree'
  <2>1. \A k \in Campaigns, p \in Publishers :
          [op |-> "click", campaign |-> k, publisher |-> p] # NoOrder
    BY RequestsDiffer DEF Orders, EventOrders
  <2> QED
    BY <1>1, <2>1 DEF HandleClick
<1>2. ASSUME NEW v \in Views, HandleView(v)
      PROVE  RowsAgree'
  BY <1>2, RequestsDiffer DEF HandleView, Ask
<1>3. ASSUME NEW a \in Admins, Administer(a)
      PROVE  RowsAgree'
  <2>1. ASSUME NEW o, Ask(a, o), row' = row
        PROVE  RowsAgree'
    BY <2>1, RequestsDiffer DEF Ask
  <2> QED
    BY <1>3, <2>1
       DEF Administer, Command, PauseProtocol, UnpauseProtocol, SetPublisherStatus,
           CloseCampaign, InitRegistry, AddVerifier, InitAdVault, MintTokens, RefundUnspent
<1>4. ASSUME NEW r \in Requests, Continue(r)
      PROVE  RowsAgree'
  <2>1. CASE r \in Clicks /\ RegisterClick(r)
    <3>1. order' = order
      BY <2>1 DEF RegisterClick, Ask
    <3> QED
      BY <2>1, <3>1 DEF RegisterClick, Ask
  <2>2. CASE r \in Clicks /\ CompleteClick(r)
    BY <2>2 DEF CompleteClick, Accepted
  <2>3. CASE r \in Clicks /\ ChargeCampaign(r)
    BY <2>3 DEF ChargeCampaign
  <2>4. CASE r \in Clicks /\ FailClick(r)
    BY <2>4 DEF FailClick
  <2>5. CASE r \in Views /\ AnswerView(r)
    BY <2>5, RequestsDiffer DEF AnswerView
  <2>6. CASE r \in Admins /\ (Acknowledge(r) \/ ReportError(r))
    BY <2>6, RequestsDiffer DEF Acknowledge, ReportError
  <2> QED
    BY <1>4, <2>1, <2>2, <2>3, <2>4, <2>5, <2>6 DEF Continue
<1>5. ASSUME NEW r \in Requests, Contracts(r)
      PROVE  RowsAgree'
  <2>1. /\ UNCHANGED <<stage, row, order>> /\ fate[r] = "sent"
        /\ \E f \in {"applied", "refused"} : fate' = [fate EXCEPT ![r] = f]
    BY <1>5 DEF Contracts, PayEvent, SetSetting, Refund, Refuse, Decide
  <2> QED
    BY <2>1
<1>6. CASE Restart
  BY <1>6 DEF Restart, InFlight
<1>7. CASE UNCHANGED vars
  BY <1>7 DEF vars
<1> QED
  BY <1>1, <1>2, <1>3, <1>4, <1>5, <1>6, <1>7 DEF Next
-----------------------------------------------------------------------------
(* Implementation of ClickBooks. *)
LEMMA BooksInit == Init => Books!Init
BY DEF Init, Books!Init, BooksCampaign, BooksPaid, BooksCharged, Requests, Events

(* A step that changes no click's order, payment, row or end, and no book.   *)
LEMMA BooksStutter ==
  ASSUME \A c \in Clicks :
           /\ order'[c] = order[c]
           /\ fate'[c] = "applied" <=> fate[c] = "applied"
           /\ stage'[c] = "done" <=> stage[c] = "done",
         row' = row, spent' = spent
  PROVE  [Books!Next]_Books!booksVars
BY DEF BooksCampaign, BooksPaid, BooksCharged, Books!booksVars

(* The order of a click whose handler has started. *)
LEMMA BooksCampaignOf ==
  ASSUME TypeOK, OrdersMatch, RowsAgree, NEW c \in Clicks, stage[c] # "idle"
  PROVE  /\ BooksCampaign[c] = order[c].campaign
         /\ BooksCampaign[c] \in Campaigns
         /\ BooksCampaign[c] # NoOrder
<1>1. order[c] \in EventOrders /\ order[c] # NoOrder
  BY DEF OrdersMatch, RowsAgree, Events
<1> QED
  BY <1>1, RequestsDiffer DEF BooksCampaign, EventOrders

LEMMA BooksStep ==
  ASSUME TypeOK, OrdersMatch, RowsAgree, [Next]_vars
  PROVE  [Books!Next]_Books!booksVars
<1> USE DEF TypeOK, Requests, Events, At, Comes, Goto, contractVars, serverVars, operatorVars
<1>1. ASSUME NEW c \in Clicks, HandleClick(c)
      PROVE  [Books!Next]_Books!booksVars
  <2>1. PICK k \in Campaigns, p \in Publishers :
          order' = [order EXCEPT ![c] = [op |-> "click", campaign |-> k, publisher |-> p]]
    BY <1>1 DEF HandleClick
  <2> DEFINE o == [op |-> "click", campaign |-> k, publisher |-> p]
  <2>2. o # NoOrder /\ o.campaign = k
    BY RequestsDiffer DEF Orders, EventOrders
  <2>3. BooksCampaign[c] = NoOrder
    BY <1>1 DEF HandleClick, BooksCampaign, RowsAgree
  <2> HIDE DEF o
  <2>4. BooksCampaign' = [BooksCampaign EXCEPT ![c] = k]
    BY <2>1, <2>2 DEF BooksCampaign, o
  <2>5. BooksPaid' = BooksPaid /\ BooksCharged' = BooksCharged /\ row' = row /\ spent' = spent
    BY <1>1 DEF HandleClick, BooksPaid, BooksCharged
  <2>6. Books!Arrive(c)
    BY <2>3, <2>4, <2>5 DEF Books!Arrive
  <2> QED
    BY <2>6 DEF Books!Next
<1>2. ASSUME NEW v \in Views, HandleView(v)
      PROVE  [Books!Next]_Books!booksVars
  BY <1>2, BooksStutter, RequestsDiffer DEF HandleView, Ask
<1>3. ASSUME NEW a \in Admins, Administer(a)
      PROVE  [Books!Next]_Books!booksVars
  <2>1. ASSUME NEW o, Ask(a, o), row' = row, spent' = spent
        PROVE  [Books!Next]_Books!booksVars
    BY <2>1, BooksStutter, RequestsDiffer DEF Ask
  <2> QED
    BY <1>3, <2>1
       DEF Administer, Command, PauseProtocol, UnpauseProtocol, SetPublisherStatus,
           CloseCampaign, InitRegistry, AddVerifier, InitAdVault, MintTokens, RefundUnspent
<1>4. ASSUME NEW c \in Clicks, RegisterClick(c)
      PROVE  [Books!Next]_Books!booksVars
  <2>1. order' = order /\ spent' = spent /\ BooksCampaign' = BooksCampaign
    BY <1>4 DEF RegisterClick, Ask, BooksCampaign
  <2>2. CASE Goto(c, "threw") /\ UNCHANGED <<order, fate, row>>
    BY <1>4, <2>1, <2>2, BooksStutter DEF RegisterClick
  <2>3. CASE row' = [row EXCEPT ![c] = "pending"] /\ Ask(c, order[c])
    <3>1. BooksPaid' = BooksPaid /\ BooksCharged' = BooksCharged /\ row[c] = "none"
      BY <1>4, <2>3 DEF RegisterClick, Ask, BooksPaid, BooksCharged, RowsAgree
    <3>2. BooksCampaign[c] # NoOrder
      BY <1>4, BooksCampaignOf DEF RegisterClick
    <3>3. Books!Register(c)
      BY <2>1, <2>3, <3>1, <3>2 DEF Books!Register
    <3> QED
      BY <3>3 DEF Books!Next
  <2> QED
    BY <1>4, <2>2, <2>3 DEF RegisterClick
<1>5. ASSUME NEW c \in Clicks, CompleteClick(c) \/ FailClick(c)
      PROVE  [Books!Next]_Books!booksVars
  <2>1. /\ order' = order /\ spent' = spent /\ BooksCampaign' = BooksCampaign
        /\ BooksPaid' = BooksPaid /\ BooksCharged' = BooksCharged /\ row[c] = "pending"
    BY <1>5 DEF CompleteClick, FailClick, BooksCampaign, BooksPaid, BooksCharged, RowsAgree
  <2>2. CASE row' = row
    BY <2>1, <2>2 DEF Books!booksVars
  <2>3. CASE CompleteClick(c) /\ row' = [row EXCEPT ![c] = "completed"]
    <3>1. c \in BooksPaid
      BY <2>3 DEF CompleteClick, Accepted, BooksPaid
    <3>2. Books!Complete(c)
      BY <2>1, <2>3, <3>1 DEF Books!Complete
    <3> QED
      BY <3>2 DEF Books!Next
  <2>4. CASE FailClick(c) /\ row' = [row EXCEPT ![c] = "failed"]
    <3>1. Books!Fail(c)
      BY <2>1, <2>4 DEF Books!Fail
    <3> QED
      BY <3>1 DEF Books!Next
  <2> QED
    BY <1>5, <2>2, <2>3, <2>4 DEF CompleteClick, FailClick
<1>6. ASSUME NEW c \in Clicks, ChargeCampaign(c)
      PROVE  [Books!Next]_Books!booksVars
  <2>1. /\ UNCHANGED <<order, fate, row>> /\ BooksCampaign' = BooksCampaign
        /\ BooksPaid' = BooksPaid /\ row[c] = "completed" /\ stage[c] = "charge"
    BY <1>6 DEF ChargeCampaign, BooksCampaign, BooksPaid, RowsAgree
  <2>2. CASE spent' = [spent EXCEPT ![order[c].campaign] = @ + Price] /\ Goto(c, "done")
    <3>1. BooksCharged' = BooksCharged \union {c} /\ c \notin BooksCharged
      BY <2>1, <2>2 DEF BooksCharged
    <3>2. BooksCampaign[c] = order[c].campaign /\ BooksCampaign[c] \in Campaigns
      BY <2>1, BooksCampaignOf
    <3>3. Books!Charge(c)
      BY <2>1, <2>2, <3>1, <3>2 DEF Books!Charge
    <3> QED
      BY <3>3 DEF Books!Next
  <2>3. CASE Goto(c, "threw") /\ UNCHANGED spent
    BY <2>1, <2>3, BooksStutter
  <2> QED
    BY <1>6, <2>2, <2>3 DEF ChargeCampaign
<1>7. ASSUME NEW v \in Views, AnswerView(v)
      PROVE  [Books!Next]_Books!booksVars
  BY <1>7, BooksStutter, RequestsDiffer DEF AnswerView
<1>8. ASSUME NEW a \in Admins, Acknowledge(a) \/ ReportError(a)
      PROVE  [Books!Next]_Books!booksVars
  BY <1>8, BooksStutter, RequestsDiffer DEF Acknowledge, ReportError
<1>9. ASSUME NEW r \in Requests, Continue(r)
      PROVE  [Books!Next]_Books!booksVars
  BY <1>4, <1>5, <1>6, <1>7, <1>8, <1>9 DEF Continue
<1>10. ASSUME NEW r \in Requests, Contracts(r)
      PROVE  [Books!Next]_Books!booksVars
  <2>1. /\ UNCHANGED <<stage, row, spent, order>> /\ fate[r] = "sent"
        /\ BooksCampaign' = BooksCampaign /\ BooksCharged' = BooksCharged
    BY <1>10 DEF Contracts, PayEvent, SetSetting, Refund, Refuse, Decide, BooksCampaign,
                 BooksCharged
  <2>2. PICK f \in {"applied", "refused"} : fate' = [fate EXCEPT ![r] = f]
    BY <1>10 DEF Contracts, PayEvent, SetSetting, Refund, Refuse, Decide
  <2>3. CASE r \in Clicks /\ f = "applied"
    <3>1. BooksPaid' = BooksPaid \union {r} /\ r \notin BooksPaid /\ row[r] # "none"
      BY <2>1, <2>2, <2>3 DEF BooksPaid, RowsAgree
    <3>2. Books!Pay(r)
      BY <2>1, <3>1 DEF Books!Pay
    <3> QED
      BY <2>3, <3>2 DEF Books!Next
  <2>4. CASE ~(r \in Clicks /\ f = "applied")
    BY <2>1, <2>2, <2>4, BooksStutter
  <2> QED
    BY <2>3, <2>4
<1>11. CASE Restart
  BY <1>11, BooksStutter DEF Restart, InFlight
<1>12. CASE UNCHANGED vars
  BY <1>12, BooksStutter DEF vars
<1> QED
  BY <1>1, <1>2, <1>3, <1>9, <1>10, <1>11, <1>12 DEF Next

(* The Soroban clicks implement ClickBooks (adRoutes.js 1536-1601). *)
THEOREM ImplementsBooks == Spec => KeepsBooks
<1> DEFINE Inv == TypeOK /\ OperatorInv /\ RowsAgree
<1>1. Init => Inv
  BY TypeOKInit, OperatorInit, RowsInit
<1>2. Inv /\ [Next]_vars => Inv'
  BY TypeOKStep, OperatorStep, RowsStep DEF OperatorInv
<1>3. Inv /\ [Next]_vars => [Books!Next]_Books!booksVars
  BY BooksStep DEF OperatorInv
<1> QED
  BY <1>1, <1>2, <1>3, BooksInit, PTL DEF Spec, KeepsBooks, Books!Spec
-----------------------------------------------------------------------------
(* What ClickBooks promises of the books, for the Soroban clicks.            *)
Kept == INSTANCE ClickBooksProofs
          WITH Cost <- [k \in Campaigns |-> Price], NoCampaign <- NoOrder,
               campaign <- BooksCampaign, status <- row, paid <- BooksPaid,
               charged <- BooksCharged, books <- spent

(* Both instances of ClickBooks are the same, and so are the sizes of sets.  *)
LEMMA SameFiniteness == ASSUME NEW S PROVE Kept!IsFiniteSet(S) <=> IsFiniteSet(S)
BY DEF Kept!IsFiniteSet, IsFiniteSet

LEMMA SameSize == ASSUME NEW S PROVE Kept!Cardinality(S) = Cardinality(S)
BY DEF Kept!Cardinality, Cardinality

LEMMA SameNext == Books!Next => Kept!Next
BY DEF Books!Next, Books!Arrive, Books!Register, Books!Pay, Books!Complete, Books!Fail,
       Books!Charge, Kept!Next, Kept!Arrive, Kept!Register, Kept!Pay, Kept!Complete,
       Kept!Fail, Kept!Charge

LEMMA EventsFinite == IsFiniteSet(Clicks) /\ IsFiniteSet(Views) /\ IsFiniteSet(Events)
<1>1. Clicks \in SUBSET Requests /\ Views \in SUBSET Requests /\ Events \in SUBSET Requests
  BY DEF Requests, Events
<1> QED
  BY <1>1, RequestsFinite, FS_Subset

(* The books of the Soroban clicks are exact: a campaign is charged the      *)
(* price of its clicks that were completed, paid and registered, each once,  *)
(* whatever answer is lost, statement fails or process dies (adRoutes.js     *)
(* 1536-1601).                                                               *)
THEOREM BooksAreExact == Spec => []Kept!BooksInv
<1>1. Kept!Prices
  BY EventsFinite, SameFiniteness, Amounts, RequestsDiffer DEF Kept!Prices
<1>2. Kept!Spec => []Kept!BooksInv
  BY <1>1, Kept!BooksStayExact
<1>3. Books!Init => Kept!Init
  BY DEF Books!Init, Kept!Init
<1>4. [Books!Next]_Books!booksVars => [Kept!Next]_Kept!booksVars
  BY SameNext DEF Books!booksVars, Kept!booksVars
<1> QED
  BY <1>2, <1>3, <1>4, ImplementsBooks, PTL DEF KeepsBooks, Books!Spec, Kept!Spec
-----------------------------------------------------------------------------
(* The deposit. *)
LEMMA PaidEventsFinite ==
  ASSUME NEW k \in Campaigns
  PROVE  IsFiniteSet(PaidEvents(k)) /\ Cardinality(PaidEvents(k)) \in Nat
<1>1. PaidEvents(k) \in SUBSET Events
  BY DEF PaidEvents
<1> QED
  BY <1>1, EventsFinite, FS_Subset, FS_CardinalityType

LEMMA DepositInit == Init => DepositCovers
<1> SUFFICES ASSUME Init, NEW k \in Campaigns
             PROVE  funds[k] + Price * Cardinality(PaidEvents(k)) <= Deposit[k]
  BY DEF DepositCovers
<1>1. PaidEvents(k) = {}
  BY DEF Init, PaidEvents, Events, Requests
<1> QED
  BY <1>1, FS_EmptySet, Amounts DEF Init

(* The server pays no event: an order is given once, before it is sent.      *)
LEMMA PaidEventsFrame ==
  ASSUME TypeOK, OrdersMatch, RowsAgree, [Next]_vars,
         \A r \in Requests : ~ Contracts(r)
  PROVE  /\ UNCHANGED funds
         /\ \A k \in Campaigns : PaidEvents(k)' = PaidEvents(k)
<1> USE DEF TypeOK, Requests, Events, At, Goto, contractVars, serverVars, operatorVars
<1>1. ASSUME NEW r \in Requests, fate[r] = "none", funds' = funds,
             order' = order \/ \E o : order' = [order EXCEPT ![r] = o],
             fate' = fate \/ fate' = [fate EXCEPT ![r] = "sent"]
      PROVE  /\ UNCHANGED funds
             /\ \A k \in Campaigns : PaidEvents(k)' = PaidEvents(k)
  BY <1>1 DEF PaidEvents
<1>2. ASSUME order' = order, fate' = fate, funds' = funds
      PROVE  /\ UNCHANGED funds
             /\ \A k \in Campaigns : PaidEvents(k)' = PaidEvents(k)
  BY <1>2 DEF PaidEvents
<1>3. ASSUME NEW c \in Clicks, HandleClick(c)
      PROVE  /\ UNCHANGED funds
             /\ \A k \in Campaigns : PaidEvents(k)' = PaidEvents(k)
  BY <1>1, <1>3 DEF HandleClick, Comes, OrdersMatch
<1>4. ASSUME NEW v \in Views, HandleView(v)
      PROVE  /\ UNCHANGED funds
             /\ \A k \in Campaigns : PaidEvents(k)' = PaidEvents(k)
  BY <1>1, <1>4 DEF HandleView, Ask, Comes, OrdersMatch
<1>5. ASSUME NEW a \in Admins, Administer(a)
      PROVE  /\ UNCHANGED funds
             /\ \A k \in Campaigns : PaidEvents(k)' = PaidEvents(k)
  <2>1. ASSUME NEW o, Comes(a), Ask(a, o), funds' = funds
        PROVE  /\ UNCHANGED funds
               /\ \A k \in Campaigns : PaidEvents(k)' = PaidEvents(k)
    BY <1>1, <2>1 DEF Ask, Comes, OrdersMatch
  <2> QED
    BY <1>5, <2>1
       DEF Administer, Command, PauseProtocol, UnpauseProtocol, SetPublisherStatus,
           CloseCampaign, InitRegistry, AddVerifier, InitAdVault, MintTokens, RefundUnspent
<1>6. ASSUME NEW c \in Clicks, RegisterClick(c)
      PROVE  /\ UNCHANGED funds
             /\ \A k \in Campaigns : PaidEvents(k)' = PaidEvents(k)
  BY <1>1, <1>6 DEF RegisterClick, Ask, RowsAgree
<1>7. ASSUME NEW r \in Requests, Continue(r), ~(r \in Clicks /\ RegisterClick(r))
      PROVE  /\ UNCHANGED funds
             /\ \A k \in Campaigns : PaidEvents(k)' = PaidEvents(k)
  BY <1>2, <1>7 DEF Continue, CompleteClick, ChargeCampaign, FailClick, AnswerView,
                    Acknowledge, ReportError
<1>8. CASE Restart
  BY <1>2, <1>8 DEF Restart
<1>9. CASE UNCHANGED vars
  BY <1>2, <1>9 DEF vars
<1> QED
  BY <1>3, <1>4, <1>5, <1>6, <1>7, <1>8, <1>9 DEF Next

LEMMA DepositStep ==
  ASSUME TypeOK, OrdersMatch, RowsAgree, DepositCovers, [Next]_vars
  PROVE  DepositCovers'
<1> SUFFICES ASSUME NEW k \in Campaigns
             PROVE  funds'[k] + Price * Cardinality(PaidEvents(k)') <= Deposit[k]
  BY DEF DepositCovers, PaidEvents
<1> USE DEF TypeOK
<1>0. /\ funds[k] \in Nat /\ Price \in Nat /\ Deposit[k] \in Nat
      /\ funds[k] + Price * Cardinality(PaidEvents(k)) <= Deposit[k]
      /\ Price * Cardinality(PaidEvents(k)) \in Nat
  BY Amounts, PaidEventsFinite DEF DepositCovers
<1>1. CASE \A r \in Requests : ~ Contracts(r)
  BY <1>0, <1>1, PaidEventsFrame
<1>2. ASSUME NEW r \in Requests, Contracts(r)
      PROVE  funds'[k] + Price * Cardinality(PaidEvents(k)') <= Deposit[k]
  <2>0. fate[r] = "sent" /\ order' = order
    BY <1>2 DEF Contracts, PayEvent, SetSetting, Refund, Refuse, Decide
  <2>1. CASE PayEvent(r) /\ r \in Events /\ order[r].campaign = k
    <3>1. /\ order[r] \in EventOrders /\ funds[k] >= Price
          /\ funds' = [funds EXCEPT ![k] = @ - Price]
          /\ fate' = [fate EXCEPT ![r] = "applied"]
      BY <2>1 DEF PayEvent, Payable, Decide
    <3>2. PaidEvents(k)' = PaidEvents(k) \union {r} /\ r \notin PaidEvents(k)
      BY <2>0, <2>1, <3>1 DEF PaidEvents, Requests, Events
    <3>3. Cardinality(PaidEvents(k)') = Cardinality(PaidEvents(k)) + 1
      BY <3>2, PaidEventsFinite, FS_AddElement
    <3>4. \A a, n \in Nat : a * (n + 1) = a * n + a
      OBVIOUS
    <3>5. funds'[k] = funds[k] - Price
      BY <3>1
    <3> QED
      BY <1>0, <3>3, <3>4, <3>5, PaidEventsFinite
  <2>2. CASE ~(PayEvent(r) /\ r \in Events /\ order[r].campaign = k)
    <3>1. PaidEvents(k)' = PaidEvents(k)
      <4>1. CASE r \in PaidEvents(k)'
        <5>1. r \in Events /\ fate'[r] = "applied" /\ order[r].campaign = k
          BY <2>0, <4>1 DEF PaidEvents
        <5>2. order[r] \notin SetOrders /\ order[r] \notin RefundOrders
          <6>1. order[r] \in EventOrders \union {NoOrder}
            BY <5>1 DEF OrdersMatch
          <6> QED
            BY <6>1, RequestsDiffer DEF EventOrders, SetOrders, RefundOrders, Orders
        <5>3. ~ Refuse(r)
          BY <5>1 DEF Refuse, Decide
        <5> QED
          BY <1>2, <2>2, <5>1, <5>2, <5>3 DEF Contracts, SetSetting, Refund
      <4>2. CASE r \notin PaidEvents(k)'
        BY <1>2, <2>0, <4>2
           DEF PaidEvents, Contracts, PayEvent, SetSetting, Refund, Refuse, Decide, Events,
               Requests
      <4> QED
        BY <4>1, <4>2
    <3>2. funds'[k] <= funds[k] /\ funds'[k] \in Int
      <4>1. CASE PayEvent(r)
        BY <1>0, <4>1 DEF PayEvent, EventOrders
      <4>2. CASE SetSetting(r) \/ Refuse(r)
        BY <1>0, <4>2 DEF SetSetting, Refuse, contractVars
      <4>3. CASE Refund(r)
        BY <1>0, <4>3 DEF Refund, RefundOrders
      <4> QED
        BY <1>2, <4>1, <4>2, <4>3 DEF Contracts
    <3> QED
      BY <1>0, <3>1, <3>2
  <2> QED
    BY <2>1, <2>2
<1> QED
  BY <1>1, <1>2

(* Whatever is late, lost or cut short, the Soroban clicks charge a campaign *)
(* no more than it deposited, less what its views were paid (adRoutes.js     *)
(* 1568-1582, sorobanContractsService.js 268-296).                           *)
THEOREM DepositNeverExceeded == Spec => []BooksWithinDeposit
<1> DEFINE Inv == TypeOK /\ OperatorInv /\ RowsAgree /\ DepositCovers
<1>1. Init => Inv
  BY TypeOKInit, OperatorInit, RowsInit, DepositInit
<1>2. Inv /\ [Next]_vars => Inv'
  BY TypeOKStep, OperatorStep, RowsStep, DepositStep DEF OperatorInv
<1>3. Inv /\ Kept!BooksInv => BooksWithinDeposit
  <2> SUFFICES ASSUME Inv, Kept!BooksInv, NEW k \in Campaigns
               PROVE  spent[k] + Price * Cardinality(PaidViews(k)) <= Deposit[k]
    BY DEF BooksWithinDeposit
  <2> DEFINE charges == Kept!ChargedTo(k)
  <2>1. spent[k] = Price * Cardinality(charges)
    BY SameSize DEF Kept!BooksInv, Kept!BooksExact
  <2>2. charges \union PaidViews(k) \subseteq PaidEvents(k)
    <3>1. ASSUME NEW c \in charges
          PROVE  c \in PaidEvents(k)
      <4>1. c \in Clicks /\ stage[c] = "done" /\ BooksCampaign[c] = k
        BY <3>1 DEF Kept!ChargedTo, BooksCharged
      <4>2. fate[c] = "applied" /\ order[c].campaign = k
        BY <4>1, BooksCampaignOf DEF RowsAgree, OperatorInv
      <4> QED
        BY <4>1, <4>2 DEF PaidEvents, Events
    <3> QED
      BY <3>1 DEF PaidViews, PaidEvents, Events
  <2>3. charges \intersect PaidViews(k) = {}
    BY RequestsDiffer DEF Kept!ChargedTo, BooksCharged, PaidViews
  <2>4. /\ IsFiniteSet(charges) /\ IsFiniteSet(PaidViews(k))
        /\ Cardinality(charges) \in Nat /\ Cardinality(PaidViews(k)) \in Nat
    <3>1. charges \in SUBSET PaidEvents(k) /\ PaidViews(k) \in SUBSET PaidEvents(k)
      BY <2>2
    <3> HIDE DEF charges
    <3> QED
      BY <3>1, PaidEventsFinite, FS_Subset, FS_CardinalityType
  <2>5. Cardinality(charges) + Cardinality(PaidViews(k)) <= Cardinality(PaidEvents(k))
    <3> HIDE DEF charges
    <3>1. Cardinality(charges \union PaidViews(k))
            = Cardinality(charges) + Cardinality(PaidViews(k))
      BY <2>3, <2>4, FS_Union, FS_EmptySet
    <3>2. Cardinality(charges \union PaidViews(k)) <= Cardinality(PaidEvents(k))
      BY <2>2, PaidEventsFinite, FS_Subset
    <3> QED
      BY <3>1, <3>2
  <2>6. \A a, m, n, p \in Nat : m + n <= p => a * m + a * n <= a * p
    <3> SUFFICES ASSUME NEW a \in Nat, NEW m \in Nat, NEW n \in Nat, NEW p \in Nat, m + n <= p
                 PROVE  a * m + a * n <= a * p
      OBVIOUS
    <3>1. PICK d \in Nat : p = m + n + d
      BY p - (m + n) \in Nat
    <3>2. a * p = a * m + a * n + a * d /\ a * d \in Nat
      BY <3>1
    <3> QED
      BY <3>2
  <2>7. /\ funds[k] \in Nat /\ Price \in Nat /\ Deposit[k] \in Nat
        /\ funds[k] + Price * Cardinality(PaidEvents(k)) <= Deposit[k]
    BY Amounts DEF DepositCovers, TypeOK
  <2>8. /\ Price * Cardinality(charges) + Price * Cardinality(PaidViews(k))
             <= Price * Cardinality(PaidEvents(k))
        /\ Price * Cardinality(charges) \in Nat
        /\ Price * Cardinality(PaidViews(k)) \in Nat
        /\ Price * Cardinality(PaidEvents(k)) \in Nat
    <3> HIDE DEF charges
    <3> QED
      BY <2>4, <2>5, <2>6, <2>7, PaidEventsFinite
  <2> HIDE DEF charges
  <2> QED
    BY <2>1, <2>7, <2>8
<1> QED
  BY <1>1, <1>2, <1>3, BooksAreExact, PTL DEF Spec

-----------------------------------------------------------------------------
(* Every step keeps the answers true. *)
LEMMA AnswersStep ==
  ASSUME TypeOK, OrdersMatch, RowsAgree, AnswersTrue, [Next]_vars
  PROVE  AnswersTrue'
<1> USE DEF AnswersTrue, TypeOK, Requests, Events, At, Comes, Goto, contractVars,
            serverVars, operatorVars
<1>1. ASSUME NEW c \in Clicks, HandleClick(c)
      PROVE  AnswersTrue'
  BY <1>1 DEF HandleClick, RowsAgree
<1>2. ASSUME NEW r \in Requests, NEW o, Comes(r), r \notin Clicks, Ask(r, o), row' = row
      PROVE  AnswersTrue'
  BY <1>2 DEF Ask
<1>3. ASSUME NEW v \in Views, HandleView(v)
      PROVE  AnswersTrue'
  BY <1>2, <1>3, RequestsDiffer DEF HandleView
<1>4. ASSUME NEW a \in Admins, Administer(a)
      PROVE  AnswersTrue'
  BY <1>2, <1>4, RequestsDiffer
     DEF Administer, Command, PauseProtocol, UnpauseProtocol, SetPublisherStatus,
         CloseCampaign, InitRegistry, AddVerifier, InitAdVault, MintTokens, RefundUnspent
<1>5. ASSUME NEW r \in Requests, Continue(r)
      PROVE  AnswersTrue'
  <2>1. CASE r \in Clicks /\ RegisterClick(r)
    BY <2>1 DEF RegisterClick, Ask, RowsAgree
  <2>2. CASE r \in Clicks /\ CompleteClick(r)
    BY <2>2 DEF CompleteClick, RowsAgree
  <2>3. CASE r \in Clicks /\ ChargeCampaign(r)
    BY <2>3 DEF ChargeCampaign, RowsAgree
  <2>4. CASE r \in Clicks /\ FailClick(r)
    BY <2>4 DEF FailClick, Rejected, RowsAgree
  <2>5. CASE r \in Views /\ AnswerView(r)
    BY <2>5, RequestsDiffer DEF AnswerView, Accepted, Rejected
  <2>6. CASE r \in Admins /\ (Acknowledge(r) \/ ReportError(r))
    BY <2>6, RequestsDiffer DEF Acknowledge, ReportError, Accepted, Rejected
  <2> QED
    BY <1>5, <2>1, <2>2, <2>3, <2>4, <2>5, <2>6 DEF Continue
<1>6. ASSUME NEW r \in Requests, Contracts(r)
      PROVE  AnswersTrue'
  <2>1. /\ UNCHANGED <<stage, row>> /\ fate[r] = "sent"
        /\ \E f \in {"applied", "refused"} : fate' = [fate EXCEPT ![r] = f]
    BY <1>6 DEF Contracts, PayEvent, SetSetting, Refund, Refuse, Decide
  <2> QED
    BY <2>1
<1>7. CASE Restart
  BY <1>7 DEF Restart, InFlight
<1>8. CASE UNCHANGED vars
  BY <1>8 DEF vars
<1> QED
  BY <1>1, <1>3, <1>4, <1>5, <1>6, <1>7, <1>8 DEF Next

(* A success of any endpoint is true, and a failure is where no answer can   *)
(* be lost, for any requests, deaths of the process and decisions of the     *)
(* contracts.                                                                *)
THEOREM AnswersStayTrue == Spec => []AnswersTrue
<1>1. Init => RowsAgree /\ AnswersTrue
  BY RowsInit DEF Init, AnswersTrue
<1>2. TypeOK /\ OperatorInv /\ RowsAgree /\ AnswersTrue /\ [Next]_vars
        => RowsAgree' /\ AnswersTrue'
  BY RowsStep, AnswersStep DEF OperatorInv
<1> QED
  BY <1>1, <1>2, Invariant, PTL DEF Spec

-----------------------------------------------------------------------------
(* Which handlers have left a row as it is. *)
RowsFollow ==
  \A c \in Clicks :
    /\ row[c] = "completed" => stage[c] \in {"charge", "done", "threw", "lost"}
    /\ row[c] = "pending" => stage[c] \in {"awaiting", "threw", "lost"}

LEMMA RowsFollowStep ==
  ASSUME TypeOK, RowsAgree, RowsFollow, [Next]_vars
  PROVE  RowsFollow'
<1> USE DEF RowsFollow, TypeOK, Requests, Events, At, Comes, Goto, contractVars,
            serverVars, operatorVars
<1>1. ASSUME NEW c \in Clicks, HandleClick(c)
      PROVE  RowsFollow'
  BY <1>1 DEF HandleClick, RowsAgree
<1>2. ASSUME NEW r \in Requests, r \notin Clicks, row' = row,
             \E st : stage' = [stage EXCEPT ![r] = st]
      PROVE  RowsFollow'
  BY <1>2
<1>3. ASSUME NEW v \in Views, HandleView(v)
      PROVE  RowsFollow'
  BY <1>2, <1>3, RequestsDiffer DEF HandleView, Ask
<1>4. ASSUME NEW a \in Admins, Administer(a)
      PROVE  RowsFollow'
  BY <1>2, <1>4, RequestsDiffer
     DEF Administer, Command, PauseProtocol, UnpauseProtocol, SetPublisherStatus, Ask,
         CloseCampaign, InitRegistry, AddVerifier, InitAdVault, MintTokens, RefundUnspent
<1>5. ASSUME NEW r \in Requests, Continue(r)
      PROVE  RowsFollow'
  <2>1. CASE r \in Clicks /\ RegisterClick(r)
    BY <2>1 DEF RegisterClick, Ask, RowsAgree
  <2>2. CASE r \in Clicks /\ CompleteClick(r)
    BY <2>2 DEF CompleteClick, RowsAgree
  <2>3. CASE r \in Clicks /\ ChargeCampaign(r)
    BY <2>3 DEF ChargeCampaign, RowsAgree
  <2>4. CASE r \in Clicks /\ FailClick(r)
    BY <2>4 DEF FailClick, RowsAgree
  <2>5. CASE r \in Views /\ AnswerView(r)
    BY <1>2, <2>5, RequestsDiffer DEF AnswerView
  <2>6. CASE r \in Admins /\ (Acknowledge(r) \/ ReportError(r))
    BY <1>2, <2>6, RequestsDiffer DEF Acknowledge, ReportError
  <2> QED
    BY <1>5, <2>1, <2>2, <2>3, <2>4, <2>5, <2>6 DEF Continue
<1>6. ASSUME NEW r \in Requests, Contracts(r)
      PROVE  RowsFollow'
  BY <1>6 DEF Contracts
<1>7. CASE Restart
  BY <1>7 DEF Restart, InFlight
<1>8. CASE UNCHANGED vars
  BY <1>8 DEF vars
<1> QED
  BY <1>1, <1>3, <1>4, <1>5, <1>6, <1>7, <1>8 DEF Next

(* The clicks the books miss, and the rows nobody will settle, are those     *)
(* whose own handler threw or died, for any requests, restarts and decisions *)
(* of the contracts (adRoutes.js 1561-1600).                                 *)
THEOREM MishapsAlwaysExplain == Spec => []MishapsExplain
<1> DEFINE Inv == RowsAgree /\ RowsFollow
<1>1. Init => Inv
  BY RowsInit DEF Init, RowsFollow
<1>2. TypeOK /\ OperatorInv /\ Inv /\ [Next]_vars => Inv'
  BY RowsStep, RowsFollowStep DEF OperatorInv
<1>3. Inv /\ Kept!BooksInv => MishapsExplain
  <2> SUFFICES ASSUME RowsAgree, RowsFollow, Kept!BooksInv
               PROVE  MishapsExplain
    OBVIOUS
  <2>1. ASSUME Running, NEW k \in Campaigns
        PROVE  spent[k] = Price * Cardinality(ChargeDue(k))
    <3>1. ChargeDue(k) = Kept!ChargedTo(k)
      BY <2>1 DEF ChargeDue, CutShort, Kept!ChargedTo, BooksCharged, BooksCampaign,
                  Running, RowsAgree, RowsFollow
    <3>2. spent[k] = Price * Kept!Cardinality(Kept!ChargedTo(k))
      BY DEF Kept!BooksInv, Kept!BooksExact
    <3> QED
      BY <3>1, <3>2, SameSize
  <2>2. ASSUME NEW c \in Clicks \ CutShort, row[c] = "pending"
        PROVE  stage[c] = "awaiting"
    BY <2>2 DEF RowsFollow, CutShort
  <2> QED
    BY <2>1, <2>2 DEF MishapsExplain
<1> QED
  BY <1>1, <1>2, <1>3, Invariant, BooksAreExact, PTL DEF Spec

-----------------------------------------------------------------------------
(* How many callbacks a request has still before it, at most. *)
Left == [idle |-> 4, queued |-> 3, awaiting |-> 2, charge |-> 1,
         done |-> 0, failed |-> 0, threw |-> 0, lost |-> 0]

LEMMA LeftValues ==
  /\ Left["idle"] = 4 /\ Left["queued"] = 3 /\ Left["awaiting"] = 2 /\ Left["charge"] = 1
  /\ \A st \in Ended : Left[st] = 0
BY DEF Left, Ended

(* A step leaves a request where it is or takes it on. *)
Onwards(r) ==
  /\ stage'[r] = stage[r] \/ Left[stage'[r]] < Left[stage[r]]
  /\ order[r] # NoOrder => order'[r] = order[r]
  /\ fate[r] \in {"applied", "refused"} => fate'[r] = fate[r]

(* No late answer and no restart brings a request back to a callback it has  *)
(* been through, sends it with another order, or has it decided twice: there *)
(* is no retry, so a request is asked, decided and answered at most once     *)
(* (adRoutes.js 1536-1601, sorobanContractsService.js 59-85).  This is the   *)
(* safety half of EveryRequestSettles.                                       *)
RequestsAdvance == [][\A r \in Requests : Onwards(r)]_vars

LEMMA RequestsStep ==
  ASSUME TypeOK, OrdersMatch, RowsAgree, [Next]_vars, NEW q \in Requests
  PROVE  Onwards(q)
<1> USE DEF TypeOK, At, Goto, contractVars, serverVars, operatorVars
<1>1. ASSUME NEW r \in Requests, NEW st, stage' = [stage EXCEPT ![r] = st],
             Left[st] < Left[stage[r]], UNCHANGED <<order, fate>>
      PROVE  Onwards(q)
  BY <1>1 DEF Onwards
<1>2. ASSUME NEW c \in Clicks, HandleClick(c)
      PROVE  Onwards(q)
  BY <1>2, LeftValues DEF HandleClick, Comes, OrdersMatch, Onwards, Requests, Events
<1>3. ASSUME NEW r \in Requests, NEW o, Comes(r), Ask(r, o)
      PROVE  Onwards(q)
  BY <1>3, LeftValues DEF Comes, Ask, OrdersMatch, Onwards
<1>4. ASSUME NEW r \in Requests, HandleView(r) \/ Administer(r)
      PROVE  Onwards(q)
  BY <1>3, <1>4
     DEF HandleView, Administer, Command, PauseProtocol, UnpauseProtocol,
         SetPublisherStatus, CloseCampaign, InitRegistry, AddVerifier, InitAdVault,
         MintTokens, RefundUnspent
<1>5. ASSUME NEW r \in Requests, Continue(r)
      PROVE  Onwards(q)
  <2>1. CASE r \in Clicks /\ RegisterClick(r)
    <3>1. CASE Ask(r, order[r])
      BY <2>1, <3>1, LeftValues DEF RegisterClick, Ask, RowsAgree, Onwards
    <3>2. CASE Goto(r, "threw") /\ UNCHANGED <<order, fate>>
      <4>1. Left["threw"] < Left[stage[r]]
        BY <2>1, LeftValues DEF RegisterClick, Ended
      <4> QED
        BY <1>1, <3>2, <4>1
    <3> QED
      BY <2>1, <3>1, <3>2 DEF RegisterClick
  <2>2. CASE ~(r \in Clicks /\ RegisterClick(r))
    <3>1. /\ UNCHANGED <<order, fate>> /\ stage[r] \in {"awaiting", "charge"}
          /\ \E st \in Ended \union {"charge"} :
               stage' = [stage EXCEPT ![r] = st] /\ (st = "charge" => stage[r] = "awaiting")
      BY <1>5, <2>2
         DEF Continue, CompleteClick, ChargeCampaign, FailClick, AnswerView, Acknowledge,
             ReportError, Ended
    <3>2. PICK st \in Ended \union {"charge"} :
            stage' = [stage EXCEPT ![r] = st] /\ (st = "charge" => stage[r] = "awaiting")
      BY <3>1
    <3>3. Left[st] < Left[stage[r]]
      <4>1. CASE st = "charge"
        BY <3>2, <4>1, LeftValues
      <4>2. CASE st # "charge"
        <5>1. Left[st] = 0
          BY <4>2, LeftValues
        <5> QED
          BY <3>1, <5>1, LeftValues
      <4> QED
        BY <4>1, <4>2
    <3> QED
      BY <1>1, <3>1, <3>2, <3>3
  <2> QED
    BY <2>1, <2>2
<1>6. ASSUME NEW r \in Requests, Contracts(r)
      PROVE  Onwards(q)
  <2>1. /\ UNCHANGED <<stage, order>> /\ fate[r] = "sent"
        /\ \E f \in {"applied", "refused"} : fate' = [fate EXCEPT ![r] = f]
    BY <1>6 DEF Contracts, PayEvent, SetSetting, Refund, Refuse, Decide
  <2> QED
    BY <2>1 DEF Onwards
<1>7. CASE Restart
  BY <1>7, LeftValues DEF Restart, InFlight, Ended, Onwards
<1>8. CASE UNCHANGED vars
  BY <1>8 DEF vars, Onwards
<1> QED
  BY <1>2, <1>4, <1>5, <1>6, <1>7, <1>8 DEF Next, Requests, Events

(* Any number of requests of any kind, with any faults (adRoutes.js          *)
(* 419-465, 1536-1601).                                                      *)
THEOREM RequestsOnlyAdvance == Spec => RequestsAdvance
<1>1. Init => RowsAgree
  BY RowsInit
<1>2. TypeOK /\ OperatorInv /\ RowsAgree /\ [Next]_vars => RowsAgree'
  BY RowsStep DEF OperatorInv
<1>3. TypeOK /\ OperatorInv /\ RowsAgree /\ [Next]_vars
        => [\A r \in Requests : Onwards(r)]_vars
  BY RequestsStep DEF OperatorInv
<1> QED
  BY <1>1, <1>2, <1>3, Invariant, PTL DEF Spec, RequestsAdvance
=============================================================================
