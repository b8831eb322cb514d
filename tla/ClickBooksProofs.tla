-------------------------- MODULE ClickBooksProofs --------------------------
(***************************************************************************)
(* Theorems about ClickBooks: what follows from the promise alone, and so    *)
(* holds of every part of the server that implements it.                     *)
(***************************************************************************)
EXTENDS ClickBooks, FiniteSetTheorems, TLAPS

(* What a user of the books has to assure. *)
Prices ==
  /\ IsFiniteSet(Clicks)
  /\ Cost \in [Campaigns -> Nat]
  /\ NoCampaign \notin Campaigns

ChargedTo(k) == {c \in charged : campaign[c] = k}

BooksTypeOK ==
  /\ campaign \in [Clicks -> Campaigns \union {NoCampaign}]
  /\ status \in [Clicks -> {"none", "pending", "completed", "failed"}]
  /\ paid \subseteq Clicks
  /\ charged \subseteq Clicks
  /\ books \in [Campaigns -> Nat]

(* Charged clicks are completed, completed ones are paid, paid ones are      *)
(* registered, and registered ones have a campaign.                          *)
EachNeedsTheLast ==
  /\ \A c \in charged : status[c] = "completed"
  /\ \A c \in Clicks : status[c] = "completed" => c \in paid
  /\ \A c \in paid : status[c] # "none"
  /\ \A c \in Clicks : status[c] # "none" => campaign[c] # NoCampaign

(* The counter of a campaign is the price of the clicks charged to it. *)
BooksExact == \A k \in Campaigns : books[k] = Cost[k] * Cardinality(ChargedTo(k))

BooksInv == BooksTypeOK /\ EachNeedsTheLast /\ BooksExact

LEMMA BooksInit == Prices /\ Init => BooksInv
<1> SUFFICES ASSUME Prices, Init
             PROVE  BooksInv
  OBVIOUS
<1> USE DEF Prices, Init
<1>1. ASSUME NEW k \in Campaigns
      PROVE  books[k] = Cost[k] * Cardinality(ChargedTo(k))
  <2>1. ChargedTo(k) = {}
    BY DEF ChargedTo
  <2> QED
    BY <2>1, FS_EmptySet
<1>2. BooksExact
  BY <1>1 DEF BooksExact
<1> QED
  BY <1>2 DEF BooksInv, BooksTypeOK, EachNeedsTheLast

LEMMA BooksStep == Prices /\ BooksInv /\ [Next]_booksVars => BooksInv'
<1> SUFFICES ASSUME Prices, BooksInv, [Next]_booksVars
             PROVE  BooksInv'
  OBVIOUS
<1> USE DEF Prices, BooksInv, BooksTypeOK, EachNeedsTheLast
<1>1. ASSUME NEW c \in Clicks, Arrive(c)
      PROVE  BooksInv'
  <2>1. \A d \in charged : d # c
    BY <1>1 DEF Arrive
  <2>2. \A k \in Campaigns : ChargedTo(k)' = ChargedTo(k)
    BY <1>1, <2>1 DEF Arrive, ChargedTo
  <2> QED
    BY <1>1, <2>2 DEF Arrive, BooksExact
<1>2. ASSUME NEW c \in Clicks, Register(c) \/ Pay(c) \/ Complete(c) \/ Fail(c)
      PROVE  BooksInv'
  <2>1. \A k \in Campaigns : ChargedTo(k)' = ChargedTo(k)
    BY <1>2 DEF Register, Pay, Complete, Fail, ChargedTo
  <2> QED
    BY <1>2, <2>1 DEF Register, Pay, Complete, Fail, BooksExact
<1>3. ASSUME NEW c \in Clicks, Charge(c)
      PROVE  BooksInv'
  <2>1. campaign[c] \in Campaigns
    BY <1>3 DEF Charge
  <2>2. BooksTypeOK'
    BY <1>3, <2>1 DEF Charge
  <2>3. EachNeedsTheLast'
    BY <1>3 DEF Charge
  <2>4. ASSUME NEW k \in Campaigns
        PROVE  books'[k] = Cost[k] * Cardinality(ChargedTo(k)')
    <3>1. IsFiniteSet(ChargedTo(k)) /\ Cardinality(ChargedTo(k)) \in Nat
      <4>1. ChargedTo(k) \in SUBSET Clicks
        BY DEF ChargedTo
      <4> QED
        BY <4>1, FS_Subset, FS_CardinalityType
    <3>2. CASE k = campaign[c]
      <4>1. ChargedTo(k)' = ChargedTo(k) \union {c} /\ c \notin ChargedTo(k)
        BY <1>3, <3>2 DEF Charge, ChargedTo
      <4>2. Cardinality(ChargedTo(k)') = Cardinality(ChargedTo(k)) + 1
        BY <3>1, <4>1, FS_AddElement
      <4>3. books'[k] = books[k] + Cost[k]
        BY <1>3, <3>2 DEF Charge
      <4>4. \A a, n \in Nat : a * (n + 1) = a * n + a
        OBVIOUS
      <4> QED
        BY <3>1, <4>2, <4>3, <4>4 DEF BooksExact
    <3>3. CASE k # campaign[c]
      <4>1. ChargedTo(k)' = ChargedTo(k)
        BY <1>3, <3>3 DEF Charge, ChargedTo
      <4>2. books'[k] = books[k]
        BY <1>3, <2>1, <3>3 DEF Charge
      <4> QED
        BY <4>1, <4>2 DEF BooksExact
    <3> QED
      BY <3>2, <3>3
  <2> QED
    BY <2>2, <2>3, <2>4 DEF BooksExact
<1>4. CASE UNCHANGED booksVars
  BY <1>4 DEF booksVars, ChargedTo, BooksExact
<1> QED
  BY <1>1, <1>2, <1>3, <1>4 DEF Next

(* Whoever keeps the promise keeps exact books: what a campaign is charged   *)
(* is the price of clicks that were completed, paid and registered, each     *)
(* once.                                                                     *)
THEOREM BooksStayExact ==
  ASSUME Prices
  PROVE  Spec => []BooksInv
<1>1. Init => BooksInv
  BY BooksInit
<1>2. BooksInv /\ [Next]_booksVars => BooksInv'
  BY BooksStep
<1> QED
  BY <1>1, <1>2, PTL DEF Spec
=============================================================================
