-------------------------- MODULE AdCatalogueProofs --------------------------
(***************************************************************************)
(* Theorems about AdCatalogue, for any domains, campaigns, budgets, tags and *)
(* lists of custom tags.                                                     *)
(***************************************************************************)
EXTENDS AdCatalogue, FiniteSetTheorems, TLAPS

(* The type invariant and the unique domains are inductive together. *)
LEMMA RegistryInit == Init => TypeOK /\ UniqueDomains
BY SamplesDiffer DEF Init, TypeOK, UniqueDomains

LEMMA RegistryStep ==
  ASSUME TypeOK, UniqueDomains, [Next]_vars
  PROVE  TypeOK' /\ UniqueDomains'
<1> USE DEF TypeOK
<1>1. ASSUME NEW spelling \in Spellings, NEW share \in Shares, CreateSite(spelling, share)
      PROVE  TypeOK' /\ UniqueDomains'
  <2> DEFINE new == [domain |-> Normal[spelling], share |-> StoredShare(share)]
  <2>1. new \in Site
    BY Texts DEF Site, StoredShare
  <2>2. sites' = Append(sites, new) /\ UNCHANGED <<spent, shown>>
    BY <1>1 DEF CreateSite
  <2> HIDE DEF new
  <2>3. /\ sites' \in Seq(Site)
        /\ DOMAIN sites' = 1 .. Len(sites) + 1
        /\ \A i \in 1 .. Len(sites) : sites'[i] = sites[i]
        /\ sites'[Len(sites) + 1] = new
    BY <2>1, <2>2
  <2>4. \A i \in 1 .. Len(sites) : sites[i].domain # new.domain
    BY <1>1 DEF CreateSite, Registered, new
  <2>5. UniqueDomains'
    BY <2>3, <2>4 DEF UniqueDomains
  <2> QED
    BY <2>2, <2>3, <2>5
<1>2. ASSUME NEW tags \in TagLists, ServeAd(tags)
      PROVE  TypeOK' /\ UniqueDomains'
  BY <1>2 DEF ServeAd, Offers, Drawn, Active, UniqueDomains
<1>3. CASE ServeNothing
  BY <1>3 DEF ServeNothing, UniqueDomains
<1>4. ASSUME NEW k \in Campaigns, Spend(k)
      PROVE  TypeOK' /\ UniqueDomains'
  <2>1. spent[k] + Cost[k] \in Nat
    BY Numbers
  <2> QED
    BY <1>4, <2>1 DEF Spend, UniqueDomains
<1>5. CASE UNCHANGED vars
  BY <1>5 DEF vars, UniqueDomains
<1> QED
  BY <1>1, <1>2, <1>3, <1>4, <1>5 DEF Next

(* Type correctness of the catalogue. *)
THEOREM TypeCorrect == Spec => []TypeOK
BY RegistryInit, RegistryStep, PTL DEF Spec

(* No order of requests registers a domain twice (database.js 347-356). *)
THEOREM DomainsStayUnique == Spec => []UniqueDomains
BY RegistryInit, RegistryStep, PTL DEF Spec
-----------------------------------------------------------------------------
(* Scores are natural numbers: the positions of a list are finitely many.    *)
LEMMA ScoreType ==
  ASSUME NEW k \in Campaigns, NEW tags \in TagLists
  PROVE  Score(k, tags) \in Nat
<1>1. PICK n \in 0 .. MaxTags : tags \in [1 .. n -> Tags]
  BY DEF TagLists
<1>2. IsFiniteSet(1 .. n)
  BY <1>1, Numbers, FS_Interval
<1>3. Exact(k, tags) \subseteq 1 .. n /\ Partial(k, tags) \subseteq 1 .. n
  BY <1>1 DEF Exact, Partial
<1>4. Cardinality(Exact(k, tags)) \in Nat /\ Cardinality(Partial(k, tags)) \in Nat
  BY <1>2, <1>3, FS_Subset, FS_CardinalityType
<1> QED
  BY <1>4 DEF Score

(* What is left is at least one entry of the list. *)
LEMMA BasePositive ==
  ASSUME TypeOK, NEW k \in Campaigns
  PROVE  Base(k) \in Nat \ {0}
<1>1. Remaining(k) \in Int
  BY Numbers DEF Remaining, TypeOK
<1> QED
  BY <1>1 DEF Base

LEMMA WeightPositive ==
  ASSUME TypeOK, NEW k \in Campaigns, NEW tags \in TagLists
  PROVE  Weight(k, tags) \in Nat \ {0}
<1> DEFINE b == Base(k)
           s == Score(k, tags)
<1>1. b \in Nat \ {0} /\ s \in Nat
  BY BasePositive, ScoreType
<1>2. Weight(k, tags) = IF s > 0 THEN b * (2 + s) ELSE b
  BY DEF Weight
<1> HIDE DEF b, s
<1>3. s > 0 => b * (2 + s) \in Nat \ {0}
  BY <1>1, SMT
<1> QED
  BY <1>1, <1>2, <1>3

(* Every type-correct state offers exactly the campaigns that can pay. *)
LEMMA EveryFundedOffered == TypeOK => OffersEveryFunded
<1> SUFFICES ASSUME TypeOK, NEW tags \in TagLists
             PROVE  Offers(tags) = IF Active = {} THEN {NoAd} ELSE Active
  BY DEF OffersEveryFunded
<1>1. \A k \in Active : Weight(k, tags) > 0
  BY WeightPositive DEF Active
<1>2. {k \in Active : Weight(k, tags) > 0} = Active
  BY <1>1
<1>3. Drawn(tags) = Active
  BY <1>2 DEF Drawn
<1> QED
  BY <1>3 DEF Offers

(* The lower weight of the worse match, multiplied out. *)
LEMMA MultiplierMonotone ==
  ASSUME NEW b \in Nat, NEW c \in Nat, NEW s \in Nat, NEW t \in Nat, s >= t
  PROVE  (b * (2 + s)) * c >= b * (c * (2 + t))
<1>1. (b * c) * (2 + s) >= (b * c) * (2 + t)
  <2>1. b * c \in Nat
    OBVIOUS
  <2> DEFINE d == b * c
  <2>2. \A x, y \in Nat : x >= y => d * x >= d * y
    <3> HIDE DEF d
    <3> QED
      BY <2>1 DEF d
  <2> QED
    BY <2>2
<1> QED
  BY <1>1

(* In every type-correct state the best match loses nothing by the tags. *)
LEMMA BestMatch == TypeOK => BestMatchGains
<1> SUFFICES ASSUME TypeOK, NEW tags \in TagLists, NEW k \in Active, NEW m \in Active,
                    Score(k, tags) >= Score(m, tags)
             PROVE  Weight(k, tags) * Base(m) >= Base(k) * Weight(m, tags)
  BY DEF BestMatchGains
<1> DEFINE b == Base(k)
           c == Base(m)
           s == Score(k, tags)
           t == Score(m, tags)
<1>1. b \in Nat /\ c \in Nat /\ s \in Nat /\ t \in Nat /\ s >= t
  BY BasePositive, ScoreType DEF Active
<1>2. /\ Weight(k, tags) = IF s > 0 THEN b * (2 + s) ELSE b
      /\ Weight(m, tags) = IF t > 0 THEN c * (2 + t) ELSE c
  BY DEF Weight
<1> SUFFICES (IF s > 0 THEN b * (2 + s) ELSE b) * c
               >= b * (IF t > 0 THEN c * (2 + t) ELSE c)
  BY <1>2
<1> HIDE DEF b, c, s, t
<1>3. CASE t > 0
  BY <1>1, <1>3, MultiplierMonotone
<1>4. CASE t = 0 /\ s > 0
  <2>1. (b * c) * (2 + s) >= b * c
    <3> DEFINE d == b * c
    <3>1. d \in Nat
      BY <1>1
    <3>2. d * (2 + s) >= d
      <4> HIDE DEF d
      <4> QED
        BY <3>1, <1>1
    <3> QED
      BY <3>2
  <2> QED
    BY <1>1, <1>4, <2>1
<1>5. CASE t = 0 /\ s = 0
  BY <1>1, <1>5
<1> QED
  BY <1>1, <1>3, <1>4, <1>5

(* A site is offered every campaign that can pay, and no other, in every     *)
(* state and for all tags (adMatchingService.js 106-176).                    *)
THEOREM EveryFundedStaysOffered == Spec => []OffersEveryFunded
BY TypeCorrect, EveryFundedOffered, PTL

(* Tags never take weight from the campaign they fit best                    *)
(* (adMatchingService.js 140-253).                                           *)
THEOREM BestMatchAlwaysGains == Spec => []BestMatchGains
BY TypeCorrect, BestMatch, PTL
=============================================================================
