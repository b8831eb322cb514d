----------------------------- MODULE AdCatalogue -----------------------------
(***************************************************************************)
(* Which ad a site is given: the registry of sites (POST /api/sites,         *)
(* createSite), the campaigns that can still pay (getActiveCampaigns) and    *)
(* the weighted draw of findAdForSite (adMatchingService.js).  Every handler *)
(* here is one callback.  A draw from the list of weights is the choice of   *)
(* any campaign the list holds.                                              *)
(***************************************************************************)
EXTENDS Integers, Sequences, FiniteSets

CONSTANTS Domains,     \* trimmed and in lower case, as they are stored
          Spellings,   \* domains as they are sent
          Normal,      \* the domain a spelling becomes
          Shares,      \* values of revenueShare: percents and NotANumber
          NotANumber,
          Campaigns,   \* with active = 1; no statement changes the column
          Budget, Cost,   \* in 0.001 XLM
          Tags,        \* trimmed and in lower case
          TagsOf,      \* campaigns.tags, {} when missing or not JSON
          Overlap,     \* pairs of tags of which one holds the other's text
          SampleSites, \* rows a new data base starts with
          MaxTags,     \* bound on the custom tags of a request
          MaxSites,    \* bound on the sites
          NoAd         \* the answer without an ad

ASSUME Texts ==
  /\ Normal \in [Spellings -> Domains]
  /\ TagsOf \in [Campaigns -> SUBSET Tags]
  /\ Overlap \subseteq Tags \X Tags
ASSUME Numbers ==
  /\ Shares \ {NotANumber} \subseteq Int
  /\ Budget \in [Campaigns -> Nat]
  /\ Cost \in [Campaigns -> Nat \ {0}]
  /\ {MaxTags, MaxSites} \subseteq Nat
ASSUME NoAdDiffers == NoAd \notin Campaigns

Site == [domain : Domains, share : Shares \union {70}]

ASSUME SamplesDiffer ==
  /\ SampleSites \in Seq(Site)
  /\ \A i, j \in DOMAIN SampleSites : SampleSites[i].domain = SampleSites[j].domain => i = j

VARIABLES sites,   \* the rows of sites in the order of their creation
          spent,   \* campaigns.spent_xlm
          shown    \* answers of GET /api/ad pages hold: campaigns and NoAd

vars == <<sites, spent, shown>>

(* Custom tags come as a list: a repeated one counts again. *)
TagLists == UNION {[1..n -> Tags] : n \in 0..MaxTags}

Init ==
  /\ sites = SampleSites
  /\ spent = [k \in Campaigns |-> 0]
  /\ shown = {}

-----------------------------------------------------------------------------
(* getActiveCampaigns *)
Active == {k \in Campaigns : Budget[k] > spent[k]}

(* calculateTagMatchScore *)
Exact(k, tags)   == {i \in DOMAIN tags : tags[i] \in TagsOf[k]}
Partial(k, tags) ==
  {i \in DOMAIN tags \ Exact(k, tags) :
     \E t \in TagsOf[k] : {<<t, tags[i]>>, <<tags[i], t>>} \intersect Overlap # {}}
Score(k, tags) == 2 * Cardinality(Exact(k, tags)) + Cardinality(Partial(k, tags))

Remaining(k) == Budget[k] - spent[k]

(* Mutant: Math.max(1, ...) is missing. *)
BaseUnfloored(k) == Remaining(k) \div 100

(* weightedMatching: Math.max(1, Math.floor(remainingBudget * 10)) *)
Base(k) == IF Remaining(k) < 100 THEN 1 ELSE Remaining(k) \div 100

(* Mutant: the parentheses of baseWeight * (2 + tagMatchScore) are lost. *)
WeightSum(k, tags) ==
  IF Score(k, tags) > 0 THEN Base(k) * 2 + Score(k, tags) ELSE Base(k)

(* tagAwareWeightedMatching *)
Weight(k, tags) ==
  IF Score(k, tags) > 0 THEN Base(k) * (2 + Score(k, tags)) ELSE Base(k)

(* The campaigns an index into the list of weights can fall on.  From an     *)
(* empty list the plain draw takes undefined, the tag-aware one any campaign.*)
Drawn(tags) ==
  LET listed == {k \in Active : Weight(k, tags) > 0}
  IN  IF listed = {} THEN IF tags = <<>> THEN {} ELSE Active ELSE listed

(* findAdForSite: what it may answer to a site that is registered. *)
Offers(tags) == IF Drawn(tags) = {} THEN {NoAd} ELSE Drawn(tags)

-----------------------------------------------------------------------------
Registered(d) == \E i \in DOMAIN sites : sites[i].domain = d

(* Outside 0..100 is answered 400; what is not a number is neither below     *)
(* nor above.                                                                *)
ShareAccepted(share) == share = NotANumber \/ share \in 0..100

(* siteData.revenueShare || 0.7 *)
StoredShare(share) == IF share = 0 THEN 70 ELSE share

(* Mutant: the look-up uses the domain as it came. *)
CreateSiteRaw(spelling, share) ==
  /\ Len(sites) < MaxSites
  /\ ShareAccepted(share)
  /\ ~Registered(spelling)
  /\ sites' = Append(sites, [domain |-> Normal[spelling], share |-> StoredShare(share)])
  /\ UNCHANGED <<spent, shown>>

(* POST /api/sites and createSite.  A domain that is there is answered 409.  *)
CreateSite(spelling, share) ==
  /\ Len(sites) < MaxSites
  /\ ShareAccepted(share)
  /\ ~Registered(Normal[spelling])
  /\ sites' = Append(sites, [domain |-> Normal[spelling], share |-> StoredShare(share)])
  /\ UNCHANGED <<spent, shown>>

(* GET /api/ad for a registered site. *)
ServeAd(tags) ==
  /\ sites # <<>>
  /\ \E ad \in Offers(tags) : shown' = shown \union {ad}
  /\ UNCHANGED <<sites, spent>>

(* GET /api/ad for another siteId. *)
ServeNothing ==
  /\ shown' = shown \union {NoAd}
  /\ UNCHANGED <<sites, spent>>

(* updateCampaignSpent, for a click on an ad a page holds.  Only its first   *)
(* click beyond the budget is let through here: no later one changes Active. *)
Spend(k) ==
  /\ k \in shown
  /\ k \in Active
  /\ spent' = [spent EXCEPT ![k] = @ + Cost[k]]
  /\ UNCHANGED <<sites, shown>>

Next ==
  \/ \E spelling \in Spellings, share \in Shares : CreateSite(spelling, share)
  \/ \E tags \in TagLists : ServeAd(tags)
  \/ ServeNothing
  \/ \E k \in Campaigns : Spend(k)

Spec == Init /\ [][Next]_vars

-----------------------------------------------------------------------------
(* Every variable keeps its type; a share that is stored may be text. *)
TypeOK ==
  /\ sites \in Seq(Site)
  /\ spent \in [Campaigns -> Nat]
  /\ shown \subseteq Campaigns \union {NoAd}

(* However it is spelled, a domain is registered once: clicks on its ads     *)
(* have one site to pay (database.js 347-356, adRoutes.js 1046).             *)
UniqueDomains ==
  \A i, j \in DOMAIN sites : sites[i].domain = sites[j].domain => i = j

(* Every campaign that can still pay, with however little, may be drawn, and *)
(* none that cannot; a site gets no ad only when none can pay, whatever the  *)
(* tags (adMatchingService.js 106-176).                                      *)
OffersEveryFunded ==
  \A tags \in TagLists : Offers(tags) = IF Active = {} THEN {NoAd} ELSE Active

(* Tags never work against the campaign they fit best: its share of the list *)
(* of weights with them is no smaller than without, for every other campaign *)
(* in the list (adMatchingService.js 140-253).                               *)
BestMatchGains ==
  \A tags \in TagLists : \A k, m \in Active :
    Score(k, tags) >= Score(m, tags) =>
      Weight(k, tags) * Base(m) >= Base(k) * Weight(m, tags)
=============================================================================
