--------------------------- MODULE MCClickPipeline ---------------------------
(* Small instances of ClickPipeline for TLC. *)
EXTENDS ClickPipeline, TLC

CONSTANTS good, bad,    \* the site, or wallet, with a valid address and the one without
          k1, k2        \* the campaigns

(* Sample data of database.js: campaign_elearning_003 pays 0.12 XLM a click, *)
(* campaign_cloud_006 0.3 XLM.                                               *)
MCCost   == [k \in Campaigns |-> IF k = k1 THEN 120 ELSE 300]
(* Enough for one click. *)
MCBudget == MCCost

ClickSymmetry == Permutations(Clicks)
=============================================================================
