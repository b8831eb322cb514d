--------------------------- MODULE MCAdCatalogue ---------------------------
(* A small instance of AdCatalogue for TLC. *)
EXTENDS AdCatalogue, TLC

CONSTANTS blog, news, shop, Blog,   \* three domains and another spelling of the first
          tech, techno, art,  \* tags; techno holds the text of tech
          small, large        \* campaigns

MCNormal  == blog :> blog @@ news :> news @@ shop :> shop @@ Blog :> blog
MCSamples == <<[domain |-> news, share |-> 65]>>
MCShares  == {-1, 0, 65, 101, NotANumber}
(* The small campaign keeps less than 0.1 XLM after one click. *)
MCBudget  == small :> 250 @@ large :> 1500
MCCost    == small :> 200 @@ large :> 300
MCTagsOf  == small :> {tech} @@ large :> {techno, art}
MCOverlap == {<<techno, tech>>}
=============================================================================
