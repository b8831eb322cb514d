\* Three domains in four spellings, two campaigns, up to two custom tags.
SPECIFICATION Spec
CONSTANTS
  blog = blog
  news = news
  Blog = Blog
  shop = shop
  tech = tech
  techno = techno
  art = art
  small = small
  large = large
  Domains = {blog, news, shop}
  Spellings = {blog, news, Blog, shop}
  Normal <- MCNormal
  NotANumber = NotANumber
  Shares <- MCShares
  Campaigns = {small, large}
  Budget <- MCBudget
  Cost <- MCCost
  Tags = {tech, techno, art}
  TagsOf <- MCTagsOf
  Overlap <- MCOverlap
  SampleSites <- MCSamples
  MaxTags = 2
  MaxSites = 4
  NoAd = NoAd
INVARIANTS
  UniqueDomains
  OffersEveryFunded
  BestMatchGains
