CONSTANTS
  r1 = r1  k1 = k1  s1 = s1  s2 = s2  p1 = p1  p2 = p2  p3 = p3  h0 = h0  h1 = h1  h2 = h2
  Resources = {r1}
  Kinds = {k1}
  KindOf <- SingleResource
  Controlled = {}
  Specs = {s1, s2}
  Policies = {p1, p2, p3}
  Hashes = {h0, h1, h2}
  Hash <- HashOf
  Applicable <- AppliesTo
  BatchDeleteLimit = 1
  NoResource = NoResource  NoPolicies = NoPolicies  NoReport = NoReport
  NoHash = NoHash  Idle = Idle
  MaxEdits = 2
  MaxFaults = 1
SPECIFICATION FairSpec
INVARIANTS TypeOK NoLostWakeup
PROPERTIES SettledIsStable Converges
