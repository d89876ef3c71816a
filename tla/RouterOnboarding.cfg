CONSTANTS
  Routers = {r1}
  NoRouter = NoRouter
  Keys = {k1}
  NoKey = NoKey
  Workers = {w1}
  Calls = {c1}
  MaxOps = 1
  MaxFaults = 1
  Managers = {m1, m2}
  Addresses = {a1}
  Secrets = {s1, s2}
  NoSecret = NoSecret
  Outdated = Outdated
  MaxEvents = 2
SPECIFICATION OnboardingSpec
SYMMETRY Interchangeable
INVARIANTS
  OnboardingTypeOK
  TrailLeadsToState
  NasRowFollowsSecret
  PeerCheckTellsStatus
PROPERTIES
  ReplacedKnowingly
CHECK_DEADLOCK FALSE
