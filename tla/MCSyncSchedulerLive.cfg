CONSTANTS
  p1 = p1
  p2 = p2
  proxy1 = proxy1
  group1 = group1
  NoProfile = NoProfile
  Profiles = {p1}
  Entities = {proxy1}
  KindOf <- KindOfOne
  KindOrder <- OneKind
  Attached <- NothingAttached
  Tasks = {}
  MaxGen = 2
  MaxChannel = 1
  SseItems <- EntityItems
SPECIFICATION FairSpecLive
INVARIANTS InFlightExact
PROPERTIES RequestsServed EntitiesDrained
CHECK_DEADLOCK FALSE
