CONSTANTS
  p1 = p1
  p2 = p2
  proxy1 = proxy1
  group1 = group1
  NoProfile = NoProfile
  Profiles = {p1}
  Entities = {proxy1}
  KindOf <- KindOfOne
  KindOrder <- OneKind
  Attached <- AllAttached
  Tasks = {t1}
  MaxGen = 1
  MaxChannel = 1
  SseItems <- AllItems
SPECIFICATION Spec
INVARIANTS TypeOK NoLostRequest
