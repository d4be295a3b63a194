CONSTANTS
  a = a
  b = b
  ann = ann
  bob = bob
  Apps = {a, b}
  Users = {ann, bob}
  Profiles = {p}
  UserOf <- OneEach
  NoUser = NoUser
  NoList = NoList
  Lease = 3
  ConnectEvery = 2
  Events <- Mixed
SPECIFICATION Spec
INVARIANTS TypeOK RunningIsLocked
PROPERTIES KeepsUseExclusive
CHECK_DEADLOCK FALSE
