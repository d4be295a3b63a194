CONSTANTS
  a = a
  b = b
  ann = ann
  bob = bob
  Apps = {a, b}
  Users = {ann, bob}
  Profiles = {p}
  UserOf <- OneEach
  NoUser = NoUser
  NoList = NoList
  Lease = 2
  ConnectEvery = 2
  Events <- Gone
SPECIFICATION FairSpec
PROPERTIES CacheReconciles AbandonedLocksLapse
CHECK_DEADLOCK FALSE
