CONSTANTS
  cam = cam
  way = way
  b1 = b1
  b2 = b2
  w1 = w1
  w2 = w2
  direct = direct
  other = other
  changed = changed
  Endpoint <- Hosts
  s1 = s1
  s2 = s2
  Profiles = {cam, way}
  Upstreams = {direct, other}
  Workers = {w1}
  Pids = {b1, b2}
  Direct = direct
  TempPid = TempPid
  NoWorker = NoWorker
  NoProfile = NoProfile
  NoUpstream = NoUpstream
  NoPid = NoPid
  Slots = {s1, s2}
  Wayfern = {way}
  Ephemeral = {way}
  MaxCommands = 2
  Polled = {cam, way}
  MaxAccidents = 1
SPECIFICATION Spec
PROPERTIES MetadataSettles RamIsFreed
CHECK_DEADLOCK FALSE
