CONSTANTS
  p = p
  q = q
  r = r
  c = c
  NoSlot = NoSlot
  Cleaners = {c}
  s1 = s1
  s2 = s2
  Slots = {s1, s2}
  Profiles = {p, q}
  MaxVersion = 2
  Chunks = 2
  MaxActive = 2
  MaxRequests = 3
  MaxChanges = 1
SPECIFICATION Spec
SYMMETRY Alike
INVARIANTS DownloadsTypeOK ArchiveIntact StreamUndisturbed KeysExact
CHECK_DEADLOCK FALSE
