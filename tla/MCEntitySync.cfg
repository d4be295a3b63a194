CONSTANTS
  a = a
  b = b
  Devices = {a, b}
  Entities = {e}
  NewKinds <- Kinds
  NoKind = NoKind
  NoCopy = NoCopy
  NoOp = NoOp
  MaxTime = 2
  MaxEdits = 1
  MaxFaults = 1
  Faults <- AllFaults
  Failing <- Listings
SPECIFICATION FairSpec
INVARIANTS TypeOK
PROPERTIES EntitiesSurvive CreatedArrives
ACTION_CONSTRAINT Relevant
CHECK_DEADLOCK FALSE
