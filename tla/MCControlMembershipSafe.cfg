CONSTANTS
  ann = ann
  bob = bob
  Emails <- Everybody
  Workspaces = {w, x}
  InviteIds = {i1, i2}
  NoId = NoId
  NoOne = NoOne
  Nowhere = Nowhere
  Admins <- Nobody
  LocalIds <- Everybody
  Legacy <- OnlyBob
  Store = "snapshot"
  Failing = FALSE
  LoadFailing = TRUE
SPECIFICATION Spec
SYMMETRY Slots
INVARIANTS TypeOK EveryWorkspaceHasAnOwner PersonJoinsOnce InvitesAreForOutsiders
PROPERTIES AccountsKept
CHECK_DEADLOCK FALSE
