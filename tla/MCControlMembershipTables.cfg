CONSTANTS
  ann = ann
  bob = bob
  Emails <- Everybody
  Workspaces = {w}
  InviteIds = {i1}
  NoId = NoId
  NoOne = NoOne
  Nowhere = Nowhere
  Admins <- OnlyAnn
  LocalIds <- OnlyBob
  Legacy <- Nobody
  Store = "tables"
  Failing = TRUE
  LoadFailing = FALSE
SPECIFICATION FairSpec
PROPERTIES WorkspacesKept SavedCatchesUp
CHECK_DEADLOCK FALSE
