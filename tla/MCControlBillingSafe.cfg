CONSTANTS
  ann = ann
  bob = bob
  w1 = w1
  w2 = w2
  k1 = k1
  l1 = l1
  Workspaces = {w1}
  Managers <- OneManages
  Plans = {1, 2}
  Price <- Prices
  Codes = {k1}
  Discounts = {500, 750}
  Caps = {1}
  Allowlists = {{}}
  Licence <- LicencePlans
  Unordered = FALSE
  Slots = {1, 2}
  MaxCoupons = 2
  MaxInvoices = 2
  MaxCheckouts = 1
  NoCode = NoCode
  NoSession = NoSession
  NoWorkspace = NoWorkspace
SPECIFICATION Spec
INVARIANTS TypeOK ChargedAsQuoted CouponsAccounted SubscriptionIsInvoiced CompletedIsInvoiced
CHECK_DEADLOCK FALSE
