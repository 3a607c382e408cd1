SPECIFICATION Spec
CONSTANTS
  c1 = c1
  c2 = c2
  Client = {c1, c2}
  Handler = {h1}
  NoRow = NoRow
  Quota <- QuotaOf
  Period <- PeriodOf
  Lifetime <- LifetimeOf
  InboundExpiry = 3
  Op = {"update", "add", "del", "reset"}
  Toggled = {c1}
  Overlap = FALSE
  Flaky = FALSE
  MaxNow = 3
  MaxTraffic = 1
  MaxCrash = 1
  MaxLost = 1
INVARIANT Synced
INVARIANT RowPerClient
