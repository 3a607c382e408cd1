SPECIFICATION FairSpec
CONSTANTS
  c1 = c1
  c2 = c2
  Client = {c1, c2}
  Handler = {h1}
  NoRow = NoRow
  Quota <- QuotaOf
  Period <- PeriodOf
  Lifetime <- LifetimeOf
  InboundExpiry = 0
  Op = {"update", "reset"}
  Toggled = {}
  Overlap = FALSE
  Flaky = FALSE
  MaxNow = 3
  MaxTraffic = 1
  MaxCrash = 1
  MaxLost = 0
PROPERTY DepletedCutOff
PROPERTY RenewedEventually
