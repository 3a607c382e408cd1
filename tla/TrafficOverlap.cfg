SPECIFICATION Spec
CONSTANTS
  c1 = c1
  c2 = c2
  Client = {c1, c2}
  Handler = {h1}
  NoRow = NoRow
  Quota <- QuotaOf
  Period <- PeriodOf
  Lifetime <- ShortLifetimeOf
  InboundExpiry = 0
  Op = {"update", "del", "reset", "resetAll", "periodic", "depleted", "inbound"}
  Toggled = {}
  Overlap = TRUE
  Flaky = FALSE
  MaxNow = 2
  MaxTraffic = 1
  MaxCrash = 0
  MaxLost = 1
INVARIANT TypeOK
INVARIANT NoOvercount
PROPERTY EnforcedByTick
