SPECIFICATION Spec
CONSTANTS
    c1 = c1
    c2 = c2
    Client = {c1, c2}
    Handler = {h1, h2}
    Nets <- NetsOf
    DefaultNet <- DefaultNetOf
    Quota <- QuotaOf
    Renews <- RenewsOf
    Lifetime <- LifetimeOf
    MaxTraffic = 2
    MaxEvents = 3
    MaxFaults = 1
INVARIANT AddressesDiffer
INVARIANT ServerApart
INVARIANT Settles
INVARIANT NoOvercount
PROPERTY CutOff
CHECK_DEADLOCK FALSE
