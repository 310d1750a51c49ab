SPECIFICATION FairSpec
CONSTANTS
    c1 = c1
    m1 = m1
    k1 = k1
    usd = usd
    eur = eur
    None = None
    Address = {c1, m1, k1}
    Admins = {m1}
    Merchants = {m1}
    Customers = {c1}
    Tokens = {usd}
    Offers <- EditOffers
    NewAmounts = {0}
    NewIntervals = {0, 3}
    GracePeriods = {1}
    Cycles = {1}
    Preferences = {}
    Approvers = {c1}
    ApproveAmounts = {1}
    MoveAmounts = {1}
    InitialBalance <- TwoEach
    MinInterval = 2
    MaxTime = 4
    MaxPlans = 1
    MaxSubs = 2
INVARIANTS
    PastDueMarked
    ChargeRateLimited
PROPERTIES
    GraceHonoured
    GraceResolves
