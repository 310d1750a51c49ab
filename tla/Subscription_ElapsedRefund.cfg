SPECIFICATION Spec
CONSTANTS
    c1 = c1
    m1 = m1
    k1 = k1
    usd = usd
    eur = eur
    None = None
    Address = {c1, m1}
    Admins = {m1}
    Merchants = {m1}
    Customers = {c1}
    Tokens = {usd}
    Offers <- UnevenOffers
    NewAmounts = {}
    NewIntervals = {}
    GracePeriods = {1}
    Cycles = {1}
    Preferences = {}
    Approvers = {c1}
    ApproveAmounts = {1}
    MoveAmounts = {}
    InitialBalance <- TwoEach
    MinInterval = 1
    MaxTime = 4
    MaxPlans = 2
    MaxSubs = 1
INVARIANTS
    ElapsedCycleNotRefundable
