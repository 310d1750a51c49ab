SPECIFICATION Spec
CONSTANTS
    c1 = c1
    m1 = m1
    k1 = k1
    usd = usd
    eur = eur
    None = None
    Address = {c1, m1}
    Admins = {m1}
    Merchants = {m1}
    Customers = {c1}
    Tokens = {usd}
    Offers <- SwitchOffers
    NewAmounts = {2}
    NewIntervals = {}
    GracePeriods = {}
    Cycles = {1}
    Preferences = {usd}
    Approvers = {c1, m1}
    ApproveAmounts = {4}
    MoveAmounts = {}
    InitialBalance <- SixEach
    MinInterval = 2
    MaxTime = 4
    MaxPlans = 2
    MaxSubs = 1
INVARIANTS
    RefundCovered
PROPERTIES
    EndedStaysEnded
