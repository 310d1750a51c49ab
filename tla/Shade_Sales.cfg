SPECIFICATION SalesSpec
SYMMETRY PayersAlike
CONSTANTS
    s1 = s1
    s2 = s2
    p1 = p1
    p2 = p2
    acct = acct
    admin1 = admin1
    admin2 = admin2
    treasury = treasury
    shade = shade
    usd = usd
    eur = eur
    k1 = k1
    k2 = k2
    n1 = n1
    n2 = n2
    None = None
    Holder = {s1, p1, p2, acct, admin1, treasury, shade}
    Account = {acct}
    Tokens = {usd}
    Party = {s1}
    Thresholds = {}
    Withdrawals = {2}
    Refunds = {}
    Payees = {s1}
    Depositors = {}
    Deposits = {}
    Funds <- ThreeEach
    MaxRequests = 0
    Admins = {admin1}
    Successors = {}
    Seller = {s1}
    PauseChanges = {}
    Delistable = {}
    Priced = {}
    Fees = {}
    PlatformAccounts = {}
    Prices = {}
    FeeDelay = 1
    MaxTime = 1
    Shade = shade
    Statuses = {}
    Keys = {}
    Routes = {acct}
    TokenLists = {}
    Restrictions = {}
    Payers = {p1, p2}
    Amounts = {}
    Drafts = {}
    FiatAmounts = {}
    FiatScale = 1
    Expiries = {None}
    Messages = {}
    Instalments = {}
    Batches = {}
    Amendments = {}
    PartRefunds = {}
    RefundWindow = 1
    MaxInvoices = 0
    Buyers = {p1, p2}
    Shows <- SmallShows
    Pricings <- EarlyBirds
    Resales = {0, 2}
    Quantities = {0, 1}
    MaxEvents = 2
    MaxTickets = 2
    Customers = {}
    PlanAmounts = {}
    PlanIntervals = {}
    Allowances = {}
    MaxPlans = 0
    MaxSubs = 0
    Backers = {}
    Deadlines = {}
    TierLists = {}
    Pledges = {}
    MaxCampaigns = 0
    MaxRaised = 0
    MaxRewards = 2
    Collectors = {}
    Supplies = {}
    Royalties = {}
    MaxCollections = 0
    MaxNfts = 0
INVARIANTS
    ShadeTypeOK
    NeverOversold
    HoldersListed
PROPERTIES
    HoldersRefunded
    CancelledClosed
CHECK_DEADLOCK FALSE
