SPECIFICATION TakingsSpec
CONSTANTS
    s1 = s1
    s2 = s2
    p1 = p1
    p2 = p2
    acct = acct
    admin1 = admin1
    admin2 = admin2
    treasury = treasury
    shade = shade
    usd = usd
    eur = eur
    k1 = k1
    k2 = k2
    n1 = n1
    n2 = n2
    None = None
    Holder = {s1, s2, p1, acct, admin1, admin2, treasury, shade}
    Account = {acct}
    Tokens = {usd}
    Party = {s1}
    Thresholds = {}
    Withdrawals = {}
    Refunds = {}
    Payees = {s1}
    Depositors = {}
    Deposits = {}
    Funds <- PlentyEach
    MaxRequests = 0
    Admins = {admin1, admin2}
    Successors = {}
    Seller = {s1, s2}
    PauseChanges = {}
    Delistable = {}
    Priced = {}
    Fees = {150}
    PlatformAccounts = {treasury}
    Prices = {}
    FeeDelay = 1
    MaxTime = 1
    Shade = shade
    Statuses = {}
    Keys = {}
    Routes = {acct}
    TokenLists = {}
    Restrictions = {}
    Payers = {p1}
    Amounts = {120000}
    Drafts = {}
    FiatAmounts = {}
    FiatScale = 1
    Expiries = {None}
    Messages = {}
    Instalments = {40000}
    Batches = {}
    Amendments = {}
    PartRefunds = {}
    RefundWindow = 1
    MaxInvoices = 1
    Buyers = {p1}
    Shows <- LargeShow
    Pricings = {}
    Resales = {}
    Quantities = {5}
    MaxEvents = 1
    MaxTickets = 1
    Customers = {p1}
    PlanAmounts = {0, 40000}
    PlanIntervals = {0, 1}
    Allowances = {80000}
    MaxPlans = 1
    MaxSubs = 1
    Backers = {}
    Deadlines = {}
    TierLists = {}
    Pledges = {}
    MaxCampaigns = 0
    MaxRaised = 0
    MaxRewards = 2
    Collectors = {}
    Supplies = {}
    Royalties = {}
    MaxCollections = 0
    MaxNfts = 0
INVARIANTS
    VolumesAgree
    TakingsAgree
    SplitNeverDearer
    ChargedOncePerInterval
CHECK_DEADLOCK FALSE
