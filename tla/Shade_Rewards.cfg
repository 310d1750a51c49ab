SPECIFICATION RewardsSpec
CONSTANTS
    s1 = s1
    s2 = s2
    p1 = p1
    p2 = p2
    acct = acct
    admin1 = admin1
    admin2 = admin2
    treasury = treasury
    shade = shade
    usd = usd
    eur = eur
    k1 = k1
    k2 = k2
    n1 = n1
    n2 = n2
    None = None
    Holder = {s1, s2, p1, p2, acct, admin1, shade}
    Account = {acct}
    Tokens = {usd}
    Party = {s1}
    Thresholds = {}
    Withdrawals = {}
    Refunds = {}
    Payees = {s1}
    Depositors = {}
    Deposits = {}
    Funds <- ThreeEach
    MaxRequests = 0
    Admins = {admin1}
    Successors = {}
    Seller = {s1}
    PauseChanges = {}
    Delistable = {}
    Priced = {}
    Fees = {}
    PlatformAccounts = {}
    Prices = {}
    FeeDelay = 1
    MaxTime = 2
    Shade = shade
    Statuses = {}
    Keys = {}
    Routes = {acct}
    TokenLists = {}
    Restrictions = {}
    Payers = {p1, p2, s2}
    Amounts = {}
    Drafts = {}
    FiatAmounts = {}
    FiatScale = 1
    Expiries = {None}
    Messages = {}
    Instalments = {}
    Batches = {}
    Amendments = {}
    PartRefunds = {}
    RefundWindow = 1
    MaxInvoices = 0
    Buyers = {}
    Shows = {}
    Pricings = {}
    Resales = {}
    Quantities = {}
    MaxEvents = 0
    MaxTickets = 0
    Customers = {}
    PlanAmounts = {}
    PlanIntervals = {}
    Allowances = {}
    MaxPlans = 0
    MaxSubs = 0
    Backers = {p1, p2, s2}
    Deadlines = {0, 1}
    TierLists <- Perks
    Pledges = {0, 1, 2}
    MaxCampaigns = 1
    MaxRaised = 5
    MaxRewards = 2
    Collectors = {p1, p2}
    Supplies = {0, 1}
    Royalties = {10000, 10001}
    MaxCollections = 2
    MaxNfts = 3
INVARIANTS
    CountsAgree
    PledgesHeld
    SupplyKept
    OwnersListed
    OneRewardEach
PROPERTIES
    CapacityKept
CHECK_DEADLOCK FALSE
