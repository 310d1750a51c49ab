SPECIFICATION Spec
CONSTANTS
    s1 = s1
    s2 = s2
    p1 = p1
    p2 = p2
    acct = acct
    admin1 = admin1
    admin2 = admin2
    treasury = treasury
    shade = shade
    usd = usd
    eur = eur
    k1 = k1
    k2 = k2
    n1 = n1
    n2 = n2
    None = None
    Holder = {s1, p1, p2, acct, admin1, shade}
    Account = {acct}
    Tokens = {usd}
    Party = {s1}
    Thresholds = {}
    Withdrawals = {1}
    Refunds = {}
    Payees = {s1}
    Depositors = {}
    Deposits = {}
    Funds <- ThreeEach
    MaxRequests = 0
    Admins = {admin1}
    Successors = {}
    Seller = {s1}
    PauseChanges = {}
    Delistable = {}
    Priced = {}
    Fees = {}
    PlatformAccounts = {}
    Prices = {}
    FeeDelay = 1
    MaxTime = 2
    Shade = shade
    Statuses = {}
    Keys = {}
    Routes = {acct, s1}
    TokenLists = {}
    Restrictions = {TRUE, FALSE}
    Payers = {p1, p2}
    Amounts = {2}
    Drafts = {3}
    FiatAmounts = {}
    FiatScale = 1
    Expiries = {None, 1}
    Messages = {}
    Instalments = {1}
    Batches <- TwiceOrSwapped
    Amendments = {1}
    PartRefunds = {1, 2}
    RefundWindow = 1
    MaxInvoices = 2
INVARIANTS
    InvoiceBooks
    PayersOutOfPocket
PROPERTIES
    ClosedForGood
SYMMETRY PayersAlike
CHECK_DEADLOCK FALSE
