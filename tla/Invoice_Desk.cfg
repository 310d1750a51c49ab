SPECIFICATION ConfiguredSpec
CONSTANTS
    s1 = s1
    s2 = s2
    p1 = p1
    p2 = p2
    acct = acct
    admin1 = admin1
    admin2 = admin2
    treasury = treasury
    shade = shade
    usd = usd
    eur = eur
    k1 = k1
    k2 = k2
    n1 = n1
    n2 = n2
    None = None
    Holder = {s1, p1, acct, admin1, shade}
    Account = {acct}
    Tokens = {usd}
    Party = {s1}
    Thresholds = {}
    Withdrawals = {}
    Refunds = {}
    Payees = {s1}
    Depositors = {}
    Deposits = {}
    Funds <- ThreeEach
    MaxRequests = 0
    Admins = {admin1}
    Successors = {}
    Seller = {s1}
    PauseChanges = {TRUE, FALSE}
    Delistable = {usd}
    Priced = {usd}
    Fees = {}
    PlatformAccounts = {}
    Prices = {0, 1, 2}
    FeeDelay = 1
    MaxTime = 1
    Shade = shade
    Statuses = {FALSE}
    Keys = {k1, k2}
    Routes = {acct}
    TokenLists <- OwnListOrNone
    Restrictions = {}
    Payers = {p1}
    Amounts = {}
    Drafts = {}
    FiatAmounts = {2}
    FiatScale = 1
    Expiries = {1}
    Messages <- SignedMessages
    Instalments = {1}
    Batches = {}
    Amendments = {3}
    PartRefunds = {}
    RefundWindow = 1
    MaxInvoices = 2
INVARIANTS
    SignedOnce
PROPERTIES
    PaidTermsFixed
    PausedFrozen
CHECK_DEADLOCK FALSE
