SPECIFICATION AccountSpec
CONSTANTS
    acct = acct
    merch = merch
    mgr = mgr
    usd = usd
    None = None
    Holder = {acct, merch, mgr}
    Account = {acct}
    Tokens = {usd}
    Party = {merch, mgr}
    Thresholds = {0, 1}
    Withdrawals = {1, 2, 3}
    Refunds = {1}
    Payees = {merch}
    Depositors = {mgr}
    Deposits = {2}
    Funds <- CustomerFunds
    MaxRequests = 2
INVARIANTS
    WithdrawalsAccounted
PROPERTIES
    LargeWithdrawalsApproved
