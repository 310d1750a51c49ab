SPECIFICATION Spec
CONSTANTS
    b1 = b1
    b2 = b2
    org = org
    spon = spon
    acct = acct
    self = self
    gate = gate
    usd = usd
    None = None
    Tokens = {usd}
    Holder = {b1, b2, org, spon, acct, self}
    Self = self
    Organizers = {org}
    Backers = {b1, b2}
    Sponsors = {spon}
    Gateways = {gate}
    Accounts = {acct}
    Goals = {4}
    Deadlines = {1}
    Contributions = {1, 2}
    Invoiced = {1}
    PoolFunds = {1}
    MilestoneLists = {}
    MaxMilestones = 2
    Funds <- TwoAndOne
    MaxTime = 2
INVARIANTS
    PledgesReclaimable
CHECK_DEADLOCK FALSE
