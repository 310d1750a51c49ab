SPECIFICATION Spec
SYMMETRY HashSymmetry
CONSTANTS
    org = org
    p1 = p1
    h1 = h1
    h2 = h2
    usd = usd
    None = None
    Tokens = {usd}
    Person = {org, p1}
    Organizers = {org}
    Capacities = {None, 1}
    Supplies = {0, 1}
    Hashes = {h1, h2}
    Royalties = {5000}
    Prices = {0, 2}
    Funds <- FirstHasTwo
    MaxEvents = 2
    MaxTiers = 2
    MaxTickets = 2
INVARIANTS
    SeatsAgree
    NoSeatIdle
    TiersHonoured
    HashesUnique
PROPERTIES
    UsedForGood
