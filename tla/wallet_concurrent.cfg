\* Two clients on the same avatars, redefined currencies, one failed statement.
SPECIFICATION Spec
CONSTANTS
    c1 = c1
    c2 = c2
    ann = ann
    bob = bob
    eve = eve
    pts = pts
    gold = gold
    NoRequest = NoRequest
    Client = {c1, c2}
    Avatar = {ann, bob}
    Declared <- CappedGold
    Currency = {gold}
    Workload <- SharedWorkload
    IntLimit = 6
    MaxInstance = 3
    MaxRow = 2
    MaxFaults = 1
INVARIANTS TypeOK IInv BalanceBounds HeldRowsStable
PROPERTY NoInheritance
