\* Two overlapping credits of a wallet that is there: one of them is lost.
SPECIFICATION Spec
CONSTANTS
    c1 = c1
    c2 = c2
    ann = ann
    bob = bob
    eve = eve
    gold = gold
    pts = pts
    NoRequest = NoRequest
    Client = {c1, c2}
    Avatar = {ann}
    Currency = {gold}
    Declared <- Endowed
    Workload <- TwoCredits
    IntLimit = 5
    MaxInstance = 1
    MaxRow = 1
    MaxFaults = 0
PROPERTY CreditsAdd
