\* A transfer to oneself makes money.
SPECIFICATION Spec
CONSTANTS
    c1 = c1
    c2 = c2
    ann = ann
    bob = bob
    eve = eve
    gold = gold
    pts = pts
    NoRequest = NoRequest
    Client = {c1}
    Avatar = {ann}
    Currency = {gold}
    Declared <- OneVersion
    Workload <- SelfTransfer
    IntLimit = 4
    MaxInstance = 1
    MaxRow = 1
    MaxFaults = 0
PROPERTY TransfersConserve
