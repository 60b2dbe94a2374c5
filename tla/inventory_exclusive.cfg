\* Two clients on avatars of their own: grants and activations are exact.
SPECIFICATION Spec
CONSTANTS
    c1 = c1
    c2 = c2
    ann = ann
    bob = bob
    potion = potion
    sword = sword
    NoRequest = NoRequest
    Client = {c1, c2}
    Avatar = {ann, bob}
    Item = {potion, sword}
    Declared <- Fixed
    Workload <- ExclusiveWorkload
    IntLimit = 8
    MaxInstance = 2
    MaxRow = 2
    MaxPower = 2
    MaxFaults = 1
INVARIANTS OneStack ByTheCatalog
PROPERTIES StockKept GrantsAdd ActivationsSpendUnlessFaults
