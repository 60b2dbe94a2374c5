\* Two clients on one avatar: what holds whatever overlaps, fails or dies.
SPECIFICATION Spec
CONSTANTS
    c1 = c1
    c2 = c2
    ann = ann
    bob = bob
    potion = potion
    sword = sword
    NoRequest = NoRequest
    Client = {c1, c2}
    Avatar = {ann}
    Item = {potion}
    Declared <- Changing
    Workload <- SharedWorkload
    IntLimit = 8
    MaxInstance = 2
    MaxRow = 2
    MaxPower = 2
    MaxFaults = 1
INVARIANTS TypeOK InventoryInv StacksLegal HeldRowsStable
PROPERTY NewAvatarStartsEmpty
