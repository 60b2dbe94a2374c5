\* Two clients on avatars of their own: the handlers implement the ledger.
SPECIFICATION Spec
CONSTANTS
    c1 = c1
    c2 = c2
    ann = ann
    bob = bob
    eve = eve
    gold = gold
    pts = pts
    NoRequest = NoRequest
    Client = {c1, c2}
    Avatar = {ann, bob, eve}
    Currency = {gold}
    Declared <- OneVersion
    Workload <- ExclusiveWorkload
    IntLimit = 4
    MaxInstance = 2
    MaxRow = 3
    MaxFaults = 1
INVARIANT NoOrphanWallets
PROPERTIES LedgerImplemented RepliesHonestUnlessFaults
