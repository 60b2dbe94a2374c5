\* Two callers; two Games share a host, a third has its own.
SPECIFICATION Spec
CONSTANTS
    c1 = c1
    c2 = c2
    rpg = rpg
    rpgElsewhere = rpgElsewhere
    chess = chess
    rpgHost = rpgHost
    chessHost = chessHost
    Caller = {c1, c2}
    Game = {rpg, rpgElsewhere, chess}
    Host = {rpgHost, chessHost}
    HostOf <- Hosts
    MaxConn = 2
    MaxFaults = 1
INVARIANTS PoolTypeOK PooledAreOpen UsedWasPooled
PROPERTY EntriesStay
SYMMETRY Alike
