\* Two requests at a time on one avatar; its blueprint is declared once.
SPECIFICATION Spec
CONSTANTS
    c1 = c1
    c2 = c2
    a1 = a1
    adventurer = adventurer
    rider = rider
    strength = strength
    race = race
    elf = elf
    key = key
    Client = {c1, c2}
    Avatar = {a1}
    IntLimit = 1
    MaxInstance = 2
    MaxFaults = 1
    AvatarType = {adventurer}
    NoType = NoType
    Part = {strength, key}
    Kind <- Kinds
    Base <- Bases
    Declared <- Fixed
    Many = 1
    MaxChanges = 1
    Workload <- Requests
    NoRequest = NoRequest
INVARIANTS
    InstanceInv
    AcknowledgedIsWhole
PROPERTIES
    AnswersComplete
