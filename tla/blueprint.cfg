\* Creations are validated while two blueprints are declared, edited, deleted
\* and declared again.
SPECIFICATION Spec
CONSTANTS
    c1 = c1
    c2 = c2
    a1 = a1
    adventurer = adventurer
    rider = rider
    strength = strength
    race = race
    elf = elf
    key = key
    Client = {c1}
    Avatar = {a1}
    IntLimit = 1
    MaxInstance = 1
    MaxFaults = 1
    AvatarType = {adventurer, rider}
    NoType = NoType
    Part = {strength, race, elf}
    Kind <- Kinds
    Base <- Bases
    Declared <- Versions
    Many = 2
    MaxChanges = 3
    Workload <- Creations
    NoRequest = NoRequest
INVARIANTS
    InstanceTypeOK
    AcceptedWasDeclared
    GoneLeavesNothing
PROPERTIES
    CoveredIsAccepted
