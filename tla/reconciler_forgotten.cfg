\* Nothing fails, nothing is changed after it was applied.
SPECIFICATION Spec
CONSTANTS
    avatar = avatar
    item = item
    strength = strength
    None = None
    Game = Game
    Child = {avatar}
    Overwrites = {}
    Terms <- TermsOf
    Part = {strength}
    Specs <- SpecsOf
    GameFirst = FALSE
    MaxChanges = 2
    MaxFaults = 0
INVARIANTS AppliedIsReflected
CHECK_DEADLOCK FALSE
