\* One item of a Game that is there; two changes, one failure.
SPECIFICATION Spec
CONSTANTS
    avatar = avatar
    item = item
    strength = strength
    None = None
    Game = Game
    Child = {item}
    Overwrites = {item}
    Terms <- TermsOf
    Part = {strength}
    Specs <- SpecsOf
    GameFirst = TRUE
    MaxChanges = 2
    MaxFaults = 1
INVARIANTS ReconcilerTypeOK ReconcilerInv RowsHaveFinalizer SettledIsReflected
PROPERTIES DeletedGoAway ChildrenReflected GamesBecomeReady
\* Users, failures and changes are bounded, and everything comes to rest.
CHECK_DEADLOCK FALSE
