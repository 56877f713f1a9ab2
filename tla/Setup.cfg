SPECIFICATION SetupSpec
CONSTANTS
    Tip = 4
    PerMonth = 2
    Months = {1, 2}
    Blocks = {1, 3}
    Typed = {1}
    Uncommon = {}
    MaxNew = 1
    MaxFields = 2
    MaxLooks = 2
    MaxMade = 1
    MaxLoads = 1
CHECK_DEADLOCK FALSE
INVARIANTS MadeOfItsWords ScansFromThere
