SPECIFICATION ReceiveSpec
CONSTANTS
    Kinds = {"standard", "short"}
    FirstKind = "standard"
    Lookahead = 1
    Uncommon = {}
    MaxBlocks = 3
    MaxOpens = 2
    MaxResets = 1
    MaxOut = 2
    MaxNames = 1
    MaxCalls = 2
CHECK_DEADLOCK FALSE
INVARIANTS NeverOfferedAgain EveryPaymentFound HandsOnChosen
