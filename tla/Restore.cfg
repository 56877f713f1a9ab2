SPECIFICATION RestoreSpec
CONSTANTS
    NumCoins = 3
    Indices = {2, 4, 6}
    Lookahead = 1
    Handover = 1
    Rounds = 5
    SaveEvery = 2
    Strays = {{3}}
    Rare = {}
    MaxHeight = 3
    MaxBreaks = 2
    MaxRescans = 1
CHECK_DEADLOCK FALSE
INVARIANTS NoPaymentMissed NoSpendMissed
PROPERTIES Settles
