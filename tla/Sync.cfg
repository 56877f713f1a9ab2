SPECIFICATION Spec
CONSTANTS
    BatchSize = 2
    Keep = 3
    OnWord = 1
    Rounds = 1
    Earn = 2
    Speeds = {1, 2}
    Starts = {0, 2}
    Rare = {}
    MaxHeight = 4
    MaxReorgs = 2
    MaxTroubles = 1
INVARIANT OneChain
PROPERTIES DoneIsFresh BelievesNoMore CatchesUp
