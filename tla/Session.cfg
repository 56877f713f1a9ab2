SPECIFICATION Spec
CONSTANTS
    Wallet = {w1, w2}
    NoWallet = NoWallet
    Rare = {}
    MaxLocks = 2
    MaxSalts = 3
CHECK_DEADLOCK FALSE
SYMMETRY Alike
INVARIANTS KeysFollowUnlocking PasswordToldHolds
PROPERTIES HiddenStaysLocked
