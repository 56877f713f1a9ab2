SPECIFICATION Spec
CONSTANTS
    Password = {a, b}
    Phrase = {p}
    None = None
    MaxWallets = 1
    MaxFresh = 4
    MaxOps = 3
    MaxAlterations = 1
    Rare = {}
CHECK_DEADLOCK FALSE
SYMMETRY Alike
INVARIANTS WaysInAgree AckedStays AnswersTrue
