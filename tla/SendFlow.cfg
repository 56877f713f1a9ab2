SPECIFICATION Spec
CONSTANTS
    Payment = {p1, p2}
    MaxSends = 2
    MAX_SEND_ATTEMPTS = 2
    MaxCloses = 1
    Rare = {}
CHECK_DEADLOCK FALSE
INVARIANTS NothingLeft NoSilentEnd PaidNotOffered
SYMMETRY Alike
