SPECIFICATION Spec
CONSTANTS
    Addresses = {a, b}
    None = None
    Amounts = {1, 2}
    Names = {n}
    Spendable = 4
    Fee = 1
    MaxPayments = 2
    Rare = {"changes mind", "link while sending"}
    MaxEdits = 3
    MaxReviews = 2
    MaxVisits = 2
SYMMETRY Symmetry
CHECK_DEADLOCK FALSE
INVARIANTS PaysWhatWasTyped NameOfItsRequest ConfirmedOnItsReview
