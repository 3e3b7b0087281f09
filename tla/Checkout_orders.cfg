\* One user, three updates and one death; two families, two transfers handled two at a time.
CONSTANTS
    Families = {"known", "new"}
    StylesOf <- MCStylesOf
    Formats = {"TTF", "OTF"}
    VietnameseOpen = TRUE
    Transactions = {1, 2}
    Desks = {a, b}
    Updates = {1, 2, 3}
    Starts <- MCStarts
    Known = {"known"}
    MaxMessages = 1
    MaxAtOnce = 2
    MaxDeaths = 1
SYMMETRY MCSymmetry
SPECIFICATION Spec
INVARIANTS
    OrderIsSelection
    AppliedOnce
    PaidWhole
