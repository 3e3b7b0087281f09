\* One link to a family without a catalog, and the agent's report.
CONSTANTS
    Families = {"known", "new"}
    StylesOf <- MCStylesOf
    Formats = {"TTF", "OTF"}
    VietnameseOpen = TRUE
    Transactions = {1}
    Desks = {a}
    Updates = {1, 2}
    Starts <- MCWaiting
    Known = {"known"}
    MaxMessages = 2
    MaxAtOnce = 2
    MaxDeaths = 0
SPECIFICATION Spec
INVARIANTS
    WaitingAdvanced
