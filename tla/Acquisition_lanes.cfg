CONSTANTS
    NoHash <- MCNoHash
    Within <- MCWithin
    MaxSpritePages = 3
    Family = "F"
    Orders <- MCOrders
    MaxOrders = 2
    Resolutions = {60, 120}
    Pages <- MCPages
    Served <- MCServed
    HitLists <- MCHitLists
    Crawls <- MCCrawls
    Corrupt <- MCCorrupt
    FontCps <- MCFontCps
    Required = {32, 65}
    DescOf <- MCDescOf
    FaceSets <- MCFaceSets
    Alikes = {{}, {66}, {65}}
SPECIFICATION AcquisitionSpec
INVARIANTS EvidenceIsNamed AuthorisedIsWhole NoSilentDegrade
PROPERTIES IncompleteOnlyAfterAsking
CHECK_DEADLOCK FALSE
