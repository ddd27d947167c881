CONSTANTS
    siteA = siteA
    siteB = siteB
    siteC = siteC
    Urls = {siteA, siteB, siteC}
    StartUrl = siteA
    NoUrl = NoUrl
    Capacity = 3
    MaxHistoryActs = 3
    MaxSignals = 3
SPECIFICATION HistorySpec
PROPERTY Converges
CHECK_DEADLOCK FALSE
