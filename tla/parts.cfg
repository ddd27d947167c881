CONSTANTS
    siteA = siteA
    siteB = siteB
    Urls = {siteA, siteB}
    StartUrl = siteA
    NoUrl = NoUrl
    Capacity = 2
    MaxHistoryActs = 3
    MaxSignals = 2
    page1 = page1
    page2 = page2
    Contents = {page1, page2}
    BootPage = page1
    Blank = Blank
    MaxHeight = 3
    MaxFrameActs = 2
    t1 = t1
    t2 = t2
    o1 = o1
    o2 = o2
    login = login
    blob = blob
    ViewerTabs = {t1}
    Origins = {o1, o2}
    Values = {login, blob}
    Large = {blob}
    Nothing = Nothing
    NoSnapshot = NoSnapshot
    MaxProfileActs = 5
    ctrl = ctrl
    none = none
    Mods = {none, ctrl}
    NoMods = none
    MaxInputs = 3
    BurstLimit = 2
    Tolerance = 1
    MaxNow = 3
    MaxTasks = 3
    MaxThrows = 2
    r1 = r1
    r2 = r2
    Ids = {r1, r2}
    MaxChunks = 2
    handler1 = handler1
    handler2 = handler2
    Listeners = {handler1, handler2}
    MaxMediaActs = 5
    h1 = h1
    h2 = h2
    Hashes = {h1, h2}
    Compiled <- SomeCompiler
    Ours = {2}
    Retained = 1
    MaxBuilds = 2
    MaxGuesses = 1
    MaxStagings = 2
    Pages <- SomePages
    OwnParams <- SomeParams
    NoTarget = NoTarget
    Clicks = 2
    KeyCount = 10
    MaxReps = 2
    Modules <- SomeModules
    MaxCalls = 1
SPECIFICATION PartsSpec
INVARIANTS
    TabTellsTheTruth
    OneBuffer NothingForgotten
    NewestIsWritten
    ScrollLandsFirst EveryDeltaOnce PlainIsAsked
    WakeupIsComing
    ErrorIsCurrent
    BitsAreAttributed ReleaseIsAttributed
    ReadersAgree
    LatencyIsOwn
    TablesAreCounted
PROPERTIES
    HistoryComesToRest
    FramesCatchUp FramesFollowViewport
    WritesInOrder UnvisitedSurvive StoresReachFile
    InputReachesEngine
    PumpRunsWork DeathIsShown
    CancelIsFinal
CHECK_DEADLOCK FALSE
