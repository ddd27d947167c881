CONSTANTS
    t1 = t1
    t2 = t2
    o1 = o1
    o2 = o2
    login = login
    ViewerTabs = {t1, t2}
    Origins = {o1, o2}
    Values = {login}
    Large = {}
    Nothing = Nothing
    NoSnapshot = NoSnapshot
    MaxProfileActs = 5
SPECIFICATION PersistSpec

PROPERTIES LoginsPersist
CHECK_DEADLOCK FALSE
