CONSTANTS
    t1 = t1
    t2 = t2
    Hosts <- SiteAndSub
    Entries <- SomeEntries
    Tabs = {t1, t2}
    None = None
    MaxActs = 5
SPECIFICATION Spec
INVARIANTS NativeIsAllowed GrantMirrorsRule
PROPERTY Reconciled
CHECK_DEADLOCK FALSE
