\* Two files in two directories; a search in files asks for all of them.
CONSTANTS
    f1 = f1
    f2 = f2
    d1 = d1
    d2 = d2
    Files = {f1, f2}
    Dirs = {d1, d2}
    DirOf <- TwoDirs
    AllReasons = {3}
    NoItem = NoItem
    FileReasons = {4}
    MaxRequests = 2
SPECIFICATION FairSpec
INVARIANTS NoWorkWhileWaiting MonitoredWasWatched
PROPERTIES FullCheckKeepsPriority UrgentItemsGetChecked CallbackComes
CHECK_DEADLOCK FALSE
