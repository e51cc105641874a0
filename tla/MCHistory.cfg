SPECIFICATION Spec
CONSTANTS
    file = file
    buffer = buffer
    diff = diff
    none = none
    Places <- ThePlaces
    Temporary <- Buffers
    NoPlace <- none
    RecentLength = 1
    CacheLength = 2
    Kept = 3
    MaxVisits = 4
    MaxMove = 2
INVARIANTS TypeOK ObsoleteNeverOffered NoVisitTwice
PROPERTIES FailedLoadIsUndone
SYMMETRY Symmetry
CHECK_DEADLOCK FALSE
