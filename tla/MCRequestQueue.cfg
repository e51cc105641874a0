\* Two callers, so that put, prepend and remove_uid also meet each other.
CONSTANTS
    Callers = {c1, c2}
    Workers = {w1}
    Uids = {u1, u2}
    Quit = Quit
    Nothing = Nothing
    NoThread = NoThread
    MaxRequests = 2
    MaxQuits = 1
SPECIFICATION FairSpec
INVARIANTS TakerFindsItem ReleaseIsLegal NoLostWakeup
PROPERTIES Refines EveryRequestLeaves
CHECK_DEADLOCK FALSE
