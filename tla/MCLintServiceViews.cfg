\* Two views that share the queue and the thread.
CONSTANTS
    Uids = {v1, v2}
    Quit = Quit
    Nothing = Nothing
    NoThread = NoThread
    None = None
    Parts = {top}
    Screens = {{top}}
    Main = Main
    Linter = Linter
    MaxRequests = 2
    MaxEdits = 1
    MaxTimers = 2
    MaxLintNow = 0
    MaxSwitches = 0
SPECIFICATION FairSpec
PROPERTIES ClosedViewIsLeftAlone EditsGetLinted
CHECK_DEADLOCK FALSE
