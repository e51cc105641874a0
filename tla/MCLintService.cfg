\* One view, everything that can happen to it.
CONSTANTS
    Uids = {v1}
    Quit = Quit
    Nothing = Nothing
    NoThread = NoThread
    None = None
    Parts = {top, bottom}
    Screens = {{top}, {bottom}}
    Main = Main
    Linter = Linter
    MaxRequests = 3
    MaxEdits = 1
    MaxTimers = 2
    MaxLintNow = 1
    MaxSwitches = 2
SPECIFICATION FairSpec
INVARIANTS ResultsCurrent 
PROPERTIES SupersededRunIgnored ReportsInOrder NoLintAfterTerminate ManagerStops
CHECK_DEADLOCK FALSE
