\* Two files in one directory; a search in files asks for a check of all files.
CONSTANTS
    f1 = f1
    f2 = f2
    d1 = d1
    d2 = d2
    Files = {f1, f2}
    Dirs = {d1}
    DirOf <- OneDir
    AllReasons = {3}
    NoItem = NoItem
    FileReasons = {4}
    MaxRequests = 2
SPECIFICATION Spec
PROPERTY FullCheckReachesAll
CHECK_DEADLOCK FALSE
