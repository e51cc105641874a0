\* Two users, lost messages, views that are cleaned up.
CONSTANTS
    a = a
    b = b
    p1 = p1
    p2 = p2
    p3 = p3
    Clients = {a, b}
    Owner = a
    Tokens = {p1, p2, p3}
    Opening <- OpeningText
    NoText = NoText
    Unread = Unread
    NoView = NoView
    MaxEdits = 2
    MaxLosses = 2
    MaxCleanups = 2
    MaxPolls = 0
SPECIFICATION FairSpec
INVARIANTS TypeOK DeltasFit ShadowsAgree
PROPERTIES MergedOnce TextsConverge
CHECK_DEADLOCK FALSE
