\* Two edits in one request, while another user's is merged.
CONSTANTS
    a = a
    b = b
    p1 = p1
    p2 = p2
    p3 = p3
    Clients = {a, b}
    Owner = a
    Tokens = {p1, p2, p3}
    Opening <- OpeningText
    NoText = NoText
    Unread = Unread
    NoView = NoView
    MaxEdits = 2
    MaxLosses = 1
    MaxCleanups = 0
    MaxPolls = 0
SPECIFICATION Spec
PROPERTY MergesAreAtomic
CHECK_DEADLOCK FALSE
