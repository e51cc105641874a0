CONSTANTS
    old = old
    new = new
    other = other
    Torn = Torn
    NoFile = NoFile
    First = old
    Texts = {old, new, other}
SPECIFICATION Spec
INVARIANTS CleanMeansSaved
