\* "old" is in the file at first.
CONSTANTS
    old = old
    new = new
    other = other
    Torn = Torn
    NoFile = NoFile
    First = old
    Texts = {old, new, other}
SPECIFICATION FairSpec
INVARIANTS EditsAreDirty CleanMeansSavedUnlessKept
PROPERTIES OverwritesAreKnown DirtyGetsAutoSaved
