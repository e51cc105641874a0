\* Two files, three calls of share; everything else is unbounded.
CONSTANTS
    f = f
    g = g
    Files = {f, g}
    MaxShares = 3
SPECIFICATION FairTaskSpec
INVARIANTS OneSyncTask StalledIsNoticed PollingGoesOn
PROPERTIES TypedGetsSent
