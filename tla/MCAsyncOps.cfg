\* op1 and op2 lock and notify and have callbacks, op3 does none of these.
CONSTANTS
    op1 = op1
    op2 = op2
    op3 = op3
    u = u
    v = v
    Ops = {op1, op2, op3}
    Uris = {u, v}
    Affected <- AffectedUris
    Locking = {op1, op2}
    Updating = {op1, op2}
    Calling = {op1, op2}
SPECIFICATION FairSpec
INVARIANTS CountersAgree NoFalseWarning ThrobberAgrees StopIsReported
PROPERTIES EveryUriIsFreed
CHECK_DEADLOCK FALSE
