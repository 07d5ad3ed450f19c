SPECIFICATION Spec
CONSTANTS
    Procs = {p1, p2}
    NoProc = NoProc
    ResWindow = 2
    Relayed = TRUE
    MaxIds = 2
    MaxConns = 2
    MaxTxid = 3
    MaxCrashes = 1
INVARIANT
    OutcomeTruthful
CHECK_DEADLOCK FALSE
