SPECIFICATION Spec
CONSTANTS
    Procs = {p1, p2}
    NoProc = NoProc
    ResWindow = 2
    Relayed = FALSE
    MaxIds = 2
    MaxConns = 2
    MaxTxid = 3
    MaxCrashes = 1
INVARIANTS
    TypeOK
    OutcomeTruthful
    WriterHoldsPresence
    WindowMatchesFile
PROPERTIES
    HistoryGrows
    LostCommitSettles
    GateComesBack
CHECK_DEADLOCK FALSE
