\* One invocation that forks and one in the foreground.
SPECIFICATION FairSpec
CONSTANTS
    Invocations = {p1, p2}
    Foreground = {p2}
    MaxSignals = 2
INVARIANTS TypeOK OneDaemon SuccessMeansServing NothingLeft
PROPERTIES StartIsHeardOf TermEndsIt
\* The daemons come to an end.
CHECK_DEADLOCK FALSE
