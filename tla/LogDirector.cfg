\* Two threads launch two programs, at once or one after the other.
SPECIFICATION FairSpec
CONSTANTS
    Launchers = {l1, l2}
    Clients = {k1, k2}
    MaxOutput = 2
    NoClient = NoClient
INVARIANT TypeOK
INVARIANT OutlivesLaunch
PROPERTY Released
\* Every program has been launched, and they have ended.
CHECK_DEADLOCK FALSE
