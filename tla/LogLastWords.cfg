\* One thread launches one program.
SPECIFICATION Spec
CONSTANTS
    Launchers = {l1}
    Clients = {k1}
    MaxOutput = 1
    NoClient = NoClient
INVARIANT LastWordsLogged
\* Every program has been launched, and they have ended.
CHECK_DEADLOCK FALSE
