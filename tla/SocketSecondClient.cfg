\* Two vmstatedctl commands, under fairness of the server's thread.
SPECIFICATION FairSpec
CONSTANTS
    Clients = {c1, c2}
    Scripts <- OneEach
    MaxData = 8
    CmdLen = 2
PROPERTY Accepted
\* Clients leave, and the daemon comes to an end.
CHECK_DEADLOCK FALSE
