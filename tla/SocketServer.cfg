\* Two clients with any of the scripts, under fairness of the server's thread.
SPECIFICATION FairSpec
CONSTANTS
    Clients = {c1, c2}
    Scripts <- Several
    MaxData = 8
    CmdLen = 2
INVARIANT TypeOK
INVARIANT DeliveredOnce
INVARIANT AnswersItsOwn
INVARIANT EventNotLost
PROPERTY Replied
\* Clients leave, and the daemon comes to an end.
CHECK_DEADLOCK FALSE
