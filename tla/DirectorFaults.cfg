\* Every way to end: reboot, power off, error, signal, bad configuration, a hook of the start;
\* FAILED is reset.
\* Under fairness of the threads.
SPECIFICATION FairSpec
CONSTANTS
    Threads = {"cmd", "boot", "kq", "rb"}
    VMs = {v1}
    Pids = {p1, p2}
    ExitCodes = {0, 1, 2, 3}
    Killable = TRUE
    FailingHooks = {"START_NETWORK", "START_STORAGE", "PRESTART_AFTER_RESTART", "START_AFTER_RESTART"}
    NoVM = NoVM
    NoPid = NoPid
    MaxRestart = 1
    AutoStart = {v1}
    Commands = {"resetfail"}
    GeneratorFails = TRUE
INVARIANT RunningIsWatched
INVARIANT StartsLimited
INVARIANT ParkedAtRest
PROPERTY ExitsReceived
PROPERTY WalksEnd
