\* A guest that reboots, under fairness of the threads.
SPECIFICATION FairSpec
CONSTANTS
    Threads = {"cmd", "boot", "kq", "rb"}
    VMs = {v1}
    Pids = {p1, p2}
    ExitCodes = {0}
    Killable = FALSE
    FailingHooks = {}
    NoVM = NoVM
    NoPid = NoPid
    MaxRestart = 1
    AutoStart = {v1}
    Commands = {}
    GeneratorFails = FALSE
PROPERTY RebootsHappen
