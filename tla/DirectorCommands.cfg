\* Starts and stops at any time, racing reboots; the limiter allows one start.
SPECIFICATION Spec
CONSTANTS
    Threads = {"cmd", "boot", "kq", "rb"}
    VMs = {v1}
    Pids = {p1, p2}
    ExitCodes = {0}
    Killable = FALSE
    FailingHooks = {}
    NoVM = NoVM
    NoPid = NoPid
    MaxRestart = 0
    AutoStart = {}
    Commands = {"startvm", "stopvm"}
    GeneratorFails = FALSE
SYMMETRY Symmetry
INVARIANT ExitReportedOnce
