\* One client at a time. Every hook but those of the clean-up may fail; fork fails after three processes.
SPECIFICATION Spec
CONSTANTS
    Threads = {c1}
    VMs = {v1}
    Pids = {p1, p2, p3}
    ExitCodes = {0, 1, 2, 3}
    Killable = TRUE
    FailingHooks = {"START_NETWORK", "START_STORAGE", "RUNNING", "RESTARTED", "PRESTART_AFTER_RESTART", "START_AFTER_RESTART", "STOPPING", "RESTARTING", "RESTART_STOPPED"}
    NoVM = NoVM
    NoPid = NoPid
    Operations = {"start", "stop", "reboot", "reset"}
SYMMETRY Symmetry
INVARIANT PsvTypeOK
INVARIANT SingleProcess
INVARIANT StateMatchesProcess
PROPERTY TableSteps
