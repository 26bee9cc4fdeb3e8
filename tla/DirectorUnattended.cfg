\* Two VMs that reboot or fail, started at boot, nobody at the control socket.
SPECIFICATION Spec
CONSTANTS
    Threads = {"cmd", "boot", "kq", "rb"}
    VMs = {v1, v2}
    Pids = {p1, p2, p3}
    ExitCodes = {0, 3}
    Killable = FALSE
    FailingHooks = {}
    NoVM = NoVM
    NoPid = NoPid
    MaxRestart = 1
    AutoStart = {v1, v2}
    Commands = {}
    GeneratorFails = FALSE
SYMMETRY Symmetry
INVARIANT TypeOK
INVARIANT OneWorker
INVARIANT SingleProcess
INVARIANT RebootListSound
