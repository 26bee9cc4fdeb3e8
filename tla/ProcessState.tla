---------------------------- MODULE ProcessState ----------------------------
(***************************************************************************)
(* process_state_vm: the object that moves one virtual machine through its *)
(* states and owns its bhyve process (libprocwatch/process_state.c, with   *)
(* libstate/state_handler.c, libprocwatch/state_change.c and               *)
(* libprocwatch/process_def.c underneath).                                 *)
(*                                                                         *)
(* No lock protects the state: sth_transitionto looks a transition up,     *)
(* runs the hook script of the target state, which may take arbitrarily    *)
(* long, and then stores the target.  A thread inside an operation is      *)
(* therefore modelled by a frame that walks a chain of target states, one  *)
(* step for the lookup and one for the hook and the store.                 *)
(*                                                                         *)
(* Director EXTENDS this module with the threads of vmstated.  Spec below  *)
(* is the object as its own tests use it: clients that call any operation, *)
(* wait for the process and report its exit themselves.                    *)
(***************************************************************************)
EXTENDS Naturals, FiniteSets, Sequences, ProcessStates

CONSTANTS
    Threads,      \* the threads that call the operations
    VMs,          \* the virtual machines
    Pids,         \* processes that can be forked before fork fails (EAGAIN)
    ExitCodes,    \* exit codes of bhyve
    Killable,     \* BOOLEAN: may bhyve be ended by a signal?
    FailingHooks, \* states whose hook script may return non-zero
    NoVM, NoPid   \* not a VM; not a process (processid = 0)

ASSUME ConstantsAssumption ==
    /\ NoVM \notin VMs
    /\ NoPid \notin Pids
    /\ ExitCodes \subseteq 0 .. 255
    /\ Killable \in BOOLEAN
    /\ FailingHooks \subseteq HookStates

VARIABLES
    vmstate,    \* psv->sth->current, of each VM
    processid,  \* psv->processid, of each VM
    proc,       \* the kernel's view of each process
    call        \* the operation each thread is executing

psvvars == << vmstate, processid, proc, call >>

-----------------------------------------------------------------------------
(* Processes.  A wait status is the pair WIFEXITED, WEXITSTATUS; the macro *)
(* WEXITSTATUS yields 0 for a process ended by a signal.                   *)

Statuses == [exited : {TRUE}, code : ExitCodes]
            \cup [exited : IF Killable THEN {FALSE} ELSE {}, code : {0}]

\* waited: collected by psv_stop_or_reboot, and not reported to the object
Process == [state : {"free", "alive", "zombie", "waited", "reaped"},
            vm : VMs \cup {NoVM}, exited : BOOLEAN, code : 0 .. 255,
            term : BOOLEAN]

Unforked == [state |-> "free", vm |-> NoVM, exited |-> FALSE, code |-> 0,
             term |-> FALSE]

Alive(vm) == {p \in Pids : proc[p].state = "alive" /\ proc[p].vm = vm}

(* The process ends and waits for its parent. *)
Exits(p, status) ==
    /\ proc[p].state = "alive"
    /\ proc' = [proc EXCEPT ![p].state = "zombie",
                            ![p].exited = status.exited,
                            ![p].code = status.code]

-----------------------------------------------------------------------------
(* Frames.  pc is the place in the operation, todo the target states left  *)
(* to enter, then and else where to go once they are entered or one fails; *)
(* pid is the process that a start launched, target the one a stop read.   *)

Stops == { "idle", "undo", "storage", "storagefailed", "launch", "upfailed",
           "stopfailed", "kill", "killfailed", "signalled", "request",
           "exitcode", "clear", "ok", "err" }
Labels == Stops \cup {"lookup", "enter"}

Frame == [pc : Labels, vm : VMs \cup {NoVM}, todo : Seq(States), then : Stops,
          else : Stops, restarting : BOOLEAN, code : 0 .. 255,
          pid : Pids \cup {NoPid}, target : Pids \cup {NoPid}]

Idle == [pc |-> "idle", vm |-> NoVM, todo |-> << >>, then |-> "idle",
         else |-> "idle", restarting |-> FALSE, code |-> 0, pid |-> NoPid,
         target |-> NoPid]

(* Go to a label, with nothing left to enter. *)
Jump(f, label) == [f EXCEPT !.pc = label, !.todo = << >>, !.then = "idle",
                            !.else = "idle"]

(* Enter the states of a chain, one sth_transitionto after the other. *)
Walk(f, chain, then, else) ==
    [f EXCEPT !.pc = "lookup", !.todo = chain, !.then = then, !.else = else]

Entry(vm) == [Idle EXCEPT !.vm = vm]

PsvInit ==
    /\ vmstate = [vm \in VMs |-> "INIT"]
    /\ processid = [vm \in VMs |-> NoPid]
    /\ proc = [p \in Pids |-> Unforked]
    /\ call = [t \in Threads |-> Idle]

-----------------------------------------------------------------------------
(* The entry points: the frame each operation starts with.  The state is   *)
(* read once, here.                                                        *)

StartVM(vm) ==
    LET restarting == vmstate[vm] = "RESTART_STOPPED"
        f == [Entry(vm) EXCEPT !.restarting = restarting]
    IN  IF vmstate[vm] \in StartableStates
        THEN Walk(f, << PreState(restarting) >>, "storage",
                  IF vmstate[vm] = "INIT" THEN "err" ELSE "undo")
        ELSE Jump(f, "err")

\* Faulty variant: does not wait for the process to end.
FaultyStopVM(vm, reboot) ==
    IF vmstate[vm] = "RUNNING"
    THEN Walk(Entry(vm), << "STOPPING" >> \o StopChain, "kill", "stopfailed")
    ELSE Jump(Entry(vm), "err")

StopVM(vm, reboot) ==
    IF vmstate[vm] = "RUNNING"
    THEN Walk(Entry(vm),
              << IF reboot THEN "PRESTOP_BEFORE_RESTART" ELSE "STOPPING" >>,
              "kill", "stopfailed")
    ELSE Jump(Entry(vm), "err")

\* Faulty variant: STOPPING is not among the states handled.
FaultyOnExit(vm, code) ==
    LET f == [Entry(vm) EXCEPT !.code = code]
    IN  CASE vmstate[vm] = "PRESTOP_BEFORE_RESTART" /\ code = 0
               -> Walk(f, RebootedChain, "request", "err")
          [] vmstate[vm] = "RUNNING" /\ code = 0
               -> Walk(f, RebootChain, "request", "err")
          [] vmstate[vm] = "RUNNING" /\ code \in {1, 2}
               -> Walk(f, StopChain, "exitcode", "err")
          [] OTHER -> Jump(f, "exitcode")

OnExit(vm, code) ==
    LET f == [Entry(vm) EXCEPT !.code = code]
    IN  CASE vmstate[vm] = "PRESTOP_BEFORE_RESTART" /\ code = 0
               -> Walk(f, RebootedChain, "request", "err")
          [] vmstate[vm] = "RUNNING" /\ code = 0
               -> Walk(f, RebootChain, "request", "err")
          [] \/ vmstate[vm] = "RUNNING" /\ code \in {1, 2}
             \/ vmstate[vm] = "STOPPING"
               -> Walk(f, StopChain, "exitcode", "err")
          [] OTHER -> Jump(f, "exitcode")

FailureState(vm) == Walk(Entry(vm), FailChain, "ok", "err")

ResetFailure(vm) ==
    IF vmstate[vm] = "FAILED"
    THEN Walk(Entry(vm), << "INIT" >>, "ok", "err")
    ELSE Jump(Entry(vm), "err")

-----------------------------------------------------------------------------
(* sth_transitionto, in two steps. *)

\* Faulty variant: the table is not consulted.
FaultyLookup(t) ==
    /\ call[t].pc = "lookup"
    /\ call' = [call EXCEPT ![t].pc = "enter"]
    /\ UNCHANGED << vmstate, processid, proc >>

(* sth_findtransition: no row, no transition. *)
Lookup(t) ==
    /\ call[t].pc = "lookup"
    /\ call' = [call EXCEPT ![t] =
                  IF HasTransition(vmstate[@.vm], Head(@.todo))
                  THEN [@ EXCEPT !.pc = "enter"]
                  ELSE Jump(@, @.else)]
    /\ UNCHANGED << vmstate, processid, proc >>

(* The hook succeeds, or there is none: the target becomes the state. *)
Enter(t) ==
    LET f == call[t]
    IN  /\ f.pc = "enter"
        /\ vmstate' = [vmstate EXCEPT ![f.vm] = Head(f.todo)]
        /\ call' = [call EXCEPT ![t] =
                      IF Len(f.todo) = 1
                      THEN Jump(f, f.then)
                      ELSE [f EXCEPT !.pc = "lookup", !.todo = Tail(f.todo)]]
        /\ UNCHANGED << processid, proc >>

(* The hook returns non-zero, dies or cannot be run: the state stays. *)
HookFails(t) ==
    /\ call[t].pc = "enter"
    /\ Head(call[t].todo) \in FailingHooks
    /\ call' = [call EXCEPT ![t] = Jump(@, @.else)]
    /\ UNCHANGED << vmstate, processid, proc >>

-----------------------------------------------------------------------------
(* psv_startvm *)

At(t, label, chain, then, else) ==
    /\ call[t].pc = label
    /\ call' = [call EXCEPT ![t] = Walk(@, chain, then, else)]
    /\ UNCHANGED << vmstate, processid, proc >>

(* The first hook failed: clean up.  Success falls through to storage. *)
Undo(t) ==
    At(t, "undo", UndoPreChain(call[t].restarting), "storage", "err")

Storage(t) ==
    At(t, "storage", << StorageState(call[t].restarting) >>, "launch",
       "storagefailed")

(* The storage hook failed: once FAILED is entered, the launch goes ahead. *)
StorageFailed(t) == At(t, "storagefailed", FailChain, "launch", "err")

(* Under psv->mtx: fork bhyve, store its pid and hand it to the caller. *)
Launch(t) ==
    LET f == call[t]
    IN  /\ f.pc = "launch"
        /\ \E p \in Pids :
             /\ proc[p].state = "free"
             /\ proc' = [proc EXCEPT ![p].state = "alive", ![p].vm = f.vm]
             /\ processid' = [processid EXCEPT ![f.vm] = p]
             /\ call' = [call EXCEPT ![t] =
                           Walk([f EXCEPT !.pid = p], UpChain(f.restarting),
                                "ok", "upfailed")]
        /\ UNCHANGED vmstate

\* Faulty variants: fork's -1 is stored as the pid; the failure is returned
\* without the failure state.
FaultyLaunchFailsStores(t) ==
    /\ \A p \in Pids : proc[p].state # "free"
    /\ call[t].pc = "launch"
    /\ processid' = [processid EXCEPT ![call[t].vm] = 0 - 1]
    /\ call' = [call EXCEPT ![t] = Walk(@, FailChain, "err", "err")]
    /\ UNCHANGED << vmstate, proc >>
FaultyLaunchFailsReturns(t) ==
    /\ \A p \in Pids : proc[p].state # "free"
    /\ call[t].pc = "launch"
    /\ call' = [call EXCEPT ![t] = Jump(@, "err")]
    /\ UNCHANGED << vmstate, processid, proc >>

(* fork fails: no process, processid unchanged, failure state, -1. *)
LaunchFails(t) ==
    /\ \A p \in Pids : proc[p].state # "free"
    /\ At(t, "launch", FailChain, "err", "err")

(* RUNNING or RESTARTED refused: the failure state, and bhyve runs on. *)
UpFailed(t) == At(t, "upfailed", FailChain, "err", "err")

-----------------------------------------------------------------------------
(* psv_stop_or_reboot *)

(* The stopping hook failed: once FAILED is entered, SIGTERM is sent. *)
StopFailed(t) == At(t, "stopfailed", FailChain, "kill", "err")

(* Read processid under psv->mtx and signal it, if there is one.  A zombie *)
(* accepts the signal; a reaped process is ESRCH.  The read and the signal *)
(* are one step: what happens in between commutes with one of them.        *)
Kill(t) ==
    LET f == call[t]
        p == processid[f.vm]
    IN  /\ f.pc = "kill"
        /\ call' = [call EXCEPT ![t] =
                      Jump([f EXCEPT !.target = p],
                           CASE p \notin Pids -> "ok"
                             [] p \in Pids /\ proc[p].state \in {"waited", "reaped"}
                                  -> "killfailed"
                             [] OTHER -> "signalled")]
        /\ proc' = [q \in Pids |->
                      IF q = p /\ proc[q].state = "alive"
                      THEN [proc[q] EXCEPT !.term = TRUE] ELSE proc[q]]
        /\ UNCHANGED << vmstate, processid >>

KillFailed(t) == At(t, "killfailed", FailChain, "signalled", "err")

(* exitcode is NULL: done.  The end of the process comes by other ways.    *)
Signalled(t) ==
    /\ call[t].pc = "signalled"
    /\ call' = [call EXCEPT ![t] = Jump(@, "ok")]
    /\ UNCHANGED << vmstate, processid, proc >>

(* exitcode is not NULL: waitpid blocks while the process lives, and fails *)
(* with ECHILD when somebody else collected it.  The result of the failure *)
(* state makes no difference.                                              *)
Collect(t) ==
    LET f == call[t]
        r == proc[f.target]
    IN  /\ f.pc = "signalled" /\ r.state # "alive"
        /\ call' = [call EXCEPT ![t] =
                      CASE r.state # "zombie" -> Walk(f, FailChain, "err", "err")
                        [] r.state = "zombie" /\ r.exited /\ r.code >= 3
                             -> Walk(f, FailChain, "ok", "ok")
                        [] OTHER -> Jump(f, "ok")]
        /\ proc' = [proc EXCEPT ![f.target].state = IF @ = "zombie" THEN "waited" ELSE @]
        /\ UNCHANGED << vmstate, processid >>

-----------------------------------------------------------------------------
(* psv_onexit *)

\* Faulty variant: the result is tested the wrong way round.
FaultyRequested(f, ok) ==
    IF ok THEN Walk(f, FailChain, "err", "err") ELSE Jump(f, "exitcode")

(* request_reboot returned: 0, or an error that means the failure state. *)
Requested(f, ok) ==
    IF ok THEN Jump(f, "exitcode") ELSE Walk(f, FailChain, "err", "err")

ExitCode(t) ==
    /\ call[t].pc = "exitcode"
    /\ call' = [call EXCEPT ![t] =
                  IF @.code >= 3 THEN Walk(@, FailChain, "clear", "clear")
                                 ELSE Jump(@, "ok")]
    /\ UNCHANGED << vmstate, processid, proc >>

(* Under psv->mtx: forget the pid. *)
ClearPid(t) ==
    /\ call[t].pc = "clear"
    /\ processid' = [processid EXCEPT ![call[t].vm] = NoPid]
    /\ call' = [call EXCEPT ![t] = Jump(@, "ok")]
    /\ UNCHANGED << vmstate, proc >>

-----------------------------------------------------------------------------
(* Every step inside an operation but the call of the reboot manager, and  *)
(* the wait of a stop, which vmstated itself never asks for.               *)
Step(t) ==
    \/ Lookup(t) \/ Enter(t) \/ HookFails(t)
    \/ Undo(t) \/ Storage(t) \/ StorageFailed(t)
    \/ Launch(t) \/ LaunchFails(t) \/ UpFailed(t)
    \/ StopFailed(t) \/ Kill(t) \/ KillFailed(t) \/ Signalled(t)
    \/ ExitCode(t) \/ ClearPid(t)

PsvTypeOK ==
    /\ vmstate \in [VMs -> States]
    /\ processid \in [VMs -> Pids \cup {NoPid}]
    /\ proc \in [Pids -> Process]
    /\ call \in [Threads -> Frame]

=============================================================================
