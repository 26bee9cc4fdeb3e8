----------------------------- MODULE PsvClients -----------------------------
(***************************************************************************)
(* A process_state_vm used directly, as libprocwatch's tests do: clients   *)
(* call its operations, wait for the process themselves and report the     *)
(* exit with psv_onexit, or give the VM up with psv_failurestate; the      *)
(* reboot manager is theirs as well.  psv_stopvm and psv_rebootvm may be   *)
(* told to wait for the process themselves (exitcode is not NULL).         *)
(* A client that has the VM to itself is Threads = {one thread}.  It       *)
(* resets a VM only when every process of it has ended and was reported;   *)
(* the director does so at any time.                                       *)
(***************************************************************************)
EXTENDS ProcessState

CONSTANT Operations   \* what the clients call: a subset of the four below

ASSUME OperationsAssumption ==
    Operations \subseteq {"start", "stop", "reboot", "reset"}

Begin(t, f) ==
    /\ call[t].pc = "idle"
    /\ call' = [call EXCEPT ![t] = f]
    /\ UNCHANGED << vmstate, processid >>

Calls(t) ==
    /\ \E vm \in VMs :
         \/ "start" \in Operations /\ Begin(t, StartVM(vm))
         \/ "stop" \in Operations /\ Begin(t, StopVM(vm, FALSE))
         \/ "reboot" \in Operations /\ Begin(t, StopVM(vm, TRUE))
         \/ /\ "reset" \in Operations
            /\ \A p \in Pids : proc[p].vm = vm => proc[p].state = "reaped"
            /\ Begin(t, ResetFailure(vm))
    /\ UNCHANGED proc

(* The client's waitpid returned p, or psv_stopvm's did: tell the object.  *)
ReportExit(t, p) ==
    /\ proc[p].state \in {"zombie", "waited"}
    /\ proc' = [proc EXCEPT ![p].state = "reaped"]
    /\ \/ proc[p].exited /\ Begin(t, OnExit(proc[p].vm, proc[p].code))
       \/ Begin(t, FailureState(proc[p].vm))

(* The client's reboot manager accepts the request, or fails. *)
RequestReboot(t) ==
    /\ call[t].pc = "request"
    /\ \E ok \in BOOLEAN : call' = [call EXCEPT ![t] = Requested(@, ok)]
    /\ UNCHANGED << vmstate, processid, proc >>

Return(t) ==
    /\ call[t].pc \in {"ok", "err"}
    /\ call' = [call EXCEPT ![t] = Idle]
    /\ UNCHANGED << vmstate, processid, proc >>

Ends(p) ==
    /\ \E status \in Statuses : Exits(p, status)
    /\ UNCHANGED << vmstate, processid, call >>

Next ==
    \/ \E t \in Threads :
         Calls(t) \/ RequestReboot(t) \/ Return(t) \/ Step(t) \/ Collect(t)
    \/ \E t \in Threads, p \in Pids : ReportExit(t, p)
    \/ \E p \in Pids : Ends(p)

Spec == PsvInit /\ [][Next]_psvvars

-----------------------------------------------------------------------------

(***************************************************************************)
(* A VM changes state only along a row of process_transition_list.         *)
(* sth_transitionto checks the table against the state it finds, but       *)
(* stores the target after the hook: the table is respected only as long   *)
(* as nobody else moves the VM meanwhile.                                  *)
(***************************************************************************)
TableSteps ==
    [][\A vm \in VMs : vmstate'[vm] # vmstate[vm]
                         => HasTransition(vmstate[vm], vmstate'[vm])]_vmstate

(***************************************************************************)
(* Never two bhyve processes for one VM: they would share its disks.       *)
(***************************************************************************)
SingleProcess == \A vm \in VMs : Cardinality(Alive(vm)) <= 1

Busy(vm) == \E t \in Threads : call[t].vm = vm

(***************************************************************************)
(* While no operation is under way, the state tells the truth about the    *)
(* process.  A running VM has the one processid names, which was not       *)
(* waited for yet, so that psv_stopvm signals the right one; the end of a  *)
(* stopping VM's process was not reported yet, though psv_stopvm itself    *)
(* may have waited for it.  A VM told to reboot, or failed by a hook of    *)
(* its start or stop, has no process alive but that; any other VM has none.*)
(* (A guest that answers psv_rebootvm by powering off leaves the VM        *)
(* waiting for a reboot: psv_onexit has no row for that.)                  *)
(***************************************************************************)
StateMatchesProcess ==
    \A vm \in VMs : ~Busy(vm) =>
        /\ vmstate[vm] \in {"RUNNING", "STOPPING"} =>
              /\ processid[vm] \in Pids
              /\ proc[processid[vm]].vm = vm
              /\ proc[processid[vm]].state \in
                    {"alive", "zombie"}
                    \cup (IF vmstate[vm] = "STOPPING" THEN {"waited"} ELSE {})
        /\ Alive(vm) \subseteq
              IF vmstate[vm] \in {"RUNNING", "STOPPING",
                                  "PRESTOP_BEFORE_RESTART", "FAILED"}
              THEN {processid[vm]} ELSE {}

=============================================================================
