---------------------------- MODULE ProcessStates ----------------------------
(***************************************************************************)
(* The life cycle of a virtual machine as libprocwatch/process_state.c     *)
(* declares it: the states, the table of permitted transitions, and the    *)
(* sequences of transitions ("chains") that the operations of a            *)
(* process_state_vm walk through.                                          *)
(***************************************************************************)
EXTENDS Sequences

States == { "INIT", "START_NETWORK", "PRESTART_AFTER_RESTART", "START_STORAGE",
            "START_AFTER_RESTART", "RUNNING", "RESTARTED", "STOP_STORAGE",
            "PRESTOP_BEFORE_RESTART", "STOP_NETWORK", "RESTARTING", "STOPPED",
            "RESTART_STOPPED", "FAILED", "STOPPING" }

(***************************************************************************)
(* The rows of process_transition_list that name a source state.  Two rows *)
(* of the table are duplicates of each other (START_NETWORK to             *)
(* STOP_NETWORK); a set holds them once.                                   *)
(***************************************************************************)
Table == { <<"INIT", "START_NETWORK">>,
           <<"START_NETWORK", "START_STORAGE">>,
           <<"START_NETWORK", "STOP_NETWORK">>,
           <<"START_STORAGE", "RUNNING">>,
           <<"RUNNING", "STOPPING">>,
           <<"STOPPING", "STOP_STORAGE">>,
           <<"RUNNING", "PRESTOP_BEFORE_RESTART">>,
           <<"STOP_STORAGE", "STOP_NETWORK">>,
           <<"STOP_NETWORK", "STOPPED">>,
           <<"PRESTOP_BEFORE_RESTART", "RESTARTING">>,
           <<"RESTARTING", "RESTART_STOPPED">>,
           <<"RESTART_STOPPED", "PRESTART_AFTER_RESTART">>,
           <<"PRESTART_AFTER_RESTART", "START_AFTER_RESTART">>,
           <<"START_AFTER_RESTART", "RESTARTED">>,
           <<"RESTARTED", "RUNNING">>,
           <<"STOPPED", "FAILED">>,
           <<"STOPPED", "START_NETWORK">>,
           <<"FAILED", "INIT">> }

(* The row whose from is NULL: every state has a transition to these. *)
FromAny == { "STOP_STORAGE" }

(* sth_findtransition returns a row, and not NULL. *)
HasTransition(from, to) == to \in FromAny \/ <<from, to>> \in Table

(* The on_enter hook of the state list: every state but INIT has one. *)
HookStates == States \ {"INIT"}

(***************************************************************************)
(* The chains of sth_transitionto calls in process_state.c.                *)
(***************************************************************************)
\* psv_failurestate
FailChain == << "STOP_STORAGE", "STOP_NETWORK", "STOPPED", "FAILED" >>
\* psv_onexit: the guest shut down, or bhyve ended after SIGTERM
StopChain == << "STOP_STORAGE", "STOP_NETWORK", "STOPPED" >>
\* psv_onexit: the guest asked for a reboot
RebootChain == << "PRESTOP_BEFORE_RESTART", "RESTARTING", "RESTART_STOPPED" >>
\* psv_onexit: a reboot requested by psv_rebootvm
RebootedChain == << "RESTARTING", "RESTART_STOPPED" >>

(* psv_startvm: the states in which a start is accepted. *)
StartableStates == { "INIT", "STOPPED", "RESTART_STOPPED" }

(* psv_startvm: `restarting' selects the second name of each pair. *)
PreState(restarting) ==
    IF restarting THEN "PRESTART_AFTER_RESTART" ELSE "START_NETWORK"
StorageState(restarting) ==
    IF restarting THEN "START_AFTER_RESTART" ELSE "START_STORAGE"
UpChain(restarting) ==
    IF restarting THEN << "RESTARTED", "RUNNING" >> ELSE << "RUNNING" >>
\* the clean-up after the first hook failed
UndoPreChain(restarting) ==
    IF restarting THEN FailChain ELSE Tail(FailChain)

=============================================================================
