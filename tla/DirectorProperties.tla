------------------------- MODULE DirectorProperties -------------------------
(***************************************************************************)
(* What vmstated has to keep true while its four threads share the VMs.    *)
(***************************************************************************)
EXTENDS Director, SequencesExt

(* Thread t is in the middle of a job for vm.  Once it has asked for the   *)
(* reboot or made its last call, all that is left to it is to return.      *)
Returning(t) ==
    /\ job[t].at \in {"died", "finish"}
    /\ \/ call[t].pc \in {"exitcode", "ok"} /\ call[t].code < 3
       \/ job[t].at = "finish" /\ call[t].pc = "err"

Working(t, vm) == job[t].vm = vm /\ ~Returning(t)
Idling(vm) == \A t \in Threads : ~Working(t, vm)

(* The process whose end thread t is responsible for: launched by t, and   *)
(* neither collected by waitpid nor registered with the kqueue yet.        *)
Holds(t, p) ==
    /\ call[t].pid = p
    /\ job[t].at \in {"started", "register"}

(***************************************************************************)
(* The end of a process is reported to psv_onexit at most once: by the     *)
(* thread that started it, which collects it with waitpid, or by the       *)
(* kqueue thread, never by both and never twice.  Reporting it twice would *)
(* walk the next incarnation of the VM down.                               *)
(***************************************************************************)
ExitReportedOnce ==
    /\ \A i, j \in DOMAIN kevents : kevents[i] = kevents[j] => i = j
    /\ \A i \in DOMAIN kevents :
         /\ proc[kevents[i]].state = "zombie"
         /\ kevents[i] \notin watched
    /\ \A p \in watched : proc[p].state = "alive"
    /\ \A t \in Threads, p \in Pids :
         Holds(t, p) => /\ p \notin watched
                        /\ p \notin ToSet(kevents)
                        /\ proc[p].state \in {"alive", "zombie"}
                        /\ \A u \in Threads : Holds(u, p) => u = t

(***************************************************************************)
(* At most one thread works on a VM.  No lock enforces it: bd_startvm, the *)
(* kqueue thread and the restart thread pass a VM on to each other.        *)
(***************************************************************************)
OneWorker ==
    \A vm \in VMs, t, u \in Threads : Working(t, vm) /\ Working(u, vm) => t = u

(***************************************************************************)
(* Never two bhyve processes for one VM: they would share its disks.       *)
(***************************************************************************)
SingleProcess == \A vm \in VMs : Cardinality(Alive(vm)) <= 1

(***************************************************************************)
(* A VM that is RUNNING and nobody works on is under observation: its      *)
(* process, named by processid, has a knote or a fired event.  Otherwise   *)
(* vmstated would call it running forever.                                 *)
(***************************************************************************)
RunningIsWatched ==
    \A vm \in VMs :
      Idling(vm) /\ vmstate[vm] = "RUNNING" =>
        /\ processid[vm] \in watched \cup ToSet(kevents)
        /\ proc[processid[vm]].vm = vm

(* The VMs on the reboot list, following the links at most once each. *)
QueueOrder ==
    LET reach[n \in 0 .. Cardinality(VMs)] ==
          IF n = 0 THEN << rebootlist.first >>
          ELSE LET s == reach[n - 1] IN
               IF Last(s) = NoVM THEN s ELSE Append(s, rebootlist.next[Last(s)])
    IN  reach[Cardinality(VMs)]

(***************************************************************************)
(* The reboot list is a list: it ends, at the element its tail pointer     *)
(* names, and holds exactly the VMs that wait in RESTART_STOPPED for the   *)
(* restart thread.  A VM inserted twice would link to itself; one that is  *)
(* not listed would never come back.                                       *)
(***************************************************************************)
RebootListSound ==
    LET order == QueueOrder
        listed == ToSet(order) \ {NoVM}
    IN  /\ Last(order) = NoVM
        /\ rebootlist.last = IF Len(order) = 1 THEN NoVM ELSE order[Len(order) - 1]
        /\ \A vm \in VMs :
             Idling(vm) => (vm \in listed <=> vmstate[vm] = "RESTART_STOPPED")

(***************************************************************************)
(* The restart limiter: MaxRestart + 1 starts in a window of               *)
(* maxrestarttime, the first start and its restarts, and never more.  Each *)
(* start is on the list, which no lock protects: never do two threads      *)
(* count and stamp the starts of one VM at once.                           *)
(***************************************************************************)
StartsLimited ==
    \A vm \in VMs : ~recent[vm].raced /\ recent[vm].count <= MaxRestart + 1

(***************************************************************************)
(* Between operations a VM is in a state that a later event or command can *)
(* leave; only a running operation passes through the others.              *)
(***************************************************************************)
RestStates == { "INIT", "RUNNING", "STOPPING", "RESTART_STOPPED", "STOPPED",
                "FAILED" }
ParkedAtRest == \A vm \in VMs : Idling(vm) => vmstate[vm] \in RestStates

-----------------------------------------------------------------------------

(***************************************************************************)
(* The end of a watched process is eventually taken off the kqueue.        *)
(***************************************************************************)
ExitsReceived ==
    \A p \in Pids : p \in ToSet(kevents) ~> p \notin ToSet(kevents)

(***************************************************************************)
(* No VM stays half-way through starting or stopping.                      *)
(***************************************************************************)
WalksEnd ==
    \A vm \in VMs :
      vmstate[vm] \notin RestStates ~> vmstate[vm] \in RestStates

(***************************************************************************)
(* A VM whose reboot was delegated to the restart thread is started, or    *)
(* put into failure state by the limiter.                                  *)
(***************************************************************************)
RebootsHappen ==
    \A vm \in VMs :
      vmstate[vm] = "RESTART_STOPPED" ~> vmstate[vm] # "RESTART_STOPPED"

=============================================================================
