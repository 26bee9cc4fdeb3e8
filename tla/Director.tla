------------------------------ MODULE Director ------------------------------
(***************************************************************************)
(* bhyve_director: the part of vmstated that owns all virtual machines     *)
(* (libprocwatch/bhyve_director.c), running on top of ProcessState.        *)
(*                                                                         *)
(* Four threads call the operations of a VM:                               *)
(*   cmd   the socket handler.  The accept thread joins each handler       *)
(*         before it accepts again, so commands come one at a time;        *)
(*   boot  the main thread, in bd_runautostart;                            *)
(*   kq    bd_kqueue_thread, which learns of processes that ended;         *)
(*   rb    bd_restart_thread, which restarts the VMs on the rebootlist.    *)
(* bd->mtx protects the list of VMs and the rebootlist and nothing else;   *)
(* a critical section that makes no call is one step here.                 *)
(***************************************************************************)
EXTENDS ProcessState

CONSTANTS
    MaxRestart,    \* bc_get_maxrestart
    AutoStart,     \* the VMs configured with autostart
    Commands,      \* the commands that arrive on the socket
    GeneratorFails \* BOOLEAN: may generating bhyve's configuration fail?

ASSUME DirectorAssumption ==
    /\ Threads = {"cmd", "boot", "kq", "rb"}
    /\ MaxRestart \in Nat
    /\ AutoStart \subseteq VMs
    /\ Commands \subseteq {"startvm", "stopvm", "resetfail"}
    /\ GeneratorFails \in BOOLEAN

VARIABLES
    job,        \* where each thread is in bd_startvm, and for which VM
    recent,     \* bwv->startups: the starts within maxrestarttime, of each VM
    rebootlist, \* bd->rebootlist: a tail queue of VMs
    rbpc,       \* where the restart thread is between two VMs
    toboot,     \* VMs that bd_runautostart has not come to yet
    watched,    \* processes with a NOTE_EXIT knote that has not fired
    kevents     \* fired knotes, not received by the kqueue thread

bdvars == << job, recent, rebootlist, rbpc, toboot, watched, kevents >>
vars == << psvvars, bdvars >>

Places == { "rest", "count", "stamp", "generate", "started", "register",
            "died", "finish" }
Jobs == [at : Places, vm : VMs \cup {NoVM}]
AtRest == [at |-> "rest", vm |-> NoVM]

\* raced: two threads had the list in their hands at once
Stamps == [count : Nat, raced : BOOLEAN]

-----------------------------------------------------------------------------
(* STAILQ: first is the head's pointer, next the link of each element, and *)
(* last the link to append to, NoVM standing for the head's own pointer.   *)

Queues == [first : VMs \cup {NoVM}, last : VMs \cup {NoVM},
           next : [VMs -> VMs \cup {NoVM}]]

EmptyQueue == [first |-> NoVM, last |-> NoVM, next |-> [vm \in VMs |-> NoVM]]

(* elm->next = NULL; *head->last = elm; head->last = &elm->next *)
InsertTail(q, vm) ==
    [first |-> IF q.last = NoVM THEN vm ELSE q.first,
     last  |-> vm,
     next  |-> [v \in VMs |-> CASE v = q.last -> vm
                                [] v = vm /\ v # q.last -> NoVM
                                [] OTHER -> q.next[v]]]

(* if ((head->first = head->first->next) == NULL) head->last = &head->first *)
RemoveHead(q) ==
    LET n == q.next[q.first]
    IN  [q EXCEPT !.first = n, !.last = IF n = NoVM THEN NoVM ELSE @]

-----------------------------------------------------------------------------

Init ==
    /\ PsvInit
    /\ job = [t \in Threads |-> AtRest]
    /\ recent = [vm \in VMs |-> [count |-> 0, raced |-> FALSE]]
    /\ rebootlist = EmptyQueue
    /\ rbpc = "top"
    /\ toboot = AutoStart
    /\ watched = {}
    /\ kevents = << >>

Goto(t, place) == job' = [job EXCEPT ![t].at = place]
Runs(t, f) == call' = [call EXCEPT ![t] = f]
Leaves(t) == job' = [job EXCEPT ![t] = AtRest] /\ Runs(t, Idle)
Returned(t) == call[t].pc \in {"ok", "err"}

-----------------------------------------------------------------------------
(* bd_startvm *)

BdStart(t, vm) ==
    /\ job[t].at = "rest"
    /\ job' = [job EXCEPT ![t] = [at |-> "count", vm |-> vm]]
    /\ UNCHANGED << psvvars, recent, watched, kevents >>

(* Nothing protects bwv->startups: another thread may be counting the      *)
(* stamps of the same VM, or adding one.                                   *)
Racing(t) ==
    \E u \in Threads \ {t} : job[u].vm = job[t].vm /\ job[u].at \in {"count", "stamp"}

\* Faulty variant: off by one.
FaultyCountFail(t) ==
    LET vm == job[t].vm
    IN  /\ job[t].at = "count"
        /\ IF recent[vm].count > MaxRestart + 1
           THEN Goto(t, "finish") /\ Runs(t, FailureState(vm))
           ELSE Goto(t, "stamp") /\ UNCHANGED call
        /\ UNCHANGED << vmstate, processid, proc, recent, watched, kevents >>

(* bwv_is_countfail: too many starts lately put the VM in failure state.   *)
(* Expired stamps are dropped on the way; a head that another thread drops *)
(* between the look and the drop makes a stamp go that is not expired.     *)
CountFail(t) ==
    LET vm == job[t].vm
        r == recent[vm]
    IN  /\ job[t].at = "count"
        /\ \E n \in 0 .. r.count : \E kept \in 0 .. n :
             /\ Racing(t) \/ kept = r.count
             /\ recent' = [recent EXCEPT ![vm] = [count |-> kept, raced |-> r.raced \/ Racing(t)]]
             /\ IF n > MaxRestart
                THEN Goto(t, "finish") /\ Runs(t, FailureState(vm))
                ELSE Goto(t, "stamp") /\ UNCHANGED call
        /\ UNCHANGED << vmstate, processid, proc, watched, kevents >>

(* psv_is_failurestate, then bwv_timestamp: every attempt counts, also one *)
(* that psv_startvm rejects.  One step: only bwv_countrestarts_since reads *)
(* the stamps, and it does not look at the state.  When two threads append *)
(* or drop at once the stamp may be lost; so may each later one, for the   *)
(* tail pointer may be left in a stamp that is not on the list.            *)
Stamp(t) ==
    LET vm == job[t].vm
        r == recent[vm]
        raced == r.raced \/ Racing(t)
    IN  /\ job[t].at = "stamp"
        /\ IF vmstate[vm] = "FAILED"
           THEN Leaves(t) /\ UNCHANGED recent
           ELSE /\ \E n \in {r.count + 1} \cup (IF raced THEN {r.count} ELSE {}) :
                     recent' = [recent EXCEPT ![vm] = [count |-> n, raced |-> raced]]
                /\ Goto(t, "generate") /\ UNCHANGED call
        /\ UNCHANGED << vmstate, processid, proc, watched, kevents >>

(* bwv_generate_config, then the call of psv_startvm. *)
Generate(t) ==
    LET vm == job[t].vm
    IN  /\ job[t].at = "generate"
        /\ \/ Goto(t, "started") /\ Runs(t, StartVM(vm))
           \/ GeneratorFails /\ Goto(t, "finish") /\ Runs(t, FailureState(vm))
        /\ UNCHANGED << vmstate, processid, proc, recent, watched, kevents >>

StartFailed(t) ==
    /\ job[t].at = "started" /\ call[t].pc = "err"
    /\ Leaves(t)
    /\ UNCHANGED << vmstate, processid, proc, recent, watched, kevents >>

\* Faulty variant: the result of waitpid is ignored.
FaultyProbe(t) ==
    LET p == call[t].pid
    IN  /\ job[t].at = "started" /\ call[t].pc = "ok"
        /\ proc' = [proc EXCEPT ![p].state = IF @ = "zombie" THEN "reaped" ELSE @]
        /\ Goto(t, "register")
        /\ UNCHANGED << vmstate, processid, call, recent, watched, kevents >>

(* kill(pid, 0) finds the process, zombie or not, since nobody else waits  *)
(* for it; waitpid(WNOHANG) collects it if it ended already.  A process    *)
(* ended by a signal is handed over with WEXITSTATUS 0.                    *)
Probe(t) ==
    LET p == call[t].pid
    IN  /\ job[t].at = "started" /\ call[t].pc = "ok"
        /\ IF proc[p].state = "zombie"
           THEN /\ proc' = [proc EXCEPT ![p].state = "reaped"]
                /\ Goto(t, "died")
                /\ Runs(t, OnExit(job[t].vm, proc[p].code))
           ELSE /\ Goto(t, "register")
                /\ UNCHANGED << proc, call >>
        /\ UNCHANGED << vmstate, processid, recent, watched, kevents >>

\* Faulty variant: a process that ended meanwhile makes no event.
FaultyRegister(t) ==
    /\ job[t].at = "register"
    /\ watched' = IF proc[call[t].pid].state = "alive"
                  THEN watched \cup {call[t].pid} ELSE watched
    /\ Leaves(t)
    /\ UNCHANGED << vmstate, processid, proc, recent, kevents >>

(* EV_ADD of NOTE_EXIT: fires at once for a process that ended meanwhile. *)
Register(t) ==
    LET p == call[t].pid
    IN  /\ job[t].at = "register"
        /\ IF proc[p].state = "alive"
           THEN watched' = watched \cup {p} /\ UNCHANGED kevents
           ELSE kevents' = Append(kevents, p) /\ UNCHANGED watched
        /\ Leaves(t)
        /\ UNCHANGED << vmstate, processid, proc, recent >>

Died(t) ==
    /\ job[t].at = "died" /\ Returned(t)
    /\ IF call[t].pc = "ok"
       THEN Leaves(t)
       ELSE Goto(t, "finish") /\ Runs(t, FailureState(job[t].vm))
    /\ UNCHANGED << vmstate, processid, proc, recent, watched, kevents >>

(* The last call of a job returned; its result only makes the reply. *)
Finish(t) ==
    /\ job[t].at = "finish" /\ Returned(t)
    /\ Leaves(t)
    /\ UNCHANGED << vmstate, processid, proc, recent, watched, kevents >>

BdStep(t) ==
    \/ CountFail(t) \/ Stamp(t) \/ Generate(t)
    \/ StartFailed(t) \/ Probe(t) \/ Register(t) \/ Died(t) \/ Finish(t)

-----------------------------------------------------------------------------
(* cmd: bd_recv_ondata *)

Calls(t, vm, f) ==
    /\ job[t].at = "rest"
    /\ job' = [job EXCEPT ![t] = [at |-> "finish", vm |-> vm]]
    /\ Runs(t, f)
    /\ UNCHANGED << vmstate, processid, proc, recent >>

Command ==
    \E vm \in VMs :
      /\ \/ "startvm" \in Commands /\ BdStart("cmd", vm)
         \/ /\ "stopvm" \in Commands
            /\ Calls("cmd", vm, StopVM(vm, FALSE))
            /\ UNCHANGED << watched, kevents >>
         \/ /\ "resetfail" \in Commands
            /\ Calls("cmd", vm, ResetFailure(vm))
            /\ UNCHANGED << watched, kevents >>
      /\ UNCHANGED << rebootlist, rbpc, toboot >>

(* boot: bd_runautostart, in the order of the list, whatever it is *)
AutoStarts ==
    \E vm \in toboot :
      /\ BdStart("boot", vm)
      /\ toboot' = toboot \ {vm}
      /\ UNCHANGED << rebootlist, rbpc >>

\* Faulty variant: the event stays on the queue.
FaultyReceiveExit ==
    LET p == Head(kevents)
        vm == proc[p].vm
    IN  /\ kevents # << >>
        /\ Calls("kq", vm, IF proc[p].exited THEN OnExit(vm, proc[p].code)
                                             ELSE FailureState(vm))
        /\ UNCHANGED << kevents, rebootlist, rbpc, toboot, watched >>

(* kq: bd_kqueue_thread receives the exit of a process *)
ReceiveExit ==
    LET p == Head(kevents)
        vm == proc[p].vm
    IN  /\ kevents # << >>
        /\ kevents' = Tail(kevents)
        /\ Calls("kq", vm, IF proc[p].exited THEN OnExit(vm, proc[p].code)
                                             ELSE FailureState(vm))
        /\ UNCHANGED << rebootlist, rbpc, toboot, watched >>

-----------------------------------------------------------------------------
(* The hand-over of a reboot. *)

(* bd_requestreboot: append the VM and signal the restart thread, which    *)
(* takes note only if it is waiting.                                       *)
RequestReboot(t) ==
    /\ call[t].pc = "request"
    /\ rebootlist' = InsertTail(rebootlist, call[t].vm)
    /\ rbpc' = IF rbpc = "waiting" THEN "list" ELSE rbpc
    /\ Runs(t, Requested(call[t], TRUE))
    /\ UNCHANGED << vmstate, processid, proc, job, recent, toboot, watched,
                    kevents >>

(* rb: bd_restart_thread.  It locks bd->mtx and waits whatever the list    *)
(* holds: a signal sent while it is at the top is lost.                    *)
Waits ==
    /\ rbpc = "top"
    /\ rbpc' = "waiting"
    /\ UNCHANGED << psvvars, job, recent, rebootlist, toboot, watched, kevents >>

(* pthread_cond_wait may return without a signal. *)
SpuriousWakeup ==
    /\ rbpc = "waiting"
    /\ rbpc' = "list"
    /\ UNCHANGED << psvvars, job, recent, rebootlist, toboot, watched, kevents >>

\* Faulty variant: the VM it starts stays on the list.
FaultyTakesNext ==
    /\ rbpc = "list" /\ job["rb"].at = "rest"
    /\ \/ /\ rebootlist.first = NoVM
          /\ rbpc' = "top"
          /\ UNCHANGED << psvvars, job, recent, rebootlist, watched, kevents >>
       \/ /\ rebootlist.first # NoVM
          /\ BdStart("rb", rebootlist.first)
          /\ UNCHANGED << rebootlist, rbpc >>
    /\ UNCHANGED toboot

(* Take the first VM of the list and start it; back to the top when there  *)
(* is none.                                                                *)
TakesNext ==
    /\ rbpc = "list" /\ job["rb"].at = "rest"
    /\ \/ /\ rebootlist.first = NoVM
          /\ rbpc' = "top"
          /\ UNCHANGED << psvvars, job, recent, rebootlist, watched, kevents >>
       \/ /\ rebootlist.first # NoVM
          /\ rebootlist' = RemoveHead(rebootlist)
          /\ BdStart("rb", rebootlist.first)
          /\ UNCHANGED rbpc
    /\ UNCHANGED toboot

-----------------------------------------------------------------------------
(* The environment: bhyve ends, and time passes. *)

Ends(p) ==
    /\ \E status \in Statuses : Exits(p, status)
    /\ IF p \in watched
       THEN watched' = watched \ {p} /\ kevents' = Append(kevents, p)
       ELSE UNCHANGED << watched, kevents >>
    /\ UNCHANGED << vmstate, processid, call, job, recent, rebootlist, rbpc, toboot >>

(* The oldest start drops out of the window of maxrestarttime seconds;     *)
(* bwv_countrestarts_since prunes it when it counts next.                  *)
Expires(vm) ==
    /\ recent[vm].count > 0
    /\ recent' = [recent EXCEPT ![vm].count = @ - 1]
    /\ UNCHANGED << psvvars, job, rebootlist, rbpc, toboot, watched, kevents >>

-----------------------------------------------------------------------------

ThreadStep(t) ==
    \/ Step(t) /\ UNCHANGED bdvars
    \/ BdStep(t) /\ UNCHANGED << rebootlist, rbpc, toboot >>
    \/ RequestReboot(t)
    \/ t = "boot" /\ AutoStarts
    \/ t = "kq" /\ ReceiveExit
    \/ t = "rb" /\ (Waits \/ TakesNext)

Next ==
    \/ \E t \in Threads : ThreadStep(t)
    \/ Command
    \/ SpuriousWakeup
    \/ \E p \in Pids : Ends(p)
    \/ \E vm \in VMs : Expires(vm)

Spec == Init /\ [][Next]_vars

(***************************************************************************)
(* Every thread keeps running, which includes that hook scripts end; a     *)
(* bhyve that got SIGTERM ends.  Nobody has to send commands, guests need  *)
(* not stop by themselves, and neither time nor spurious wakeups need help *)
(* the restart thread.                                                     *)
(***************************************************************************)
Fairness ==
    /\ \A t \in Threads : WF_vars(ThreadStep(t))
    /\ \A p \in Pids : WF_vars(proc[p].term /\ Ends(p))

FairSpec == Spec /\ Fairness

TypeOK ==
    /\ PsvTypeOK
    /\ job \in [Threads -> Jobs]
    /\ recent \in [VMs -> Stamps]
    /\ rebootlist \in Queues
    /\ rbpc \in {"top", "waiting", "list"}
    /\ toboot \subseteq AutoStart
    /\ watched \subseteq Pids
    /\ kevents \in Seq(Pids)

=============================================================================
