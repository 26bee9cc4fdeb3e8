-------------------------------- MODULE Daemon --------------------------------
(***************************************************************************)
(* vmstated as a process (vmstated/vmstated_main.c): several invocations   *)
(* of it, one after the other or at once, that share a log directory, a    *)
(* pid file and a socket path.  Each checks whether a daemon is running,   *)
(* forks one and waits on a pipe for what becomes of it; the daemon starts *)
(* its parts, waits for SIGTERM or SIGINT, and cleans up.  A signal is     *)
(* handled by any of its threads; a process may crash or be killed.        *)
(*                                                                         *)
(* An invocation p stands for the pid of its daemon too.  The other        *)
(* threads of a daemon count as one, "worker", of which a handler takes    *)
(* hold for its time.  What listener, director and log director do is the  *)
(* part of their own modules.                                              *)
(***************************************************************************)
EXTENDS Naturals, FiniteSets

CONSTANTS
    Invocations,   \* of vmstated
    Foreground,    \* those with -f
    MaxSignals     \* how many signals a daemon gets

\* What the pid file and the socket path may lead to that is none of ours.
Foreign == {"none", "empty", "stale", "taken"}

ASSUME DaemonAssumption ==
    /\ Foreground \subseteq Invocations
    /\ Invocations \cap Foreign = {}
    /\ MaxSignals \in Nat

VARIABLES
    pc,           \* where the main thread is, or how the process ended
    parent,       \* the process that forked: "none", "read", or the result it returned
    pipe,         \* what has been written to the pipe: "empty", "success" or "failure"
    errnoSet,     \* errno is not 0 when check_already_running looks at it
    logdir,       \* log_path: "missing", "directory" or "file"
    pidfile,      \* "none", "empty", a pid of ours, or "stale" or "taken": that of nobody or of
                  \* another program
    socketfile,   \* whose socket the socket path leads to, or "none"
    handler,      \* where the signal handler is in each thread
    sigmtx,       \* which thread of the process holds vmstated_sigmtx: "none" when free
    signals,      \* the signals each got
    overlapped    \* an invocation came before the one before it was done starting

files == <<logdir, pidfile, socketfile>>
sig   == <<handler, sigmtx, signals>>
vars  == <<pc, parent, pipe, errnoSet, files, sig, overlapped>>

Threads == {"main", "worker"}
Quiet   == [t \in Threads |-> "none"]
Ended   == {"exited", "refused", "unforked", "failed", "err", "killed"}

\* Up to and including the wait: then it serves.
Starting == {"logdir", "check", "fork", "walk", "openpid", "writepid", "director", "bind", "serve",
             "lock", "cond"}
Stopping == {"asleep", "woken", "unlock", "stop", "destroy", "restore", "unlinkpid"}

\* An invocation that has not forked yet is left out of signals and crashes.
Running(p) == pc[p] \notin {"off", "logdir", "check", "fork"} \cup Ended
Caught(p)  == Running(p) /\ pc[p] \notin {"walk", "unlinkpid"}

Init ==
    /\ pc = [p \in Invocations |-> "off"]
    /\ parent = [p \in Invocations |-> "none"]
    /\ pipe = [p \in Invocations |-> "empty"]
    /\ errnoSet = [p \in Invocations |-> FALSE]
    /\ logdir \in {"missing", "directory", "file"}
    /\ pidfile \in Foreign
    /\ socketfile \in {"none", "stale"}
    /\ handler = [p \in Invocations |-> Quiet]
    /\ sigmtx = [p \in Invocations |-> "none"]
    /\ signals = [p \in Invocations |-> 0]
    /\ overlapped = FALSE

----------------------------------------------------------------------------
\* The main thread goes on, unless it is in the signal handler.
At(p, step)   == pc[p] = step /\ handler[p]["main"] = "none"
Goto(p, step) == pc' = [pc EXCEPT ![p] = step]

\* A process ends, with all its threads and its signals.
Ends(p, how) ==
    /\ Goto(p, how)
    /\ handler' = [handler EXCEPT ![p] = Quiet]
    /\ sigmtx' = [sigmtx EXCEPT ![p] = "none"]
    /\ signals' = [signals EXCEPT ![p] = 0]

Unsettled(p) == pc[p] \in Starting /\ parent[p] \in {"none", "read"}

Start(p) ==
    /\ At(p, "off") /\ Goto(p, "logdir")
    /\ overlapped' = (overlapped \/ \E q \in Invocations : Unsettled(q))
    /\ UNCHANGED <<parent, pipe, errnoSet, files, sig>>

\* stat leaves ENOENT in errno although mkdir then makes the directory.
check_logdir(p) ==
    /\ At(p, "logdir")
    /\ Goto(p, IF logdir = "file" THEN "refused" ELSE "check")
    /\ errnoSet' = [errnoSet EXCEPT ![p] = logdir = "missing"]
    /\ logdir' = IF logdir = "missing" THEN "directory" ELSE logdir
    /\ UNCHANGED <<parent, pipe, pidfile, socketfile, sig, overlapped>>

(***************************************************************************)
(* kill(pid, 0) finds the daemon of any invocation, another program, and,  *)
(* with the 0 that atoll makes of an empty file, the caller's own process  *)
(* group.  With errno set before, the pid is taken for unreadable.         *)
(***************************************************************************)
Alive(pid) == pid \in {"empty", "taken"} \/ (pid \in Invocations /\ Running(pid))

\* Faulty variant: takes the pid only when errno is set.
FaultyCheck(p) ==
    /\ At(p, "check")
    /\ Goto(p, IF Alive(pidfile) /\ errnoSet[p] THEN "refused" ELSE "fork")
    /\ errnoSet' = [errnoSet EXCEPT ![p] = FALSE]
    /\ UNCHANGED <<parent, pipe, files, sig, overlapped>>

check_already_running(p) ==
    /\ At(p, "check")
    /\ Goto(p, IF Alive(pidfile) /\ ~errnoSet[p] THEN "refused" ELSE "fork")
    /\ errnoSet' = [errnoSet EXCEPT ![p] = FALSE]
    /\ UNCHANGED <<parent, pipe, files, sig, overlapped>>

(***************************************************************************)
(* main: without a pipe it gives up.  It does not notice when either fork  *)
(* fails: there is no daemon then, and the parent, which keeps the write   *)
(* end of the pipe open itself, reads all the same.                        *)
(***************************************************************************)
Fork(p) ==
    /\ At(p, "fork")
    /\ IF p \in Foreground
       THEN Goto(p, "walk") /\ UNCHANGED parent
       ELSE \/ Goto(p, "refused") /\ UNCHANGED parent
            \/ /\ \E step \in {"walk", "unforked"} : Goto(p, step)
               /\ parent' = [parent EXCEPT ![p] = "read"]
    /\ UNCHANGED <<pipe, errnoSet, files, sig, overlapped>>

\* Faulty variant: the read does not wait.
FaultyParentReturns(p) ==
    /\ parent[p] = "read"
    /\ parent' = [parent EXCEPT ![p] = pipe[p]]
    /\ UNCHANGED <<pc, pipe, errnoSet, files, sig, overlapped>>

ParentReturns(p) ==
    /\ parent[p] = "read" /\ pipe[p] # "empty"
    /\ parent' = [parent EXCEPT ![p] = pipe[p]]
    /\ UNCHANGED <<pc, pipe, errnoSet, files, sig, overlapped>>

----------------------------------------------------------------------------
(***************************************************************************)
(* run_program and vmstated_launch.  vmstated_err tells the parent and     *)
(* exits; files are left as they are, but for the socket when sh_new has   *)
(* freed what it had made.                                                 *)
(***************************************************************************)
Tells(p, what) == pipe' = [pipe EXCEPT ![p] = IF p \in Foreground THEN @ ELSE what]
\* Faulty variant: exits without a word.
FaultyErr(p) == Ends(p, "failed") /\ UNCHANGED pipe
vmstated_err(p) == Ends(p, "failed") /\ Tells(p, "failure")

Failing(p, step) ==
    /\ At(p, step) /\ vmstated_err(p)
    /\ UNCHANGED <<parent, errnoSet, files, overlapped>>

\* Then setup_sighandler puts the handler in the place of the default.
bcs_walkdir(p) ==
    \/ Failing(p, "walk")
    \/ /\ At(p, "walk") /\ Goto(p, "openpid")
       /\ UNCHANGED <<parent, pipe, errnoSet, files, sig, overlapped>>

OpenPidfile(p) ==
    \/ Failing(p, "openpid")
    \/ /\ At(p, "openpid") /\ Goto(p, "writepid")
       /\ pidfile' = "empty"
       /\ UNCHANGED <<parent, pipe, errnoSet, logdir, socketfile, sig, overlapped>>

\* Faulty variant: the pid does not reach the file, and nobody notices.
FaultyWritePidfile(p) ==
    /\ At(p, "writepid") /\ Goto(p, "director")
    /\ UNCHANGED <<parent, pipe, errnoSet, files, sig, overlapped>>

write_pidfile(p) ==
    \/ Failing(p, "writepid")
    \/ /\ At(p, "writepid") /\ Goto(p, "director")
       /\ pidfile' = p
       /\ UNCHANGED <<parent, pipe, errnoSet, logdir, socketfile, sig, overlapped>>

\* Log director, director and configuration generator with their threads; then the socket file
\* that may be left over goes.
NewDirector(p) ==
    \/ Failing(p, "director")
    \/ /\ At(p, "director") /\ Goto(p, "bind")
       /\ socketfile' = "none"
       /\ UNCHANGED <<parent, pipe, errnoSet, logdir, pidfile, sig, overlapped>>

\* sh_new: it fails when the path is in use again, and then removes it.
BindSocket(p) ==
    /\ At(p, "bind")
    /\ IF socketfile = "none"
       THEN socketfile' = p /\ Goto(p, "serve") /\ UNCHANGED <<pipe, sig>>
       ELSE socketfile' = "none" /\ vmstated_err(p)
    /\ UNCHANGED <<parent, errnoSet, logdir, pidfile, overlapped>>

\* sh_start, that may fail, and bd_runautostart: a VM that does not start is no failure.
Serve(p) ==
    /\ At(p, "serve")
    /\ \/ Goto(p, "lock") /\ Tells(p, "success")
       \/ Goto(p, "stop") /\ UNCHANGED pipe
    /\ UNCHANGED <<parent, errnoSet, files, sig, overlapped>>

----------------------------------------------------------------------------
(***************************************************************************)
(* The wait for the end: lock, one call of pthread_cond_wait, unlock.  It  *)
(* tests nothing, so a signal that was handled before it is lost.          *)
(***************************************************************************)
Lock(p) ==
    /\ \/ At(p, "lock")  /\ Goto(p, "cond")
       \/ At(p, "woken") /\ Goto(p, "unlock")
    /\ sigmtx[p] = "none" /\ sigmtx' = [sigmtx EXCEPT ![p] = "main"]
    /\ UNCHANGED <<parent, pipe, errnoSet, files, handler, signals, overlapped>>

Wait(p) ==
    /\ At(p, "cond") /\ Goto(p, "asleep")
    /\ sigmtx' = [sigmtx EXCEPT ![p] = "none"]
    /\ UNCHANGED <<parent, pipe, errnoSet, files, handler, signals, overlapped>>

Unlock(p) ==
    /\ At(p, "unlock") /\ Goto(p, "stop")
    /\ sigmtx' = [sigmtx EXCEPT ![p] = "none"]
    /\ UNCHANGED <<parent, pipe, errnoSet, files, handler, signals, overlapped>>

(***************************************************************************)
(* sh_stop and sh_free: the path is unlinked, whoever's socket it leads    *)
(* to.  Then bd_free cannot stop the director's threads and returns, and   *)
(* the log director and the configurations are freed all the same: Crash   *)
(* is what may come of that.  A start that failed is reported last.        *)
(***************************************************************************)
StopSocket(p) ==
    /\ At(p, "stop") /\ Goto(p, "destroy")
    /\ socketfile' = "none"
    /\ IF pipe[p] = "empty" THEN Tells(p, "failure") ELSE UNCHANGED pipe
    /\ UNCHANGED <<parent, errnoSet, logdir, pidfile, sig, overlapped>>

\* teardown_sighandler: a mutex that a handler holds cannot be destroyed.
DestroyMutex(p) ==
    /\ At(p, "destroy")
    /\ \/ sigmtx[p] = "none" /\ Goto(p, "restore") /\ UNCHANGED sig
       \/ sigmtx[p] # "none" /\ Ends(p, "err")
    /\ UNCHANGED <<parent, pipe, errnoSet, files, overlapped>>

RestoreHandlers(p) ==
    /\ At(p, "restore") /\ Goto(p, "unlinkpid")
    /\ UNCHANGED <<parent, pipe, errnoSet, files, sig, overlapped>>

\* Faulty variant: the pid file stays.
FaultyUnlinkPidfile(p) ==
    /\ At(p, "unlinkpid") /\ Ends(p, "exited")
    /\ UNCHANGED <<parent, pipe, errnoSet, files, overlapped>>

UnlinkPidfile(p) ==
    /\ At(p, "unlinkpid") /\ Ends(p, "exited")
    /\ pidfile' = "none"
    /\ UNCHANGED <<parent, pipe, errnoSet, logdir, socketfile, overlapped>>

----------------------------------------------------------------------------
(***************************************************************************)
(* SIGTERM or SIGINT.  While the default is in force it ends the process;  *)
(* caught, one of the threads runs vmstated_sigrecv.                       *)
(***************************************************************************)
Signal(p) ==
    /\ Running(p) /\ signals[p] < MaxSignals
    /\ IF Caught(p)
       THEN /\ signals' = [signals EXCEPT ![p] = @ + 1]
            /\ \E t \in Threads : handler[p][t] = "none" /\ handler' = [handler EXCEPT ![p][t] = "lock"]
            /\ UNCHANGED <<pc, sigmtx>>
       ELSE Ends(p, "killed")
    /\ UNCHANGED <<parent, pipe, errnoSet, files, overlapped>>

\* The error of a mutex that is destroyed, or the thread's own already, ends the process.
HandlerLocks(p, t) ==
    /\ Running(p) /\ handler[p][t] = "lock"
    /\ \/ pc[p] \in {"restore", "unlinkpid"} /\ Ends(p, "err")
       \/ sigmtx[p] = "main" /\ t = "main" /\ Ends(p, "err")
       \/ /\ pc[p] \notin {"restore", "unlinkpid"} /\ sigmtx[p] = "none"
          /\ sigmtx' = [sigmtx EXCEPT ![p] = t]
          /\ handler' = [handler EXCEPT ![p][t] = "signal"]
          /\ UNCHANGED <<pc, signals>>
    /\ UNCHANGED <<parent, pipe, errnoSet, files, overlapped>>

HandlerSignals(p, t) ==
    /\ Running(p) /\ handler[p][t] = "signal"
    /\ handler' = [handler EXCEPT ![p][t] = "unlock"]
    /\ pc' = [pc EXCEPT ![p] = IF @ = "asleep" THEN "woken" ELSE @]
    /\ UNCHANGED <<parent, pipe, errnoSet, files, sigmtx, signals, overlapped>>

\* Faulty variant: the mutex stays locked.
FaultyUnlocks(p, t) ==
    /\ Running(p) /\ handler[p][t] = "unlock"
    /\ handler' = [handler EXCEPT ![p][t] = "none"]
    /\ UNCHANGED <<pc, parent, pipe, errnoSet, files, sigmtx, signals, overlapped>>

HandlerUnlocks(p, t) ==
    /\ Running(p) /\ handler[p][t] = "unlock"
    /\ handler' = [handler EXCEPT ![p][t] = "none"]
    /\ sigmtx' = [sigmtx EXCEPT ![p] = "none"]
    /\ UNCHANGED <<pc, parent, pipe, errnoSet, files, signals, overlapped>>

vmstated_sigrecv(p, t) == HandlerLocks(p, t) \/ HandlerSignals(p, t) \/ HandlerUnlocks(p, t)

\* A crash, or SIGKILL: nothing is cleaned up and nobody told.
Crash(p) ==
    /\ Running(p) /\ Ends(p, "killed")
    /\ UNCHANGED <<parent, pipe, errnoSet, files, overlapped>>

----------------------------------------------------------------------------
MainStep(p) ==
    \/ check_logdir(p) \/ check_already_running(p) \/ Fork(p)
    \/ bcs_walkdir(p) \/ OpenPidfile(p) \/ write_pidfile(p)
    \/ NewDirector(p) \/ BindSocket(p) \/ Serve(p)
    \/ Lock(p) \/ Wait(p) \/ Unlock(p)
    \/ StopSocket(p) \/ DestroyMutex(p) \/ RestoreHandlers(p) \/ UnlinkPidfile(p)

Step(p) == \/ Start(p) \/ MainStep(p) \/ ParentReturns(p) \/ Signal(p) \/ Crash(p)
           \/ \E t \in Threads : vmstated_sigrecv(p, t)

Next == \E p \in Invocations : Step(p)
Spec == Init /\ [][Next]_vars

\* The kernel schedules every thread of every process.
Fairness == \A p \in Invocations :
    /\ WF_vars(MainStep(p)) /\ WF_vars(ParentReturns(p))
    /\ \A t \in Threads : WF_vars(vmstated_sigrecv(p, t))
FairSpec == Spec /\ Fairness

----------------------------------------------------------------------------
\* What each variable holds.
TypeOK ==
    /\ pc \in [Invocations -> {"off"} \cup Starting \cup Stopping \cup Ended]
    /\ parent \in [Invocations -> {"none", "read", "success", "failure"}]
    /\ pipe \in [Invocations -> {"empty", "success", "failure"}]
    /\ errnoSet \in [Invocations -> BOOLEAN]
    /\ logdir \in {"missing", "directory", "file"}
    /\ pidfile \in Foreign \cup Invocations
    /\ socketfile \in {"none", "stale"} \cup Invocations
    /\ handler \in [Invocations -> [Threads -> {"none", "lock", "signal", "unlock"}]]
    /\ sigmtx \in [Invocations -> {"none"} \cup Threads]
    /\ signals \in [Invocations -> 0..MaxSignals]
    /\ overlapped \in BOOLEAN

\* A daemon from where it has written the pid file to where it gives it back.
Owning == (Starting \ {"logdir", "check", "fork", "walk", "openpid", "writepid"}) \cup Stopping
Owns(p) == pc[p] \in Owning

(***************************************************************************)
(* While invocations do not overlap there is never a second daemon: the    *)
(* pid file, written by a daemon that has been started and removed by one  *)
(* that ends, is all that check_already_running has to go by, across       *)
(* crashes, failed starts and signals at any time.                         *)
(***************************************************************************)
OneDaemon == ~overlapped => \A p, q \in Invocations : Owns(p) /\ Owns(q) => p = q

(***************************************************************************)
(* Who was told that the start succeeded can reach the daemon, by the      *)
(* socket path and by the pid file, until it comes to an end: whatever     *)
(* other invocations do in the meantime, and whatever those before left.   *)
(***************************************************************************)
SuccessMeansServing ==
    ~overlapped => \A p \in Invocations :
        parent[p] = "success" /\ pc[p] \in {"lock", "cond", "asleep", "woken", "unlock"} =>
            socketfile = p /\ pidfile = p

\* A daemon that ran to its end leaves neither file behind, whoever interferes.
NothingLeft == \A p \in Invocations : pc[p] = "exited" => pidfile # p /\ socketfile # p

(***************************************************************************)
(* Whoever waits for a daemon that was forked hears how its start ended,   *)
(* unless the daemon is killed or ended by its signal handler.  Then, and  *)
(* where a fork failed, the parent, with the pipe open in its own hands,   *)
(* waits on for ever.                                                      *)
(***************************************************************************)
StartIsHeardOf == \A p \in Invocations :
    parent[p] = "read" ~> parent[p] # "read" \/ pc[p] \in {"unforked", "killed", "err"}

(***************************************************************************)
(* A single SIGTERM that arrives while the daemon waits for it, in any     *)
(* thread, ends it in good order: main cannot destroy the mutex before the *)
(* handler has let go of it.                                               *)
(***************************************************************************)
TermEndsIt == \A p \in Invocations :
    pc[p] = "asleep" /\ (\E t \in Threads : handler[p][t] = "lock") ~>
        pc[p] \in {"exited", "killed"} \/ signals[p] > 1
=============================================================================
