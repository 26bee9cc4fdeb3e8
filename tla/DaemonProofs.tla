----------------------------- MODULE DaemonProofs -----------------------------
(***************************************************************************)
(* What holds of vmstated's files for any number of invocations, in the    *)
(* foreground or not, and any number of signals.                           *)
(***************************************************************************)
EXTENDS Daemon, TLAPS

----------------------------------------------------------------------------
(* Types. *)

LEMMA InitTypes == Init => TypeOK
<1>1. Quiet \in [Threads -> {"none", "lock", "signal", "unlock"}] /\ 0 \in 0..MaxSignals
  BY DaemonAssumption DEF Quiet
<1>2. Init => /\ handler \in [Invocations -> [Threads -> {"none", "lock", "signal", "unlock"}]]
              /\ signals \in [Invocations -> 0..MaxSignals]
  BY <1>1 DEF Init
<1>3. Init => pidfile \in Foreign \cup Invocations /\ socketfile \in {"none", "stale"} \cup Invocations
  BY DEF Init, Foreign
<1>4. Init => errnoSet \in [Invocations -> BOOLEAN] /\ overlapped \in BOOLEAN
  <2>1. Init => errnoSet = [p \in Invocations |-> FALSE] /\ overlapped = FALSE
    BY DEF Init
  <2>2. QED
    BY <2>1, Zenon
<1>5. Init => pc \in [Invocations -> {"off"} \cup Starting \cup Stopping \cup Ended]
  BY DEF Init
<1>6. Init => sigmtx \in [Invocations -> {"none"} \cup Threads]
  BY DEF Init
<1>7. Init => /\ parent \in [Invocations -> {"none", "read", "success", "failure"}]
              /\ pipe \in [Invocations -> {"empty", "success", "failure"}]
              /\ logdir \in {"missing", "directory", "file"}
  BY DEF Init
<1>8. QED
  BY <1>2, <1>3, <1>4, <1>5, <1>6, <1>7, Zenon DEF TypeOK

(* A process that ends is quiet. *)
LEMMA EndsTypes ==
    ASSUME TypeOK, NEW p \in Invocations, NEW how \in Ended, Ends(p, how)
    PROVE  /\ pc' \in [Invocations -> {"off"} \cup Starting \cup Stopping \cup Ended]
           /\ handler' \in [Invocations -> [Threads -> {"none", "lock", "signal", "unlock"}]]
           /\ sigmtx' \in [Invocations -> {"none"} \cup Threads]
           /\ signals' \in [Invocations -> 0..MaxSignals]
<1>1. Quiet \in [Threads -> {"none", "lock", "signal", "unlock"}]
  BY DEF Quiet
<1>2. 0 \in 0..MaxSignals
  BY DaemonAssumption
<1>3. QED
  BY <1>1, <1>2 DEF TypeOK, Ends, Goto

(* What the main thread does up to the wait. *)
LEMMA StartingTypes ==
    ASSUME TypeOK, NEW p \in Invocations,
           \/ Start(p) \/ check_logdir(p) \/ check_already_running(p) \/ Fork(p) \/ ParentReturns(p)
           \/ bcs_walkdir(p) \/ OpenPidfile(p) \/ write_pidfile(p) \/ NewDirector(p)
           \/ BindSocket(p) \/ Serve(p)
    PROVE  TypeOK'
<1> USE DEF files, sig, Foreign
<1>1. CASE Start(p)
  BY <1>1 DEF TypeOK, Start, Goto, Starting
<1>2. CASE check_logdir(p)
  BY <1>2 DEF TypeOK, check_logdir, Goto, Starting, Ended
<1>3. CASE check_already_running(p)
  BY <1>3 DEF TypeOK, check_already_running, Goto, Starting, Ended
<1>4. CASE Fork(p)
  BY <1>4 DEF TypeOK, Fork, Goto, Starting, Ended
<1>5. CASE ParentReturns(p)
  BY <1>5 DEF TypeOK, ParentReturns
<1>6. ASSUME NEW s, Failing(p, s)
      PROVE  TypeOK'
  <2>1. Ends(p, "failed") /\ "failed" \in Ended
    BY <1>6 DEF Failing, vmstated_err, Ended
  <2>2. pipe' \in [Invocations -> {"empty", "success", "failure"}]
    BY <1>6 DEF Failing, vmstated_err, Tells, TypeOK
  <2>3. QED
    BY <1>6, <2>1, <2>2, EndsTypes DEF TypeOK, Failing
<1>7. CASE bcs_walkdir(p)
  BY <1>6, <1>7 DEF TypeOK, bcs_walkdir, Goto, Starting
<1>8. CASE OpenPidfile(p)
  BY <1>6, <1>8 DEF TypeOK, OpenPidfile, Goto, Starting
<1>9. CASE write_pidfile(p)
  BY <1>6, <1>9 DEF TypeOK, write_pidfile, Goto, Starting
<1>10. CASE NewDirector(p)
  BY <1>6, <1>10 DEF TypeOK, NewDirector, Goto, Starting
<1>11. CASE BindSocket(p)
  <2>1. CASE socketfile = "none"
    BY <1>11, <2>1 DEF TypeOK, BindSocket, Goto, Starting
  <2>2. CASE socketfile # "none"
    <3>1. Ends(p, "failed") /\ "failed" \in Ended
      BY <1>11, <2>2 DEF BindSocket, vmstated_err, Ended
    <3>2. pipe' \in [Invocations -> {"empty", "success", "failure"}]
      BY <1>11, <2>2 DEF BindSocket, vmstated_err, Tells, TypeOK
    <3>3. QED
      BY <1>11, <2>2, <3>1, <3>2, EndsTypes DEF TypeOK, BindSocket
  <2>3. QED
    BY <2>1, <2>2
<1>12. CASE Serve(p)
  BY <1>12 DEF TypeOK, Serve, Tells, Goto, Starting, Stopping
<1>13. QED
  BY <1>1, <1>2, <1>3, <1>4, <1>5, <1>7, <1>8, <1>9, <1>10, <1>11, <1>12

(* From the wait to the end. *)
LEMMA StoppingTypes ==
    ASSUME TypeOK, NEW p \in Invocations,
           \/ Lock(p) \/ Wait(p) \/ Unlock(p) \/ StopSocket(p) \/ DestroyMutex(p)
           \/ RestoreHandlers(p) \/ UnlinkPidfile(p)
    PROVE  TypeOK'
<1> USE DEF files, sig, Foreign
<1>1. CASE Lock(p)
  BY <1>1 DEF TypeOK, Lock, Goto, Threads, Starting, Stopping
<1>2. CASE Wait(p)
  BY <1>2 DEF TypeOK, Wait, Goto, Threads, Stopping
<1>3. CASE Unlock(p)
  BY <1>3 DEF TypeOK, Unlock, Goto, Threads, Stopping
<1>4. CASE StopSocket(p)
  BY <1>4 DEF TypeOK, StopSocket, Tells, Goto, Stopping
<1>5. CASE DestroyMutex(p)
  <2>1. CASE Goto(p, "restore") /\ UNCHANGED sig
    BY <1>5, <2>1 DEF TypeOK, DestroyMutex, Goto, Stopping
  <2>2. CASE Ends(p, "err")
    BY <1>5, <2>2, EndsTypes DEF TypeOK, DestroyMutex, Ended
  <2>3. QED
    BY <1>5, <2>1, <2>2 DEF DestroyMutex
<1>6. CASE RestoreHandlers(p)
  BY <1>6 DEF TypeOK, RestoreHandlers, Goto, Stopping
<1>7. CASE UnlinkPidfile(p)
  BY <1>7, EndsTypes DEF TypeOK, UnlinkPidfile, Ended
<1>8. QED
  BY <1>1, <1>2, <1>3, <1>4, <1>5, <1>6, <1>7

(* Signals, their handlers, and crashes. *)
LEMMA SignalTypes ==
    ASSUME TypeOK, NEW p \in Invocations,
           Signal(p) \/ Crash(p) \/ \E t \in Threads : vmstated_sigrecv(p, t)
    PROVE  TypeOK'
<1> USE DEF files, sig, Foreign
<1> DEFINE States == {"none", "lock", "signal", "unlock"}
<1>1. ASSUME NEW t \in Threads, NEW h \in States, handler' = [handler EXCEPT ![p][t] = h]
      PROVE  handler' \in [Invocations -> [Threads -> States]]
  BY <1>1 DEF TypeOK
<1>2. CASE Signal(p)
  <2>1. CASE Caught(p)
    <3>1. signals' \in [Invocations -> 0..MaxSignals]
      BY <1>2, <2>1, DaemonAssumption DEF Signal, TypeOK
    <3>2. handler' \in [Invocations -> [Threads -> States]]
      BY <1>1, <1>2, <2>1 DEF Signal
    <3>3. QED
      BY <1>2, <2>1, <3>1, <3>2 DEF Signal, TypeOK
  <2>2. CASE ~ Caught(p)
    BY <1>2, <2>2, EndsTypes DEF Signal, TypeOK, Ended
  <2>3. QED
    BY <2>1, <2>2
<1>3. CASE Crash(p)
  BY <1>3, EndsTypes DEF Crash, TypeOK, Ended
<1>4. ASSUME NEW t \in Threads, vmstated_sigrecv(p, t)
      PROVE  TypeOK'
  <2>1. CASE HandlerLocks(p, t) /\ Ends(p, "err")
    BY <2>1, EndsTypes DEF HandlerLocks, TypeOK, Ended
  <2>2. CASE HandlerLocks(p, t) /\ ~ Ends(p, "err")
    <3>1. handler' \in [Invocations -> [Threads -> States]]
      BY <1>1, <2>2 DEF HandlerLocks
    <3>2. QED
      BY <2>2, <3>1 DEF HandlerLocks, TypeOK
  <2>3. CASE HandlerSignals(p, t)
    <3>1. handler' \in [Invocations -> [Threads -> States]]
      BY <1>1, <2>3 DEF HandlerSignals
    <3>2. QED
      BY <2>3, <3>1 DEF HandlerSignals, TypeOK, Stopping
  <2>4. CASE HandlerUnlocks(p, t)
    <3>1. handler' \in [Invocations -> [Threads -> States]]
      BY <1>1, <2>4 DEF HandlerUnlocks
    <3>2. QED
      BY <2>4, <3>1 DEF HandlerUnlocks, TypeOK
  <2>5. QED
    BY <1>4, <2>1, <2>2, <2>3, <2>4 DEF vmstated_sigrecv
<1>5. QED
  BY <1>2, <1>3, <1>4

LEMMA StepTypes ==
    ASSUME TypeOK, NEW p \in Invocations, Step(p)
    PROVE  TypeOK'
BY StartingTypes, StoppingTypes, SignalTypes DEF Step, MainStep

LEMMA StutterTypes ==
    ASSUME TypeOK, UNCHANGED vars
    PROVE  TypeOK'
BY DEF TypeOK, vars, files, sig

(* Whatever happens, each variable holds what it is meant to hold. *)
THEOREM TypeCorrect == Spec => []TypeOK
<1>1. TypeOK /\ [Next]_vars => TypeOK'
  BY StepTypes, StutterTypes DEF Next
<1>2. QED
  BY <1>1, InitTypes, PTL DEF Spec

----------------------------------------------------------------------------
(***************************************************************************)
(* The pid file as a lock.  What a daemon has done by where it is: the     *)
(* parent has heard nothing before the start is over, errno is looked at   *)
(* once, and nobody is past check_logdir while the directory is missing.   *)
(***************************************************************************)
Claiming == {"fork", "walk", "openpid", "writepid"}
Serving  == {"serve", "lock", "cond", "asleep", "woken", "unlock"}
Freed    == {"destroy", "restore", "unlinkpid", "exited"}

Untold == \A p \in Invocations : pc[p] \in (Starting \ {"lock", "cond"}) \cup {"off"} =>
              parent[p] \in {"none", "read"} /\ pipe[p] = "empty"
LooksOnce == \A p \in Invocations : errnoSet[p] => pc[p] = "check"
FirstToLook == logdir = "missing" => \A p \in Invocations : pc[p] \in {"off", "logdir"}
Gone == \A p \in Invocations :
    /\ pc[p] \in Freed => socketfile # p
    /\ pc[p] = "exited" => pidfile # p

(***************************************************************************)
(* And while no two overlap: one starts at a time, the files lead to the   *)
(* daemon that has written them, and who has passed check_already_running, *)
(* or will not be stopped by it, is alone.                                 *)
(***************************************************************************)
Alone  == \A p, q \in Invocations : Unsettled(p) /\ Unsettled(q) => p = q
Holds  == \A p \in Invocations : (Owns(p) => pidfile = p) /\ (pc[p] \in Serving => socketfile = p)
Claims == \A p, q \in Invocations : pc[p] \in Claiming => ~ Owns(q)
Unread == \A p, q \in Invocations : errnoSet[p] => ~ Owns(q)

History == Untold /\ LooksOnce /\ FirstToLook /\ Gone
Locked  == Alone /\ Holds /\ Claims /\ Unread
IInv    == TypeOK /\ History /\ (~ overlapped => Locked)

(* What a step of p may do, as far as the invariant is concerned. *)
Early == (Starting \ {"lock", "cond"}) \cup {"off"}
Others(p) == \A q \in Invocations \ {p} :
    pc'[q] = pc[q] /\ parent'[q] = parent[q] /\ pipe'[q] = pipe[q] /\ errnoSet'[q] = errnoSet[q]
ToldMoves(p) ==
    /\ pc'[p] \in Early => pc[p] \in Early /\ pipe'[p] = pipe[p]
    /\ parent'[p] = parent[p] \/ parent'[p] \in {"none", "read"} \/ pipe[p] # "empty"
LooksMoves(p) ==
    /\ errnoSet'[p] =>
           \/ errnoSet[p] /\ pc'[p] = pc[p]
           \/ logdir = "missing" /\ pc'[p] = "check"
    /\ logdir' = "missing" =>
           logdir = "missing" /\ (pc[p] \in {"off", "logdir"} => pc'[p] \in {"off", "logdir"})
StartMoves(p) ==
    /\ overlapped => overlapped'
    /\ pc'[p] \in Starting /\ parent'[p] \in {"none", "read"} =>
           \/ pc[p] \in Starting /\ (parent'[p] = parent[p] \/ pc[p] = "fork")
           \/ pc[p] = "off" /\ (~ overlapped' => \A q \in Invocations : ~ Unsettled(q))
PidMoves(p) ==
    /\ pc'[p] \in Owning =>
           \/ Owns(p) /\ pidfile' = pidfile
           \/ pc[p] = "writepid" /\ pidfile' = p
    /\ pidfile' # pidfile => pc[p] \in {"openpid", "writepid"} \/ Owns(p)
    /\ pidfile' \in {pidfile, "empty", "none", p}
    /\ pc'[p] = "exited" => pidfile' = "none" \/ (pc[p] = "exited" /\ pidfile' = pidfile)
SocketMoves(p) ==
    /\ pc'[p] \in Serving => socketfile' = p \/ (pc[p] \in Serving /\ socketfile' = socketfile)
    /\ socketfile' # socketfile => Owns(p)
    /\ socketfile' \in {socketfile, "none", p}
    /\ pc'[p] \in Freed => socketfile' = "none" \/ (pc[p] \in Freed /\ socketfile' = socketfile)
ClaimMoves(p) == pc'[p] \in Claiming =>
    \/ pc[p] \in Claiming
    \/ pc[p] = "check" /\ (~ Alive(pidfile) \/ errnoSet[p])
Moves(p) == Others(p) /\ ToldMoves(p) /\ LooksMoves(p) /\ StartMoves(p) /\ PidMoves(p)
                /\ SocketMoves(p) /\ ClaimMoves(p)

LEMMA StartingMoves ==
    ASSUME TypeOK, LooksOnce, NEW p \in Invocations,
           \/ Start(p) \/ check_logdir(p) \/ check_already_running(p) \/ Fork(p) \/ ParentReturns(p)
           \/ bcs_walkdir(p) \/ OpenPidfile(p) \/ write_pidfile(p) \/ NewDirector(p)
           \/ BindSocket(p) \/ Serve(p)
    PROVE  Moves(p)
<1> USE DEF files, sig, At, Goto, TypeOK, LooksOnce, Moves, Others, ToldMoves, LooksMoves, StartMoves,
            PidMoves, SocketMoves, ClaimMoves, Early, Owns, Owning, Unsettled, Claiming, Serving, Freed,
            Starting, Stopping, Ended
<1>1. CASE Start(p)
  BY <1>1 DEF Start
<1>2. CASE check_logdir(p)
  BY <1>2 DEF check_logdir
<1>3. CASE check_already_running(p)
  BY <1>3 DEF check_already_running
<1>4. CASE Fork(p)
  BY <1>4 DEF Fork
<1>5. CASE ParentReturns(p)
  BY <1>5 DEF ParentReturns
<1>6. ASSUME NEW s \in {"walk", "openpid", "writepid", "director"}, Failing(p, s)
      PROVE  Moves(p)
  BY <1>6 DEF Failing, vmstated_err, Ends, Tells
<1>7. CASE bcs_walkdir(p)
  BY <1>6, <1>7 DEF bcs_walkdir
<1>8. CASE OpenPidfile(p)
  BY <1>6, <1>8 DEF OpenPidfile
<1>9. CASE write_pidfile(p)
  BY <1>6, <1>9 DEF write_pidfile
<1>10. CASE NewDirector(p)
  BY <1>6, <1>10 DEF NewDirector
<1>11. CASE BindSocket(p)
  BY <1>11 DEF BindSocket, vmstated_err, Ends, Tells
<1>12. CASE Serve(p)
  BY <1>12 DEF Serve, Tells
<1>13. QED
  BY <1>1, <1>2, <1>3, <1>4, <1>5, <1>7, <1>8, <1>9, <1>10, <1>11, <1>12

LEMMA StoppingMoves ==
    ASSUME TypeOK, LooksOnce, NEW p \in Invocations,
           \/ Lock(p) \/ Wait(p) \/ Unlock(p) \/ StopSocket(p) \/ DestroyMutex(p)
           \/ RestoreHandlers(p) \/ UnlinkPidfile(p)
           \/ Signal(p) \/ Crash(p) \/ \E t \in Threads : vmstated_sigrecv(p, t)
    PROVE  Moves(p)
<1> USE DEF files, sig, At, Goto, TypeOK, LooksOnce, Moves, Others, ToldMoves, LooksMoves, StartMoves,
            PidMoves, SocketMoves, ClaimMoves, Early, Owns, Owning, Unsettled, Claiming, Serving, Freed,
            Starting, Stopping, Ended
<1>1. CASE Lock(p)
  BY <1>1 DEF Lock
<1>2. CASE Wait(p)
  BY <1>2 DEF Wait
<1>3. CASE Unlock(p)
  BY <1>3 DEF Unlock
<1>4. CASE StopSocket(p)
  BY <1>4 DEF StopSocket, Tells
<1>5. CASE DestroyMutex(p)
  BY <1>5 DEF DestroyMutex, Ends
<1>6. CASE RestoreHandlers(p)
  BY <1>6 DEF RestoreHandlers
<1>7. CASE UnlinkPidfile(p)
  BY <1>7 DEF UnlinkPidfile, Ends
<1>8. CASE Signal(p)
  BY <1>8 DEF Signal, Ends, Running
<1>9. CASE Crash(p)
  BY <1>9 DEF Crash, Ends, Running
<1>10. ASSUME NEW t \in Threads, vmstated_sigrecv(p, t)
       PROVE  Moves(p)
  <2>1. CASE HandlerLocks(p, t)
    BY <2>1 DEF HandlerLocks, Ends, Running
  <2>2. CASE HandlerSignals(p, t)
    BY <2>2 DEF HandlerSignals
  <2>3. CASE HandlerUnlocks(p, t)
    BY <2>3 DEF HandlerUnlocks
  <2>4. QED
    BY <1>10, <2>1, <2>2, <2>3 DEF vmstated_sigrecv
<1>11. QED
  BY <1>1, <1>2, <1>3, <1>4, <1>5, <1>6, <1>7, <1>8, <1>9, <1>10

LEMMA StepMoves ==
    ASSUME TypeOK, LooksOnce, NEW p \in Invocations, Step(p)
    PROVE  Moves(p)
BY StartingMoves, StoppingMoves DEF Step, MainStep

(* History holds whether or not invocations overlap. *)
LEMMA HistoryKept ==
    ASSUME TypeOK, TypeOK', History, NEW p \in Invocations, Moves(p)
    PROVE  History'
<1>1. Untold'
  BY DEF Untold, History, Moves, Others, ToldMoves, Early, TypeOK
<1>2. LooksOnce'
  BY DEF LooksOnce, History, Moves, Others, LooksMoves
<1>3. FirstToLook'
  BY DEF FirstToLook, History, Moves, Others, LooksMoves
<1>4. Gone'
  BY DaemonAssumption DEF Gone, History, Moves, Others, PidMoves, SocketMoves, Foreign
<1>5. QED
  BY <1>1, <1>2, <1>3, <1>4 DEF History

(* One starts at a time: whoever comes later has waited for the one before. *)
LEMMA AloneKept ==
    ASSUME TypeOK, History, Alone, NEW p \in Invocations, Moves(p), ~ overlapped'
    PROVE  Alone'
<1>1. Unsettled(p)' => Unsettled(p) \/ \A q \in Invocations : ~ Unsettled(q)
  BY DEF Moves, StartMoves, Unsettled, History, Untold, Early, Starting
<1>2. \A q \in Invocations \ {p} : Unsettled(q)' <=> Unsettled(q)
  BY DEF Moves, Others, Unsettled
<1>3. QED
  BY <1>1, <1>2 DEF Alone

(* Who claims the pid file is starting, and so is who looks at errno. *)
LEMMA ClaimantUnsettled ==
    ASSUME TypeOK, History, NEW p \in Invocations, pc[p] \in Claiming \/ errnoSet[p]
    PROVE  Unsettled(p)
BY DEF History, Untold, LooksOnce, Claiming, Unsettled, Starting

(* The files lead to the daemon that owns them: only who claims or owns the *)
(* pid file changes it, and only an owner the socket path.                  *)
LEMMA HoldsKept ==
    ASSUME TypeOK, Holds, Claims, NEW p \in Invocations, Moves(p)
    PROVE  Holds'
<1>1. ASSUME NEW q \in Invocations, Owns(q)', q # p
      PROVE  pidfile' = q /\ UNCHANGED socketfile
  <2>1. Owns(q) /\ pidfile = q
    BY <1>1 DEF Holds, Owns, Moves, Others
  <2>2. ~ Owns(p) /\ pc[p] \notin Claiming
    BY <1>1, <2>1 DEF Holds, Claims
  <2>3. QED
    BY <2>1, <2>2 DEF Moves, PidMoves, SocketMoves, Claiming
<1>2. Owns(p)' => pidfile' = p
  BY DEF Holds, Owns, Moves, PidMoves
<1>3. pc'[p] \in Serving => socketfile' = p
  BY DEF Holds, Moves, SocketMoves
<1>4. \A q \in Invocations : pc[q] \in Serving => Owns(q)
  BY DEF Serving, Owns, Owning, Starting, Stopping
<1>5. QED
  BY <1>1, <1>2, <1>3, <1>4 DEF Holds, Owns, Moves, Others

(* Who passes check_already_running finds no daemon, for one there was     *)
(* would be in the pid file, and alive; and errno can have been set only   *)
(* for the first that ever came.                                           *)
LEMMA ClaimsKept ==
    ASSUME TypeOK, History, Locked, NEW p \in Invocations, Moves(p), Alone'
    PROVE  Claims' /\ Unread'
<1>1. ASSUME NEW q \in Invocations, Owns(q)
      PROVE  Alive(pidfile)
  <2>1. pidfile = q
    BY <1>1 DEF Locked, Holds
  <2>2. Running(q)
    BY <1>1 DEF Owns, Owning, Running, Starting, Stopping, Ended
  <2>3. QED
    BY <2>1, <2>2 DEF Alive
<1>2. ASSUME pc'[p] \in Claiming
      PROVE  pc[p] \in Claiming \/ \A q \in Invocations : ~ Owns(q)
  BY <1>1, <1>2 DEF Moves, ClaimMoves, Locked, Unread
<1>3. ASSUME errnoSet'[p]
      PROVE  \A q \in Invocations : ~ Owns(q)
  <2>1. logdir = "missing" => \A q \in Invocations : ~ Owns(q)
    BY DEF History, FirstToLook, Owns, Owning, Starting, Stopping
  <2>2. QED
    BY <1>3, <2>1 DEF Moves, LooksMoves, Locked, Unread
<1>4. ASSUME Owns(p)', ~ Owns(p), NEW q \in Invocations, pc[q] \in Claiming \/ errnoSet[q]
      PROVE  q = p
  <2>1. pc[p] \in Claiming
    BY <1>4 DEF Owns, Moves, PidMoves, Claiming
  <2>2. QED
    BY <1>4, <2>1, ClaimantUnsettled DEF Locked, Alone
<1>5. ~ (pc'[p] \in Claiming /\ Owns(p)')
  BY DEF Claiming, Owns, Owning, Starting, Stopping
<1>6. ~ (errnoSet'[p] /\ Owns(p)')
  BY DEF Moves, LooksMoves, History, LooksOnce, Owns, Owning, Starting, Stopping
<1>7. \A q \in Invocations \ {p} :
          pc'[q] = pc[q] /\ errnoSet'[q] = errnoSet[q] /\ (Owns(q)' <=> Owns(q))
  BY DEF Moves, Others, Owns
<1>8. Claims'
  BY <1>2, <1>4, <1>5, <1>7 DEF Claims, Locked
<1>9. Unread'
  BY <1>3, <1>4, <1>6, <1>7 DEF Unread, Locked
<1>10. QED
  BY <1>8, <1>9

LEMMA InitIInv == Init => IInv
<1> SUFFICES ASSUME Init
             PROVE  IInv
  OBVIOUS
<1>1. \A p \in Invocations : pc[p] = "off" /\ parent[p] = "none" /\ pipe[p] = "empty" /\ ~ errnoSet[p]
  BY DEF Init
<1>2. History
  BY <1>1 DEF History, Untold, LooksOnce, FirstToLook, Gone, Freed
<1>3. Locked
  BY <1>1 DEF Locked, Alone, Holds, Claims, Unread, Unsettled, Owns, Owning, Starting, Stopping,
              Serving, Claiming
<1>4. QED
  BY <1>2, <1>3, InitTypes DEF IInv

LEMMA StepIInv ==
    ASSUME IInv, NEW p \in Invocations, Step(p)
    PROVE  IInv'
<1>1. TypeOK' /\ Moves(p)
  BY StepTypes, StepMoves DEF IInv, History
<1>2. History'
  BY <1>1, HistoryKept DEF IInv
<1>3. ASSUME ~ overlapped'
      PROVE  Locked'
  <2>1. Locked
    BY <1>1, <1>3 DEF IInv, Moves, StartMoves
  <2>2. Alone'
    BY <1>1, <1>3, <2>1, AloneKept DEF IInv, Locked
  <2>3. Holds'
    BY <1>1, <2>1, HoldsKept DEF IInv, Locked
  <2>4. Claims' /\ Unread'
    BY <1>1, <2>1, <2>2, ClaimsKept DEF IInv
  <2>5. QED
    BY <2>2, <2>3, <2>4 DEF Locked
<1>4. QED
  BY <1>1, <1>2, <1>3 DEF IInv

LEMMA StutterIInv ==
    ASSUME IInv, UNCHANGED vars
    PROVE  IInv'
BY StutterTypes DEF IInv, History, Locked, Untold, LooksOnce, FirstToLook, Gone, Alone, Holds, Claims,
                    Unread, Unsettled, Owns, vars, files, sig

THEOREM InvariantHolds == Spec => []IInv
<1>1. IInv /\ [Next]_vars => IInv'
  BY StepIInv, StutterIInv DEF Next
<1>2. QED
  BY <1>1, InitIInv, PTL DEF Spec

(***************************************************************************)
(* check_already_running and the pid file keep a second daemon away, for   *)
(* any number of invocations that do not overlap.                          *)
(***************************************************************************)
THEOREM OneDaemonAtATime == Spec => []OneDaemon
<1>1. IInv => OneDaemon
  BY DEF IInv, Locked, Holds, OneDaemon
<1>2. QED
  BY <1>1, InvariantHolds, PTL

(***************************************************************************)
(* Whoever was told of success reaches the daemon by its files, until it   *)
(* comes to an end.                                                        *)
(***************************************************************************)
THEOREM FilesLeadToTheDaemon == Spec => []SuccessMeansServing
<1>1. IInv => SuccessMeansServing
  BY DEF IInv, Locked, Holds, SuccessMeansServing, Serving, Owns, Owning, Starting, Stopping
<1>2. QED
  BY <1>1, InvariantHolds, PTL

(***************************************************************************)
(* UnlinkPidfile and StopSocket leave nothing of a daemon that ended in    *)
(* good order, whatever the others do.                                     *)
(***************************************************************************)
THEOREM CleanExit == Spec => []NothingLeft
<1>1. IInv => NothingLeft
  BY DEF IInv, History, Gone, Freed, NothingLeft
<1>2. QED
  BY <1>1, InvariantHolds, PTL
=============================================================================
