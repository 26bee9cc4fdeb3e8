--------------------------- MODULE PsvClientsProofs ---------------------------
(***************************************************************************)
(* A process_state_vm in the hands of its clients: types for any number of *)
(* them, and, for a client that has it to itself, the transition table,    *)
(* the single process and the agreement of state and process.              *)
(***************************************************************************)
EXTENDS PsvClients, ProcessStateProofs, FiniteSetTheorems

(* No hook of the clean-up fails; each other one may. *)
CleanUpHooks == {"STOP_STORAGE", "STOP_NETWORK", "STOPPED", "FAILED", "PRESTOP_BEFORE_RESTART"}
CleanUpSucceeds == FailingHooks \cap CleanUpHooks = {}

(***************************************************************************)
(* Whether the VM has a process whose end was not reported yet.  processid *)
(* names each of them, so there is one at most.                            *)
(***************************************************************************)
Unreported == {"alive", "zombie", "waited"}
Has(vm) == \E p \in Pids : proc[p].vm = vm /\ proc[p].state \in Unreported

Named ==
    \A p \in Pids :
        /\ proc[p].state \in Unreported =>
               proc[p].vm \in VMs /\ processid[proc[p].vm] = p
        /\ proc[p].state = "free" => proc[p].vm = NoVM

(* The state s of a VM that nobody works on, which has a process or not. *)
Rest(s, has) ==
    /\ has => s \in {"RUNNING", "STOPPING", "PRESTOP_BEFORE_RESTART", "FAILED"}
    /\ s \in {"RUNNING", "STOPPING"} => has

(***************************************************************************)
(* What a frame f is about to do with its VM.  Down: there is no process,  *)
(* and none of the states to enter is for one that has.  Leaving: the      *)
(* process has ended, and the first state to enter will be entered.        *)
(***************************************************************************)
Walking == {"lookup", "enter"}
DownStops == {"undo", "storage", "storagefailed", "launch", "request", "exitcode", "clear",
              "ok", "err"}
Avoids(todo) == \A i \in 1 .. Len(todo) : todo[i] \notin {"RUNNING", "STOPPING"}
WalksDown(f) == f.pc \in Walking /\ f.then \in DownStops /\ f.else \in DownStops

Down(f, s, has) ==
    /\ ~ has /\ s \notin {"RUNNING", "STOPPING"}
    /\ \/ f.pc \in DownStops
       \/ WalksDown(f) /\ Avoids(f.todo)

Leaving(f, s, has) ==
    /\ ~ has /\ s \in {"RUNNING", "STOPPING"}
    /\ \/ f.pc = "exitcode" /\ f.code >= 3
       \/ /\ WalksDown(f) /\ Avoids(f.todo)
          /\ HasTransition(s, Head(f.todo)) /\ Head(f.todo) \in CleanUpHooks

(* The process is there: it was launched, or is to be stopped. *)
FailWalk(todo, s) ==
    \/ todo = FailChain
    \/ todo = << "STOP_NETWORK", "STOPPED", "FAILED" >> /\ s = "STOP_STORAGE"
    \/ todo = << "STOPPED", "FAILED" >> /\ s = "STOP_NETWORK"
    \/ todo = << "FAILED" >> /\ s = "STOPPED"

FailEnds == {"kill", "signalled", "ok", "err"}

Up(f, s, has) ==
    /\ has
    /\ \/ f.pc \in {"upfailed", "stopfailed"}
       \/ /\ f.pc \in {"kill", "killfailed", "signalled"}
          /\ s \in {"STOPPING", "PRESTOP_BEFORE_RESTART", "FAILED"}
       \/ /\ f.pc \in Walking /\ f.then = "kill" /\ f.else = "stopfailed"
          /\ f.todo \in {<< "STOPPING" >>, << "PRESTOP_BEFORE_RESTART" >>}
       \/ /\ f.pc \in Walking /\ f.then = "ok" /\ f.else = "upfailed"
          /\ f.todo \in {<< "RESTARTED", "RUNNING" >>, << "RUNNING" >>}
       \/ /\ f.pc \in Walking /\ f.then \in FailEnds /\ f.else \in {"ok", "err"}
          /\ FailWalk(f.todo, s)

Phase(f, s, has) ==
    \/ f.pc \in {"ok", "err"} /\ Rest(s, has)
    \/ Down(f, s, has) \/ Leaving(f, s, has) \/ Up(f, s, has)

Sound(t) == call[t].pc # "idle" => Phase(call[t], vmstate[call[t].vm], Has(call[t].vm))

AtRest(vm) == \A t \in Threads : call[t].pc = "idle" \/ call[t].vm # vm

(***************************************************************************)
(* What the types rest on, besides: an operation is about a VM, and so is  *)
(* a process once it was forked.                                           *)
(***************************************************************************)
TypeInv ==
    /\ PsvInv
    /\ \A t \in Threads : call[t].pc # "idle" => call[t].vm \in VMs
    /\ \A p \in Pids : proc[p].state = "free" \/ proc[p].vm \in VMs

(* The invariant of a single client. *)
IInv ==
    /\ TypeInv /\ Named
    /\ \A t \in Threads : Sound(t)
    /\ \A vm \in VMs : AtRest(vm) => Rest(vmstate[vm], Has(vm))

-----------------------------------------------------------------------------
(* Types, for any number of clients. *)

LEMMA BeginTyped ==
    ASSUME PsvInv, NEW t \in Threads, NEW f, GoodFrame(f), Begin(t, f), proc' \in [Pids -> Process]
    PROVE  PsvInv'
<1>1. /\ call' \in [Threads -> Frame]
      /\ \A u \in Threads : Walks(call'[u])
  BY CallMoves DEF Begin
<1>2. QED
  BY <1>1 DEF Begin, PsvInv, PsvTypeOK

LEMMA CallsTyped ==
    ASSUME PsvInv, NEW t \in Threads, Calls(t)
    PROVE  PsvInv'
<1>1. proc' \in [Pids -> Process]
  BY DEF Calls, PsvInv, PsvTypeOK
<1>2. PICK vm \in VMs : \/ Begin(t, StartVM(vm)) \/ Begin(t, StopVM(vm, FALSE))
                        \/ Begin(t, StopVM(vm, TRUE)) \/ Begin(t, ResetFailure(vm))
  BY DEF Calls
<1>3. /\ GoodFrame(StartVM(vm)) /\ GoodFrame(ResetFailure(vm))
      /\ GoodFrame(StopVM(vm, FALSE)) /\ GoodFrame(StopVM(vm, TRUE))
  BY StartVMGood, StopVMGood, ResetFailureGood
<1>4. QED
  BY <1>1, <1>2, <1>3, BeginTyped

(* A process that has ended was launched for a VM. *)
LEMMA ReportTyped ==
    ASSUME PsvInv, NEW t \in Threads, NEW p \in Pids, ReportExit(t, p), proc[p].vm \in VMs
    PROVE  PsvInv'
<1>1. proc[p] \in Process
  BY DEF PsvInv, PsvTypeOK
<1>2. proc' \in [Pids -> Process]
  <2>1. [proc[p] EXCEPT !.state = "reaped"] \in Process
    BY <1>1 DEF Process
  <2>2. QED
    BY <2>1 DEF ReportExit, PsvInv, PsvTypeOK
<1>3. GoodFrame(OnExit(proc[p].vm, proc[p].code)) /\ GoodFrame(FailureState(proc[p].vm))
  BY <1>1, OnExitGood, FailureStateGood DEF Process
<1>4. QED
  BY <1>2, <1>3, BeginTyped DEF ReportExit

(* waitpid in psv_stop_or_reboot: where it leaves the frame. *)
LEMMA CollectMoves ==
    ASSUME PsvInv, NEW t \in Threads, OfVM(t), Collect(t)
    PROVE  \E g \in Frame :
              /\ call' = [call EXCEPT ![t] = g] /\ GoodFrame(g) /\ g.vm = call[t].vm
              /\ \/ g.pc = "ok"
                 \/ /\ g.pc = "lookup" /\ g.todo = FailChain
                    /\ g.then \in {"ok", "err"} /\ g.else \in {"ok", "err"}
              /\ g.pc = "ok" => g.todo = << >>
              /\ g.target = call[t].target
<1> DEFINE f == call[t]
           r == proc[f.target]
           e == Walk(f, FailChain, "err", "err")
           w == Walk(f, FailChain, "ok", "ok")
           j == Jump(f, "ok")
<1>1. f \in Frame /\ {"ok", "err"} \subseteq Stops
  BY DEF PsvInv, PsvTypeOK, Stops
<1>2. /\ GoodFrame(e) /\ e.pc = "lookup" /\ e.todo = FailChain /\ e.then = "err" /\ e.else = "err"
      /\ e.vm = f.vm /\ e.target = f.target
  BY <1>1, ChainsTyped, WalkGood DEF Walk, Frame
<1>3. /\ GoodFrame(w) /\ w.pc = "lookup" /\ w.todo = FailChain /\ w.then = "ok" /\ w.else = "ok"
      /\ w.vm = f.vm /\ w.target = f.target
  BY <1>1, ChainsTyped, WalkGood DEF Walk, Frame
<1>4. GoodFrame(j) /\ j.pc = "ok" /\ j.vm = f.vm /\ j.todo = << >> /\ j.target = f.target
  <2>1. GoodFrame(j)
    BY <1>1, JumpGood
  <2>2. j.pc = "ok" /\ j.vm = f.vm /\ j.todo = << >> /\ j.target = f.target
    BY <1>1 DEF Jump, Frame
  <2>3. QED
    BY <2>1, <2>2
<1>5. \E g \in {e, w, j} : call' = [call EXCEPT ![t] = g]
  <2>1. CASE r.state # "zombie"
    BY <2>1 DEF Collect
  <2>2. CASE r.state = "zombie" /\ r.exited /\ r.code >= 3
    BY <2>2 DEF Collect
  <2>3. CASE r.state = "zombie" /\ ~ (r.exited /\ r.code >= 3)
    BY <2>3 DEF Collect
  <2>4. QED
    BY <2>1, <2>2, <2>3
<1> HIDE DEF e, w, j
<1>6. QED
  BY <1>2, <1>3, <1>4, <1>5 DEF GoodFrame

(* The process it waited for becomes one that was collected. *)
LEMMA CollectProcs ==
    ASSUME PsvInv, NEW t \in Threads, Collect(t)
    PROVE  /\ proc' \in [Pids -> Process]
           /\ \A q \in Pids :
                 /\ proc'[q].vm = proc[q].vm
                 /\ \/ proc'[q].state = proc[q].state
                    \/ proc[q].state = "zombie" /\ proc'[q].state = "waited" /\ q = call[t].target
<1>1. \A r \in Process : LET z == [r EXCEPT !.state = IF @ = "zombie" THEN "waited" ELSE @]
                         IN  /\ z \in Process /\ z.vm = r.vm
                             /\ \/ z.state = r.state
                                \/ r.state = "zombie" /\ z.state = "waited"
  BY DEF Process
<1>2. QED
  BY <1>1 DEF Collect, PsvInv, PsvTypeOK

LEMMA RequestTyped ==
    ASSUME PsvInv, NEW t \in Threads, RequestReboot(t)
    PROVE  PsvInv'
<1>1. PICK ok \in BOOLEAN : call' = [call EXCEPT ![t] = Requested(call[t], ok)]
  BY DEF RequestReboot
<1>2. GoodFrame(Requested(call[t], ok))
  BY RequestedGood DEF PsvInv, PsvTypeOK
<1>3. QED
  BY <1>1, <1>2, CallMoves DEF RequestReboot, PsvInv, PsvTypeOK

LEMMA ReturnTyped ==
    ASSUME PsvInv, NEW t \in Threads, Return(t)
    PROVE  PsvInv'
BY IdleGood, CallMoves DEF Return, PsvInv, PsvTypeOK

LEMMA EndsTyped ==
    ASSUME PsvInv, NEW p \in Pids, Ends(p)
    PROVE  PsvInv'
<1>1. PICK status \in Statuses : Exits(p, status)
  BY DEF Ends
<1>2. status.exited \in BOOLEAN /\ status.code \in 0 .. 255
  <2>1. CASE status \in [exited : {TRUE}, code : ExitCodes]
    <3>1. status.exited = TRUE /\ status.code \in ExitCodes
      BY <2>1
    <3>2. status.code \in 0 .. 255
      BY <3>1, ConstantsAssumption
    <3>3. QED
      BY <3>1, <3>2
  <2>2. CASE status \in [exited : IF Killable THEN {FALSE} ELSE {}, code : {0}]
    <3>1. status.exited \in (IF Killable THEN {FALSE} ELSE {}) /\ status.code \in {0}
      BY <2>2
    <3>2. status.exited = FALSE /\ status.code = 0
      BY <3>1, Zenon
    <3>3. status.exited \in BOOLEAN
      BY <3>2, Zenon
    <3>4. status.code \in 0 .. 255
      BY <3>2
    <3>5. QED
      BY <3>3, <3>4
  <2>3. QED
    BY <2>1, <2>2 DEF Statuses
<1>3. /\ proc[p] \in Process
      /\ proc' = [proc EXCEPT ![p] = [proc[p] EXCEPT !.state = "zombie", !.exited = status.exited,
                                                     !.code = status.code]]
  BY <1>1 DEF Exits, PsvInv, PsvTypeOK
<1>4. [proc[p] EXCEPT !.state = "zombie", !.exited = status.exited, !.code = status.code] \in Process
  BY <1>2, <1>3 DEF Process
<1>5. QED
  BY <1>3, <1>4 DEF Ends, PsvInv, PsvTypeOK

LEMMA EntriesForVM ==
    ASSUME NEW vm \in VMs, NEW code \in 0 .. 255
    PROVE  /\ StartVM(vm).vm = vm
           /\ StopVM(vm, FALSE).vm = vm /\ StopVM(vm, TRUE).vm = vm
           /\ ResetFailure(vm).vm = vm
           /\ OnExit(vm, code).vm = vm
           /\ FailureState(vm).vm = vm
<1>1. StartVM(vm).vm = vm
  BY StartVMFacts
<1>2. \A f \in Frame : \A chain, then, else : Walk(f, chain, then, else).vm = f.vm
  BY DEF Walk, Frame
<1>3. \A f \in Frame : \A label : Jump(f, label).vm = f.vm
  BY DEF Jump, Frame
<1>4. /\ Entry(vm) \in Frame /\ Entry(vm).vm = vm
      /\ [Entry(vm) EXCEPT !.code = code] \in Frame /\ [Entry(vm) EXCEPT !.code = code].vm = vm
  <2>1. Entry(vm) \in Frame /\ Entry(vm).vm = vm
    BY EntryFacts
  <2>2. \A h \in Frame, n \in 0 .. 255 :
           [h EXCEPT !.code = n] \in Frame /\ [h EXCEPT !.code = n].vm = h.vm
    BY DEF Frame
  <2>3. QED
    BY <2>1, <2>2
<1> DEFINE f == [Entry(vm) EXCEPT !.code = code]
<1> HIDE DEF f
<1>5. StopVM(vm, FALSE).vm = vm /\ StopVM(vm, TRUE).vm = vm
  BY <1>2, <1>3, <1>4 DEF StopVM
<1>6. ResetFailure(vm).vm = vm /\ FailureState(vm).vm = vm
  BY <1>2, <1>3, <1>4 DEF ResetFailure, FailureState
<1>7. OnExit(vm, code).vm = vm
  <2>1. f \in Frame /\ f.vm = vm
    BY <1>4 DEF f
  <2>2. /\ Walk(f, RebootedChain, "request", "err").vm = vm
        /\ Walk(f, RebootChain, "request", "err").vm = vm
        /\ Walk(f, StopChain, "exitcode", "err").vm = vm
        /\ Jump(f, "exitcode").vm = vm
    BY <2>1, <1>2, <1>3
  <2>3. QED
    BY <2>2 DEF OnExit, f
<1>8. QED
  BY <1>1, <1>5, <1>6, <1>7

LEMMA NextTyped ==
    ASSUME TypeInv, [Next]_psvvars
    PROVE  TypeInv'
<1>1. ASSUME NEW t \in Threads, Calls(t)
      PROVE  TypeInv'
  <2>1. PsvInv'
    BY <1>1, CallsTyped DEF TypeInv
  <2>2. PICK vm \in VMs : \/ Begin(t, StartVM(vm)) \/ Begin(t, StopVM(vm, FALSE))
                          \/ Begin(t, StopVM(vm, TRUE)) \/ Begin(t, ResetFailure(vm))
    BY <1>1 DEF Calls
  <2>3. ASSUME NEW f, f.vm = vm, Begin(t, f)
        PROVE  TypeInv'
    BY <1>1, <2>1, <2>3 DEF Begin, TypeInv, PsvInv, PsvTypeOK, Calls
  <2>4. 0 \in 0 .. 255
    OBVIOUS
  <2>5. QED
    BY <2>2, <2>3, <2>4, EntriesForVM
<1>2. ASSUME NEW t \in Threads, NEW p \in Pids, ReportExit(t, p)
      PROVE  TypeInv'
  <2>1. proc[p].vm \in VMs /\ proc[p].code \in 0 .. 255
    BY <1>2 DEF TypeInv, PsvInv, PsvTypeOK, Process, ReportExit
  <2>2. PsvInv'
    BY <1>2, <2>1, ReportTyped DEF TypeInv
  <2>3. ASSUME NEW f, f.vm \in VMs, Begin(t, f)
        PROVE  \A u \in Threads : call'[u].pc # "idle" => call'[u].vm \in VMs
    BY <2>3 DEF Begin, TypeInv, PsvInv, PsvTypeOK
  <2>4. \A q \in Pids : proc'[q].state = "free" \/ proc'[q].vm \in VMs
    BY <1>2, <2>1 DEF ReportExit, TypeInv, PsvInv, PsvTypeOK, Process
  <2>5. \A u \in Threads : call'[u].pc # "idle" => call'[u].vm \in VMs
    BY <1>2, <2>1, <2>3, EntriesForVM DEF ReportExit
  <2>6. QED
    BY <2>2, <2>4, <2>5 DEF TypeInv
<1>3. ASSUME NEW t \in Threads, RequestReboot(t)
      PROVE  TypeInv'
  <2>1. PsvInv'
    BY <1>3, RequestTyped DEF TypeInv
  <2>2. PICK ok \in BOOLEAN : call' = [call EXCEPT ![t] = Requested(call[t], ok)]
    BY <1>3 DEF RequestReboot
  <2>3. Requested(call[t], ok).vm = call[t].vm
    BY DEF Requested, Walk, Jump, TypeInv, PsvInv, PsvTypeOK, Frame
  <2>4. QED
    BY <1>3, <2>1, <2>2, <2>3 DEF RequestReboot, TypeInv, PsvInv, PsvTypeOK
<1>4. ASSUME NEW t \in Threads, Return(t)
      PROVE  TypeInv'
  BY <1>4, ReturnTyped DEF Return, Idle, TypeInv, PsvInv, PsvTypeOK
<1>5. ASSUME NEW t \in Threads, Step(t)
      PROVE  TypeInv'
  <2>1. PsvInv'
    BY <1>5, StepTyped DEF TypeInv, OfVM
  <2>2. PICK g : FrameStep(t, g)
    BY <1>5, StepEffect DEF TypeInv, OfVM
  <2>3. call[t].vm \in VMs
    BY <2>2 DEF FrameStep, TypeInv
  <2>4. \A u \in Threads : call'[u].pc # "idle" => call'[u].vm \in VMs
    BY <2>2, <2>3 DEF FrameStep, TypeInv, PsvInv, PsvTypeOK
  <2>5. \A q \in Pids : proc'[q].state = "free" \/ proc'[q].vm \in VMs
    BY <2>2, <2>3 DEF FrameStep, LaunchesOnly, SameProcess, TypeInv
  <2>6. QED
    BY <2>1, <2>4, <2>5 DEF TypeInv
<1>9. ASSUME NEW t \in Threads, Collect(t)
      PROVE  TypeInv'
  <2>0. PsvInv /\ OfVM(t) /\ call[t].pc = "signalled" /\ UNCHANGED << vmstate, processid >>
    BY <1>9 DEF Collect, TypeInv, OfVM
  <2>1. PICK g \in Frame : /\ call' = [call EXCEPT ![t] = g] /\ GoodFrame(g)
                           /\ g.vm = call[t].vm
    BY <1>9, <2>0, CollectMoves
  <2>2. /\ proc' \in [Pids -> Process]
        /\ \A q \in Pids : /\ proc'[q].vm = proc[q].vm
                            /\ (proc'[q].state = "free" <=> proc[q].state = "free")
    BY <1>9, <2>0, CollectProcs
  <2>3. /\ call' \in [Threads -> Frame]
        /\ \A u \in Threads : Walks(call'[u])
    BY <2>0, <2>1, CallMoves
  <2>4. PsvInv'
    BY <2>0, <2>2, <2>3 DEF PsvInv, PsvTypeOK
  <2>5. \A u \in Threads : call'[u].pc # "idle" => call'[u].vm \in VMs
    BY <2>0, <2>1 DEF TypeInv, OfVM, PsvInv, PsvTypeOK
  <2>6. \A q \in Pids : proc'[q].state = "free" \/ proc'[q].vm \in VMs
    BY <2>2 DEF TypeInv
  <2>7. QED
    BY <2>4, <2>5, <2>6 DEF TypeInv
<1>6. ASSUME NEW p \in Pids, Ends(p)
      PROVE  TypeInv'
  <2>1. PsvInv'
    BY <1>6, EndsTyped DEF TypeInv
  <2>2. \A q \in Pids : proc'[q].vm = proc[q].vm /\ (proc[q].state # "free" => proc'[q].state # "free")
    BY <1>6 DEF Ends, Exits, TypeInv, PsvInv, PsvTypeOK, Process
  <2>3. proc[p].state # "free"
    BY <1>6 DEF Ends, Exits
  <2>4. \A q \in Pids : q # p => proc'[q] = proc[q]
    BY <1>6 DEF Ends, Exits, TypeInv, PsvInv, PsvTypeOK
  <2>5. QED
    BY <1>6, <2>1, <2>2, <2>3, <2>4 DEF Ends, TypeInv
<1>7. CASE UNCHANGED psvvars
  BY <1>7 DEF psvvars, TypeInv, PsvInv, PsvTypeOK
<1>8. QED
  BY <1>1, <1>2, <1>3, <1>4, <1>5, <1>6, <1>7, <1>9 DEF Next

LEMMA InitTypeInv == PsvInit => TypeInv
BY InitTyped DEF PsvInit, TypeInv, Idle, Unforked

(***************************************************************************)
(* State, pid, processes and frames keep their types, for any number of    *)
(* clients that call any operations at once.                               *)
(***************************************************************************)
THEOREM TypesHold == Spec => []PsvTypeOK
<1>1. TypeInv => PsvTypeOK
  BY DEF TypeInv, PsvInv
<1>2. QED
  BY <1>1, InitTypeInv, NextTyped, PTL DEF Spec

-----------------------------------------------------------------------------
(* A client that has the VMs to itself. *)

LEMMA WalkShape ==
    ASSUME NEW f \in Frame, NEW chain, NEW then, NEW else
    PROVE  LET g == Walk(f, chain, then, else) IN
           /\ g.pc = "lookup" /\ g.todo = chain /\ g.then = then /\ g.else = else
           /\ g.vm = f.vm /\ g.code = f.code /\ g.pid = f.pid
BY DEF Walk, Frame

LEMMA JumpShape ==
    ASSUME NEW f \in Frame, NEW label
    PROVE  LET g == Jump(f, label) IN
           g.pc = label /\ g.vm = f.vm /\ g.code = f.code /\ g.pid = f.pid
BY DEF Jump, Frame

(* No operation begins in the middle of a transition. *)
LEMMA EntriesLook ==
    ASSUME NEW vm \in VMs, NEW code \in 0 .. 255
    PROVE  /\ StartVM(vm).pc # "enter" /\ ResetFailure(vm).pc # "enter"
           /\ StopVM(vm, FALSE).pc # "enter" /\ StopVM(vm, TRUE).pc # "enter"
           /\ OnExit(vm, code).pc # "enter" /\ FailureState(vm).pc # "enter"
<1>1. \A f \in Frame : \A chain, then, else : Walk(f, chain, then, else).pc = "lookup"
  BY WalkShape
<1>2. \A f \in Frame : \A label : Jump(f, label).pc = label
  BY JumpShape
<1> DEFINE f == [Entry(vm) EXCEPT !.code = code]
           g == [Entry(vm) EXCEPT !.restarting = (vmstate[vm] = "RESTART_STOPPED")]
<1>3. Entry(vm) \in Frame /\ f \in Frame /\ g \in Frame
  <2>1. Entry(vm) \in Frame
    BY EntryTyped
  <2>2. f \in Frame
    BY <2>1 DEF Frame
  <2>3. (vmstate[vm] = "RESTART_STOPPED") \in BOOLEAN
    OBVIOUS
  <2>4. \A h \in Frame, r \in BOOLEAN : [h EXCEPT !.restarting = r] \in Frame
    BY DEF Frame
  <2>5. g \in Frame
    BY <2>1, <2>3, <2>4
  <2>6. QED
    BY <2>1, <2>2, <2>5
<1> HIDE DEF f, g
<1>4. /\ StopVM(vm, FALSE).pc # "enter" /\ StopVM(vm, TRUE).pc # "enter"
      /\ ResetFailure(vm).pc # "enter" /\ FailureState(vm).pc # "enter"
  BY <1>1, <1>2, <1>3 DEF StopVM, ResetFailure, FailureState
<1>5. OnExit(vm, code).pc # "enter"
  BY <1>1, <1>2, <1>3 DEF OnExit, f
<1>6. StartVM(vm).pc # "enter"
  <2>1. StartVM(vm) = IF vmstate[vm] \in StartableStates
                      THEN Walk(g, << PreState(vmstate[vm] = "RESTART_STOPPED") >>, "storage",
                                IF vmstate[vm] = "INIT" THEN "err" ELSE "undo")
                      ELSE Jump(g, "err")
    BY DEF StartVM, g
  <2>2. QED
    BY <2>1, <1>1, <1>2, <1>3
<1>7. QED
  BY <1>4, <1>5, <1>6

(***************************************************************************)
(* What was looked up still stands when the hook is done.                  *)
(***************************************************************************)
Checked == \A t \in Threads :
    call[t].pc = "enter" => HasTransition(vmstate[call[t].vm], Head(call[t].todo))

LEMMA StepChecked ==
    ASSUME TypeInv, Checked, NEW c, Threads = {c}, Step(c)
    PROVE  Checked'
<1> DEFINE f == call[c]
<1>1. f \in Frame /\ c \in Threads /\ f.then \in Stops /\ f.else \in Stops
  BY DEF TypeInv, PsvInv, PsvTypeOK, Frame
<1>2. "enter" \notin Stops
  BY LabelFacts
<1>3. SUFFICES ASSUME call'[c].pc = "enter"
               PROVE  HasTransition(vmstate'[call'[c].vm], Head(call'[c].todo))
  BY DEF Checked
<1>4. \A g : call' = [call EXCEPT ![c] = g] => call'[c] = g
  BY <1>1 DEF TypeInv, PsvInv, PsvTypeOK
<1>5. CASE Lookup(c)
  <2>1. CASE HasTransition(vmstate[f.vm], Head(f.todo))
    <3> DEFINE g == [f EXCEPT !.pc = "enter"]
    <3>1. call'[c] = g
      BY <1>5, <2>1, <1>4 DEF Lookup
    <3>2. g.vm = f.vm /\ g.todo = f.todo
      BY <1>1 DEF Frame
    <3>3. QED
      BY <1>5, <2>1, <3>1, <3>2 DEF Lookup
  <2>2. CASE ~ HasTransition(vmstate[f.vm], Head(f.todo))
    <3>1. call'[c] = Jump(f, f.else)
      BY <1>5, <2>2, <1>4 DEF Lookup
    <3>2. Jump(f, f.else).pc = f.else
      BY <1>1, JumpShape
    <3>3. QED
      BY <1>1, <1>2, <1>3, <3>1, <3>2
  <2>3. QED
    BY <2>1, <2>2
<1>6. CASE Enter(c)
  <2>1. CASE Len(f.todo) = 1
    <3>1. call'[c] = Jump(f, f.then)
      BY <1>6, <2>1, <1>4 DEF Enter
    <3>2. Jump(f, f.then).pc = f.then
      BY <1>1, JumpShape
    <3>3. QED
      BY <1>1, <1>2, <1>3, <3>1, <3>2
  <2>2. CASE Len(f.todo) # 1
    <3> DEFINE g == [f EXCEPT !.pc = "lookup", !.todo = Tail(f.todo)]
    <3>1. call'[c] = g
      BY <1>6, <2>2, <1>4 DEF Enter
    <3>2. g.pc = "lookup"
      BY <1>1 DEF Frame
    <3>3. QED
      BY <1>3, <3>1, <3>2
  <2>3. QED
    BY <2>1, <2>2
<1>7. CASE HookFails(c)
  <2>1. call'[c] = Jump(f, f.else)
    BY <1>7, <1>4 DEF HookFails
  <2>2. Jump(f, f.else).pc = f.else
    BY <1>1, JumpShape
  <2>3. QED
    BY <1>1, <1>2, <1>3, <2>1, <2>2
<1>8. ASSUME NEW label, NEW chain, NEW then, NEW else, At(c, label, chain, then, else)
      PROVE  FALSE
  <2>1. call'[c] = Walk(f, chain, then, else)
    BY <1>8, <1>4 DEF At
  <2>2. QED
    BY <2>1, <1>1, <1>3, WalkShape
<1>9. CASE Launch(c)
  <2>1. PICK p \in Pids : call' = [call EXCEPT ![c] = Walk([f EXCEPT !.pid = p],
                                                            UpChain(f.restarting), "ok", "upfailed")]
    BY <1>9 DEF Launch
  <2> DEFINE h == [f EXCEPT !.pid = p]
  <2>2. h \in Frame
    BY <1>1 DEF Frame
  <2>3. call'[c] = Walk(h, UpChain(f.restarting), "ok", "upfailed")
    BY <2>1, <1>4
  <2> HIDE DEF h
  <2>4. QED
    BY <2>2, <2>3, <1>3, WalkShape
<1>10. CASE ClearPid(c) \/ Signalled(c)
  BY <1>10, <1>1, <1>3, <1>4, JumpShape DEF Signalled, ClearPid
<1>13. CASE Kill(c)
  <2>1. PICK g, h \in Frame, label \in {"ok", "killfailed", "signalled"} :
           g = Jump(h, label) /\ call' = [call EXCEPT ![c] = g]
    BY <1>1, <1>13, KillMoves DEF TypeInv, OfVM
  <2>2. call'[c] = g /\ g.pc = label
    BY <1>4, <2>1, JumpShape
  <2>3. QED
    BY <1>3, <2>2
<1>11. CASE ExitCode(c)
  BY <1>11, <1>1, <1>3, <1>4, JumpShape, WalkShape DEF ExitCode
<1>12. QED
  BY <1>5, <1>6, <1>7, <1>8, <1>9, <1>10, <1>11, <1>13
     DEF Step, Undo, Storage, StorageFailed, LaunchFails, UpFailed, StopFailed, KillFailed

LEMMA NextChecked ==
    ASSUME TypeInv, Checked, NEW c, Threads = {c}, [Next]_psvvars
    PROVE  Checked'
<1>1. c \in Threads /\ call[c] \in Frame
  BY DEF TypeInv, PsvInv, PsvTypeOK
<1>2. ASSUME NEW f, Begin(c, f), f.pc # "enter"
      PROVE  Checked'
  BY <1>1, <1>2 DEF Begin, Checked, TypeInv, PsvInv, PsvTypeOK
<1>3. CASE Calls(c)
  <2>1. 0 \in 0 .. 255
    OBVIOUS
  <2>2. ASSUME NEW vm \in VMs
        PROVE  /\ StartVM(vm).pc # "enter" /\ ResetFailure(vm).pc # "enter"
               /\ StopVM(vm, FALSE).pc # "enter" /\ StopVM(vm, TRUE).pc # "enter"
    BY <2>1, EntriesLook
  <2>3. QED
    BY <1>2, <1>3, <2>2 DEF Calls
<1>4. ASSUME NEW p \in Pids, ReportExit(c, p)
      PROVE  Checked'
  <2>1. proc[p].vm \in VMs /\ proc[p].code \in 0 .. 255
    BY <1>4 DEF TypeInv, PsvInv, PsvTypeOK, Process, ReportExit
  <2>2. /\ OnExit(proc[p].vm, proc[p].code).pc # "enter"
        /\ FailureState(proc[p].vm).pc # "enter"
    BY <2>1, EntriesLook
  <2>3. QED
    BY <1>2, <1>4, <2>2 DEF ReportExit
<1>5. CASE RequestReboot(c)
  <2>1. PICK ok \in BOOLEAN : call' = [call EXCEPT ![c] = Requested(call[c], ok)]
    BY <1>5 DEF RequestReboot
  <2>2. Requested(call[c], ok).pc # "enter"
    BY <1>1, WalkShape, JumpShape DEF Requested
  <2>3. QED
    BY <2>1, <2>2, <1>1 DEF Checked, TypeInv, PsvInv, PsvTypeOK
<1>6. CASE Return(c)
  BY <1>6, <1>1 DEF Return, Idle, Checked, TypeInv, PsvInv, PsvTypeOK
<1>7. CASE Step(c)
  BY <1>7, StepChecked
<1>10. CASE Collect(c)
  <2>1. PsvInv /\ OfVM(c)
    BY <1>1 DEF TypeInv, OfVM
  <2>2. PICK g \in Frame : call' = [call EXCEPT ![c] = g] /\ g.pc # "enter"
    BY <1>1, <1>10, <2>1, CollectMoves
  <2>3. QED
    BY <1>1, <2>2 DEF Checked, TypeInv, PsvInv, PsvTypeOK
<1>8. CASE UNCHANGED <<vmstate, call>>
  BY <1>8 DEF Checked
<1>9. QED
  BY <1>3, <1>4, <1>5, <1>6, <1>7, <1>8, <1>10 DEF Next, Ends, psvvars

(***************************************************************************)
(* A single client moves its VMs along the rows of process_transition_list *)
(* only, whatever hooks fail: every chain of psv_startvm, psv_stopvm and   *)
(* psv_onexit, and their clean-up.                                         *)
(***************************************************************************)
THEOREM TableRespected ==
    ASSUME NEW c, Threads = {c}
    PROVE  Spec => TableSteps
<1> DEFINE OnTable == \A vm \in VMs : vmstate'[vm] # vmstate[vm]
                                          => HasTransition(vmstate[vm], vmstate'[vm])
<1>1. PsvInit => TypeInv /\ Checked
  BY InitTypeInv DEF PsvInit, Idle, Checked
<1>2. TypeInv /\ Checked /\ [Next]_psvvars => TypeInv' /\ Checked'
  BY NextTyped, NextChecked
<1>3. TypeInv /\ Checked /\ [Next]_psvvars => [OnTable]_vmstate
  <2> SUFFICES ASSUME TypeInv, Checked, Next, vmstate' # vmstate
               PROVE  OnTable
    BY DEF psvvars
  <2>1. Enter(c)
    BY DEF Next, Calls, Begin, ReportExit, RequestReboot, Return, Ends, Step, Lookup, HookFails,
           Undo, Storage, StorageFailed, Launch, LaunchFails, UpFailed, StopFailed, Kill,
           KillFailed, Signalled, Collect, ExitCode, ClearPid, At
  <2>2. HasTransition(vmstate[call[c].vm], Head(call[c].todo))
    BY <2>1 DEF Enter, Checked
  <2>3. QED
    BY <2>1, <2>2 DEF Enter, TypeInv, PsvInv, PsvTypeOK
<1>4. Spec => [][OnTable]_vmstate
  BY <1>1, <1>2, <1>3, PTL DEF Spec
<1>5. QED
  BY <1>4 DEF TableSteps

-----------------------------------------------------------------------------
(* The phases of a frame. *)

LEMMA ChainsAvoid ==
    /\ Avoids(FailChain) /\ Avoids(StopChain)
    /\ Avoids(RebootChain) /\ Avoids(RebootedChain)
    /\ Avoids(<< "INIT" >>)
BY DEF Avoids, FailChain, StopChain, RebootChain, RebootedChain

LEMMA StartChainsAvoid ==
    ASSUME NEW restarting \in BOOLEAN
    PROVE  /\ Avoids(<< PreState(restarting) >>)
           /\ Avoids(<< StorageState(restarting) >>)
           /\ Avoids(UndoPreChain(restarting))
<1>1. Tail(FailChain) = << "STOP_NETWORK", "STOPPED", "FAILED" >>
  BY DEF FailChain
<1>2. Avoids(<< "STOP_NETWORK", "STOPPED", "FAILED" >>)
  BY DEF Avoids
<1>3. UndoPreChain(restarting) \in {FailChain, << "STOP_NETWORK", "STOPPED", "FAILED" >>}
  BY <1>1 DEF UndoPreChain
<1>4. /\ PreState(restarting) \notin {"RUNNING", "STOPPING"}
      /\ StorageState(restarting) \notin {"RUNNING", "STOPPING"}
  BY DEF PreState, StorageState
<1>5. QED
  BY <1>2, <1>3, <1>4, ChainsAvoid DEF Avoids

LEMMA AvoidsOn ==
    ASSUME NEW todo \in Seq(States), todo # << >>, Avoids(todo)
    PROVE  /\ Head(todo) \notin {"RUNNING", "STOPPING"}
           /\ Avoids(Tail(todo))
<1>1. Len(todo) \in Nat /\ Len(todo) >= 1
  OBVIOUS
<1>2. Head(todo) = todo[1]
  OBVIOUS
<1>3. /\ Len(Tail(todo)) = Len(todo) - 1
      /\ \A i \in 1 .. Len(Tail(todo)) : Tail(todo)[i] = todo[i + 1]
  OBVIOUS
<1>4. QED
  BY <1>1, <1>2, <1>3 DEF Avoids

(* The clean-up gets through, wherever it is. *)
LEMMA FailWalkSteps ==
    ASSUME NEW todo, NEW s, FailWalk(todo, s)
    PROVE  /\ todo # << >>
           /\ HasTransition(s, Head(todo)) /\ Head(todo) \in CleanUpHooks
           /\ Len(todo) = 1 => Head(todo) = "FAILED"
           /\ Len(todo) # 1 => FailWalk(Tail(todo), Head(todo))
<1>1. CASE todo = FailChain
  <2>1. /\ Head(todo) = "STOP_STORAGE" /\ Len(todo) = 4
        /\ Tail(todo) = << "STOP_NETWORK", "STOPPED", "FAILED" >>
    BY <1>1 DEF FailChain
  <2>2. QED
    BY <2>1 DEF FailWalk, HasTransition, FromAny, CleanUpHooks
<1>2. CASE todo = << "STOP_NETWORK", "STOPPED", "FAILED" >> /\ s = "STOP_STORAGE"
  <2>1. /\ Head(todo) = "STOP_NETWORK" /\ Len(todo) = 3
        /\ Tail(todo) = << "STOPPED", "FAILED" >>
    BY <1>2
  <2>2. <<s, Head(todo)>> \in Table
    BY <1>2, <2>1 DEF Table
  <2>3. QED
    BY <2>1, <2>2 DEF FailWalk, HasTransition, CleanUpHooks
<1>3. CASE todo = << "STOPPED", "FAILED" >> /\ s = "STOP_NETWORK"
  <2>1. Head(todo) = "STOPPED" /\ Len(todo) = 2 /\ Tail(todo) = << "FAILED" >>
    BY <1>3
  <2>2. <<s, Head(todo)>> \in Table
    BY <1>3, <2>1 DEF Table
  <2>3. QED
    BY <2>1, <2>2 DEF FailWalk, HasTransition, CleanUpHooks
<1>4. CASE todo = << "FAILED" >> /\ s = "STOPPED"
  <2>1. Head(todo) = "FAILED" /\ Len(todo) = 1
    BY <1>4
  <2>2. <<s, Head(todo)>> \in Table
    BY <1>4, <2>1 DEF Table
  <2>3. QED
    BY <2>1, <2>2 DEF HasTransition, CleanUpHooks
<1>5. QED
  BY <1>1, <1>2, <1>3, <1>4 DEF FailWalk

LEMMA ShortWalks ==
    /\ Head(<< "STOPPING" >>) = "STOPPING" /\ Len(<< "STOPPING" >>) = 1
    /\ Head(<< "PRESTOP_BEFORE_RESTART" >>) = "PRESTOP_BEFORE_RESTART"
    /\ Len(<< "PRESTOP_BEFORE_RESTART" >>) = 1
    /\ Head(<< "RUNNING" >>) = "RUNNING" /\ Len(<< "RUNNING" >>) = 1
    /\ Len(<< "RESTARTED", "RUNNING" >>) = 2
    /\ Tail(<< "RESTARTED", "RUNNING" >>) = << "RUNNING" >>
OBVIOUS

(* sth_findtransition: the frame goes on, or to where a failure leads. *)
LEMMA LookupPhase ==
    ASSUME NEW f \in Frame, f.pc = "lookup", NEW s, NEW has \in BOOLEAN, Phase(f, s, has)
    PROVE  /\ HasTransition(s, Head(f.todo)) => Phase([f EXCEPT !.pc = "enter"], s, has)
           /\ ~ HasTransition(s, Head(f.todo)) => Phase(Jump(f, f.else), s, has)
<1> DEFINE g == [f EXCEPT !.pc = "enter"]
           j == Jump(f, f.else)
<1>1. /\ g.pc = "enter" /\ g.todo = f.todo /\ g.then = f.then /\ g.else = f.else
      /\ g.code = f.code
  BY DEF Frame
<1>2. j.pc = f.else
  BY JumpShape
<1> HIDE DEF g, j
<1>3. CASE Down(f, s, has)
  <2>1. Down(g, s, has) /\ Down(j, s, has)
    BY <1>1, <1>2, <1>3 DEF Down, WalksDown, Walking, DownStops
  <2>2. QED
    BY <2>1 DEF Phase, g, j
<1>4. CASE Leaving(f, s, has)
  <2>1. Leaving(g, s, has) /\ HasTransition(s, Head(f.todo))
    BY <1>1, <1>4 DEF Leaving, WalksDown, Walking
  <2>2. QED
    BY <2>1 DEF Phase, g
<1>5. CASE Up(f, s, has)
  <2>1. Up(g, s, has)
    BY <1>1, <1>5 DEF Up, Walking
  <2>2. f.else \in {"stopfailed", "upfailed"} \/ FailWalk(f.todo, s)
    BY <1>5 DEF Up, Walking
  <2>3. HasTransition(s, Head(f.todo)) \/ Up(j, s, has)
    BY <1>2, <1>5, <2>2, FailWalkSteps DEF Up
  <2>4. QED
    BY <2>1, <2>3 DEF Phase, g, j
<1>6. QED
  BY <1>3, <1>4, <1>5 DEF Phase

(* A hook fails that may. *)
LEMMA HookFailsPhase ==
    ASSUME NEW f \in Frame, f.pc = "enter", NEW s, NEW has \in BOOLEAN, Phase(f, s, has),
           Head(f.todo) \notin CleanUpHooks
    PROVE  Phase(Jump(f, f.else), s, has)
<1> DEFINE j == Jump(f, f.else)
<1>1. j.pc = f.else
  BY JumpShape
<1> HIDE DEF j
<1>2. CASE Down(f, s, has)
  <2>1. Down(j, s, has)
    BY <1>1, <1>2 DEF Down, WalksDown, Walking, DownStops
  <2>2. QED
    BY <2>1 DEF Phase, j
<1>3. CASE Leaving(f, s, has)
  BY <1>3 DEF Leaving
<1>4. CASE Up(f, s, has)
  <2>1. f.else \in {"stopfailed", "upfailed"}
    BY <1>4, FailWalkSteps DEF Up, Walking
  <2>2. Up(j, s, has)
    BY <1>1, <1>4, <2>1 DEF Up
  <2>3. QED
    BY <2>2 DEF Phase, j
<1>5. QED
  BY <1>2, <1>3, <1>4 DEF Phase

(* The target becomes the state. *)
LEMMA EnterPhase ==
    ASSUME NEW f \in Frame, f.pc = "enter", f.todo # << >>, NEW s, NEW has \in BOOLEAN,
           Phase(f, s, has)
    PROVE  /\ Len(f.todo) = 1 => Phase(Jump(f, f.then), Head(f.todo), has)
           /\ Len(f.todo) # 1 =>
                Phase([f EXCEPT !.pc = "lookup", !.todo = Tail(f.todo)], Head(f.todo), has)
<1> DEFINE g == [f EXCEPT !.pc = "lookup", !.todo = Tail(f.todo)]
           j == Jump(f, f.then)
           target == Head(f.todo)
<1>1. g.pc = "lookup" /\ g.todo = Tail(f.todo) /\ g.then = f.then /\ g.else = f.else
  BY DEF Frame
<1>2. j.pc = f.then /\ f.todo \in Seq(States)
  BY JumpShape DEF Frame
<1> HIDE DEF g, j
<1>3. CASE Down(f, s, has) \/ Leaving(f, s, has)
  <2>1. ~ has /\ WalksDown(f) /\ Avoids(f.todo)
    BY <1>3 DEF Down, Leaving, Walking, DownStops
  <2>2. target \notin {"RUNNING", "STOPPING"} /\ Avoids(Tail(f.todo))
    BY <2>1, <1>2, AvoidsOn
  <2>3. Down(g, target, has) /\ Down(j, target, has)
    BY <2>1, <2>2, <1>1, <1>2 DEF Down, WalksDown, Walking
  <2>4. QED
    BY <2>3 DEF Phase, g, j
<1>4. CASE Up(f, s, has)
  <2>1. CASE /\ f.then = "kill"
             /\ f.todo \in {<< "STOPPING" >>, << "PRESTOP_BEFORE_RESTART" >>}
    <3>1. Len(f.todo) = 1 /\ target \in {"STOPPING", "PRESTOP_BEFORE_RESTART"}
      BY <2>1, ShortWalks
    <3>2. Up(j, target, has)
      BY <3>1, <2>1, <1>2, <1>4 DEF Up
    <3>3. QED
      BY <3>1, <3>2 DEF Phase, j
  <2>2. CASE f.then = "ok" /\ f.todo = << "RUNNING" >>
    <3>1. Len(f.todo) = 1 /\ target = "RUNNING"
      BY <2>2, ShortWalks
    <3>2. j.pc = "ok" /\ Rest(target, has)
      BY <3>1, <2>2, <1>2, <1>4 DEF Up, Rest
    <3>3. QED
      BY <3>1, <3>2 DEF Phase, j
  <2>3. CASE f.then = "ok" /\ f.else = "upfailed" /\ f.todo = << "RESTARTED", "RUNNING" >>
    <3>1. Len(f.todo) = 2 /\ g.todo = << "RUNNING" >>
      BY <2>3, <1>1, ShortWalks
    <3>2. Up(g, target, has)
      BY <3>1, <2>3, <1>1, <1>4 DEF Up, Walking
    <3>3. QED
      BY <3>1, <3>2 DEF Phase, g
  <2>4. CASE f.then \in FailEnds /\ f.else \in {"ok", "err"} /\ FailWalk(f.todo, s)
    <3>1. ASSUME Len(f.todo) = 1
          PROVE  Phase(j, target, has)
      <4>1. target = "FAILED"
        BY <3>1, <2>4, FailWalkSteps
      <4>2. has
        BY <1>4 DEF Up
      <4>3. CASE f.then \in {"kill", "signalled"}
        BY <4>1, <4>2, <4>3, <1>2 DEF Phase, Up
      <4>4. CASE f.then \in {"ok", "err"}
        BY <4>1, <4>2, <4>4, <1>2 DEF Phase, Rest
      <4>5. QED
        BY <4>3, <4>4, <2>4 DEF FailEnds
    <3>2. ASSUME Len(f.todo) # 1
          PROVE  Phase(g, target, has)
      BY <3>2, <2>4, <1>1, <1>4, FailWalkSteps DEF Phase, Up, Walking
    <3>3. QED
      BY <3>1, <3>2 DEF g, j
  <2>5. QED
    BY <1>4, <2>1, <2>2, <2>3, <2>4 DEF Up
<1>5. QED
  BY <1>3, <1>4 DEF Phase

-----------------------------------------------------------------------------
(* The steps of an operation. *)

LEMMA SameHas ==
    ASSUME \A p \in Pids : SameProcess(p), NEW vm
    PROVE  Has(vm)' <=> Has(vm)
BY DEF Has, SameProcess

LEMMA NamedStays ==
    ASSUME Named, \A p \in Pids : SameProcess(p), UNCHANGED processid
    PROVE  Named'
BY DEF Named, SameProcess

(* What remains to be shown of a step that leaves the processes alone. *)
Moved(c, g, s) ==
    /\ call' = [call EXCEPT ![c] = g] /\ g.vm = call[c].vm
    /\ vmstate' = [vmstate EXCEPT ![g.vm] = s]
    /\ Phase(g, s, Has(g.vm))

(* The goal of each step: the frame's phase, and nothing about others. *)
Reaches(c, vm) ==
    /\ call'[c].vm = vm
    /\ Phase(call'[c], vmstate'[vm], Has(vm)')
    /\ Named'
    /\ \A w \in VMs \ {vm} : vmstate'[w] = vmstate[w] /\ (Has(w)' <=> Has(w))
StepGoal(c) == Reaches(c, call[c].vm)

LEMMA MovedGoal ==
    ASSUME IInv, NEW c \in Threads, NEW g, NEW s, Moved(c, g, s), call[c].vm \in VMs,
           \A p \in Pids : SameProcess(p), UNCHANGED processid
    PROVE  StepGoal(c)
<1>1. call'[c] = g
  BY DEF Moved, IInv, TypeInv, PsvInv, PsvTypeOK
<1>2. /\ vmstate'[g.vm] = s
      /\ \A w \in VMs \ {g.vm} : vmstate'[w] = vmstate[w]
  BY DEF Moved, IInv, TypeInv, PsvInv, PsvTypeOK
<1>3. \A w : Has(w)' <=> Has(w)
  BY SameHas
<1>4. Has(g.vm)' = Has(g.vm)
  BY <1>3 DEF Has
<1>5. Phase(g, s, Has(g.vm)')
  BY <1>4 DEF Moved
<1>6. Named'
  BY NamedStays DEF IInv
<1>7. QED
  BY <1>1, <1>2, <1>3, <1>5, <1>6 DEF Moved, StepGoal, Reaches

(* A step that changes the frame only. *)
LEMMA FrameGoal ==
    ASSUME IInv, NEW c \in Threads, NEW g, call' = [call EXCEPT ![c] = g],
           g.vm = call[c].vm, call[c].vm \in VMs,
           Phase(g, vmstate[g.vm], Has(g.vm)), UNCHANGED << vmstate, processid, proc >>
    PROVE  StepGoal(c)
<1>1. vmstate' = [vmstate EXCEPT ![g.vm] = vmstate[g.vm]]
  BY DEF IInv, TypeInv, PsvInv, PsvTypeOK
<1>2. \A p \in Pids : SameProcess(p)
  BY DEF SameProcess
<1>3. Moved(c, g, vmstate[g.vm])
  BY <1>1 DEF Moved
<1>4. QED
  BY <1>2, <1>3, MovedGoal

(* From a place without process to a chain or a place without process. *)
LEMMA DownGoal ==
    ASSUME IInv, NEW c \in Threads, call[c].pc \in DownStops \ {"ok", "err"},
           call[c].vm \in VMs,
           NEW chain, NEW then \in DownStops, NEW else \in DownStops, Avoids(chain),
           call[c].pc # "exitcode",
           At(c, call[c].pc, chain, then, else)
    PROVE  StepGoal(c)
<1> DEFINE f == call[c]
           g == Walk(f, chain, then, else)
<1>1. f \in Frame
  BY DEF IInv, TypeInv, PsvInv, PsvTypeOK
<1>2. g.pc = "lookup" /\ g.todo = chain /\ g.then = then /\ g.else = else /\ g.vm = f.vm
  BY <1>1, WalkShape
<1>3. Sound(c)
  BY DEF IInv
<1> HIDE DEF g
<1>4. Down(f, vmstate[f.vm], Has(f.vm))
  BY <1>3 DEF Sound, Phase, Leaving, Up, DownStops, WalksDown, Walking
<1>5. Down(g, vmstate[f.vm], Has(f.vm))
  BY <1>2, <1>4 DEF Down, WalksDown, Walking
<1>6. Phase(g, vmstate[g.vm], Has(g.vm))
  BY <1>2, <1>5 DEF Phase
<1>7. call' = [call EXCEPT ![c] = g] /\ UNCHANGED << vmstate, processid, proc >>
  BY DEF At, g
<1>8. QED
  BY <1>2, <1>6, <1>7, FrameGoal

(* A hook on the way up or down failed, or kill(2): the clean-up begins. *)
LEMMA UpGoal ==
    ASSUME IInv, NEW c \in Threads, call[c].pc \in {"upfailed", "stopfailed", "killfailed"},
           call[c].vm \in VMs, NEW then \in FailEnds,
           At(c, call[c].pc, FailChain, then, "err")
    PROVE  StepGoal(c)
<1> DEFINE f == call[c]
           g == Walk(f, FailChain, then, "err")
<1>1. f \in Frame
  BY DEF IInv, TypeInv, PsvInv, PsvTypeOK
<1>2. g.pc = "lookup" /\ g.todo = FailChain /\ g.then = then /\ g.else = "err" /\ g.vm = f.vm
  BY <1>1, WalkShape
<1>3. Sound(c)
  BY DEF IInv
<1> HIDE DEF g
<1>4. Up(f, vmstate[f.vm], Has(f.vm))
  BY <1>3 DEF Sound, Phase, Leaving, Down, DownStops, WalksDown, Walking
<1>5. Up(g, vmstate[f.vm], Has(f.vm))
  BY <1>2, <1>4 DEF Up, FailWalk, Walking
<1>6. Phase(g, vmstate[g.vm], Has(g.vm))
  BY <1>2, <1>5 DEF Phase
<1>7. call' = [call EXCEPT ![c] = g] /\ UNCHANGED << vmstate, processid, proc >>
  BY DEF At, g
<1>8. QED
  BY <1>2, <1>6, <1>7, FrameGoal

(* Under psv->mtx: the one process there is, and processid names it. *)
LEMMA LaunchGoal ==
    ASSUME IInv, NEW c \in Threads, Launch(c), call[c].vm \in VMs
    PROVE  StepGoal(c)
<1> DEFINE f == call[c]
           vm == f.vm
<1>1. f \in Frame /\ f.restarting \in BOOLEAN /\ f.pc = "launch"
  BY DEF IInv, TypeInv, PsvInv, PsvTypeOK, Frame, Launch
<1>2. PICK p \in Pids :
         /\ proc[p].state = "free"
         /\ proc' = [proc EXCEPT ![p].state = "alive", ![p].vm = vm]
         /\ processid' = [processid EXCEPT ![vm] = p]
         /\ call' = [call EXCEPT ![c] = Walk([f EXCEPT !.pid = p], UpChain(f.restarting),
                                              "ok", "upfailed")]
  BY DEF Launch
<1> DEFINE h == [f EXCEPT !.pid = p]
           g == Walk(h, UpChain(f.restarting), "ok", "upfailed")
<1>3. h \in Frame /\ h.vm = vm
  BY <1>1 DEF Frame
<1>4. call'[c] = g
  BY <1>2 DEF IInv, TypeInv, PsvInv, PsvTypeOK
<1> HIDE DEF h
<1>5. /\ g.pc = "lookup" /\ g.todo = UpChain(f.restarting) /\ g.then = "ok" /\ g.else = "upfailed"
      /\ g.vm = vm
  BY <1>3, WalkShape
<1> HIDE DEF g
<1>6. ~ Has(vm)
  <2>1. Sound(c)
    BY DEF IInv
  <2>2. QED
    BY <1>1, <2>1 DEF Sound, Phase, Down, Leaving, Up, Walking, WalksDown
<1>7. /\ proc'[p].state = "alive" /\ proc'[p].vm = vm
      /\ \A q \in Pids \ {p} : proc'[q] = proc[q]
  BY <1>2 DEF IInv, TypeInv, PsvInv, PsvTypeOK, Process
<1>8. processid'[vm] = p /\ \A w \in VMs \ {vm} : processid'[w] = processid[w]
  BY <1>2 DEF IInv, TypeInv, PsvInv, PsvTypeOK
<1>9. Named'
  <2>1. ASSUME NEW q \in Pids
        PROVE  /\ proc'[q].state \in Unreported =>
                      proc'[q].vm \in VMs /\ processid'[proc'[q].vm] = q
               /\ proc'[q].state = "free" => proc'[q].vm = NoVM
    <3>1. CASE q = p
      BY <3>1, <1>7, <1>8 DEF Unreported
    <3>2. CASE q # p
      <4>1. proc'[q] = proc[q]
        BY <3>2, <1>7
      <4>2. proc[q].state \in Unreported => proc[q].vm # vm
        BY <1>6 DEF Has
      <4>3. QED
        BY <4>1, <4>2, <1>8 DEF IInv, Named
    <3>3. QED
      BY <3>1, <3>2
  <2>2. QED
    BY <2>1 DEF Named
<1>10. \A w \in VMs \ {vm} : Has(w)' <=> Has(w)
  BY <1>2, <1>7 DEF Has, Unreported, IInv, Named, TypeInv, PsvInv, PsvTypeOK, Process
<1>11. Has(vm)'
  BY <1>4, <1>5, <1>7 DEF Has, Unreported
<1>12. UpChain(f.restarting) \in {<< "RESTARTED", "RUNNING" >>, << "RUNNING" >>}
  BY <1>1 DEF UpChain
<1>13. Phase(g, vmstate'[vm], Has(vm)')
  BY <1>5, <1>11, <1>12 DEF Phase, Up, Walking
<1>14. QED
  BY <1>4, <1>5, <1>9, <1>10, <1>13 DEF StepGoal, Reaches, Launch

LEMMA StepSound ==
    ASSUME IInv, CleanUpSucceeds, NEW c \in Threads, Step(c)
    PROVE  StepGoal(c)
<1> DEFINE f == call[c]
           s == vmstate[f.vm]
           has == Has(f.vm)
<1>1. /\ f \in Frame /\ Walks(f) /\ f.then \in Stops /\ f.else \in Stops
      /\ f.restarting \in BOOLEAN /\ f.todo \in Seq(States)
  BY DEF IInv, TypeInv, PsvInv, PsvTypeOK, Frame
<1>2. f.pc # "idle"
  BY StepEffect DEF FrameStep, IInv, TypeInv, OfVM
<1>3. f.vm \in VMs /\ has \in BOOLEAN /\ Phase(f, s, has)
  BY <1>2 DEF IInv, TypeInv, Sound, Has
<1>4. FailChain # << >> /\ Avoids(FailChain)
  BY ChainsTyped, ChainsAvoid
<1>5. {"storage", "launch", "storagefailed", "clear", "ok", "err"} \subseteq DownStops
  BY DEF DownStops
<1> HIDE DEF has
<1>6. CASE Lookup(c)
  <2>1. f.pc = "lookup" /\ UNCHANGED << vmstate, processid, proc >>
    BY <1>6 DEF Lookup
  <2>2. CASE HasTransition(s, Head(f.todo))
    <3> DEFINE g == [f EXCEPT !.pc = "enter"]
    <3>1. Phase(g, s, has) /\ g.vm = f.vm
      BY <1>1, <1>3, <2>1, <2>2, LookupPhase DEF Frame
    <3>2. call' = [call EXCEPT ![c] = g]
      BY <1>6, <2>2 DEF Lookup
    <3> HIDE DEF g
    <3>3. QED
      BY <1>3, <2>1, <3>1, <3>2, FrameGoal DEF has
  <2>3. CASE ~ HasTransition(s, Head(f.todo))
    <3> DEFINE g == Jump(f, f.else)
    <3>1. Phase(g, s, has) /\ g.vm = f.vm
      BY <1>1, <1>3, <2>1, <2>3, LookupPhase, JumpShape
    <3>2. call' = [call EXCEPT ![c] = g]
      BY <1>6, <2>3 DEF Lookup
    <3> HIDE DEF g
    <3>3. QED
      BY <1>3, <2>1, <3>1, <3>2, FrameGoal DEF has
  <2>4. QED
    BY <2>2, <2>3
<1>7. CASE Enter(c)
  <2>1. /\ f.pc = "enter" /\ UNCHANGED << processid, proc >>
        /\ vmstate' = [vmstate EXCEPT ![f.vm] = Head(f.todo)]
    BY <1>7 DEF Enter
  <2>2. \A p \in Pids : SameProcess(p)
    BY <2>1 DEF SameProcess
  <2>3. f.todo # << >>
    BY <1>1, <2>1 DEF Walks
  <2>4. ASSUME NEW g, call' = [call EXCEPT ![c] = g], g.vm = f.vm, Phase(g, Head(f.todo), has)
        PROVE  StepGoal(c)
    <3>1. Moved(c, g, Head(f.todo))
      BY <2>1, <2>4 DEF Moved, has
    <3>2. QED
      BY <1>3, <2>1, <2>2, <3>1, MovedGoal
  <2>5. CASE Len(f.todo) = 1
    <3> DEFINE g == Jump(f, f.then)
    <3>1. Phase(g, Head(f.todo), has) /\ g.vm = f.vm
      BY <1>1, <1>3, <2>1, <2>3, <2>5, EnterPhase, JumpShape
    <3>2. call' = [call EXCEPT ![c] = g]
      BY <1>7, <2>5 DEF Enter
    <3> HIDE DEF g
    <3>3. QED
      BY <2>4, <3>1, <3>2
  <2>6. CASE Len(f.todo) # 1
    <3> DEFINE g == [f EXCEPT !.pc = "lookup", !.todo = Tail(f.todo)]
    <3>1. Phase(g, Head(f.todo), has)
      BY <1>1, <1>3, <2>1, <2>3, <2>6, EnterPhase
    <3>2. g.vm = f.vm
      BY <1>1 DEF Frame
    <3>3. call' = [call EXCEPT ![c] = g]
      BY <1>7, <2>6 DEF Enter
    <3> HIDE DEF g
    <3>4. QED
      BY <2>4, <3>1, <3>2, <3>3
  <2>7. QED
    BY <2>5, <2>6
<1>8. CASE HookFails(c)
  <2>1. /\ f.pc = "enter" /\ Head(f.todo) \in FailingHooks
        /\ UNCHANGED << vmstate, processid, proc >>
    BY <1>8 DEF HookFails
  <2>2. Head(f.todo) \notin CleanUpHooks
    BY <2>1 DEF CleanUpSucceeds
  <2> DEFINE g == Jump(f, f.else)
  <2>3. Phase(g, s, has) /\ g.vm = f.vm
    BY <1>1, <1>3, <2>1, <2>2, HookFailsPhase, JumpShape
  <2>4. call' = [call EXCEPT ![c] = g]
    BY <1>8 DEF HookFails
  <2> HIDE DEF g
  <2>5. QED
    BY <1>3, <2>1, <2>3, <2>4, FrameGoal DEF has
<1>9. CASE Undo(c) \/ Storage(c)
  <2>1. Avoids(UndoPreChain(f.restarting)) /\ Avoids(<< StorageState(f.restarting) >>)
    BY <1>1, StartChainsAvoid
  <2>2. CASE Undo(c)
    <3>1. f.pc = "undo" /\ "undo" \in DownStops \ {"ok", "err", "exitcode"}
      BY <2>2 DEF Undo, At, DownStops
    <3>2. QED
      BY <2>1, <2>2, <3>1, <1>3, <1>5, DownGoal DEF Undo
  <2>3. CASE Storage(c)
    <3>1. f.pc = "storage" /\ "storage" \in DownStops \ {"ok", "err", "exitcode"}
      BY <2>3 DEF Storage, At, DownStops
    <3>2. QED
      BY <2>1, <2>3, <3>1, <1>3, <1>5, DownGoal DEF Storage
  <2>4. QED
    BY <1>9, <2>2, <2>3
<1>10. CASE StorageFailed(c) \/ LaunchFails(c)
  <2>1. f.pc \in {"storagefailed", "launch"} /\ f.pc \in DownStops \ {"ok", "err", "exitcode"}
    BY <1>10 DEF StorageFailed, LaunchFails, At, DownStops
  <2>2. QED
    BY <1>10, <2>1, <1>3, <1>4, <1>5, DownGoal DEF StorageFailed, LaunchFails, At
<1>11. CASE UpFailed(c) \/ StopFailed(c) \/ KillFailed(c)
  <2>1. f.pc \in {"upfailed", "stopfailed", "killfailed"} /\ {"kill", "signalled", "err"} \subseteq FailEnds
    BY <1>11 DEF UpFailed, StopFailed, KillFailed, At, FailEnds
  <2>2. QED
    BY <1>11, <2>1, <1>3, UpGoal DEF UpFailed, StopFailed, KillFailed, At
<1>12. CASE Launch(c)
  BY <1>3, <1>12, LaunchGoal
<1>13. CASE Kill(c)
  <2>1. f.pc = "kill" /\ UNCHANGED << vmstate, processid >>
    BY <1>13 DEF Kill
  <2>2. has /\ Rest(s, has) /\ s \in {"STOPPING", "PRESTOP_BEFORE_RESTART", "FAILED"}
    BY <1>3, <2>1 DEF Phase, Down, Leaving, Up, Walking, WalksDown, DownStops, Rest
  <2>3. PICK g, h \in Frame, label \in {"ok", "killfailed", "signalled"} :
           g = Jump(h, label) /\ call' = [call EXCEPT ![c] = g] /\ h.vm = f.vm
    BY <1>13, KillMoves DEF IInv, TypeInv, OfVM
  <2>4. g.pc = label /\ g.vm = f.vm
    BY <2>3, JumpShape
  <2>6. \A p \in Pids : SameProcess(p)
    <3>1. \A r \in Process : /\ [r EXCEPT !.term = TRUE].state = r.state
                             /\ [r EXCEPT !.term = TRUE].vm = r.vm
      BY DEF Process
    <3>2. QED
      BY <3>1, <1>13 DEF Kill, SameProcess, IInv, TypeInv, PsvInv, PsvTypeOK
  <2>7. Phase(g, s, has)
    BY <2>2, <2>4 DEF Phase, Up
  <2>8. vmstate' = [vmstate EXCEPT ![g.vm] = s]
    BY <2>1, <2>4 DEF IInv, TypeInv, PsvInv, PsvTypeOK
  <2>9. Moved(c, g, s)
    BY <2>3, <2>4, <2>7, <2>8 DEF Moved, has
  <2>10. QED
    BY <1>3, <2>1, <2>6, <2>9, MovedGoal
<1>14. CASE Signalled(c)
  <2> DEFINE g == Jump(f, "ok")
  <2>1. f.pc = "signalled" /\ UNCHANGED << vmstate, processid, proc >>
    BY <1>14 DEF Signalled
  <2>2. Rest(s, has)
    BY <1>3, <2>1 DEF Phase, Down, Leaving, Up, Walking, WalksDown, DownStops, Rest
  <2>3. g.pc = "ok" /\ g.vm = f.vm
    BY <1>1, JumpShape
  <2>4. call' = [call EXCEPT ![c] = g]
    BY <1>14 DEF Signalled
  <2> HIDE DEF g
  <2>5. Phase(g, s, has)
    BY <2>2, <2>3 DEF Phase
  <2>6. QED
    BY <1>3, <2>1, <2>3, <2>4, <2>5, FrameGoal DEF has
<1>15. CASE ExitCode(c)
  <2>1. f.pc = "exitcode" /\ UNCHANGED << vmstate, processid, proc >>
    BY <1>15 DEF ExitCode
  <2>2. Down(f, s, has) \/ (Leaving(f, s, has) /\ f.code >= 3)
    BY <1>3, <2>1 DEF Phase, Leaving, Up, Walking, WalksDown
  <2>3. CASE f.code >= 3
    <3> DEFINE g == Walk(f, FailChain, "clear", "clear")
    <3>1. /\ g.pc = "lookup" /\ g.todo = FailChain /\ g.then = "clear" /\ g.else = "clear"
          /\ g.vm = f.vm
      BY <1>1, WalkShape
    <3>2. call' = [call EXCEPT ![c] = g]
      BY <1>15, <2>3 DEF ExitCode
    <3> HIDE DEF g
    <3>3. Head(FailChain) = "STOP_STORAGE"
      BY DEF FailChain
    <3>4. Down(g, s, has) \/ Leaving(g, s, has)
      BY <1>4, <1>5, <2>2, <3>1, <3>3
         DEF Down, Leaving, WalksDown, Walking, HasTransition, FromAny, CleanUpHooks
    <3>5. Phase(g, s, has)
      BY <3>4 DEF Phase
    <3>6. QED
      BY <1>3, <2>1, <3>1, <3>2, <3>5, FrameGoal DEF has
  <2>4. CASE ~ (f.code >= 3)
    <3> DEFINE g == Jump(f, "ok")
    <3>1. g.pc = "ok" /\ g.vm = f.vm
      BY <1>1, JumpShape
    <3>2. call' = [call EXCEPT ![c] = g]
      BY <1>15, <2>4 DEF ExitCode
    <3> HIDE DEF g
    <3>3. Phase(g, s, has)
      BY <2>2, <2>4, <3>1, <1>5 DEF Phase, Down
    <3>4. QED
      BY <1>3, <2>1, <3>1, <3>2, <3>3, FrameGoal DEF has
  <2>5. QED
    BY <2>3, <2>4
<1>16. CASE ClearPid(c)
  <2>1. /\ f.pc = "clear" /\ UNCHANGED << vmstate, proc >>
        /\ processid' = [processid EXCEPT ![f.vm] = NoPid]
        /\ call' = [call EXCEPT ![c] = Jump(f, "ok")]
    BY <1>16 DEF ClearPid
  <2> DEFINE g == Jump(f, "ok")
  <2>2. g.pc = "ok" /\ g.vm = f.vm
    BY <1>1, JumpShape
  <2>3. call'[c] = g
    BY <2>1 DEF IInv, TypeInv, PsvInv, PsvTypeOK
  <2> HIDE DEF g
  <2>4. Down(f, s, has)
    BY <1>3, <2>1 DEF Phase, Leaving, Up, Walking, WalksDown
  <2>5. Phase(g, s, has)
    BY <1>5, <2>2, <2>4 DEF Phase, Down
  <2>6. \A w : Has(w)' <=> Has(w)
    BY <2>1 DEF Has
  <2>7. Named'
    BY <2>1, <2>4 DEF IInv, Named, Down, has, Has, TypeInv, PsvInv, PsvTypeOK
  <2>8. Has(f.vm)' = has
    BY <2>1, <2>2, <2>3 DEF Has, has
  <2>9. QED
    BY <2>1, <2>2, <2>3, <2>5, <2>6, <2>7, <2>8 DEF StepGoal, Reaches
<1>17. QED
  BY <1>6, <1>7, <1>8, <1>9, <1>10, <1>11, <1>12, <1>13, <1>14, <1>15, <1>16 DEF Step

-----------------------------------------------------------------------------
(* The calls, the report of an exit and the return. *)

LEMMA StartPhase ==
    ASSUME NEW vm \in VMs, NEW has \in BOOLEAN, Rest(vmstate[vm], has)
    PROVE  Phase(StartVM(vm), vmstate[vm], has)
<1> DEFINE restarting == vmstate[vm] = "RESTART_STOPPED"
           f == [Entry(vm) EXCEPT !.restarting = restarting]
           else == IF vmstate[vm] = "INIT" THEN "err" ELSE "undo"
<1>1. f \in Frame /\ restarting \in BOOLEAN
  <2>1. \A h \in Frame, r \in BOOLEAN : [h EXCEPT !.restarting = r] \in Frame
    BY DEF Frame
  <2>2. restarting \in BOOLEAN
    OBVIOUS
  <2>3. QED
    BY <2>1, <2>2, EntryTyped
<1>2. StartVM(vm) = IF vmstate[vm] \in StartableStates
                    THEN Walk(f, << PreState(restarting) >>, "storage", else)
                    ELSE Jump(f, "err")
  BY DEF StartVM
<1>3. Avoids(<< PreState(restarting) >>)
  BY <1>1, StartChainsAvoid
<1> HIDE DEF f, restarting
<1>4. CASE vmstate[vm] \in StartableStates
  <2> DEFINE g == Walk(f, << PreState(restarting) >>, "storage", else)
  <2>1. /\ g.pc = "lookup" /\ g.todo = << PreState(restarting) >>
        /\ g.then = "storage" /\ g.else = else
    BY <1>1, WalkShape
  <2> HIDE DEF g
  <2>2. Down(g, vmstate[vm], has)
    BY <1>3, <1>4, <2>1 DEF Down, WalksDown, Walking, DownStops, Rest, StartableStates
  <2>3. QED
    BY <1>2, <1>4, <2>2 DEF Phase, g
<1>5. CASE vmstate[vm] \notin StartableStates
  <2>1. Jump(f, "err").pc = "err"
    BY <1>1, JumpShape
  <2>2. QED
    BY <1>2, <1>5, <2>1 DEF Phase
<1>6. QED
  BY <1>4, <1>5

LEMMA StopPhase ==
    ASSUME NEW vm \in VMs, NEW reboot \in BOOLEAN, NEW has \in BOOLEAN, Rest(vmstate[vm], has)
    PROVE  Phase(StopVM(vm, reboot), vmstate[vm], has)
<1> DEFINE f == Entry(vm)
           chain == << IF reboot THEN "PRESTOP_BEFORE_RESTART" ELSE "STOPPING" >>
<1>1. f \in Frame
  BY EntryTyped
<1>2. StopVM(vm, reboot) = IF vmstate[vm] = "RUNNING"
                           THEN Walk(f, chain, "kill", "stopfailed") ELSE Jump(f, "err")
  BY DEF StopVM
<1>3. chain \in {<< "STOPPING" >>, << "PRESTOP_BEFORE_RESTART" >>}
  OBVIOUS
<1> HIDE DEF f, chain
<1>4. CASE vmstate[vm] = "RUNNING"
  <2> DEFINE g == Walk(f, chain, "kill", "stopfailed")
  <2>1. g.pc = "lookup" /\ g.todo = chain /\ g.then = "kill" /\ g.else = "stopfailed"
    BY <1>1, WalkShape
  <2> HIDE DEF g
  <2>2. Up(g, vmstate[vm], has)
    BY <1>3, <1>4, <2>1 DEF Up, Walking, Rest
  <2>3. QED
    BY <1>2, <1>4, <2>2 DEF Phase, g
<1>5. CASE vmstate[vm] # "RUNNING"
  <2>1. Jump(f, "err").pc = "err"
    BY <1>1, JumpShape
  <2>2. QED
    BY <1>2, <1>5, <2>1 DEF Phase
<1>6. QED
  BY <1>4, <1>5

(* The client resets a VM only without a process. *)
LEMMA ResetPhase ==
    ASSUME NEW vm \in VMs, Rest(vmstate[vm], FALSE)
    PROVE  Phase(ResetFailure(vm), vmstate[vm], FALSE)
<1> DEFINE f == Entry(vm)
           g == Walk(f, << "INIT" >>, "ok", "err")
<1>1. f \in Frame
  BY EntryTyped
<1>2. ResetFailure(vm) = IF vmstate[vm] = "FAILED" THEN g ELSE Jump(f, "err")
  BY DEF ResetFailure
<1>3. g.pc = "lookup" /\ g.todo = << "INIT" >> /\ g.then = "ok" /\ g.else = "err"
  BY <1>1, WalkShape
<1>4. Jump(f, "err").pc = "err"
  BY <1>1, JumpShape
<1> HIDE DEF f, g
<1>5. Avoids(<< "INIT" >>)
  BY DEF Avoids
<1>6. Down(g, vmstate[vm], FALSE)
  BY <1>3, <1>5 DEF Down, WalksDown, Walking, DownStops, Rest
<1>7. QED
  BY <1>2, <1>4, <1>6 DEF Phase

(* The process of a VM that was at rest has ended and was waited for. *)
LEMMA ReportPhase ==
    ASSUME NEW vm \in VMs, Rest(vmstate[vm], TRUE), NEW code \in 0 .. 255
    PROVE  /\ Phase(OnExit(vm, code), vmstate[vm], FALSE)
           /\ Phase(FailureState(vm), vmstate[vm], FALSE)
<1> DEFINE s == vmstate[vm]
           f == [Entry(vm) EXCEPT !.code = code]
<1>1. Entry(vm) \in Frame /\ f \in Frame /\ f.code = code
  BY EntryTyped DEF Frame
<1>2. /\ Avoids(FailChain) /\ Avoids(StopChain) /\ Avoids(RebootChain) /\ Avoids(RebootedChain)
      /\ \A then, else : \A h \in Frame : \A chain : Walk(h, chain, then, else).todo = chain
  BY ChainsAvoid, WalkShape
<1>3. s \in {"RUNNING", "STOPPING", "PRESTOP_BEFORE_RESTART", "FAILED"}
  BY DEF Rest
<1>4. ASSUME NEW h \in Frame, NEW chain \in {FailChain, StopChain, RebootChain, RebootedChain},
             NEW then \in DownStops, NEW else \in DownStops,
             \/ s \notin {"RUNNING", "STOPPING"}
             \/ HasTransition(s, Head(chain)) /\ Head(chain) \in CleanUpHooks
      PROVE  Phase(Walk(h, chain, then, else), s, FALSE)
  <2> DEFINE g == Walk(h, chain, then, else)
  <2>1. g.pc = "lookup" /\ g.todo = chain /\ g.then = then /\ g.else = else
    BY WalkShape
  <2> HIDE DEF g
  <2>2. WalksDown(g) /\ Avoids(g.todo)
    BY <1>2, <2>1 DEF WalksDown, Walking
  <2>3. Down(g, s, FALSE) \/ Leaving(g, s, FALSE)
    BY <1>4, <2>1, <2>2 DEF Down, Leaving
  <2>4. QED
    BY <2>3 DEF Phase, g
<1>5. /\ Head(FailChain) = "STOP_STORAGE" /\ Head(StopChain) = "STOP_STORAGE"
      /\ Head(RebootChain) = "PRESTOP_BEFORE_RESTART"
      /\ HasTransition(s, "STOP_STORAGE")
      /\ HasTransition("RUNNING", "PRESTOP_BEFORE_RESTART")
      /\ {"STOP_STORAGE", "PRESTOP_BEFORE_RESTART"} \subseteq CleanUpHooks
      /\ {"request", "err", "ok", "exitcode"} \subseteq DownStops
  BY DEF FailChain, StopChain, RebootChain, HasTransition, FromAny, Table, CleanUpHooks, DownStops
<1>6. Phase(FailureState(vm), s, FALSE)
  BY <1>1, <1>4, <1>5 DEF FailureState
<1>s. SUFFICES Phase(OnExit(vm, code), s, FALSE)
  BY <1>6
<1> HIDE DEF f, s
<1>7. CASE s = "PRESTOP_BEFORE_RESTART" /\ code = 0
  <2>1. OnExit(vm, code) = Walk(f, RebootedChain, "request", "err")
    BY <1>7 DEF OnExit, f, s
  <2>2. QED
    BY <1>1, <1>4, <1>5, <1>7, <2>1
<1>8. CASE s = "RUNNING" /\ code = 0
  <2>1. OnExit(vm, code) = Walk(f, RebootChain, "request", "err")
    BY <1>8 DEF OnExit, f, s
  <2>2. QED
    BY <1>1, <1>4, <1>5, <1>8, <2>1
<1>9. CASE (s = "RUNNING" /\ code \in {1, 2}) \/ s = "STOPPING"
  <2>1. OnExit(vm, code) = Walk(f, StopChain, "exitcode", "err")
    BY <1>9 DEF OnExit, f, s
  <2>2. QED
    BY <1>1, <1>4, <1>5, <2>1
<1>10. CASE /\ ~ (s = "PRESTOP_BEFORE_RESTART" /\ code = 0) /\ ~ (s = "RUNNING" /\ code = 0)
            /\ ~ (s = "RUNNING" /\ code \in {1, 2}) /\ s # "STOPPING"
  <2> DEFINE g == Jump(f, "exitcode")
  <2>1. OnExit(vm, code) = g
    BY <1>10 DEF OnExit, f, s
  <2>2. g.pc = "exitcode" /\ g.code = code
    BY <1>1, JumpShape
  <2> HIDE DEF g
  <2>3. s = "RUNNING" => code >= 3
    BY <1>10
  <2>4. Down(g, s, FALSE) \/ Leaving(g, s, FALSE)
    BY <1>3, <1>5, <2>2, <2>3, <1>10 DEF Down, Leaving
  <2>5. QED
    BY <2>1, <2>4 DEF Phase
<1>11. QED
  BY <1>7, <1>8, <1>9, <1>10

(* From the goal to the invariant: the other VMs were and stay at rest. *)
LEMMA GoalSound ==
    ASSUME IInv, TypeInv', NEW c, Threads = {c}, NEW vm \in VMs, Reaches(c, vm),
           \A w \in VMs \ {vm} : AtRest(w)
    PROVE  IInv'
<1>1. call'[c].vm = vm /\ Phase(call'[c], vmstate'[vm], Has(vm)') /\ Named'
  BY DEF Reaches
<1>2. Sound(c)'
  <2> DEFINE h == Has(vm)
  <2>1. Has(call[c].vm)' <=> h'
    BY <1>1 DEF Has
  <2>2. Has(call[c].vm)' = h'
    BY <2>1 DEF Has
  <2>3. vmstate'[call'[c].vm] = vmstate'[vm]
    BY <1>1
  <2>4. QED
    BY <1>1, <2>2, <2>3 DEF Sound
<1>3. call'[c].pc # "idle"
  BY <1>1 DEF Phase, Down, Leaving, Up, Walking, WalksDown, DownStops
<1>4. ASSUME NEW w \in VMs, AtRest(w)'
      PROVE  Rest(vmstate[w], Has(w))'
  <2>1. w # vm
    BY <1>1, <1>3, <1>4 DEF AtRest
  <2>2. Rest(vmstate[w], Has(w))
    BY <2>1 DEF IInv
  <2>3. vmstate'[w] = vmstate[w] /\ (Has(w)' <=> Has(w))
    BY <2>1 DEF Reaches
  <2>4. QED
    BY <2>2, <2>3 DEF Rest
<1>5. QED
  BY <1>1, <1>2, <1>4 DEF IInv

(* A call begins where every VM is at rest. *)
LEMMA BeginGoal ==
    ASSUME IInv, NEW c, Threads = {c}, NEW vm \in VMs, NEW f, f.vm = vm, Begin(c, f),
           Phase(f, vmstate[vm], Has(vm)'), Named', TypeInv',
           \A w \in VMs \ {vm} : Has(w)' <=> Has(w)
    PROVE  IInv'
<1>1. call'[c] = f /\ UNCHANGED vmstate
  BY DEF Begin, IInv, TypeInv, PsvInv, PsvTypeOK
<1>2. Reaches(c, vm)
  BY <1>1 DEF Reaches
<1>3. \A w \in VMs : AtRest(w)
  BY DEF Begin, AtRest
<1>4. QED
  BY <1>2, <1>3, GoalSound

LEMMA CallsSound ==
    ASSUME IInv, TypeInv', NEW c, Threads = {c}, Calls(c)
    PROVE  IInv'
<1>1. call[c].pc = "idle" /\ UNCHANGED << vmstate, processid, proc >>
  BY DEF Calls, Begin
<1>2. \A p \in Pids : SameProcess(p)
  BY <1>1 DEF SameProcess
<1>3. Named' /\ \A w : Has(w)' <=> Has(w)
  BY <1>1, <1>2, NamedStays, SameHas DEF IInv
<1>4. \A w \in VMs : Rest(vmstate[w], Has(w))
  BY <1>1 DEF IInv, AtRest
<1>5. 0 \in 0 .. 255
  OBVIOUS
<1>6. ASSUME NEW vm \in VMs, NEW f, f.vm = vm, Begin(c, f), Phase(f, vmstate[vm], Has(vm))
      PROVE  IInv'
  <2>1. Has(vm)' = Has(vm)
    BY <1>3 DEF Has
  <2>2. Phase(f, vmstate[vm], Has(vm)')
    BY <1>6, <2>1
  <2>3. QED
    BY <1>3, <1>6, <2>2, BeginGoal
<1>7. PICK vm \in VMs :
         \/ Begin(c, StartVM(vm))
         \/ Begin(c, StopVM(vm, FALSE)) \/ Begin(c, StopVM(vm, TRUE))
         \/ /\ \A p \in Pids : proc[p].vm = vm => proc[p].state = "reaped"
            /\ Begin(c, ResetFailure(vm))
  BY DEF Calls
<1>8. Has(vm) \in BOOLEAN
  BY DEF Has
<1>9. CASE Begin(c, StartVM(vm))
  <2>1. StartVM(vm).vm = vm /\ Phase(StartVM(vm), vmstate[vm], Has(vm))
    BY <1>4, <1>5, <1>8, StartPhase, EntriesForVM
  <2>2. QED
    BY <1>6, <1>9, <2>1
<1>10. ASSUME NEW reboot \in BOOLEAN, Begin(c, StopVM(vm, reboot))
       PROVE  IInv'
  <2>1. StopVM(vm, reboot).vm = vm
    BY <1>5, EntriesForVM
  <2>2. Phase(StopVM(vm, reboot), vmstate[vm], Has(vm))
    BY <1>4, <1>8, StopPhase
  <2>3. QED
    BY <1>6, <1>10, <2>1, <2>2
<1>11. CASE /\ \A p \in Pids : proc[p].vm = vm => proc[p].state = "reaped"
            /\ Begin(c, ResetFailure(vm))
  <2>1. Has(vm) = FALSE
    BY <1>11 DEF Has, Unreported
  <2>2. Phase(ResetFailure(vm), vmstate[vm], Has(vm))
    BY <1>4, <2>1, ResetPhase
  <2>3. QED
    BY <1>5, <1>6, <1>11, <2>2, EntriesForVM
<1>12. QED
  BY <1>7, <1>9, <1>10, <1>11

LEMMA ReportSound ==
    ASSUME IInv, TypeInv', NEW c, Threads = {c}, NEW p \in Pids, ReportExit(c, p)
    PROVE  IInv'
<1> DEFINE vm == proc[p].vm
<1>0. PICK f \in {OnExit(vm, proc[p].code), FailureState(vm)} : Begin(c, f)
  BY DEF ReportExit
<1>1. /\ proc[p].state \in {"zombie", "waited"}
      /\ proc' = [proc EXCEPT ![p].state = "reaped"]
  BY DEF ReportExit
<1>2. call[c].pc = "idle" /\ UNCHANGED << vmstate, processid >>
  BY <1>0 DEF Begin
<1>3. vm \in VMs /\ proc[p].code \in 0 .. 255 /\ processid[vm] = p
  BY <1>1 DEF Unreported, IInv, Named, TypeInv, PsvInv, PsvTypeOK, Process
<1>4. /\ proc'[p].state = "reaped" /\ proc'[p].vm = vm
      /\ \A q \in Pids \ {p} : proc'[q] = proc[q]
  BY <1>1 DEF IInv, TypeInv, PsvInv, PsvTypeOK, Process
<1>5. Has(vm) = TRUE
  BY <1>1 DEF Has, Unreported
<1>6. Rest(vmstate[vm], TRUE)
  <2>1. Rest(vmstate[vm], Has(vm))
    BY <1>2, <1>3 DEF IInv, AtRest
  <2>2. QED
    BY <1>5, <2>1
<1>7. f.vm = vm /\ Phase(f, vmstate[vm], FALSE)
  <2>1. /\ OnExit(vm, proc[p].code).vm = vm /\ Phase(OnExit(vm, proc[p].code), vmstate[vm], FALSE)
        /\ FailureState(vm).vm = vm /\ Phase(FailureState(vm), vmstate[vm], FALSE)
    BY <1>3, <1>6, ReportPhase, EntriesForVM
  <2>2. CASE f = OnExit(vm, proc[p].code)
    BY <2>1, <2>2
  <2>3. CASE f = FailureState(vm)
    BY <2>1, <2>3
  <2>4. QED
    BY <1>0, <2>2, <2>3
<1>8. Named'
  BY <1>2, <1>4 DEF IInv, Named, Unreported
<1>9. \A w \in VMs \ {vm} : Has(w)' <=> Has(w)
  BY <1>4 DEF Has
<1>10. ~ \E q \in Pids : proc'[q].vm = vm /\ proc'[q].state \in Unreported
  BY <1>3, <1>4 DEF IInv, Named, Unreported
<1> HIDE DEF vm
<1>11. ASSUME NEW v, v = vm
       PROVE  Has(v)' = FALSE
  BY <1>10, <1>11 DEF Has
<1>12. PICK v \in VMs : v = vm
  BY <1>3
<1>13. f.vm = v /\ Phase(f, vmstate[v], Has(v)')
  <2>1. Has(v)' = FALSE
    BY <1>11, <1>12
  <2>2. QED
    BY <1>7, <1>12, <2>1
<1>14. \A w \in VMs \ {v} : Has(w)' <=> Has(w)
  BY <1>9, <1>12
<1>15. QED
  BY <1>0, <1>8, <1>13, <1>14, BeginGoal

(* The process is collected by the stop itself: its end is still to be     *)
(* reported, and the state agrees with it.                                 *)
LEMMA CollectGoal ==
    ASSUME IInv, NEW c \in Threads, Collect(c)
    PROVE  StepGoal(c)
<1> DEFINE f == call[c]
           s == vmstate[f.vm]
           has == Has(f.vm)
<1>1. f.pc = "signalled" /\ UNCHANGED << vmstate, processid >>
  BY DEF Collect
<1>2. PsvInv /\ OfVM(c) /\ f.vm \in VMs /\ Sound(c)
  BY <1>1 DEF IInv, TypeInv, OfVM
<1>3. has = TRUE /\ s \in {"STOPPING", "PRESTOP_BEFORE_RESTART", "FAILED"}
  BY <1>1, <1>2 DEF Sound, Phase, Down, Leaving, Up, Walking, WalksDown, DownStops, Has
<1>4. PICK g \in Frame :
         /\ call' = [call EXCEPT ![c] = g] /\ g.vm = f.vm
         /\ \/ g.pc = "ok"
            \/ /\ g.pc = "lookup" /\ g.todo = FailChain
               /\ g.then \in {"ok", "err"} /\ g.else \in {"ok", "err"}
  BY <1>2, CollectMoves
<1>5. \A q \in Pids : /\ proc'[q].vm = proc[q].vm
                      /\ proc'[q].state \in Unreported <=> proc[q].state \in Unreported
                      /\ proc'[q].state = "free" => proc[q].state = "free"
  BY <1>2, CollectProcs DEF Unreported
<1>6. \A w : Has(w)' = Has(w)
  BY <1>5 DEF Has
<1>7. Named'
  BY <1>1, <1>5 DEF IInv, Named
<1>8. call'[c] = g
  BY <1>2, <1>4 DEF PsvInv, PsvTypeOK
<1>9. Phase(g, s, TRUE)
  <2>1. CASE g.pc = "ok"
    BY <1>3, <2>1 DEF Phase, Rest
  <2>2. CASE g.pc = "lookup"
    BY <1>3, <1>4, <2>2 DEF Phase, Up, FailWalk, Walking, FailEnds
  <2>3. QED
    BY <1>4, <2>1, <2>2
<1>10. Phase(call'[c], vmstate'[f.vm], Has(f.vm)')
  <2>1. Has(f.vm)' = TRUE
    BY <1>3, <1>6, <1>8, <1>4 DEF Has
  <2>2. vmstate'[f.vm] = s
    BY <1>1
  <2>3. QED
    BY <1>8, <1>9, <2>1, <2>2
<1>11. \A w \in VMs \ {f.vm} : vmstate'[w] = vmstate[w] /\ (Has(w)' <=> Has(w))
  BY <1>1, <1>6
<1>12. QED
  BY <1>4, <1>7, <1>8, <1>10, <1>11 DEF StepGoal, Reaches

LEMMA ReturnSound ==
    ASSUME IInv, TypeInv', NEW c, Threads = {c}, Return(c)
    PROVE  IInv'
<1>1. /\ call[c].pc \in {"ok", "err"} /\ call' = [call EXCEPT ![c] = Idle]
      /\ UNCHANGED << vmstate, processid, proc >>
  BY DEF Return
<1>2. call'[c] = Idle /\ Idle.pc = "idle"
  BY <1>1 DEF IInv, TypeInv, PsvInv, PsvTypeOK, Idle
<1>3. Rest(vmstate[call[c].vm], Has(call[c].vm))
  <2>1. Sound(c)
    BY DEF IInv
  <2>2. QED
    BY <1>1, <2>1 DEF Sound, Phase, Down, Leaving, Up, Walking, WalksDown, Rest
<1>4. \A vm \in VMs : Rest(vmstate[vm], Has(vm))
  BY <1>3 DEF IInv, AtRest
<1>5. \A p \in Pids : SameProcess(p)
  BY <1>1 DEF SameProcess
<1>6. \A vm \in VMs : Rest(vmstate[vm], Has(vm))'
  <2>1. \A w : Has(w)' <=> Has(w)
    BY <1>5, SameHas
  <2>2. QED
    BY <1>1, <1>4, <2>1 DEF Rest
<1>7. Named'
  BY <1>1, <1>5, NamedStays DEF IInv
<1>8. \A t \in Threads : Sound(t)'
  BY <1>2 DEF Sound
<1>9. QED
  BY <1>6, <1>7, <1>8 DEF IInv

(* No process is waited for when one ends. *)
LEMMA EndsSound ==
    ASSUME IInv, TypeInv', NEW p \in Pids, Ends(p)
    PROVE  IInv'
<1>1. PICK status \in Statuses : Exits(p, status)
  BY DEF Ends
<1>2. UNCHANGED << vmstate, processid, call >> /\ proc[p].state = "alive"
  BY <1>1 DEF Ends, Exits
<1>3. /\ proc'[p].state = "zombie" /\ proc'[p].vm = proc[p].vm
      /\ \A q \in Pids \ {p} : proc'[q] = proc[q]
  BY <1>1 DEF Exits, IInv, TypeInv, PsvInv, PsvTypeOK, Process
<1>4. \A w : Has(w)' = Has(w)
  BY <1>2, <1>3 DEF Has, Unreported
<1>5. Named'
  BY <1>2, <1>3 DEF IInv, Named, Unreported
<1>6. ASSUME NEW t \in Threads
      PROVE  Sound(t)'
  <2>1. Has(call[t].vm)' = Has(call[t].vm)
    BY <1>2, <1>4 DEF Has
  <2>2. QED
    BY <1>2, <2>1 DEF IInv, Sound
<1>7. ASSUME NEW vm \in VMs, AtRest(vm)'
      PROVE  Rest(vmstate[vm], Has(vm))'
  BY <1>2, <1>4, <1>7 DEF IInv, AtRest, Rest
<1>8. QED
  BY <1>5, <1>6, <1>7 DEF IInv

LEMMA NextSound ==
    ASSUME IInv, CleanUpSucceeds, NEW c, Threads = {c}, [Next]_psvvars
    PROVE  IInv'
<1>1. TypeInv'
  BY NextTyped DEF IInv
<1>2. c \in Threads
  OBVIOUS
<1>3. ASSUME call[c].pc # "idle", StepGoal(c)
      PROVE  IInv'
  <2>1. call[c].vm \in VMs
    BY <1>2, <1>3 DEF IInv, TypeInv
  <2>2. \A w \in VMs \ {call[c].vm} : AtRest(w)
    BY DEF AtRest
  <2>3. QED
    BY <1>1, <1>3, <2>1, <2>2, GoalSound DEF StepGoal
<1>4. CASE Step(c)
  <2>1. call[c].pc # "idle"
    BY <1>2, <1>4, StepEffect DEF FrameStep, IInv, TypeInv, OfVM
  <2>2. QED
    BY <1>2, <1>3, <1>4, <2>1, StepSound
<1>8. CASE Collect(c)
  <2>1. call[c].pc # "idle"
    BY <1>8 DEF Collect
  <2>2. QED
    BY <1>2, <1>3, <1>8, <2>1, CollectGoal
<1>5. CASE RequestReboot(c)
  <2> DEFINE f == call[c]
  <2>1. PICK ok \in BOOLEAN : call' = [call EXCEPT ![c] = Requested(f, ok)]
    BY <1>5 DEF RequestReboot
  <2>2. f.pc = "request" /\ UNCHANGED << vmstate, processid, proc >>
    BY <1>5 DEF RequestReboot
  <2>3. f \in Frame /\ f.vm \in VMs /\ Sound(c)
    BY <1>2, <2>2 DEF IInv, TypeInv, PsvInv, PsvTypeOK
  <2>4. Down(f, vmstate[f.vm], Has(f.vm))
    BY <2>2, <2>3 DEF Sound, Phase, Leaving, Up, Walking, WalksDown
  <2> DEFINE g == Requested(f, ok)
  <2>5. /\ g.vm = f.vm
        /\ \/ g.pc = "exitcode"
           \/ g.pc = "lookup" /\ g.todo = FailChain /\ g.then = "err" /\ g.else = "err"
    BY <2>3, WalkShape, JumpShape DEF Requested
  <2> HIDE DEF g
  <2>6. Phase(g, vmstate[g.vm], Has(g.vm))
    BY <2>4, <2>5, ChainsAvoid DEF Phase, Down, WalksDown, Walking, DownStops
  <2>7. call' = [call EXCEPT ![c] = g]
    BY <2>1 DEF g
  <2>8. QED
    BY <1>2, <1>3, <2>2, <2>3, <2>5, <2>6, <2>7, FrameGoal
<1>6. CASE UNCHANGED psvvars
  <2>1. \A w : Has(w)' = Has(w)
    BY <1>6 DEF psvvars, Has
  <2>2. \A p \in Pids : SameProcess(p)
    BY <1>6 DEF psvvars, SameProcess
  <2>3. Named'
    BY <1>6, <2>2, NamedStays DEF psvvars, IInv
  <2>4. Has(call[c].vm)' = Has(call[c].vm)
    BY <1>6 DEF psvvars, Has
  <2>5. Sound(c)'
    BY <1>2, <1>6, <2>4 DEF psvvars, IInv, Sound
  <2>6. \A vm \in VMs : AtRest(vm)' => Rest(vmstate[vm], Has(vm))'
    BY <1>6, <2>1 DEF psvvars, IInv, AtRest, Rest
  <2>7. QED
    BY <1>1, <2>3, <2>5, <2>6 DEF IInv
<1>7. QED
  BY <1>1, <1>4, <1>5, <1>6, <1>8, CallsSound, ReportSound, ReturnSound, EndsSound DEF Next

LEMMA InitSound ==
    ASSUME PsvInit
    PROVE  IInv
<1>1. TypeInv
  BY InitTypeInv
<1>2. \A p \in Pids : proc[p].state = "free" /\ proc[p].vm = NoVM
  BY DEF PsvInit, Unforked
<1>3. \A vm \in VMs : Has(vm) = FALSE /\ vmstate[vm] = "INIT"
  BY <1>2 DEF Has, Unreported, PsvInit
<1>4. \A t \in Threads : call[t].pc = "idle"
  BY DEF PsvInit, Idle
<1>5. QED
  BY <1>1, <1>2, <1>3, <1>4 DEF IInv, Named, Unreported, Sound, Rest

(***************************************************************************)
(* Of a VM whose operations never overlap, psv_startvm never forks a       *)
(* second bhyve: processid names every process not waited for yet.         *)
(***************************************************************************)
THEOREM OneProcess ==
    ASSUME CleanUpSucceeds, NEW c, Threads = {c}
    PROVE  Spec => []SingleProcess
<1>1. IInv => SingleProcess
  <2> SUFFICES ASSUME IInv, NEW vm \in VMs
               PROVE  Cardinality(Alive(vm)) <= 1
    BY DEF SingleProcess
  <2>1. Alive(vm) \subseteq {processid[vm]}
    BY DEF IInv, Named, Unreported, Alive
  <2>2. Alive(vm) = {} \/ Alive(vm) = {processid[vm]}
    BY <2>1
  <2>3. Cardinality({}) = 0 /\ Cardinality({processid[vm]}) = 1
    BY FS_EmptySet, FS_Singleton
  <2>4. QED
    BY <2>2, <2>3
<1>2. IInv /\ [Next]_psvvars => IInv'
  BY NextSound
<1>3. PsvInit => IInv
  BY InitSound
<1>4. QED
  BY <1>1, <1>2, <1>3, PTL DEF Spec

-----------------------------------------------------------------------------
(* What a stop has collected is not taken for a running process. *)

NoRise(todo) == \A i \in 1 .. Len(todo) : todo[i] # "RUNNING"

(* What an operation read in processid is a process of its VM. *)
Aimed(f) == f.target \in Pids => proc[f.target].vm = f.vm

(***************************************************************************)
(* A VM whose process was collected by its stop is not RUNNING, and the    *)
(* operation under way, if any, does not make it so.                       *)
(***************************************************************************)
CollectedInv ==
    /\ \A t \in Threads : Aimed(call[t])
    /\ \A p \in Pids : proc[p].state = "waited" =>
           /\ vmstate[proc[p].vm] # "RUNNING"
           /\ \A t \in Threads : call[t].vm = proc[p].vm => NoRise(call[t].todo)

LEMMA NoRiseChains ==
    /\ NoRise(<< >>) /\ NoRise(FailChain) /\ NoRise(StopChain)
    /\ NoRise(RebootChain) /\ NoRise(RebootedChain) /\ NoRise(<< "INIT" >>)
    /\ NoRise(<< "STOPPING" >>) /\ NoRise(<< "PRESTOP_BEFORE_RESTART" >>)
    /\ \A r \in BOOLEAN : /\ NoRise(<< PreState(r) >>) /\ NoRise(<< StorageState(r) >>)
                          /\ NoRise(UndoPreChain(r))
<1>1. /\ NoRise(<< >>) /\ NoRise(FailChain) /\ NoRise(StopChain)
      /\ NoRise(RebootChain) /\ NoRise(RebootedChain) /\ NoRise(<< "INIT" >>)
      /\ NoRise(<< "STOPPING" >>) /\ NoRise(<< "PRESTOP_BEFORE_RESTART" >>)
  BY DEF NoRise, FailChain, StopChain, RebootChain, RebootedChain
<1>2. ASSUME NEW r \in BOOLEAN
      PROVE  /\ NoRise(<< PreState(r) >>) /\ NoRise(<< StorageState(r) >>)
             /\ NoRise(UndoPreChain(r))
  BY StartChainsAvoid DEF NoRise, Avoids
<1>3. QED
  BY <1>1, <1>2

(* The states a frame still has to enter, and what it is about. *)
About(f, g) == g.vm = f.vm /\ g.target = f.target

LEMMA ShapesTodo ==
    ASSUME NEW f \in Frame
    PROVE  /\ \A label : Jump(f, label).todo = << >> /\ About(f, Jump(f, label))
           /\ \A chain, then, else : /\ Walk(f, chain, then, else).todo = chain
                                    /\ About(f, Walk(f, chain, then, else))
BY DEF Jump, Walk, Frame, About

LEMMA EntriesNoRise ==
    ASSUME NEW vm \in VMs, NEW code \in 0 .. 255
    PROVE  \A h \in {StartVM(vm), ResetFailure(vm), StopVM(vm, FALSE), StopVM(vm, TRUE),
                     OnExit(vm, code), FailureState(vm)} :
              NoRise(h.todo) /\ h.target \notin Pids
<1> DEFINE e == Entry(vm)
           f == [e EXCEPT !.code = code]
           b == vmstate[vm] = "RESTART_STOPPED"
           g == [e EXCEPT !.restarting = b]
<1>1. /\ e \in Frame /\ f \in Frame /\ g \in Frame /\ b \in BOOLEAN
      /\ e.target \notin Pids /\ f.target \notin Pids /\ g.target \notin Pids
  <2>1. e \in Frame /\ e.target \notin Pids
    BY EntryTyped, ConstantsAssumption DEF Entry, Idle
  <2>2. \A h \in Frame, n \in 0 .. 255, r \in BOOLEAN :
           /\ [h EXCEPT !.code = n] \in Frame /\ [h EXCEPT !.code = n].target = h.target
           /\ [h EXCEPT !.restarting = r] \in Frame
           /\ [h EXCEPT !.restarting = r].target = h.target
    BY DEF Frame
  <2>3. b \in BOOLEAN
    OBVIOUS
  <2>4. QED
    BY <2>1, <2>2, <2>3
<1> HIDE DEF e, f, g, b
<1> DEFINE Fine(h) == NoRise(h.todo) /\ h.target \notin Pids
<1>w. \A h \in Frame : h.target \notin Pids =>
         /\ \A label : Fine(Jump(h, label))
         /\ \A chain, then, else : NoRise(chain) => Fine(Walk(h, chain, then, else))
  BY ShapesTodo, NoRiseChains DEF About
<1> HIDE DEF Fine
<1>2. Fine(StartVM(vm))
  <2>1. \E then, else : \/ StartVM(vm) = Walk(g, << PreState(b) >>, then, else)
                        \/ StartVM(vm) = Jump(g, else)
    BY DEF StartVM, g, b, e
  <2>2. NoRise(<< PreState(b) >>)
    BY <1>1, NoRiseChains
  <2>3. QED
    BY <1>1, <1>w, <2>1, <2>2
<1>3. Fine(StopVM(vm, FALSE)) /\ Fine(StopVM(vm, TRUE))
  BY <1>1, <1>w, NoRiseChains DEF StopVM, e
<1>4. Fine(ResetFailure(vm)) /\ Fine(FailureState(vm))
  BY <1>1, <1>w, NoRiseChains DEF ResetFailure, FailureState, e
<1>5. Fine(OnExit(vm, code))
  <2>1. \E chain \in {RebootedChain, RebootChain, StopChain} : \E then, else :
           \/ OnExit(vm, code) = Walk(f, chain, then, else)
           \/ OnExit(vm, code) = Jump(f, else)
    BY DEF OnExit, f, e
  <2>2. QED
    BY <1>1, <1>w, <2>1, NoRiseChains
<1>6. QED
  BY <1>2, <1>3, <1>4, <1>5 DEF Fine

(* A frame goes on without a chain of its own, or with one of those above. *)
LEMMA FrameCollected ==
    ASSUME IInv, CollectedInv, NEW c, Threads = {c}, NEW g, call' = [call EXCEPT ![c] = g],
           NoRise(g.todo), Aimed(g), UNCHANGED vmstate,
           \A p \in Pids : proc'[p].vm = proc[p].vm /\ (proc'[p].state = "waited"
                              => proc[p].state = "waited" \/ vmstate[proc[p].vm] # "RUNNING")
    PROVE  CollectedInv'
<1>1. call'[c] = g
  BY DEF IInv, TypeInv, PsvInv, PsvTypeOK
<1>2. Aimed(call[c])'
  BY <1>1 DEF Aimed
<1>3. QED
  BY <1>1, <1>2 DEF CollectedInv

LEMMA NoRiseOn ==
    ASSUME NEW todo \in Seq(States), todo # << >>, NoRise(todo)
    PROVE  Head(todo) # "RUNNING" /\ NoRise(Tail(todo))
<1>1. Len(todo) \in Nat /\ Len(todo) >= 1 /\ Head(todo) = todo[1]
  OBVIOUS
<1>2. /\ Len(Tail(todo)) = Len(todo) - 1
      /\ \A i \in 1 .. Len(Tail(todo)) : Tail(todo)[i] = todo[i + 1]
  OBVIOUS
<1>3. QED
  BY <1>1, <1>2 DEF NoRise

LEMMA StepCollected ==
    ASSUME IInv, CollectedInv, NEW c, Threads = {c}, Step(c)
    PROVE  CollectedInv'
<1> DEFINE f == call[c]
<1>1. f \in Frame /\ Walks(f) /\ f.todo \in Seq(States) /\ f.restarting \in BOOLEAN /\ c \in Threads
  BY DEF IInv, TypeInv, PsvInv, PsvTypeOK, Frame
<1>2. PsvInv /\ OfVM(c)
  BY DEF IInv, TypeInv, OfVM
<1>a. \A g : About(f, g) => Aimed(g)
  BY <1>1 DEF CollectedInv, Aimed, About
<1>3. ASSUME UNCHANGED << vmstate, proc >>, NEW g, call' = [call EXCEPT ![c] = g], NoRise(g.todo),
             About(f, g)
      PROVE  CollectedInv'
  BY <1>3, <1>a, FrameCollected
<1>4. ASSUME NEW label, NEW chain, NEW then, NEW else, At(c, label, chain, then, else), NoRise(chain)
      PROVE  CollectedInv'
  <2> DEFINE g == Walk(f, chain, then, else)
  <2>1. NoRise(g.todo) /\ About(f, g)
    BY <1>1, <1>4, ShapesTodo
  <2>2. call' = [call EXCEPT ![c] = g] /\ UNCHANGED << vmstate, proc >>
    BY <1>4 DEF At
  <2> HIDE DEF g
  <2>3. QED
    BY <1>3, <2>1, <2>2
<1>5. CASE Lookup(c)
  <2>1. PICK g \in {[f EXCEPT !.pc = "enter"], Jump(f, f.else)} : call' = [call EXCEPT ![c] = g]
    BY <1>5 DEF Lookup
  <2>2. (g.todo = f.todo \/ NoRise(g.todo)) /\ About(f, g)
    BY <1>1, ShapesTodo, NoRiseChains DEF Frame, About
  <2>3. call'[c] = g /\ UNCHANGED << vmstate, proc >>
    BY <1>5, <2>1 DEF Lookup, IInv, TypeInv, PsvInv, PsvTypeOK
  <2>4. Aimed(call[c])'
    BY <1>a, <2>2, <2>3 DEF Aimed
  <2>5. QED
    BY <2>2, <2>3, <2>4 DEF CollectedInv, About
<1>6. CASE Enter(c)
  <2>1. /\ f.pc = "enter" /\ vmstate' = [vmstate EXCEPT ![f.vm] = Head(f.todo)] /\ UNCHANGED proc
    BY <1>6 DEF Enter
  <2>2. f.todo # << >>
    BY <1>1, <2>1 DEF Walks
  <2>3. PICK g \in {Jump(f, f.then), [f EXCEPT !.pc = "lookup", !.todo = Tail(f.todo)]} :
           call' = [call EXCEPT ![c] = g]
    BY <1>6 DEF Enter
  <2>4. call'[c] = g
    BY <2>3 DEF IInv, TypeInv, PsvInv, PsvTypeOK
  <2>5. About(f, g) /\ g.vm = f.vm /\ g.todo \in {<< >>, Tail(f.todo)}
    <3>1. CASE g = Jump(f, f.then)
      BY <1>1, <3>1, ShapesTodo DEF About
    <3>2. CASE g = [f EXCEPT !.pc = "lookup", !.todo = Tail(f.todo)]
      BY <1>1, <3>2 DEF Frame, About
    <3>3. QED
      BY <2>3, <3>1, <3>2
  <2>a. Aimed(call[c])'
    BY <1>a, <2>1, <2>4, <2>5 DEF Aimed
  <2>6. ASSUME NoRise(f.todo)
        PROVE  Head(f.todo) # "RUNNING" /\ NoRise(g.todo)
    BY <1>1, <2>2, <2>5, <2>6, NoRiseOn, NoRiseChains
  <2>7. SUFFICES ASSUME NEW p \in Pids, proc[p].state = "waited"
                 PROVE  /\ vmstate'[proc[p].vm] # "RUNNING"
                        /\ call'[c].vm = proc[p].vm => NoRise(call'[c].todo)
    BY <2>1, <2>a DEF CollectedInv
  <2>8. CASE proc[p].vm = f.vm
    <3>1. NoRise(f.todo) /\ proc[p].vm \in VMs
      BY <2>7, <2>8, <1>1 DEF CollectedInv, IInv, Named, Unreported
    <3>2. QED
      BY <2>1, <2>4, <2>6, <2>8, <3>1 DEF IInv, TypeInv, PsvInv, PsvTypeOK
  <2>9. CASE proc[p].vm # f.vm
    <3>1. vmstate'[proc[p].vm] = vmstate[proc[p].vm]
      BY <2>1, <2>7, <2>9 DEF IInv, Named, Unreported, TypeInv, PsvInv, PsvTypeOK
    <3>2. QED
      BY <2>4, <2>5, <2>7, <2>9, <3>1 DEF CollectedInv
  <2>10. QED
    BY <2>8, <2>9
<1>7. CASE HookFails(c)
  <2> DEFINE g == Jump(f, f.else)
  <2>1. NoRise(g.todo) /\ About(f, g)
    BY <1>1, ShapesTodo, NoRiseChains
  <2>2. call' = [call EXCEPT ![c] = g] /\ UNCHANGED << vmstate, proc >>
    BY <1>7 DEF HookFails
  <2> HIDE DEF g
  <2>3. QED
    BY <1>3, <2>1, <2>2
<1>8. CASE Launch(c)
  <2>1. f.pc = "launch" /\ UNCHANGED vmstate
    BY <1>8 DEF Launch
  <2>2. ~ Has(f.vm)
    <3>1. Sound(c)
      BY <1>1 DEF IInv
    <3>2. QED
      BY <2>1, <3>1 DEF Sound, Phase, Down, Leaving, Up, Walking, WalksDown
  <2>3. PICK p \in Pids : /\ proc' = [proc EXCEPT ![p].state = "alive", ![p].vm = f.vm]
                          /\ call' = [call EXCEPT ![c] = Walk([f EXCEPT !.pid = p],
                                                       UpChain(f.restarting), "ok", "upfailed")]
    BY <1>8 DEF Launch
  <2> DEFINE g == Walk([f EXCEPT !.pid = p], UpChain(f.restarting), "ok", "upfailed")
  <2>4. g.vm = f.vm /\ g.target = f.target
    BY <1>1 DEF Walk, Frame
  <2> HIDE DEF g
  <2>5. call'[c].vm = f.vm /\ call'[c].target = f.target
    BY <2>3, <2>4 DEF IInv, TypeInv, PsvInv, PsvTypeOK, g
  <2>a. Aimed(call[c])'
    <3>1. \A q \in Pids : proc'[q].vm = IF q = p THEN f.vm ELSE proc[q].vm
      BY <2>3 DEF IInv, TypeInv, PsvInv, PsvTypeOK, Process
    <3>2. Aimed(f)
      BY <1>1 DEF CollectedInv
    <3>3. QED
      BY <2>5, <3>1, <3>2 DEF Aimed
  <2>6. \A q \in Pids : proc'[q].state = "waited" => proc'[q] = proc[q]
    BY <2>3 DEF IInv, TypeInv, PsvInv, PsvTypeOK, Process
  <2>7. \A q \in Pids : proc[q].state = "waited" => proc[q].vm # f.vm
    BY <2>2 DEF Has, Unreported
  <2>8. QED
    BY <2>1, <2>5, <2>6, <2>7, <2>a DEF CollectedInv
<1>9. CASE Kill(c)
  <2>1. PICK g, h \in Frame, label \in {"ok", "killfailed", "signalled"} :
           /\ g = Jump(h, label) /\ call' = [call EXCEPT ![c] = g]
           /\ h.vm = f.vm /\ h.target = processid[f.vm]
    BY <1>1, <1>2, <1>9, KillMoves
  <2>2. NoRise(g.todo) /\ About(h, g)
    BY <2>1, ShapesTodo, NoRiseChains
  <2>a. Has(f.vm)
    <3>1. f.pc = "kill" /\ Sound(c)
      BY <1>1, <1>9 DEF Kill, IInv
    <3>2. Up(f, vmstate[f.vm], Has(f.vm))
      BY <3>1 DEF Sound, Phase, Down, Leaving, Walking, WalksDown, DownStops
    <3>3. QED
      BY <3>2 DEF Up
  <2>b. Aimed(g)
    BY <2>1, <2>2, <2>a DEF Has, IInv, Named, Aimed, About
  <2>3. UNCHANGED vmstate /\ \A p \in Pids : SameProcess(p)
    <3>1. \A r \in Process : /\ [r EXCEPT !.term = TRUE].state = r.state
                             /\ [r EXCEPT !.term = TRUE].vm = r.vm
      BY DEF Process
    <3>2. QED
      BY <3>1, <1>9 DEF Kill, SameProcess, IInv, TypeInv, PsvInv, PsvTypeOK
  <2>4. QED
    BY <2>1, <2>2, <2>3, <2>b, FrameCollected DEF SameProcess
<1>10. CASE Signalled(c)
  <2> DEFINE g == Jump(f, "ok")
  <2>1. NoRise(g.todo) /\ About(f, g)
    BY <1>1, ShapesTodo, NoRiseChains
  <2>2. call' = [call EXCEPT ![c] = g] /\ UNCHANGED << vmstate, proc >>
    BY <1>10 DEF Signalled
  <2> HIDE DEF g
  <2>3. QED
    BY <1>3, <2>1, <2>2
<1>11. CASE ClearPid(c)
  <2> DEFINE g == Jump(f, "ok")
  <2>1. NoRise(g.todo) /\ About(f, g)
    BY <1>1, ShapesTodo, NoRiseChains
  <2>2. call' = [call EXCEPT ![c] = g] /\ UNCHANGED << vmstate, proc >>
    BY <1>11 DEF ClearPid
  <2> HIDE DEF g
  <2>3. QED
    BY <1>3, <2>1, <2>2
<1>12. CASE ExitCode(c)
  <2>1. PICK g \in {Walk(f, FailChain, "clear", "clear"), Jump(f, "ok")} :
           call' = [call EXCEPT ![c] = g]
    BY <1>12 DEF ExitCode
  <2>2. NoRise(g.todo) /\ About(f, g)
    BY <1>1, ShapesTodo, NoRiseChains
  <2>3. UNCHANGED << vmstate, proc >>
    BY <1>12 DEF ExitCode
  <2>4. QED
    BY <1>3, <2>1, <2>2, <2>3
<1>13. CASE Undo(c) \/ Storage(c) \/ StorageFailed(c) \/ LaunchFails(c) \/ UpFailed(c)
            \/ StopFailed(c) \/ KillFailed(c)
  BY <1>1, <1>4, <1>13, NoRiseChains
     DEF Undo, Storage, StorageFailed, LaunchFails, UpFailed, StopFailed, KillFailed
<1>14. QED
  BY <1>5, <1>6, <1>7, <1>8, <1>9, <1>10, <1>11, <1>12, <1>13 DEF Step

LEMMA NextCollected ==
    ASSUME IInv, CollectedInv, NEW c, Threads = {c}, [Next]_psvvars
    PROVE  CollectedInv'
<1>1. c \in Threads /\ call[c] \in Frame
  BY DEF IInv, TypeInv, PsvInv, PsvTypeOK
<1>2. ASSUME NEW f, Begin(c, f), NoRise(f.todo), f.target \notin Pids,
             \A p \in Pids : proc'[p].vm = proc[p].vm /\ (proc'[p].state = "waited"
                                                           => proc[p].state = "waited")
      PROVE  CollectedInv'
  BY <1>2, FrameCollected DEF Begin, Aimed
<1>3. CASE Calls(c)
  <2>1. 0 \in 0 .. 255 /\ UNCHANGED proc
    BY <1>3 DEF Calls
  <2>2. QED
    BY <1>2, <1>3, <2>1, EntriesNoRise DEF Calls
<1>4. ASSUME NEW p \in Pids, ReportExit(c, p)
      PROVE  CollectedInv'
  <2>1. proc[p].vm \in VMs /\ proc[p].code \in 0 .. 255
    BY <1>4 DEF IInv, TypeInv, PsvInv, PsvTypeOK, Process, ReportExit
  <2>2. \A h \in {OnExit(proc[p].vm, proc[p].code), FailureState(proc[p].vm)} :
           NoRise(h.todo) /\ h.target \notin Pids
    BY <2>1, EntriesNoRise
  <2>3. \A q \in Pids : proc'[q].vm = proc[q].vm /\ (proc'[q].state = "waited"
                                                      => proc[q].state = "waited")
    BY <1>4 DEF ReportExit, IInv, TypeInv, PsvInv, PsvTypeOK, Process
  <2>4. QED
    BY <1>2, <1>4, <2>2, <2>3 DEF ReportExit
<1>5. CASE RequestReboot(c)
  <2>1. PICK ok \in BOOLEAN : call' = [call EXCEPT ![c] = Requested(call[c], ok)]
    BY <1>5 DEF RequestReboot
  <2>2. NoRise(Requested(call[c], ok).todo) /\ About(call[c], Requested(call[c], ok))
    BY <1>1, ShapesTodo, NoRiseChains DEF Requested
  <2>a. Aimed(Requested(call[c], ok))
    BY <1>1, <2>2 DEF Aimed, About, CollectedInv
  <2>3. QED
    BY <1>5, <2>1, <2>2, <2>a, FrameCollected DEF RequestReboot
<1>6. CASE Return(c)
  <2>1. NoRise(Idle.todo) /\ Aimed(Idle)
    BY NoRiseChains, ConstantsAssumption DEF Idle, Aimed
  <2>2. QED
    BY <1>6, <2>1, FrameCollected DEF Return
<1>7. CASE Step(c)
  BY <1>7, StepCollected
<1>8. CASE Collect(c)
  <2>1. PsvInv /\ OfVM(c) /\ call[c].pc = "signalled" /\ UNCHANGED vmstate
    BY <1>1, <1>8 DEF Collect, IInv, TypeInv, OfVM
  <2>2. PICK g \in Frame : /\ call' = [call EXCEPT ![c] = g] /\ g.vm = call[c].vm
                           /\ g.target = call[c].target
                           /\ (g.todo = << >> \/ g.todo = FailChain)
    BY <1>1, <1>8, <2>1, CollectMoves
  <2>3. /\ Up(call[c], vmstate[call[c].vm], Has(call[c].vm))
        /\ call[c].vm \in VMs
        /\ vmstate[call[c].vm] \in {"STOPPING", "PRESTOP_BEFORE_RESTART", "FAILED"}
    BY <1>1, <2>1 DEF IInv, TypeInv, Sound, Phase, Down, Leaving, Up, Walking, WalksDown, DownStops
  <2>4. NoRise(g.todo) /\ Aimed(call[c]) /\ Aimed(g)
    BY <1>1, <2>2, NoRiseChains DEF CollectedInv, Aimed
  <2>5. \A q \in Pids : /\ proc'[q].vm = proc[q].vm
                        /\ \/ proc'[q].state = proc[q].state
                           \/ proc[q].state = "zombie" /\ q = call[c].target
    BY <1>1, <1>8, <2>1, CollectProcs
  <2>6. \A q \in Pids : proc'[q].vm = proc[q].vm /\ (proc'[q].state = "waited"
                            => proc[q].state = "waited" \/ vmstate[proc[q].vm] # "RUNNING")
    BY <2>3, <2>4, <2>5 DEF Aimed
  <2>7. QED
    BY <2>1, <2>2, <2>4, <2>6, FrameCollected
<1>9. CASE UNCHANGED << vmstate, call, proc >>
  BY <1>9 DEF CollectedInv, Aimed
<1>10. ASSUME NEW p \in Pids, Ends(p)
       PROVE  CollectedInv'
  <2>1. PICK status \in Statuses : Exits(p, status)
    BY <1>10 DEF Ends
  <2>2. UNCHANGED << vmstate, call >>
    BY <1>10 DEF Ends
  <2>3. \A q \in Pids : proc'[q].vm = proc[q].vm /\ (proc'[q].state = "waited"
                                                      => proc[q].state = "waited")
    BY <2>1 DEF Exits, IInv, TypeInv, PsvInv, PsvTypeOK, Process
  <2>4. QED
    BY <2>2, <2>3 DEF CollectedInv, Aimed
<1>11. QED
  BY <1>3, <1>4, <1>5, <1>6, <1>7, <1>8, <1>9, <1>10 DEF Next, psvvars

(***************************************************************************)
(* Between the operations of a client that has it to itself, the state of  *)
(* a VM tells the truth about its process, so that psv_stopvm signals the  *)
(* right one and psv_startvm starts none beside a running one, also when   *)
(* psv_stopvm has waited for the process and its end is reported later.    *)
(***************************************************************************)
THEOREM StateIsTrue ==
    ASSUME CleanUpSucceeds, NEW c, Threads = {c}
    PROVE  Spec => []StateMatchesProcess
<1>1. IInv /\ CollectedInv => StateMatchesProcess
  <2> SUFFICES ASSUME IInv, CollectedInv, NEW vm \in VMs, ~ Busy(vm)
               PROVE  /\ vmstate[vm] \in {"RUNNING", "STOPPING"} =>
                            /\ processid[vm] \in Pids
                            /\ proc[processid[vm]].vm = vm
                            /\ proc[processid[vm]].state \in
                                  {"alive", "zombie"}
                                  \cup (IF vmstate[vm] = "STOPPING" THEN {"waited"} ELSE {})
                      /\ Alive(vm) \subseteq
                            IF vmstate[vm] \in {"RUNNING", "STOPPING",
                                                "PRESTOP_BEFORE_RESTART", "FAILED"}
                            THEN {processid[vm]} ELSE {}
    BY DEF StateMatchesProcess
  <2>1. Rest(vmstate[vm], Has(vm))
    BY DEF IInv, AtRest, Busy
  <2>2. \A p \in Pids : proc[p].vm = vm /\ proc[p].state \in Unreported
                           => processid[vm] = p
    BY DEF IInv, Named
  <2>3. Alive(vm) # {} => Has(vm)
    BY DEF Alive, Has, Unreported
  <2>4. Alive(vm) \subseteq {processid[vm]}
    BY <2>2 DEF Alive, Unreported
  <2>5. \A p \in Pids : proc[p].vm = vm /\ vmstate[vm] = "RUNNING" => proc[p].state # "waited"
    BY DEF CollectedInv
  <2>6. QED
    BY <2>1, <2>2, <2>3, <2>4, <2>5 DEF Rest, Has, Unreported
<1>2. IInv /\ CollectedInv /\ [Next]_psvvars => IInv' /\ CollectedInv'
  BY NextSound, NextCollected
<1>3. PsvInit => IInv /\ CollectedInv
  BY InitSound, ConstantsAssumption DEF PsvInit, Unforked, Idle, CollectedInv, Aimed
<1>4. QED
  BY <1>1, <1>2, <1>3, PTL DEF Spec

=============================================================================
