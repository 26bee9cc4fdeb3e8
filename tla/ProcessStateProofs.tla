------------------------- MODULE ProcessStateProofs -------------------------
(***************************************************************************)
(* Facts about ProcessState that hold for all constants and that the       *)
(* proofs about its users build on: the frames have their types, and every *)
(* step of an operation keeps them.                                        *)
(***************************************************************************)
EXTENDS ProcessState, TLAPS

(* A frame that is walking has a state to enter. *)
Walks(f) == f.pc \in {"lookup", "enter"} => f.todo # << >>

(* The type invariant, made inductive. *)
PsvInv ==
    /\ PsvTypeOK
    /\ \A t \in Threads : Walks(call[t])

(* An operation is about a VM. *)
OfVM(t) == call[t].pc # "idle" => call[t].vm \in VMs

GoodFrame(f) == f \in Frame /\ Walks(f)

-----------------------------------------------------------------------------
(* The transition table. *)

(* Every state that process_transition_list mentions is a state of the     *)
(* list of states.                                                         *)
LEMMA TableTyped ==
    /\ Table \subseteq States \X States
    /\ FromAny \subseteq States
BY DEF Table, States, FromAny

(* The chains consist of states. *)
LEMMA ChainsTyped ==
    /\ FailChain \in Seq(States) /\ FailChain # << >>
    /\ StopChain \in Seq(States) /\ StopChain # << >>
    /\ RebootChain \in Seq(States) /\ RebootChain # << >>
    /\ RebootedChain \in Seq(States) /\ RebootedChain # << >>
BY DEF FailChain, StopChain, RebootChain, RebootedChain, States

LEMMA StartChainsTyped ==
    ASSUME NEW restarting \in BOOLEAN
    PROVE  /\ << PreState(restarting) >> \in Seq(States)
           /\ << StorageState(restarting) >> \in Seq(States)
           /\ UpChain(restarting) \in Seq(States)
           /\ UpChain(restarting) # << >>
           /\ UndoPreChain(restarting) \in Seq(States)
           /\ UndoPreChain(restarting) # << >>
<1>1. Tail(FailChain) = << "STOP_NETWORK", "STOPPED", "FAILED" >>
  BY DEF FailChain
<1>2. /\ PreState(restarting) \in States
      /\ StorageState(restarting) \in States
  BY DEF PreState, StorageState, States
<1>3. UpChain(restarting) \in Seq(States) /\ UpChain(restarting) # << >>
  <2>1. << "RESTARTED", "RUNNING" >> \in Seq(States) /\ << "RUNNING" >> \in Seq(States)
    BY DEF States
  <2>2. CASE restarting
    BY <2>1, <2>2 DEF UpChain
  <2>3. CASE ~restarting
    BY <2>1, <2>3 DEF UpChain
  <2>4. QED
    BY <2>2, <2>3
<1>4. /\ UndoPreChain(restarting) \in Seq(States)
      /\ UndoPreChain(restarting) # << >>
  <2>1. CASE restarting
    BY <2>1, ChainsTyped DEF UndoPreChain
  <2>2. CASE ~restarting
    <3>1. /\ << "STOP_NETWORK", "STOPPED", "FAILED" >> \in Seq(States)
          /\ << "STOP_NETWORK", "STOPPED", "FAILED" >> # << >>
      BY DEF States
    <3>2. QED
      BY <2>2, <1>1, <3>1 DEF UndoPreChain
  <2>3. QED
    BY <2>1, <2>2
<1>5. QED
  BY <1>2, <1>3, <1>4

-----------------------------------------------------------------------------
(* Frames. *)

LEMMA IdleGood == GoodFrame(Idle)
BY DEF GoodFrame, Walks, Idle, Frame, Labels, Stops

LEMMA EntryTyped ==
    ASSUME NEW vm \in VMs
    PROVE  Entry(vm) \in Frame
<1>1. Idle \in Frame
  BY IdleGood DEF GoodFrame
<1>2. QED
  BY <1>1 DEF Entry, Frame

LEMMA LabelFacts ==
    /\ Stops \subseteq Labels
    /\ {"lookup", "enter"} \subseteq Labels
    /\ "lookup" \notin Stops /\ "enter" \notin Stops
    /\ "idle" \in Stops
BY DEF Labels, Stops

LEMMA JumpGood ==
    ASSUME NEW f \in Frame, NEW label \in Stops
    PROVE  GoodFrame(Jump(f, label))
<1>0. << >> \in Seq(States)
  OBVIOUS
<1>1. Jump(f, label) \in Frame
  BY <1>0, LabelFacts DEF Jump, Frame
<1>2. Jump(f, label).pc = label
  BY DEF Jump, Frame
<1>3. QED
  BY <1>1, <1>2, LabelFacts DEF GoodFrame, Walks

LEMMA WalkGood ==
    ASSUME NEW f \in Frame, NEW chain \in Seq(States), chain # << >>,
           NEW then \in Stops, NEW else \in Stops
    PROVE  GoodFrame(Walk(f, chain, then, else))
<1>1. Walk(f, chain, then, else) \in Frame
  BY LabelFacts DEF Walk, Frame
<1>2. Walk(f, chain, then, else).todo = chain
  BY DEF Walk, Frame
<1>3. QED
  BY <1>1, <1>2 DEF GoodFrame, Walks

-----------------------------------------------------------------------------
(* The entry points return good frames. *)

LEMMA StartVMGood ==
    ASSUME NEW vm \in VMs
    PROVE  GoodFrame(StartVM(vm))
<1> DEFINE restarting == vmstate[vm] = "RESTART_STOPPED"
           f == [Entry(vm) EXCEPT !.restarting = restarting]
<1>2. restarting \in BOOLEAN
  OBVIOUS
<1> HIDE DEF restarting
<1>1. f \in Frame
  <2> DEFINE g == Entry(vm)
  <2>1. g \in Frame
    BY EntryTyped
  <2> HIDE DEF g
  <2>2. [g EXCEPT !.restarting = restarting] \in Frame
    BY <1>2, <2>1 DEF Frame
  <2>3. QED
    BY <2>2 DEF g
<1>3. /\ << PreState(restarting) >> \in Seq(States)
      /\ << PreState(restarting) >> # << >>
  BY <1>2, StartChainsTyped
<1>4. {"storage", "err", "undo"} \subseteq Stops
  BY DEF Stops
<1> HIDE DEF f
<1>5. GoodFrame(Jump(f, "err"))
  BY <1>1, <1>4, JumpGood
<1>6. /\ GoodFrame(Walk(f, << PreState(restarting) >>, "storage", "err"))
      /\ GoodFrame(Walk(f, << PreState(restarting) >>, "storage", "undo"))
  BY <1>1, <1>3, <1>4, WalkGood
<1>7. QED
  BY <1>5, <1>6 DEF StartVM, f, restarting

LEMMA StopVMGood ==
    ASSUME NEW vm \in VMs, NEW reboot \in BOOLEAN
    PROVE  GoodFrame(StopVM(vm, reboot))
<1>1. /\ << "PRESTOP_BEFORE_RESTART" >> \in Seq(States)
      /\ << "STOPPING" >> \in Seq(States)
  BY DEF States
<1>2. {"kill", "stopfailed", "err"} \subseteq Stops
  BY DEF Stops
<1>3. GoodFrame(Jump(Entry(vm), "err"))
  BY <1>2, EntryTyped, JumpGood
<1>4. /\ GoodFrame(Walk(Entry(vm), << "PRESTOP_BEFORE_RESTART" >>, "kill", "stopfailed"))
      /\ GoodFrame(Walk(Entry(vm), << "STOPPING" >>, "kill", "stopfailed"))
  BY <1>1, <1>2, EntryTyped, WalkGood
<1>5. QED
  BY <1>3, <1>4 DEF StopVM

LEMMA OnExitGood ==
    ASSUME NEW vm \in VMs, NEW code \in 0 .. 255
    PROVE  GoodFrame(OnExit(vm, code))
<1> DEFINE f == [Entry(vm) EXCEPT !.code = code]
<1>1. f \in Frame
  BY EntryTyped DEF Frame
<1> HIDE DEF f
<1>2. {"request", "err", "exitcode"} \subseteq Stops
  BY DEF Stops
<1>3. /\ GoodFrame(Walk(f, RebootedChain, "request", "err"))
      /\ GoodFrame(Walk(f, RebootChain, "request", "err"))
      /\ GoodFrame(Walk(f, StopChain, "exitcode", "err"))
      /\ GoodFrame(Jump(f, "exitcode"))
  BY <1>1, <1>2, ChainsTyped, WalkGood, JumpGood
<1>4. QED
  BY <1>3 DEF OnExit, f

LEMMA FailureStateGood ==
    ASSUME NEW vm \in VMs
    PROVE  GoodFrame(FailureState(vm))
BY EntryTyped, ChainsTyped, WalkGood DEF FailureState, Stops

LEMMA ResetFailureGood ==
    ASSUME NEW vm \in VMs
    PROVE  GoodFrame(ResetFailure(vm))
<1>1. << "INIT" >> \in Seq(States) /\ {"ok", "err"} \subseteq Stops
  BY DEF States, Stops
<1>2. QED
  BY <1>1, EntryTyped, WalkGood, JumpGood DEF ResetFailure

LEMMA RequestedGood ==
    ASSUME NEW f \in Frame, NEW ok \in BOOLEAN
    PROVE  GoodFrame(Requested(f, ok))
<1>1. {"err", "exitcode"} \subseteq Stops
  BY DEF Stops
<1>2. QED
  BY <1>1, ChainsTyped, WalkGood, JumpGood DEF Requested

-----------------------------------------------------------------------------
(* The steps. *)

(* A thread moves to a good frame. *)
LEMMA CallMoves ==
    ASSUME PsvInv, NEW t \in Threads, NEW f, GoodFrame(f),
           call' = [call EXCEPT ![t] = f]
    PROVE  /\ call' \in [Threads -> Frame]
           /\ \A u \in Threads : Walks(call'[u])
BY DEF PsvInv, PsvTypeOK, GoodFrame

(* A thread starts to walk a chain from a label. *)
LEMMA AtMoves ==
    ASSUME PsvInv, NEW t \in Threads, NEW label,
           NEW chain \in Seq(States), chain # << >>,
           NEW then \in Stops, NEW else \in Stops,
           At(t, label, chain, then, else)
    PROVE  PsvInv'
<1>1. GoodFrame(Walk(call[t], chain, then, else))
  BY WalkGood DEF PsvInv, PsvTypeOK
<1>2. /\ call' \in [Threads -> Frame]
      /\ \A u \in Threads : Walks(call'[u])
  BY <1>1, CallMoves DEF At
<1>3. QED
  BY <1>2 DEF At, PsvInv, PsvTypeOK

(* kill(2): the frame notes the process and goes on to one of three places.*)
LEMMA KillMoves ==
    ASSUME PsvInv, NEW t \in Threads, OfVM(t), Kill(t)
    PROVE  \E g, h \in Frame, label \in {"ok", "killfailed", "signalled"} :
              /\ g = Jump(h, label) /\ call' = [call EXCEPT ![t] = g]
              /\ h.vm = call[t].vm /\ h.pid = call[t].pid /\ h.code = call[t].code
              /\ h.target = processid[call[t].vm]
              /\ \/ label = "ok" /\ h.target \notin Pids
                 \/ label = "signalled" /\ h.target \in Pids
                 \/ /\ label = "killfailed" /\ h.target \in Pids
                    /\ proc[h.target].state \in {"waited", "reaped"}
<1> DEFINE f == call[t]
           p == processid[f.vm]
           h == [f EXCEPT !.target = p]
           label == CASE p \notin Pids -> "ok"
                      [] p \in Pids /\ proc[p].state \in {"waited", "reaped"} -> "killfailed"
                      [] OTHER -> "signalled"
           g == Jump(h, label)
<1>1. f \in Frame /\ f.pc = "kill"
  BY DEF Kill, PsvInv, PsvTypeOK
<1>2. p \in Pids \cup {NoPid}
  BY <1>1 DEF PsvInv, PsvTypeOK, OfVM
<1> HIDE DEF p
<1>3. h \in Frame /\ h.vm = f.vm /\ h.pid = f.pid /\ h.code = f.code /\ h.target = p
  BY <1>1, <1>2 DEF Frame
<1>4. call' = [call EXCEPT ![t] = g]
  BY DEF Kill, p
<1> HIDE DEF h
<1>5. \/ label = "ok" /\ p \notin Pids
      \/ label = "signalled" /\ p \in Pids
      \/ label = "killfailed" /\ p \in Pids /\ proc[p].state \in {"waited", "reaped"}
  OBVIOUS
<1> HIDE DEF label
<1>6. g \in Frame
  BY <1>3, <1>5, JumpGood DEF GoodFrame, Stops
<1> HIDE DEF g
<1>7. g = Jump(h, label)
  BY DEF g
<1>8. label \in {"ok", "killfailed", "signalled"}
  BY <1>5
<1>9. h.target = processid[call[t].vm]
  BY <1>3 DEF p
<1>10. QED
  BY <1>3, <1>4, <1>5, <1>6, <1>7, <1>8, <1>9

(***************************************************************************)
(* Every step inside an operation keeps the types: the state stays a state *)
(* of the list, processid a process, and a frame never walks an empty      *)
(* chain.                                                                  *)
(***************************************************************************)
LEMMA StepTyped ==
    ASSUME PsvInv, NEW t \in Threads, OfVM(t), Step(t)
    PROVE  PsvInv'
<1> DEFINE f == call[t]
<1>f. f \in Frame /\ Walks(f)
  BY DEF PsvInv, PsvTypeOK
<1>l. /\ f.then \in Stops /\ f.else \in Stops
      /\ f.restarting \in BOOLEAN
      /\ f.todo \in Seq(States)
  BY <1>f DEF Frame
<1>s. {"undo", "storage", "storagefailed", "launch", "upfailed", "stopfailed",
       "kill", "killfailed", "signalled", "clear", "ok", "err"} \subseteq Stops
  BY DEF Stops
<1>1. CASE Lookup(t)
  <2>1. CASE HasTransition(vmstate[f.vm], Head(f.todo))
    <3>1. GoodFrame([f EXCEPT !.pc = "enter"])
      BY <1>f, <1>1, LabelFacts DEF GoodFrame, Walks, Frame, Lookup
    <3>2. QED
      BY <1>1, <2>1, <3>1, CallMoves DEF Lookup, PsvInv, PsvTypeOK
  <2>2. CASE ~HasTransition(vmstate[f.vm], Head(f.todo))
    <3>1. GoodFrame(Jump(f, f.else))
      BY <1>f, <1>l, JumpGood
    <3>2. QED
      BY <1>1, <2>2, <3>1, CallMoves DEF Lookup, PsvInv, PsvTypeOK
  <2>3. QED
    BY <2>1, <2>2
<1>2. CASE Enter(t)
  <2>1. f.todo # << >>
    BY <1>f, <1>2 DEF Walks, Enter
  <2>2. Head(f.todo) \in States
    BY <2>1, <1>l
  <2>3. vmstate' \in [VMs -> States]
    BY <2>2, <1>2 DEF Enter, PsvInv, PsvTypeOK
  <2>4. CASE Len(f.todo) = 1
    <3>1. GoodFrame(Jump(f, f.then))
      BY <1>f, <1>l, JumpGood
    <3>2. QED
      BY <1>2, <2>3, <2>4, <3>1, CallMoves DEF Enter, PsvInv, PsvTypeOK
  <2>5. CASE Len(f.todo) # 1
    <3>1. Tail(f.todo) \in Seq(States) /\ Tail(f.todo) # << >>
      <4> DEFINE todo == f.todo
      <4>1. todo \in Seq(States) /\ todo # << >> /\ Len(todo) # 1
        BY <2>1, <2>5, <1>l
      <4> HIDE DEF todo
      <4>2. Tail(todo) \in Seq(States) /\ Len(Tail(todo)) = Len(todo) - 1
        BY <4>1
      <4>3. Len(todo) \in Nat /\ Len(todo) # 0
        BY <4>1
      <4>4. Len(Tail(todo)) # 0
        BY <4>1, <4>2, <4>3
      <4>5. Tail(todo) # << >>
        <5>1. Len(<< >>) = 0
          OBVIOUS
        <5>2. QED
          BY <4>4, <5>1
      <4>6. QED
        BY <4>2, <4>5 DEF todo
    <3>2. GoodFrame([f EXCEPT !.pc = "lookup", !.todo = Tail(f.todo)])
      BY <3>1, <1>f, LabelFacts DEF GoodFrame, Walks, Frame
    <3>3. QED
      BY <1>2, <2>3, <2>5, <3>2, CallMoves DEF Enter, PsvInv, PsvTypeOK
  <2>6. QED
    BY <2>4, <2>5
<1>3. CASE HookFails(t)
  <2>1. GoodFrame(Jump(f, f.else))
    BY <1>f, <1>l, JumpGood
  <2>2. QED
    BY <1>3, <2>1, CallMoves DEF HookFails, PsvInv, PsvTypeOK
<1>4. CASE Undo(t)
  BY <1>4, <1>l, <1>s, StartChainsTyped, AtMoves DEF Undo
<1>5. CASE Storage(t)
  <2>1. << StorageState(f.restarting) >> # << >>
    OBVIOUS
  <2>2. QED
    BY <1>5, <1>l, <1>s, <2>1, StartChainsTyped, AtMoves DEF Storage
<1>6. CASE StorageFailed(t) \/ LaunchFails(t) \/ UpFailed(t) \/ StopFailed(t) \/ KillFailed(t)
  BY <1>6, <1>s, ChainsTyped, AtMoves
     DEF StorageFailed, LaunchFails, UpFailed, StopFailed, KillFailed
<1>7. CASE Launch(t)
  <2>1. PICK p \in Pids :
          /\ proc' = [proc EXCEPT ![p].state = "alive", ![p].vm = f.vm]
          /\ processid' = [processid EXCEPT ![f.vm] = p]
          /\ call' = [call EXCEPT ![t] =
                        Walk([f EXCEPT !.pid = p], UpChain(f.restarting),
                             "ok", "upfailed")]
    BY <1>7 DEF Launch
  <2>2. [f EXCEPT !.pid = p] \in Frame
    BY <1>f DEF Frame
  <2>3. GoodFrame(Walk([f EXCEPT !.pid = p], UpChain(f.restarting), "ok", "upfailed"))
    BY <2>2, <1>l, <1>s, StartChainsTyped, WalkGood
  <2>4. proc' \in [Pids -> Process]
    <3> DEFINE r == proc[p]
    <3>1. r \in Process /\ f.vm \in VMs \cup {NoVM}
      BY <1>f DEF PsvInv, PsvTypeOK, Frame
    <3>2. proc' = [proc EXCEPT ![p] = [r EXCEPT !.state = "alive", !.vm = f.vm]]
      BY <2>1 DEF PsvInv, PsvTypeOK
    <3> HIDE DEF r
    <3>3. [r EXCEPT !.state = "alive", !.vm = f.vm] \in Process
      BY <3>1 DEF Process
    <3>4. QED
      BY <3>2, <3>3 DEF PsvInv, PsvTypeOK
  <2>5. processid' \in [VMs -> Pids \cup {NoPid}]
    BY <2>1 DEF PsvInv, PsvTypeOK
  <2>6. QED
    BY <1>7, <2>1, <2>3, <2>4, <2>5, CallMoves DEF Launch, PsvInv, PsvTypeOK
<1>8. CASE Kill(t)
  <2>1. PICK g, h \in Frame, label \in {"ok", "killfailed", "signalled"} :
           g = Jump(h, label) /\ call' = [call EXCEPT ![t] = g]
    BY <1>8, KillMoves
  <2>2. GoodFrame(g)
    BY <1>s, <2>1, JumpGood
  <2>3. \A q \in Pids : [proc[q] EXCEPT !.term = TRUE] \in Process
    <3>1. \A r \in Process : [r EXCEPT !.term = TRUE] \in Process
      BY DEF Process
    <3>2. QED
      BY <3>1 DEF PsvInv, PsvTypeOK
  <2>4. proc' \in [Pids -> Process]
    BY <1>8, <2>3 DEF Kill, PsvInv, PsvTypeOK
  <2>5. QED
    BY <1>8, <2>1, <2>2, <2>4, CallMoves DEF Kill, PsvInv, PsvTypeOK
<1>12. CASE Signalled(t)
  <2>1. GoodFrame(Jump(f, "ok"))
    BY <1>f, <1>s, JumpGood
  <2>2. QED
    BY <1>12, <2>1, CallMoves DEF Signalled, PsvInv, PsvTypeOK
<1>9. CASE ExitCode(t)
  <2>1. GoodFrame(Walk(f, FailChain, "clear", "clear")) /\ GoodFrame(Jump(f, "ok"))
    BY <1>f, <1>s, ChainsTyped, WalkGood, JumpGood
  <2>2. PICK g : GoodFrame(g) /\ call' = [call EXCEPT ![t] = g]
    BY <1>9, <2>1 DEF ExitCode
  <2>3. QED
    BY <1>9, <2>2, CallMoves DEF ExitCode, PsvInv, PsvTypeOK
<1>10. CASE ClearPid(t)
  <2>1. GoodFrame(Jump(f, "ok"))
    BY <1>f, <1>s, JumpGood
  <2>2. processid' \in [VMs -> Pids \cup {NoPid}]
    BY <1>10 DEF ClearPid, PsvInv, PsvTypeOK
  <2>3. QED
    BY <1>10, <2>1, <2>2, CallMoves DEF ClearPid, PsvInv, PsvTypeOK
<1>11. QED
  BY <1>1, <1>2, <1>3, <1>4, <1>5, <1>6, <1>7, <1>8, <1>9, <1>10, <1>12 DEF Step

(* The initial state. *)
LEMMA InitTyped == PsvInit => PsvInv
<1>1. Idle \in Frame /\ Walks(Idle)
  BY IdleGood DEF GoodFrame
<1>2. Unforked \in Process
  BY DEF Unforked, Process
<1>3. "INIT" \in States
  BY DEF States
<1>4. QED
  BY <1>1, <1>2, <1>3 DEF PsvInit, PsvInv, PsvTypeOK

-----------------------------------------------------------------------------
(* What a step does to the processes and to the frame. *)

StartLabels == { "lookup", "enter", "idle", "undo", "storage", "storagefailed",
                 "launch", "upfailed", "ok", "err" }

(* A frame of psv_startvm: success implies that a process was launched. *)
StartFrame(f) ==
    /\ {f.pc, f.then, f.else} \subseteq StartLabels
    /\ f.pid \notin Pids => "ok" \notin {f.pc, f.then, f.else}

SameProcess(p) == proc'[p].state = proc[p].state /\ proc'[p].vm = proc[p].vm

(* Frame f becomes g; nothing is launched, or the process that g names. *)
LaunchesOnly(f, g) ==
    \/ /\ g.pid = f.pid
       /\ \A p \in Pids : SameProcess(p)
    \/ /\ g.pid \in Pids
       /\ proc[g.pid].state = "free"
       /\ proc'[g.pid].state = "alive" /\ proc'[g.pid].vm = f.vm
       /\ \A p \in Pids \ {g.pid} : SameProcess(p)

FrameStep(t, g) ==
    /\ g \in Frame
    /\ call' = [call EXCEPT ![t] = g]
    /\ call[t].pc # "idle"
    /\ g.vm = call[t].vm
    /\ StartFrame(call[t]) => StartFrame(g)
    /\ LaunchesOnly(call[t], g)

LEMMA JumpFacts ==
    ASSUME NEW f \in Frame, NEW label \in Stops
    PROVE  /\ Jump(f, label) \in Frame
           /\ Jump(f, label).pc = label
           /\ Jump(f, label).then = "idle" /\ Jump(f, label).else = "idle"
           /\ Jump(f, label).vm = f.vm /\ Jump(f, label).pid = f.pid
<1>1. Jump(f, label) \in Frame
  BY JumpGood DEF GoodFrame
<1>2. QED
  BY <1>1 DEF Jump, Frame

LEMMA WalkFacts ==
    ASSUME NEW f \in Frame, NEW chain \in Seq(States), chain # << >>,
           NEW then \in Stops, NEW else \in Stops
    PROVE  LET g == Walk(f, chain, then, else) IN
           /\ g \in Frame
           /\ g.pc = "lookup" /\ g.then = then /\ g.else = else
           /\ g.vm = f.vm /\ g.pid = f.pid
<1>1. Walk(f, chain, then, else) \in Frame
  BY WalkGood DEF GoodFrame
<1>2. QED
  BY <1>1 DEF Walk, Frame

LEMMA AtFrameStep ==
    ASSUME PsvInv, NEW t \in Threads, NEW label \in Stops \ {"idle"},
           NEW chain \in Seq(States), chain # << >>,
           NEW then \in Stops, NEW else \in Stops,
           At(t, label, chain, then, else),
           label \in StartLabels =>
               {then, else} \subseteq StartLabels \ {"ok"}
    PROVE  \E g : FrameStep(t, g)
<1> DEFINE f == call[t]
           g == Walk(f, chain, then, else)
<1>1. f \in Frame /\ f.pc = label
  BY DEF PsvInv, PsvTypeOK, At
<1>2. /\ g \in Frame
      /\ g.pc = "lookup" /\ g.then = then /\ g.else = else
      /\ g.vm = f.vm /\ g.pid = f.pid
  BY <1>1, WalkFacts
<1>3. StartFrame(f) => StartFrame(g)
  BY <1>1, <1>2 DEF StartFrame, StartLabels
<1>4. LaunchesOnly(f, g)
  BY <1>2 DEF At, LaunchesOnly, SameProcess
<1>5. QED
  BY <1>1, <1>2, <1>3, <1>4 DEF At, FrameStep

(***************************************************************************)
(* Every step inside an operation stays with its VM, and the only thing it *)
(* does to the set of processes is to launch one, whose pid the frame then *)
(* carries.                                                                *)
(***************************************************************************)
LEMMA StepEffect ==
    ASSUME PsvInv, NEW t \in Threads, OfVM(t), Step(t)
    PROVE  \E g : FrameStep(t, g)
<1> DEFINE f == call[t]
<1>f. f \in Frame /\ Walks(f)
  BY DEF PsvInv, PsvTypeOK
<1>l. /\ f.then \in Stops /\ f.else \in Stops
      /\ f.restarting \in BOOLEAN
      /\ f.todo \in Seq(States)
  BY <1>f DEF Frame
<1>s. {"undo", "storage", "storagefailed", "launch", "upfailed", "stopfailed",
       "kill", "killfailed", "signalled", "clear", "exitcode", "ok", "err"} \subseteq Stops \ {"idle"}
  BY DEF Stops
<1>n. ASSUME NEW g \in Frame, g.vm = f.vm, g.pid = f.pid, f.pc # "idle",
             StartFrame(f) => StartFrame(g),
             call' = [call EXCEPT ![t] = g],
             \A p \in Pids : SameProcess(p)
      PROVE  FrameStep(t, g)
  BY <1>n DEF FrameStep, LaunchesOnly
<1>u. UNCHANGED proc => \A p \in Pids : SameProcess(p)
  BY DEF SameProcess
<1>j. ASSUME NEW label \in Stops, label \in {f.then, f.else}
      PROVE  StartFrame(f) => StartFrame(Jump(f, label))
  BY <1>f, <1>j, JumpFacts DEF StartFrame, StartLabels
<1>1. CASE Lookup(t)
  <2>1. CASE HasTransition(vmstate[f.vm], Head(f.todo))
    <3> DEFINE g == [f EXCEPT !.pc = "enter"]
    <3>1. /\ g \in Frame /\ g.vm = f.vm /\ g.pid = f.pid /\ g.pc = "enter"
          /\ g.then = f.then /\ g.else = f.else
      BY <1>f, LabelFacts DEF Frame
    <3>2. StartFrame(f) => StartFrame(g)
      BY <3>1 DEF StartFrame, StartLabels
    <3>3. QED
      BY <1>1, <2>1, <3>1, <3>2, <1>n, <1>u DEF Lookup
  <2>2. CASE ~HasTransition(vmstate[f.vm], Head(f.todo))
    BY <1>1, <2>2, <1>f, <1>l, <1>n, <1>u, <1>j, JumpFacts DEF Lookup
  <2>3. QED
    BY <2>1, <2>2
<1>2. CASE Enter(t)
  <2>1. CASE Len(f.todo) = 1
    BY <1>2, <2>1, <1>f, <1>l, <1>n, <1>u, <1>j, JumpFacts DEF Enter
  <2>2. CASE Len(f.todo) # 1
    <3> DEFINE g == [f EXCEPT !.pc = "lookup", !.todo = Tail(f.todo)]
    <3>1. call' = [call EXCEPT ![t] = g]
      BY <1>2, <2>2 DEF Enter
    <3>2. g \in Frame
      <4>1. PsvInv'
        BY StepTyped
      <4>2. call'[t] = g
        BY <3>1 DEF PsvInv, PsvTypeOK
      <4>3. QED
        BY <4>1, <4>2 DEF PsvInv, PsvTypeOK
    <3>3. /\ g.vm = f.vm /\ g.pid = f.pid /\ g.pc = "lookup"
          /\ g.then = f.then /\ g.else = f.else
      BY <1>f DEF Frame
    <3>4. StartFrame(f) => StartFrame(g)
      BY <3>3 DEF StartFrame, StartLabels
    <3>5. QED
      BY <1>2, <3>1, <3>2, <3>3, <3>4, <1>n, <1>u DEF Enter
  <2>3. QED
    BY <2>1, <2>2
<1>3. CASE HookFails(t)
  BY <1>3, <1>f, <1>l, <1>n, <1>u, <1>j, JumpFacts DEF HookFails
<1>4. CASE Undo(t)
  BY <1>4, <1>l, <1>s, StartChainsTyped, AtFrameStep DEF Undo, StartLabels
<1>5. CASE Storage(t)
  <2>1. << StorageState(f.restarting) >> # << >>
    OBVIOUS
  <2>2. QED
    BY <1>5, <1>l, <1>s, <2>1, StartChainsTyped, AtFrameStep DEF Storage, StartLabels
<1>6. CASE StorageFailed(t) \/ LaunchFails(t) \/ UpFailed(t) \/ StopFailed(t) \/ KillFailed(t)
  BY <1>6, <1>s, ChainsTyped, AtFrameStep
     DEF StorageFailed, LaunchFails, UpFailed, StopFailed, KillFailed, StartLabels
<1>7. CASE Launch(t)
  <2>1. PICK p \in Pids :
          /\ proc[p].state = "free"
          /\ proc' = [proc EXCEPT ![p].state = "alive", ![p].vm = f.vm]
          /\ call' = [call EXCEPT ![t] =
                        Walk([f EXCEPT !.pid = p], UpChain(f.restarting),
                             "ok", "upfailed")]
    BY <1>7 DEF Launch
  <2> DEFINE h == [f EXCEPT !.pid = p]
             g == Walk(h, UpChain(f.restarting), "ok", "upfailed")
  <2>2. h \in Frame /\ h.pid = p /\ h.vm = f.vm
    BY <1>f DEF Frame
  <2> HIDE DEF h
  <2>3. /\ g \in Frame /\ g.vm = f.vm /\ g.pid = p
        /\ g.pc = "lookup" /\ g.then = "ok" /\ g.else = "upfailed"
    <3>1. UpChain(f.restarting) \in Seq(States) /\ UpChain(f.restarting) # << >>
      BY <1>l, StartChainsTyped
    <3>2. "ok" \in Stops /\ "upfailed" \in Stops
      BY <1>s
    <3>3. QED
      BY <2>2, <3>1, <3>2, WalkFacts
  <2>4. call' = [call EXCEPT ![t] = g]
    BY <2>1 DEF h
  <2> HIDE DEF g
  <2>5. StartFrame(g)
    BY <2>3 DEF StartFrame, StartLabels
  <2>6. proc'[p].state = "alive" /\ proc'[p].vm = f.vm
    BY <2>1 DEF PsvInv, PsvTypeOK, Process
  <2>7. \A q \in Pids \ {p} : SameProcess(q)
    BY <2>1 DEF SameProcess, PsvInv, PsvTypeOK
  <2>8. LaunchesOnly(f, g)
    BY <2>1, <2>3, <2>6, <2>7 DEF LaunchesOnly
  <2>9. QED
    BY <1>7, <2>3, <2>4, <2>5, <2>8 DEF FrameStep, Launch
<1>8. CASE Kill(t)
  <2>1. PICK g, h \in Frame, label \in {"ok", "killfailed", "signalled"} :
              /\ g = Jump(h, label) /\ call' = [call EXCEPT ![t] = g]
              /\ h.vm = f.vm /\ h.pid = f.pid
    BY <1>8, KillMoves
  <2>2. \A q \in Pids : SameProcess(q)
    <3>1. \A r \in Process : /\ [r EXCEPT !.term = TRUE].state = r.state
                             /\ [r EXCEPT !.term = TRUE].vm = r.vm
      BY DEF Process
    <3>2. QED
      BY <3>1, <1>8 DEF Kill, SameProcess, PsvInv, PsvTypeOK
  <2>3. ~StartFrame(f) /\ f.pc # "idle"
    BY <1>8 DEF Kill, StartFrame, StartLabels
  <2>4. g \in Frame /\ g.vm = f.vm /\ g.pid = f.pid
    <3>1. label \in Stops
      BY <1>s
    <3>2. QED
      BY <2>1, <3>1, JumpFacts
  <2>5. FrameStep(t, g)
    BY <2>1, <2>2, <2>3, <2>4, <1>n
  <2>6. QED
    BY <2>5
<1>12. CASE Signalled(t)
  <2>1. ~StartFrame(f) /\ f.pc # "idle"
    BY <1>12 DEF Signalled, StartFrame, StartLabels
  <2>2. /\ Jump(f, "ok") \in Frame
        /\ Jump(f, "ok").vm = f.vm /\ Jump(f, "ok").pid = f.pid
    BY <1>f, <1>s, JumpFacts
  <2>3. FrameStep(t, Jump(f, "ok"))
    BY <2>1, <2>2, <1>12, <1>n, <1>u DEF Signalled
  <2>4. QED
    BY <2>3
<1>9. CASE ExitCode(t)
  <2>1. ~StartFrame(f) /\ f.pc # "idle"
    BY <1>9 DEF ExitCode, StartFrame, StartLabels
  <2> DEFINE g == Walk(f, FailChain, "clear", "clear")
             h == Jump(f, "ok")
  <2>2. /\ g \in Frame /\ g.vm = f.vm /\ g.pid = f.pid
        /\ h \in Frame /\ h.vm = f.vm /\ h.pid = f.pid
    <3>1. "clear" \in Stops /\ "ok" \in Stops
      BY <1>s
    <3>2. g \in Frame /\ g.vm = f.vm /\ g.pid = f.pid
      <4>1. FailChain \in Seq(States) /\ FailChain # << >>
        BY ChainsTyped
      <4>2. QED
        BY <3>1, <4>1, <1>f, WalkFacts
    <3>3. h \in Frame /\ h.vm = f.vm /\ h.pid = f.pid
      BY <3>1, <1>f, JumpFacts
    <3>4. QED
      BY <3>2, <3>3
  <2>3. call' = [call EXCEPT ![t] = g] \/ call' = [call EXCEPT ![t] = h]
    BY <1>9 DEF ExitCode
  <2>4. \A p \in Pids : SameProcess(p)
    BY <1>9, <1>u DEF ExitCode
  <2> HIDE DEF g, h
  <2>5. FrameStep(t, g) \/ FrameStep(t, h)
    BY <2>1, <2>2, <2>3, <2>4, <1>n
  <2>6. QED
    BY <2>5
<1>10. CASE ClearPid(t)
  <2>1. ~StartFrame(f) /\ f.pc # "idle"
    BY <1>10 DEF ClearPid, StartFrame, StartLabels
  <2>2. /\ Jump(f, "ok") \in Frame
        /\ Jump(f, "ok").vm = f.vm /\ Jump(f, "ok").pid = f.pid
    BY <1>f, <1>s, JumpFacts
  <2>3. FrameStep(t, Jump(f, "ok"))
    BY <2>1, <2>2, <1>10, <1>n, <1>u DEF ClearPid
  <2>4. QED
    BY <2>3
<1>11. QED
  BY <1>1, <1>2, <1>3, <1>4, <1>5, <1>6, <1>7, <1>8, <1>9, <1>10, <1>12 DEF Step

(* The frames that the operations start with are for the VM they are given *)
(* and carry no process.                                                   *)
LEMMA EntryFacts ==
    ASSUME NEW vm \in VMs
    PROVE  /\ Entry(vm) \in Frame
           /\ Entry(vm).vm = vm /\ Entry(vm).pid = NoPid
BY EntryTyped DEF Entry, Idle

LEMMA StartVMFacts ==
    ASSUME NEW vm \in VMs
    PROVE  StartVM(vm).vm = vm /\ StartVM(vm).pid = NoPid /\ StartFrame(StartVM(vm))
<1> DEFINE restarting == vmstate[vm] = "RESTART_STOPPED"
           f == [Entry(vm) EXCEPT !.restarting = restarting]
<1>1. restarting \in BOOLEAN
  OBVIOUS
<1> HIDE DEF restarting
<1>2. f \in Frame /\ f.vm = vm /\ f.pid = NoPid
  <2> DEFINE g == Entry(vm)
  <2>1. g \in Frame /\ g.vm = vm /\ g.pid = NoPid
    BY EntryFacts
  <2> HIDE DEF g
  <2>2. LET h == [g EXCEPT !.restarting = restarting]
        IN  h \in Frame /\ h.vm = g.vm /\ h.pid = g.pid
    BY <1>1, <2>1, ZenonT(60) DEF Frame
  <2>3. QED
    BY <2>1, <2>2 DEF g
<1>3. /\ << PreState(restarting) >> \in Seq(States)
      /\ << PreState(restarting) >> # << >>
  BY <1>1, StartChainsTyped
<1>4. {"storage", "err", "undo"} \subseteq Stops
  BY DEF Stops
<1> HIDE DEF f
<1>5. ASSUME NEW g, g = StartVM(vm)
      PROVE  /\ g.vm = f.vm /\ g.pid = f.pid
             /\ {g.pc, g.then, g.else} \subseteq StartLabels \ {"ok"}
  <2>1. CASE g = Jump(f, "err")
    BY <2>1, <1>2, <1>4, JumpFacts DEF StartLabels
  <2> DEFINE chain == << PreState(restarting) >>
  <2>c. chain \in Seq(States) /\ chain # << >>
    BY <1>3
  <2> HIDE DEF chain
  <2>2. CASE g = Walk(f, chain, "storage", "err")
    <3>1. /\ g.pc = "lookup" /\ g.then = "storage" /\ g.else = "err"
          /\ g.vm = f.vm /\ g.pid = f.pid
      BY <2>2, <1>2, <2>c, <1>4, WalkFacts
    <3>2. QED
      BY <3>1 DEF StartLabels
  <2>3. CASE g = Walk(f, chain, "storage", "undo")
    <3>1. /\ g.pc = "lookup" /\ g.then = "storage" /\ g.else = "undo"
          /\ g.vm = f.vm /\ g.pid = f.pid
      BY <2>3, <1>2, <2>c, <1>4, WalkFacts
    <3>2. QED
      BY <3>1 DEF StartLabels
  <2>4. QED
    BY <1>5, <2>1, <2>2, <2>3 DEF StartVM, f, restarting, chain
<1>6. QED
  BY <1>2, <1>5 DEF StartFrame

=============================================================================
