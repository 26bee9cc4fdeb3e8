--------------------------- MODULE DirectorProofs ---------------------------
(***************************************************************************)
(* Properties of Director for every number of VMs and processes, whatever  *)
(* hooks fail and whatever commands arrive.                                *)
(***************************************************************************)
EXTENDS DirectorProperties, ProcessStateProofs, FiniteSetTheorems, SequenceTheorems,
        WellFoundedInduction

Forked == {p \in Pids : proc[p].state # "free"}

(* Job j and frame f of one thread fit each other, given the processes     *)
(* that were ever forked.                                                  *)
Sound(j, f, forked) ==
    /\ f.pc # "idle" => f.vm \in VMs
    /\ j.at # "rest" => j.vm \in VMs
    /\ j.at = "started" => StartFrame(f)
    /\ j.at = "register" => f.pid \in Pids
    /\ j.at \in {"started", "register"} /\ f.pid \in Pids => f.pid \in forked

BdTypes ==
    /\ job \in [Threads -> Jobs]
    /\ recent \in [VMs -> Stamps]
    /\ rebootlist \in Queues
    /\ rbpc \in {"top", "waiting", "list"}
    /\ toboot \subseteq AutoStart
    /\ watched \subseteq Pids
    /\ kevents \in Seq(Pids)

JobsSound == \A t \in Threads : Sound(job[t], call[t], Forked)

(* The kqueue only knows processes that have a VM. *)
ProcsSound ==
    /\ \A p \in Forked : proc[p].vm \in VMs
    /\ watched \subseteq Forked
    /\ ToSet(kevents) \subseteq Forked

(***************************************************************************)
(* The inductive type invariant.  TypeOK alone is not inductive: a command *)
(* or an event must name a VM before its frame can be typed, the process   *)
(* that bd_startvm probes must exist once psv_startvm returned 0, and a    *)
(* chain that is being walked must not be empty.                           *)
(***************************************************************************)
TypeInv == PsvInv /\ BdTypes /\ JobsSound /\ ProcsSound

LEMMA TypeOfVM == TypeInv => \A t \in Threads : OfVM(t)
BY DEF TypeInv, JobsSound, Sound, OfVM

-----------------------------------------------------------------------------
(* Sequences as sets. *)

LEMMA AppendSet ==
    ASSUME NEW S, NEW s \in Seq(S), NEW e \in S
    PROVE  ToSet(Append(s, e)) = ToSet(s) \cup {e}
<1> DEFINE a == Append(s, e)
<1>1. /\ Len(s) \in Nat /\ DOMAIN s = 1 .. Len(s)
      /\ DOMAIN a = 1 .. (Len(s) + 1)
      /\ a[Len(s) + 1] = e
      /\ \A i \in 1 .. Len(s) : a[i] = s[i]
  OBVIOUS
<1> HIDE DEF a
<1>2. \A x : x \in ToSet(a) => x \in ToSet(s) \cup {e}
  BY <1>1 DEF ToSet
<1>3. \A x : x \in ToSet(s) \cup {e} => x \in ToSet(a)
  BY <1>1 DEF ToSet
<1>4. QED
  BY <1>2, <1>3 DEF a

LEMMA TailSet ==
    ASSUME NEW S, NEW s \in Seq(S), s # << >>
    PROVE  /\ Tail(s) \in Seq(S)
           /\ Head(s) \in ToSet(s)
           /\ ToSet(Tail(s)) \subseteq ToSet(s)
BY DEF ToSet

-----------------------------------------------------------------------------
(* Frames and jobs. *)

LEMMA EntryVMs ==
    ASSUME NEW vm \in VMs, NEW reboot \in BOOLEAN, NEW code \in 0 .. 255
    PROVE  /\ StopVM(vm, reboot).vm = vm
           /\ OnExit(vm, code).vm = vm
           /\ FailureState(vm).vm = vm
           /\ ResetFailure(vm).vm = vm
<1> DEFINE e == Entry(vm)
           c == [e EXCEPT !.code = code]
<1>1. e \in Frame /\ e.vm = vm
  BY EntryFacts
<1>2. \A chain, then, else : Walk(e, chain, then, else).vm = vm
  BY <1>1 DEF Walk, Frame
<1>3. \A label : Jump(e, label).vm = vm
  BY <1>1 DEF Jump, Frame
<1> HIDE DEF e
<1>4. c \in Frame /\ c.vm = vm
  BY <1>1 DEF Frame
<1> HIDE DEF c
<1>5. \A chain, then, else : Walk(c, chain, then, else).vm = vm
  BY <1>4 DEF Walk, Frame
<1>6. \A label : Jump(c, label).vm = vm
  BY <1>4 DEF Jump, Frame
<1>7. StopVM(vm, reboot).vm = vm
  BY <1>2, <1>3 DEF StopVM, e
<1>8. FailureState(vm).vm = vm
  BY <1>2 DEF FailureState, e
<1>9. ResetFailure(vm).vm = vm
  BY <1>2, <1>3 DEF ResetFailure, e
<1>10. OnExit(vm, code).vm = vm
  BY <1>5, <1>6 DEF OnExit, c, e
<1>11. QED
  BY <1>7, <1>8, <1>9, <1>10

(* A thread gets job j and frame g, and no process is forgotten. *)
LEMMA ThreadMoves ==
    ASSUME TypeInv, NEW t \in Threads, NEW j \in Jobs, NEW g,
           job' = [job EXCEPT ![t] = j],
           call' = [call EXCEPT ![t] = g],
           Forked \subseteq Forked',
           Sound(j, g, Forked')
    PROVE  JobsSound'
<1>1. SUFFICES ASSUME NEW u \in Threads
               PROVE  Sound(job'[u], call'[u], Forked')
  BY DEF JobsSound
<1>2. CASE u = t
  BY <1>2 DEF TypeInv, PsvInv, PsvTypeOK, BdTypes
<1>3. CASE u # t
  <2>1. job'[u] = job[u] /\ call'[u] = call[u]
    BY <1>3 DEF TypeInv, PsvInv, PsvTypeOK, BdTypes
  <2>2. Sound(job[u], call[u], Forked)
    BY DEF TypeInv, JobsSound
  <2>3. QED
    BY <2>1, <2>2 DEF Sound
<1>4. QED
  BY <1>2, <1>3

LEMMA GotoMoves ==
    ASSUME TypeInv, NEW t \in Threads, NEW place \in Places, Goto(t, place)
    PROVE  /\ job' = [job EXCEPT ![t] = [at |-> place, vm |-> job[t].vm]]
           /\ [at |-> place, vm |-> job[t].vm] \in Jobs
           /\ job' \in [Threads -> Jobs]
<1>1. job \in [Threads -> Jobs] /\ job[t] \in Jobs
  BY DEF TypeInv, BdTypes
<1>2. [at |-> place, vm |-> job[t].vm] \in Jobs
  BY <1>1 DEF Jobs
<1>3. \A r \in Jobs : [r EXCEPT !.at = place] = [at |-> place, vm |-> r.vm]
  BY DEF Jobs
<1>4. job' = [job EXCEPT ![t] = [at |-> place, vm |-> job[t].vm]]
  BY <1>1, <1>3 DEF Goto
<1>5. QED
  BY <1>1, <1>2, <1>4

(* A thread that is done leaves a sound state behind. *)
LEMMA LeaveMoves ==
    ASSUME TypeInv, NEW t \in Threads, Leaves(t), Forked \subseteq Forked'
    PROVE  /\ JobsSound'
           /\ job' \in [Threads -> Jobs]
           /\ call' \in [Threads -> Frame]
           /\ \A u \in Threads : Walks(call'[u])
<1>1. AtRest \in Jobs
  BY DEF AtRest, Jobs, Places
<1>2. Sound(AtRest, Idle, Forked')
  BY DEF Sound, AtRest, Idle
<1>3. /\ job' = [job EXCEPT ![t] = AtRest]
      /\ call' = [call EXCEPT ![t] = Idle]
  BY DEF Leaves, Runs
<1>4. JobsSound'
  BY <1>1, <1>2, <1>3, ThreadMoves
<1>5. /\ call' \in [Threads -> Frame]
      /\ \A u \in Threads : Walks(call'[u])
  BY <1>3, IdleGood, CallMoves DEF TypeInv
<1>6. QED
  BY <1>1, <1>3, <1>4, <1>5 DEF TypeInv, BdTypes

(* A thread calls an operation of vm. *)
LEMMA CallMovesTo ==
    ASSUME TypeInv, NEW t \in Threads, NEW vm \in VMs,
           NEW place \in {"started", "died", "finish"}, NEW g, GoodFrame(g),
           g.vm = vm,
           place = "started" => StartFrame(g) /\ g.pid = NoPid,
           job' = [job EXCEPT ![t] = [at |-> place, vm |-> vm]],
           call' = [call EXCEPT ![t] = g],
           Forked \subseteq Forked'
    PROVE  /\ JobsSound'
           /\ job' \in [Threads -> Jobs]
           /\ call' \in [Threads -> Frame]
           /\ \A u \in Threads : Walks(call'[u])
<1> DEFINE j == [at |-> place, vm |-> vm]
<1>1. j \in Jobs /\ j.at = place /\ j.vm = vm
  BY DEF Jobs, Places
<1>2. NoPid \notin Pids
  BY ConstantsAssumption
<1>3. Sound(j, g, Forked')
  BY <1>1, <1>2 DEF Sound
<1>4. JobsSound'
  BY <1>1, <1>3, ThreadMoves
<1>5. /\ call' \in [Threads -> Frame]
      /\ \A u \in Threads : Walks(call'[u])
  BY CallMoves DEF TypeInv
<1>6. QED
  BY <1>1, <1>4, <1>5 DEF TypeInv, BdTypes

-----------------------------------------------------------------------------
(* The reboot list. *)

LEMMA EmptyQueueTyped == EmptyQueue \in Queues
BY DEF EmptyQueue, Queues

LEMMA InsertTyped ==
    ASSUME NEW q \in Queues, NEW vm \in VMs
    PROVE  InsertTail(q, vm) \in Queues
BY DEF InsertTail, Queues

LEMMA RemoveTyped ==
    ASSUME NEW q \in Queues, q.first # NoVM
    PROVE  RemoveHead(q) \in Queues
BY DEF RemoveHead, Queues

-----------------------------------------------------------------------------
(* One lemma per group of actions. *)

LEMMA StepTypeInv ==
    ASSUME TypeInv, NEW t \in Threads, Step(t), UNCHANGED bdvars
    PROVE  TypeInv'
<1>1. PsvInv'
  BY StepTyped, TypeOfVM DEF TypeInv
<1>2. BdTypes'
  BY DEF TypeInv, BdTypes, bdvars
<1>3. PICK g : FrameStep(t, g)
  BY StepEffect, TypeOfVM DEF TypeInv
<1>4. call[t] \in Frame /\ job[t] \in Jobs /\ Sound(job[t], call[t], Forked)
  BY DEF TypeInv, PsvInv, PsvTypeOK, BdTypes, JobsSound
<1>5. Forked \subseteq Forked' /\ (g.pid \in Pids => g.pid \in Forked' \/ g.pid = call[t].pid)
  BY <1>3 DEF FrameStep, LaunchesOnly, SameProcess, Forked
<1>6. Sound(job[t], g, Forked')
  <2>1. call[t].vm \in VMs /\ g.vm = call[t].vm
    BY <1>3, <1>4 DEF FrameStep, Sound
  <2>2. StartFrame(call[t]) => StartFrame(g)
    BY <1>3 DEF FrameStep
  <2>3. call[t].pid \in Pids => g.pid \in Pids
    BY <1>3 DEF FrameStep, LaunchesOnly
  <2>4. QED
    BY <1>4, <1>5, <2>1, <2>2, <2>3 DEF Sound
<1>7. JobsSound'
  <2>1. job' = [job EXCEPT ![t] = job[t]]
    BY DEF TypeInv, BdTypes, bdvars
  <2>2. call' = [call EXCEPT ![t] = g]
    BY <1>3 DEF FrameStep
  <2>3. QED
    BY <1>4, <1>5, <1>6, <2>1, <2>2, ThreadMoves
<1>8. ProcsSound'
  <2>1. \A p \in Forked' : proc'[p].vm \in VMs
    <3>1. SUFFICES ASSUME NEW p \in Forked' PROVE proc'[p].vm \in VMs
      OBVIOUS
    <3>2. p \in Pids
      BY DEF Forked
    <3>3. CASE SameProcess(p)
      <4>1. p \in Forked
        BY <3>1, <3>2, <3>3 DEF SameProcess, Forked
      <4>2. QED
        BY <3>3, <4>1 DEF SameProcess, TypeInv, ProcsSound
    <3>4. CASE ~SameProcess(p)
      <4>1. proc'[p].vm = call[t].vm
        BY <1>3, <3>2, <3>4 DEF FrameStep, LaunchesOnly
      <4>2. call[t].vm \in VMs
        BY <1>3, <1>4 DEF FrameStep, Sound
      <4>3. QED
        BY <4>1, <4>2
    <3>5. QED
      BY <3>3, <3>4
  <2>2. QED
    BY <2>1, <1>5 DEF TypeInv, ProcsSound, bdvars
<1>9. QED
  BY <1>1, <1>2, <1>7, <1>8 DEF TypeInv

(* bd_startvm *)
LEMMA BdStartTypeInv ==
    ASSUME TypeInv, NEW t \in Threads, NEW vm \in VMs, BdStart(t, vm),
           rebootlist' \in Queues, rbpc' \in {"top", "waiting", "list"},
           toboot' \subseteq toboot
    PROVE  TypeInv'
<1> DEFINE j == [at |-> "count", vm |-> vm]
<1>1. j \in Jobs /\ j.at = "count" /\ j.vm = vm
  BY DEF Jobs, Places
<1>2. Forked' = Forked
  BY DEF BdStart, psvvars, Forked
<1>3. call' = [call EXCEPT ![t] = call[t]]
  BY DEF BdStart, psvvars, TypeInv, PsvInv, PsvTypeOK
<1>4. Sound(j, call[t], Forked')
  BY <1>1, <1>2 DEF TypeInv, JobsSound, Sound
<1>5. JobsSound'
  BY <1>1, <1>2, <1>3, <1>4, ThreadMoves DEF BdStart
<1>6. BdTypes'
  BY <1>1 DEF TypeInv, BdTypes, BdStart
<1>7. PsvInv'
  BY DEF TypeInv, PsvInv, PsvTypeOK, BdStart, psvvars
<1>8. ProcsSound'
  BY <1>2 DEF TypeInv, ProcsSound, BdStart, psvvars
<1>9. QED
  BY <1>5, <1>6, <1>7, <1>8 DEF TypeInv

(* What a step of bd_startvm leaves to be shown, when it neither forks nor *)
(* collects a process.                                                     *)
LEMMA QuietStep ==
    ASSUME TypeInv,
           UNCHANGED << vmstate, processid, proc, rebootlist, rbpc, toboot,
                        watched, kevents >>,
           recent' \in [VMs -> Stamps],
           JobsSound', job' \in [Threads -> Jobs], call' \in [Threads -> Frame],
           \A u \in Threads : Walks(call'[u])
    PROVE  TypeInv'
<1>1. Forked' = Forked
  BY DEF Forked
<1>2. QED
  BY <1>1 DEF TypeInv, PsvInv, PsvTypeOK, BdTypes, ProcsSound

(* A job goes on to a place where nothing is asked of its frame. *)
LEMMA GotoQuiet ==
    ASSUME TypeInv, NEW t \in Threads, job[t].at # "rest",
           NEW place \in {"stamp", "generate"}, Goto(t, place),
           UNCHANGED << vmstate, processid, proc, call, rebootlist, rbpc, toboot,
                        watched, kevents >>,
           recent' \in [VMs -> Stamps]
    PROVE  TypeInv'
<1> DEFINE j == [at |-> place, vm |-> job[t].vm]
<1>1. place \in Places
  BY DEF Places
<1>2. /\ job' = [job EXCEPT ![t] = j] /\ j \in Jobs
      /\ job' \in [Threads -> Jobs]
  BY <1>1, GotoMoves
<1>3. Forked' = Forked
  BY DEF Forked
<1>4. call' = [call EXCEPT ![t] = call[t]] /\ call' = call
  BY DEF TypeInv, PsvInv, PsvTypeOK
<1>5. Sound(j, call[t], Forked')
  BY <1>3 DEF TypeInv, JobsSound, Sound
<1>6. JobsSound'
  BY <1>2, <1>3, <1>4, <1>5, ThreadMoves
<1>7. QED
  BY <1>2, <1>4, <1>6, QuietStep DEF TypeInv, PsvInv, PsvTypeOK

(* A job calls the next operation of its VM. *)
LEMMA GotoCalls ==
    ASSUME TypeInv, NEW t \in Threads, job[t].at # "rest",
           NEW place \in {"started", "died", "finish"}, Goto(t, place),
           NEW g, Runs(t, g), GoodFrame(g), g.vm = job[t].vm,
           place = "started" => StartFrame(g) /\ g.pid = NoPid,
           Forked \subseteq Forked'
    PROVE  /\ JobsSound'
           /\ job' \in [Threads -> Jobs]
           /\ call' \in [Threads -> Frame]
           /\ \A u \in Threads : Walks(call'[u])
<1>1. place \in Places
  BY DEF Places
<1>2. job' = [job EXCEPT ![t] = [at |-> place, vm |-> job[t].vm]]
  BY <1>1, GotoMoves
<1>3. job[t].vm \in VMs
  BY DEF TypeInv, JobsSound, Sound
<1>4. QED
  BY <1>2, <1>3, CallMovesTo DEF Runs

LEMMA ForkedKept == UNCHANGED proc => Forked \subseteq Forked'
BY DEF Forked

(* bwv_is_countfail, whatever the list of stamps comes to. *)
LEMMA CountMoves ==
    ASSUME TypeInv, NEW t \in Threads, CountFail(t)
    PROVE  /\ job[t].at = "count" /\ job[t].vm \in VMs /\ recent' \in [VMs -> Stamps]
           /\ UNCHANGED << vmstate, processid, proc, watched, kevents >>
           /\ \/ Goto(t, "finish") /\ Runs(t, FailureState(job[t].vm))
              \/ Goto(t, "stamp") /\ UNCHANGED call
<1>1. job[t].at = "count" /\ UNCHANGED << vmstate, processid, proc, watched, kevents >>
  BY DEF CountFail
<1>2. job[t].vm \in VMs
  BY <1>1 DEF TypeInv, JobsSound, Sound
<1>3. recent \in [VMs -> Stamps] /\ recent[job[t].vm] \in Stamps
  BY <1>2 DEF TypeInv, BdTypes
<1> DEFINE raced == recent[job[t].vm].raced \/ Racing(t)
<1>4. PICK n \in 0 .. recent[job[t].vm].count : \E kept \in 0 .. n :
         /\ recent' = [recent EXCEPT ![job[t].vm] = [count |-> kept, raced |-> raced]]
         /\ IF n > MaxRestart
            THEN Goto(t, "finish") /\ Runs(t, FailureState(job[t].vm))
            ELSE Goto(t, "stamp") /\ UNCHANGED call
  BY DEF CountFail
<1>5. raced \in BOOLEAN
  BY <1>3, Zenon DEF Stamps, Racing
<1> HIDE DEF raced
<1>6. recent' \in [VMs -> Stamps]
  <2>1. recent[job[t].vm].count \in Nat
    BY <1>3 DEF Stamps
  <2>2. \A k \in Nat : [count |-> k, raced |-> raced] \in Stamps
    BY <1>5 DEF Stamps
  <2>3. \A k \in 0 .. n : k \in Nat
    BY <1>4, <2>1
  <2>4. QED
    BY <1>3, <1>4, <2>2, <2>3
<1>7. QED
  BY <1>1, <1>2, <1>4, <1>6

(* bwv_timestamp, whether the stamp is lost or not. *)
LEMMA StampMoves ==
    ASSUME TypeInv, NEW t \in Threads, Stamp(t)
    PROVE  /\ job[t].at = "stamp" /\ job[t].vm \in VMs /\ recent' \in [VMs -> Stamps]
           /\ UNCHANGED << vmstate, processid, proc, watched, kevents >>
           /\ \/ vmstate[job[t].vm] = "FAILED" /\ Leaves(t) /\ UNCHANGED recent
              \/ vmstate[job[t].vm] # "FAILED" /\ Goto(t, "generate") /\ UNCHANGED call
<1>1. job[t].at = "stamp" /\ UNCHANGED << vmstate, processid, proc, watched, kevents >>
  BY DEF Stamp
<1>2. job[t].vm \in VMs
  BY <1>1 DEF TypeInv, JobsSound, Sound
<1>3. recent \in [VMs -> Stamps] /\ recent[job[t].vm] \in Stamps
  BY <1>2 DEF TypeInv, BdTypes
<1>4. CASE vmstate[job[t].vm] = "FAILED"
  BY <1>1, <1>2, <1>3, <1>4 DEF Stamp
<1>5. CASE vmstate[job[t].vm] # "FAILED"
  <2> DEFINE raced == recent[job[t].vm].raced \/ Racing(t)
  <2>1. PICK n \in {recent[job[t].vm].count, recent[job[t].vm].count + 1} :
           recent' = [recent EXCEPT ![job[t].vm] = [count |-> n, raced |-> raced]]
    BY <1>5 DEF Stamp
  <2>2. raced \in BOOLEAN
    BY <1>3, Zenon DEF Stamps, Racing
  <2> HIDE DEF raced
  <2>3. recent' \in [VMs -> Stamps]
    <3>1. n \in Nat
      BY <1>3, <2>1 DEF Stamps
    <3>2. [count |-> n, raced |-> raced] \in Stamps
      BY <2>2, <3>1 DEF Stamps
    <3>3. QED
      BY <1>3, <2>1, <3>2
  <2>4. Goto(t, "generate") /\ UNCHANGED call
    BY <1>5 DEF Stamp
  <2>5. QED
    BY <1>1, <1>2, <1>5, <2>3, <2>4
<1>6. QED
  BY <1>4, <1>5

LEMMA BdStepTypeInv ==
    ASSUME TypeInv, NEW t \in Threads, BdStep(t),
           UNCHANGED << rebootlist, rbpc, toboot >>
    PROVE  TypeInv'
<1> DEFINE vm == job[t].vm
           p == call[t].pid
<1>t. /\ recent \in [VMs -> Stamps]
      /\ MaxRestart \in Nat
      /\ proc \in [Pids -> Process]
  BY DirectorAssumption DEF TypeInv, BdTypes, PsvInv, PsvTypeOK
<1>v. job[t].at # "rest" => vm \in VMs
  BY DEF TypeInv, JobsSound, Sound
<1>f. vm \in VMs => GoodFrame(FailureState(vm)) /\ FailureState(vm).vm = vm
  <2>1. FALSE \in BOOLEAN /\ 0 \in 0 .. 255
    OBVIOUS
  <2>2. QED
    BY <2>1, FailureStateGood, EntryVMs
<1>p. {"stamp", "generate"} \subseteq Places /\ {"started", "died", "finish", "register"} \subseteq Places
  BY DEF Places
<1>1. CASE CountFail(t)
  <2>1. /\ job[t].at # "rest" /\ vm \in VMs /\ recent' \in [VMs -> Stamps]
        /\ UNCHANGED << vmstate, processid, proc, watched, kevents >>
        /\ \/ Goto(t, "finish") /\ Runs(t, FailureState(vm))
           \/ Goto(t, "stamp") /\ UNCHANGED call
    BY <1>1, CountMoves
  <2>2. CASE Goto(t, "finish") /\ Runs(t, FailureState(vm))
    <3>1. /\ JobsSound' /\ job' \in [Threads -> Jobs] /\ call' \in [Threads -> Frame]
          /\ \A u \in Threads : Walks(call'[u])
      BY <2>1, <2>2, <1>f, ForkedKept, GotoCalls
    <3>2. QED
      BY <2>1, <3>1, QuietStep
  <2>3. CASE Goto(t, "stamp") /\ UNCHANGED call
    BY <2>1, <2>3, GotoQuiet
  <2>4. QED
    BY <2>1, <2>2, <2>3
<1>2. CASE Stamp(t)
  <2>1. /\ job[t].at # "rest" /\ vm \in VMs /\ recent' \in [VMs -> Stamps]
        /\ UNCHANGED << vmstate, processid, proc, watched, kevents >>
        /\ Leaves(t) \/ (Goto(t, "generate") /\ UNCHANGED call)
    BY <1>2, StampMoves
  <2>2. CASE Leaves(t)
    <3>1. /\ JobsSound' /\ job' \in [Threads -> Jobs] /\ call' \in [Threads -> Frame]
          /\ \A u \in Threads : Walks(call'[u])
      BY <2>1, <2>2, ForkedKept, LeaveMoves
    <3>2. QED
      BY <2>1, <3>1, QuietStep
  <2>3. CASE Goto(t, "generate") /\ UNCHANGED call
    BY <2>1, <2>3, GotoQuiet
  <2>4. QED
    BY <2>1, <2>2, <2>3
<1>3. CASE Generate(t)
  <2>1. job[t].at # "rest" /\ vm \in VMs /\ recent' \in [VMs -> Stamps]
    BY <1>3, <1>v, <1>t DEF Generate
  <2>2. CASE Goto(t, "started") /\ Runs(t, StartVM(vm))
    <3>1. /\ GoodFrame(StartVM(vm)) /\ StartVM(vm).vm = vm
          /\ StartFrame(StartVM(vm)) /\ StartVM(vm).pid = NoPid
      BY <2>1, StartVMGood, StartVMFacts
    <3>2. /\ JobsSound' /\ job' \in [Threads -> Jobs] /\ call' \in [Threads -> Frame]
          /\ \A u \in Threads : Walks(call'[u])
      BY <1>3, <2>1, <2>2, <3>1, ForkedKept, GotoCalls DEF Generate
    <3>3. QED
      BY <1>3, <2>1, <3>2, QuietStep DEF Generate
  <2>3. CASE Goto(t, "finish") /\ Runs(t, FailureState(vm))
    <3>1. /\ JobsSound' /\ job' \in [Threads -> Jobs] /\ call' \in [Threads -> Frame]
          /\ \A u \in Threads : Walks(call'[u])
      BY <1>3, <2>1, <2>3, <1>f, ForkedKept, GotoCalls DEF Generate
    <3>2. QED
      BY <1>3, <2>1, <3>1, QuietStep DEF Generate
  <2>4. QED
    BY <1>3, <2>2, <2>3 DEF Generate
<1>4. CASE StartFailed(t) \/ Finish(t)
  <2>1. /\ Leaves(t)
        /\ UNCHANGED << vmstate, processid, proc, recent, watched, kevents >>
    BY <1>4 DEF StartFailed, Finish
  <2>2. /\ JobsSound' /\ job' \in [Threads -> Jobs] /\ call' \in [Threads -> Frame]
        /\ \A u \in Threads : Walks(call'[u])
    BY <2>1, ForkedKept, LeaveMoves
  <2>3. QED
    BY <2>1, <2>2, <1>t, QuietStep
<1>5. CASE Died(t)
  <2>1. job[t].at # "rest" /\ vm \in VMs /\ recent' \in [VMs -> Stamps]
    BY <1>5, <1>v, <1>t DEF Died
  <2>2. CASE Leaves(t)
    <3>1. /\ JobsSound' /\ job' \in [Threads -> Jobs] /\ call' \in [Threads -> Frame]
          /\ \A u \in Threads : Walks(call'[u])
      BY <1>5, <2>2, ForkedKept, LeaveMoves DEF Died
    <3>2. QED
      BY <1>5, <2>1, <3>1, QuietStep DEF Died
  <2>3. CASE Goto(t, "finish") /\ Runs(t, FailureState(vm))
    <3>1. /\ JobsSound' /\ job' \in [Threads -> Jobs] /\ call' \in [Threads -> Frame]
          /\ \A u \in Threads : Walks(call'[u])
      BY <1>5, <2>1, <2>3, <1>f, ForkedKept, GotoCalls DEF Died
    <3>2. QED
      BY <1>5, <2>1, <3>1, QuietStep DEF Died
  <2>4. QED
    BY <1>5, <2>2, <2>3 DEF Died
<1>6. CASE Probe(t)
  <2>1. job[t].at = "started" /\ vm \in VMs
    BY <1>6, <1>v DEF Probe
  <2>2. p \in Pids /\ p \in Forked
    <3>1. StartFrame(call[t]) /\ call[t].pc = "ok"
      BY <1>6, <2>1 DEF Probe, TypeInv, JobsSound, Sound
    <3>2. p \in Pids
      BY <3>1 DEF StartFrame
    <3>3. QED
      BY <2>1, <3>2 DEF TypeInv, JobsSound, Sound
  <2>3. CASE proc[p].state = "zombie"
    <3>1. /\ proc' = [proc EXCEPT ![p].state = "reaped"]
          /\ Goto(t, "died") /\ Runs(t, OnExit(vm, proc[p].code))
      BY <1>6, <2>3 DEF Probe
    <3>2. proc[p] \in Process /\ proc[p].code \in 0 .. 255
      BY <1>t, <2>2 DEF Process
    <3>3. /\ GoodFrame(OnExit(vm, proc[p].code))
          /\ OnExit(vm, proc[p].code).vm = vm
      <4>1. FALSE \in BOOLEAN
        OBVIOUS
      <4>2. QED
        BY <2>1, <3>2, <4>1, OnExitGood, EntryVMs
    <3>4. /\ proc' \in [Pids -> Process]
          /\ \A q \in Pids : proc'[q].vm = proc[q].vm
          /\ \A q \in Pids : proc'[q].state # "free" <=> proc[q].state # "free"
      <4>1. \A x \in Process : /\ [x EXCEPT !.state = "reaped"] \in Process
                               /\ [x EXCEPT !.state = "reaped"].vm = x.vm
                               /\ [x EXCEPT !.state = "reaped"].state = "reaped"
        BY DEF Process
      <4>2. proc' = [proc EXCEPT ![p] = [proc[p] EXCEPT !.state = "reaped"]]
        BY <1>t, <3>1
      <4>3. QED
        BY <1>t, <2>2, <2>3, <3>2, <4>1, <4>2
    <3>5. Forked' = Forked
      BY <3>4 DEF Forked
    <3>6. /\ JobsSound' /\ job' \in [Threads -> Jobs] /\ call' \in [Threads -> Frame]
          /\ \A u \in Threads : Walks(call'[u])
      BY <2>1, <3>1, <3>3, <3>5, GotoCalls
    <3>7. ProcsSound'
      BY <1>6, <3>4, <3>5 DEF Probe, TypeInv, ProcsSound, Forked
    <3>8. QED
      BY <1>6, <3>4, <3>6, <3>7 DEF Probe, TypeInv, PsvInv, PsvTypeOK, BdTypes
  <2>4. CASE proc[p].state # "zombie"
    <3> DEFINE j == [at |-> "register", vm |-> job[t].vm]
    <3>1. Goto(t, "register") /\ UNCHANGED << proc, call >>
      BY <1>6, <2>4 DEF Probe
    <3>2. job' = [job EXCEPT ![t] = j] /\ j \in Jobs /\ job' \in [Threads -> Jobs]
      BY <1>p, <3>1, GotoMoves
    <3>3. call' = [call EXCEPT ![t] = call[t]] /\ Forked' = Forked
      BY <3>1 DEF TypeInv, PsvInv, PsvTypeOK, Forked
    <3>4. Sound(j, call[t], Forked')
      BY <2>1, <2>2, <3>3 DEF TypeInv, JobsSound, Sound
    <3>5. JobsSound'
      BY <3>2, <3>3, <3>4, ThreadMoves
    <3>6. QED
      BY <1>6, <1>t, <3>1, <3>2, <3>5, QuietStep DEF Probe, TypeInv, PsvInv, PsvTypeOK
  <2>5. QED
    BY <2>3, <2>4
<1>7. CASE Register(t)
  <2>1. p \in Pids /\ p \in Forked
    BY <1>7 DEF Register, TypeInv, JobsSound, Sound
  <2>2. /\ JobsSound' /\ job' \in [Threads -> Jobs] /\ call' \in [Threads -> Frame]
        /\ \A u \in Threads : Walks(call'[u])
    BY <1>7, ForkedKept, LeaveMoves DEF Register
  <2>3. /\ watched' \subseteq Pids /\ kevents' \in Seq(Pids)
        /\ watched' \subseteq Forked /\ ToSet(kevents') \subseteq Forked
    <3>1. /\ watched \subseteq Pids /\ kevents \in Seq(Pids)
          /\ watched \subseteq Forked /\ ToSet(kevents) \subseteq Forked
      BY DEF TypeInv, BdTypes, ProcsSound
    <3>2. CASE proc[p].state = "alive"
      BY <1>7, <2>1, <3>1, <3>2 DEF Register
    <3>3. CASE proc[p].state # "alive"
      <4>1. kevents' = Append(kevents, p) /\ UNCHANGED watched
        BY <1>7, <3>3 DEF Register
      <4>2. kevents' \in Seq(Pids) /\ ToSet(kevents') = ToSet(kevents) \cup {p}
        BY <2>1, <3>1, <4>1, AppendSet
      <4>3. QED
        BY <2>1, <3>1, <4>1, <4>2
    <3>4. QED
      BY <3>2, <3>3
  <2>4. Forked' = Forked
    BY <1>7 DEF Register, Forked
  <2>5. QED
    BY <1>7, <2>2, <2>3, <2>4
       DEF Register, TypeInv, PsvInv, PsvTypeOK, BdTypes, ProcsSound
<1>8. QED
  BY <1>1, <1>2, <1>3, <1>4, <1>5, <1>6, <1>7 DEF BdStep

(* bd_requestreboot *)
LEMMA RequestTypeInv ==
    ASSUME TypeInv, NEW t \in Threads, RequestReboot(t)
    PROVE  TypeInv'
<1> DEFINE f == call[t]
           g == Requested(f, TRUE)
<1>1. f \in Frame /\ f.pc = "request" /\ f.vm \in VMs
  BY DEF RequestReboot, TypeInv, PsvInv, PsvTypeOK, JobsSound, Sound
<1>2. GoodFrame(g)
  BY <1>1, RequestedGood
<1>3. g.vm = f.vm /\ g.pid = f.pid
  BY <1>1 DEF Requested, Jump, Frame
<1>4. ~StartFrame(f)
  BY <1>1 DEF StartFrame, StartLabels
<1>5. Sound(job[t], g, Forked')
  BY <1>1, <1>3, <1>4 DEF TypeInv, JobsSound, Sound, RequestReboot, Forked
<1>6. /\ job' = [job EXCEPT ![t] = job[t]] /\ job[t] \in Jobs
      /\ call' = [call EXCEPT ![t] = g]
  BY DEF RequestReboot, Runs, TypeInv, BdTypes
<1>7. Forked' = Forked
  BY DEF RequestReboot, Forked
<1>8. JobsSound'
  BY <1>5, <1>6, <1>7, ThreadMoves
<1>9. PsvInv'
  BY <1>2, <1>6, CallMoves DEF TypeInv, PsvInv, PsvTypeOK, RequestReboot
<1>10. BdTypes'
  BY <1>1, InsertTyped DEF TypeInv, BdTypes, RequestReboot
<1>11. ProcsSound'
  BY <1>7 DEF TypeInv, ProcsSound, RequestReboot
<1>12. QED
  BY <1>8, <1>9, <1>10, <1>11 DEF TypeInv

(* An operation is called by a thread that has no job. *)
LEMMA CallsTypeInv ==
    ASSUME TypeInv, NEW t \in Threads, NEW vm \in VMs, NEW f, GoodFrame(f),
           f.vm = vm, Calls(t, vm, f),
           UNCHANGED << rebootlist, rbpc, toboot, watched >>,
           kevents' \in Seq(Pids), ToSet(kevents') \subseteq Forked
    PROVE  TypeInv'
<1>1. Forked' = Forked
  BY DEF Calls, Forked
<1>2. /\ JobsSound' /\ job' \in [Threads -> Jobs] /\ call' \in [Threads -> Frame]
      /\ \A u \in Threads : Walks(call'[u])
  BY <1>1, CallMovesTo DEF Calls, Runs
<1>3. QED
  BY <1>1, <1>2 DEF Calls, TypeInv, PsvInv, PsvTypeOK, BdTypes, ProcsSound

LEMMA CommandTypeInv == TypeInv /\ Command => TypeInv'
<1>1. SUFFICES ASSUME TypeInv, Command PROVE TypeInv'
  OBVIOUS
<1>2. "cmd" \in Threads
  BY DirectorAssumption
<1>3. /\ rebootlist \in Queues /\ rbpc \in {"top", "waiting", "list"}
      /\ kevents \in Seq(Pids) /\ ToSet(kevents) \subseteq Forked
  BY <1>1 DEF TypeInv, BdTypes, ProcsSound
<1>4. PICK vm \in VMs :
        /\ \/ BdStart("cmd", vm)
           \/ /\ Calls("cmd", vm, StopVM(vm, FALSE))
              /\ UNCHANGED << watched, kevents >>
           \/ /\ Calls("cmd", vm, ResetFailure(vm))
              /\ UNCHANGED << watched, kevents >>
        /\ UNCHANGED << rebootlist, rbpc, toboot >>
  BY <1>1 DEF Command
<1>5. /\ GoodFrame(StopVM(vm, FALSE)) /\ StopVM(vm, FALSE).vm = vm
      /\ GoodFrame(ResetFailure(vm)) /\ ResetFailure(vm).vm = vm
  <2>1. FALSE \in BOOLEAN /\ 0 \in 0 .. 255
    OBVIOUS
  <2>2. QED
    BY <2>1, StopVMGood, ResetFailureGood, EntryVMs
<1>6. CASE BdStart("cmd", vm)
  BY <1>1, <1>2, <1>3, <1>4, <1>6, BdStartTypeInv
<1>7. CASE Calls("cmd", vm, StopVM(vm, FALSE)) /\ UNCHANGED << watched, kevents >>
  BY <1>1, <1>2, <1>3, <1>4, <1>5, <1>7, CallsTypeInv
<1>8. CASE Calls("cmd", vm, ResetFailure(vm)) /\ UNCHANGED << watched, kevents >>
  BY <1>1, <1>2, <1>3, <1>4, <1>5, <1>8, CallsTypeInv
<1>9. QED
  BY <1>4, <1>6, <1>7, <1>8

LEMMA ReceiveTypeInv == TypeInv /\ ReceiveExit => TypeInv'
<1>1. SUFFICES ASSUME TypeInv, ReceiveExit PROVE TypeInv'
  OBVIOUS
<1> DEFINE p == Head(kevents)
           vm == proc[p].vm
<1>2. "kq" \in Threads
  BY DirectorAssumption
<1>3. kevents \in Seq(Pids) /\ kevents # << >> /\ ToSet(kevents) \subseteq Forked
  BY <1>1 DEF TypeInv, BdTypes, ProcsSound, ReceiveExit
<1>4. /\ kevents' \in Seq(Pids) /\ ToSet(kevents') \subseteq Forked
      /\ p \in Forked
  BY <1>1, <1>3, TailSet DEF ReceiveExit
<1>5. vm \in VMs /\ proc[p].code \in 0 .. 255
  BY <1>1, <1>4 DEF TypeInv, ProcsSound, PsvInv, PsvTypeOK, Forked, Process
<1>6. /\ GoodFrame(OnExit(vm, proc[p].code)) /\ OnExit(vm, proc[p].code).vm = vm
      /\ GoodFrame(FailureState(vm)) /\ FailureState(vm).vm = vm
  <2>1. FALSE \in BOOLEAN
    OBVIOUS
  <2>2. QED
    BY <1>5, <2>1, OnExitGood, FailureStateGood, EntryVMs
<1> HIDE DEF p, vm
<1>7. \/ Calls("kq", vm, OnExit(vm, proc[p].code))
      \/ Calls("kq", vm, FailureState(vm))
  BY <1>1 DEF ReceiveExit, p, vm
<1>8. UNCHANGED << rebootlist, rbpc, toboot, watched >>
  BY <1>1 DEF ReceiveExit
<1>9. QED
  BY <1>1, <1>2, <1>4, <1>5, <1>6, <1>7, <1>8, CallsTypeInv

LEMMA EndsTypeInv ==
    ASSUME TypeInv, NEW p \in Pids, Ends(p)
    PROVE  TypeInv'
<1>1. PICK status \in Statuses : Exits(p, status)
  BY DEF Ends
<1>2. status.exited \in BOOLEAN /\ status.code \in 0 .. 255
  <2>1. CASE status \in [exited : {TRUE}, code : ExitCodes]
    <3>1. ExitCodes \subseteq 0 .. 255
      BY ConstantsAssumption
    <3>2. QED
      BY <2>1, <3>1
  <2>2. CASE status \in [exited : IF Killable THEN {FALSE} ELSE {}, code : {0}]
    <3>1. status.exited \in (IF Killable THEN {FALSE} ELSE {}) /\ status.code = 0
      BY <2>2
    <3>2. status.exited \in BOOLEAN
      BY <3>1
    <3>3. status.code \in 0 .. 255
      BY <3>1
    <3>4. QED
      BY <3>2, <3>3
  <2>3. QED
    BY <2>1, <2>2 DEF Statuses
<1>3. /\ proc' \in [Pids -> Process]
      /\ \A q \in Pids : proc'[q].vm = proc[q].vm
      /\ \A q \in Pids : proc'[q].state # "free" <=> proc[q].state # "free"
  <2> DEFINE z(x) == [x EXCEPT !.state = "zombie", !.exited = status.exited,
                               !.code = status.code]
  <2>1. \A x \in Process : /\ z(x) \in Process
                           /\ z(x).vm = x.vm /\ z(x).state = "zombie"
    BY <1>2 DEF Process
  <2>2. proc \in [Pids -> Process]
    BY DEF TypeInv, PsvInv, PsvTypeOK
  <2>3. proc' = [proc EXCEPT ![p] = z(proc[p])] /\ proc[p].state = "alive"
    BY <1>1, <2>2 DEF Exits
  <2> HIDE DEF z
  <2>4. QED
    BY <2>1, <2>2, <2>3
<1>4. Forked' = Forked /\ p \in Forked
  BY <1>1, <1>3 DEF Exits, Forked
<1>5. /\ watched' \subseteq Pids /\ kevents' \in Seq(Pids)
      /\ watched' \subseteq Forked /\ ToSet(kevents') \subseteq Forked
  <2>1. /\ watched \subseteq Pids /\ kevents \in Seq(Pids)
        /\ watched \subseteq Forked /\ ToSet(kevents) \subseteq Forked
    BY DEF TypeInv, BdTypes, ProcsSound
  <2>2. CASE p \in watched
    <3>1. kevents' = Append(kevents, p) /\ watched' = watched \ {p}
      BY <2>2 DEF Ends
    <3>2. kevents' \in Seq(Pids) /\ ToSet(kevents') = ToSet(kevents) \cup {p}
      BY <2>1, <3>1, AppendSet
    <3>3. QED
      BY <1>4, <2>1, <3>1, <3>2
  <2>3. CASE p \notin watched
    BY <2>1, <2>3 DEF Ends
  <2>4. QED
    BY <2>2, <2>3
<1>6. JobsSound'
  BY <1>4 DEF Ends, TypeInv, JobsSound
<1>7. ProcsSound'
  BY <1>3, <1>4, <1>5 DEF TypeInv, ProcsSound, Forked
<1>8. PsvInv'
  BY <1>3 DEF Ends, TypeInv, PsvInv, PsvTypeOK
<1>9. BdTypes'
  BY <1>5 DEF Ends, TypeInv, BdTypes
<1>10. QED
  BY <1>6, <1>7, <1>8, <1>9 DEF TypeInv

(* The threads between two jobs, and time. *)
LEMMA IdleTypeInv ==
    ASSUME TypeInv,
           UNCHANGED << psvvars, job, rebootlist, toboot, watched, kevents >>,
           recent' \in [VMs -> Stamps], rbpc' \in {"top", "waiting", "list"}
    PROVE  TypeInv'
<1>1. Forked' = Forked
  BY DEF psvvars, Forked
<1>2. QED
  BY <1>1 DEF psvvars, TypeInv, PsvInv, PsvTypeOK, BdTypes, JobsSound, ProcsSound

LEMMA ThreadTypeInv ==
    ASSUME TypeInv, NEW t \in Threads, ThreadStep(t)
    PROVE  TypeInv'
<1>1. CASE Step(t) /\ UNCHANGED bdvars
  BY <1>1, StepTypeInv
<1>2. CASE BdStep(t) /\ UNCHANGED << rebootlist, rbpc, toboot >>
  BY <1>2, BdStepTypeInv
<1>3. CASE RequestReboot(t)
  BY <1>3, RequestTypeInv
<1>4. CASE t = "boot" /\ AutoStarts
  <2>1. PICK vm \in toboot : /\ BdStart("boot", vm) /\ toboot' = toboot \ {vm}
                             /\ UNCHANGED << rebootlist, rbpc >>
    BY <1>4 DEF AutoStarts
  <2>2. vm \in VMs /\ rebootlist \in Queues /\ rbpc \in {"top", "waiting", "list"}
    BY DirectorAssumption DEF TypeInv, BdTypes
  <2>3. QED
    BY <1>4, <2>1, <2>2, BdStartTypeInv
<1>5. CASE t = "kq" /\ ReceiveExit
  BY <1>5, ReceiveTypeInv
<1>6. CASE t = "rb" /\ Waits
  BY <1>6, IdleTypeInv DEF Waits, TypeInv, BdTypes
<1>7. CASE t = "rb" /\ TakesNext
  <2>1. CASE rebootlist.first = NoVM /\ rbpc' = "top"
             /\ UNCHANGED << psvvars, job, recent, rebootlist, watched, kevents, toboot >>
    BY <2>1, IdleTypeInv DEF TypeInv, BdTypes
  <2>2. CASE rebootlist.first # NoVM /\ rebootlist' = RemoveHead(rebootlist)
             /\ BdStart("rb", rebootlist.first) /\ UNCHANGED << rbpc, toboot >>
    <3>1. rebootlist \in Queues /\ rbpc \in {"top", "waiting", "list"}
      BY DEF TypeInv, BdTypes
    <3>2. rebootlist.first \in VMs
      BY <2>2, <3>1 DEF Queues
    <3>3. rebootlist' \in Queues
      BY <2>2, <3>1, RemoveTyped
    <3>4. QED
      BY <1>7, <2>2, <3>1, <3>2, <3>3, BdStartTypeInv
  <2>3. QED
    BY <1>7, <2>1, <2>2 DEF TakesNext
<1>8. QED
  BY <1>1, <1>2, <1>3, <1>4, <1>5, <1>6, <1>7 DEF ThreadStep

LEMMA NextTypeInv == TypeInv /\ [Next]_vars => TypeInv'
<1>1. SUFFICES ASSUME TypeInv, [Next]_vars PROVE TypeInv'
  OBVIOUS
<1>2. recent \in [VMs -> Stamps] /\ rbpc \in {"top", "waiting", "list"}
  BY <1>1 DEF TypeInv, BdTypes
<1>3. CASE \E t \in Threads : ThreadStep(t)
  BY <1>1, <1>3, ThreadTypeInv
<1>4. CASE Command
  BY <1>1, <1>4, CommandTypeInv
<1>5. CASE SpuriousWakeup
  BY <1>1, <1>2, <1>5, IdleTypeInv DEF SpuriousWakeup
<1>6. CASE \E p \in Pids : Ends(p)
  BY <1>1, <1>6, EndsTypeInv
<1>7. CASE \E vm \in VMs : Expires(vm)
  <2>1. PICK vm \in VMs : Expires(vm)
    BY <1>7
  <2>2. recent[vm] \in Stamps /\ recent[vm].count > 0
    BY <1>2, <2>1 DEF Expires
  <2>3. recent' = [recent EXCEPT ![vm] = [recent[vm] EXCEPT !.count = recent[vm].count - 1]]
    BY <1>2, <2>1 DEF Expires
  <2>a. [recent[vm] EXCEPT !.count = recent[vm].count - 1] \in Stamps
    BY <2>2 DEF Stamps
  <2>4. recent' \in [VMs -> Stamps] /\ UNCHANGED rbpc
    BY <1>2, <2>1, <2>3, <2>a DEF Expires
  <2>5. QED
    BY <1>1, <1>2, <2>1, <2>4, IdleTypeInv DEF Expires
<1>8. CASE UNCHANGED vars
  BY <1>1, <1>2, <1>8, IdleTypeInv DEF vars, bdvars
<1>9. QED
  BY <1>1, <1>3, <1>4, <1>5, <1>6, <1>7, <1>8 DEF Next

LEMMA InitTypeInv == Init => TypeInv
<1>1. SUFFICES ASSUME Init PROVE TypeInv
  OBVIOUS
<1>2. PsvInv
  BY <1>1, InitTyped DEF Init
<1>3. Forked = {}
  BY <1>1 DEF Init, PsvInit, Forked, Unforked
<1>4. AtRest \in Jobs
  BY DEF AtRest, Jobs, Places
<1>5. BdTypes
  BY <1>1, <1>4, EmptyQueueTyped DEF Init, BdTypes, Stamps
<1>6. JobsSound
  BY <1>1 DEF Init, PsvInit, JobsSound, Sound, AtRest, Idle
<1>7. ProcsSound
  <2>1. ToSet(<< >>) = {}
    BY DEF ToSet
  <2>2. QED
    BY <1>1, <1>3, <2>1 DEF Init, ProcsSound
<1>8. QED
  BY <1>2, <1>5, <1>6, <1>7 DEF TypeInv

(***************************************************************************)
(* The types of vmstated's data hold in every reachable state: processid   *)
(* is a process or 0, an event names a process, the reboot list links VMs, *)
(* and bd_startvm probes a pid that exists.                                *)
(***************************************************************************)
THEOREM TypesHold == Spec => []TypeOK
<1>1. Init => TypeInv
  BY InitTypeInv
<1>2. TypeInv /\ [Next]_vars => TypeInv'
  BY NextTypeInv
<1>3. TypeInv => TypeOK
  BY DEF TypeInv, PsvInv, BdTypes, TypeOK
<1>4. QED
  BY <1>1, <1>2, <1>3, PTL DEF Spec

-----------------------------------------------------------------------------
(* Each exit is reported once. *)

(* Steps that leave the kqueue and the states of the processes alone and   *)
(* make no thread responsible for a process.                               *)
LEMMA QuietExits ==
    ASSUME ExitReportedOnce, UNCHANGED << watched, kevents >>,
           \A p \in watched \cup ToSet(kevents) : proc'[p].state = proc[p].state,
           \A t \in Threads, p \in Pids :
             Holds(t, p)' => /\ Holds(t, p)
                             /\ proc'[p].state = proc[p].state
    PROVE  ExitReportedOnce'
<1>1. \A i \in DOMAIN kevents : kevents[i] \in ToSet(kevents)
  BY DEF ToSet
<1>2. QED
  BY <1>1 DEF ExitReportedOnce

(* Thread t drops its process, if it has one. *)
LEMMA DropsProcess ==
    ASSUME TypeInv, NEW t \in Threads, NEW j, NEW g,
           job' = [job EXCEPT ![t] = j], call' = [call EXCEPT ![t] = g],
           j.at \in {"started", "register"} => g.pid \notin Pids
    PROVE  \A u \in Threads, p \in Pids : Holds(u, p)' => Holds(u, p) /\ u # t
BY DEF Holds, TypeInv, PsvInv, PsvTypeOK, BdTypes

LEMMA LeaveDrops ==
    ASSUME TypeInv, NEW t \in Threads, Leaves(t)
    PROVE  \A u \in Threads, p \in Pids : Holds(u, p)' => Holds(u, p) /\ u # t
<1>1. AtRest.at = "rest"
  BY DEF AtRest
<1>2. QED
  BY <1>1, DropsProcess DEF Leaves, Runs

LEMMA GotoDrops ==
    ASSUME TypeInv, NEW t \in Threads, NEW place \in Places, Goto(t, place),
           NEW g, call' = [call EXCEPT ![t] = g],
           place \in {"started", "register"} => g.pid \notin Pids
    PROVE  \A u \in Threads, p \in Pids : Holds(u, p)' => Holds(u, p) /\ u # t
<1> DEFINE j == [at |-> place, vm |-> job[t].vm]
<1>1. job' = [job EXCEPT ![t] = j] /\ j.at = place
  BY GotoMoves
<1>2. QED
  BY <1>1, DropsProcess

LEMMA StepExits ==
    ASSUME TypeInv, ExitReportedOnce, NEW t \in Threads, Step(t), UNCHANGED bdvars
    PROVE  ExitReportedOnce'
<1>1. PICK g : FrameStep(t, g)
  BY StepEffect, TypeOfVM DEF TypeInv
<1>2. /\ UNCHANGED << job, watched, kevents >>
      /\ watched \subseteq Pids /\ ToSet(kevents) \subseteq Pids
  BY DEF bdvars, TypeInv, BdTypes, ProcsSound, Forked
<1>3. /\ call' = [call EXCEPT ![t] = g]
      /\ call \in [Threads -> Frame]
  BY <1>1 DEF FrameStep, TypeInv, PsvInv, PsvTypeOK
<1>4. CASE g.pid = call[t].pid /\ \A p \in Pids : SameProcess(p)
  <2>1. \A u \in Threads, p \in Pids : Holds(u, p)' => Holds(u, p)
    BY <1>2, <1>3, <1>4 DEF Holds
  <2>2. QED
    BY <1>2, <1>4, <2>1, QuietExits DEF SameProcess
<1>5. CASE /\ g.pid \in Pids
           /\ proc[g.pid].state = "free"
           /\ proc'[g.pid].state = "alive"
           /\ \A p \in Pids \ {g.pid} : SameProcess(p)
  <2>1. /\ g.pid \notin watched
        /\ \A i \in DOMAIN kevents : kevents[i] # g.pid
        /\ g.pid \notin ToSet(kevents)
        /\ \A u \in Threads : ~Holds(u, g.pid)
    BY <1>5 DEF ExitReportedOnce, ToSet
  <2>2. \A u \in Threads, p \in Pids :
          Holds(u, p)' => \/ Holds(u, p) /\ p # g.pid
                          \/ u = t /\ p = g.pid
    BY <1>2, <1>3, <2>1 DEF Holds
  <2>3. \A p \in watched : proc'[p].state = "alive"
    BY <1>2, <1>5, <2>1 DEF SameProcess, ExitReportedOnce
  <2>4. \A i \in DOMAIN kevents :
          proc'[kevents[i]].state = "zombie" /\ kevents[i] \notin watched
    <3>1. \A i \in DOMAIN kevents : kevents[i] \in Pids \ {g.pid}
      BY <1>2, <2>1 DEF ToSet
    <3>2. QED
      BY <1>5, <3>1 DEF SameProcess, ExitReportedOnce
  <2>5. ASSUME NEW u \in Threads, NEW p \in Pids, Holds(u, p)'
        PROVE  /\ p \notin watched
               /\ p \notin ToSet(kevents)
               /\ proc'[p].state \in {"alive", "zombie"}
               /\ \A w \in Threads : Holds(w, p)' => w = u
    <3>1. CASE p = g.pid
      BY <1>5, <2>1, <2>2, <2>5, <3>1
    <3>2. CASE p # g.pid
      BY <1>5, <2>2, <2>5, <3>2 DEF SameProcess, ExitReportedOnce
    <3>3. QED
      BY <3>1, <3>2
  <2>6. QED
    BY <1>2, <2>3, <2>4, <2>5 DEF ExitReportedOnce
<1>6. QED
  BY <1>1, <1>4, <1>5 DEF FrameStep, LaunchesOnly

(* The event of a process that nobody is responsible for any more.         *)
LEMMA FiresOnce ==
    ASSUME ExitReportedOnce, kevents \in Seq(Pids), NEW p \in Pids,
           p \notin ToSet(kevents), p \notin watched',
           watched' \subseteq watched,
           kevents' = Append(kevents, p),
           proc'[p].state = "zombie",
           \A q \in Pids \ {p} : proc'[q].state = proc[q].state,
           watched \subseteq Pids,
           \A u \in Threads, q \in Pids : Holds(u, q)' => Holds(u, q) /\ q # p
    PROVE  ExitReportedOnce'
<1>1. /\ Len(kevents) \in Nat /\ DOMAIN kevents = 1 .. Len(kevents)
      /\ DOMAIN kevents' = 1 .. (Len(kevents) + 1)
      /\ kevents'[Len(kevents) + 1] = p
      /\ \A i \in 1 .. Len(kevents) : kevents'[i] = kevents[i] /\ kevents[i] \in Pids
  OBVIOUS
<1>2. \A i \in 1 .. Len(kevents) : kevents[i] # p
  BY <1>1 DEF ToSet
<1>3. ToSet(kevents') = ToSet(kevents) \cup {p}
  BY AppendSet
<1>4. ASSUME NEW i \in DOMAIN kevents', NEW k \in DOMAIN kevents',
             kevents'[i] = kevents'[k]
      PROVE  i = k
  <2>1. CASE i = Len(kevents) + 1
    BY <1>1, <1>2, <1>4, <2>1
  <2>2. CASE i # Len(kevents) + 1
    <3>1. i \in 1 .. Len(kevents) /\ kevents'[i] = kevents[i] /\ kevents[i] # p
      BY <1>1, <1>2, <1>4, <2>2
    <3>2. k # Len(kevents) + 1
      BY <1>1, <1>4, <3>1
    <3>3. k \in 1 .. Len(kevents)
      BY <1>1, <1>4, <3>2
    <3>4. kevents'[k] = kevents[k]
      BY <1>1, <3>3
    <3>5. kevents[i] = kevents[k] /\ i \in DOMAIN kevents /\ k \in DOMAIN kevents
      BY <1>1, <1>4, <3>1, <3>3, <3>4
    <3>6. QED
      BY <3>5 DEF ExitReportedOnce
  <2>3. QED
    BY <2>1, <2>2
<1>5. ASSUME NEW i \in DOMAIN kevents'
      PROVE  proc'[kevents'[i]].state = "zombie" /\ kevents'[i] \notin watched'
  <2>1. CASE i = Len(kevents) + 1
    BY <1>1, <2>1
  <2>2. CASE i # Len(kevents) + 1
    <3>1. i \in 1 .. Len(kevents)
      BY <1>1, <1>5, <2>2
    <3>2. /\ kevents'[i] = kevents[i] /\ kevents[i] \in Pids \ {p}
          /\ i \in DOMAIN kevents
      BY <1>1, <1>2, <3>1
    <3>3. QED
      BY <3>2 DEF ExitReportedOnce
  <2>3. QED
    BY <2>1, <2>2
<1>6. \A q \in watched' : proc'[q].state = "alive"
  BY DEF ExitReportedOnce
<1>7. \A u \in Threads, q \in Pids :
         Holds(u, q)' => /\ q \notin watched'
                         /\ q \notin ToSet(kevents')
                         /\ proc'[q].state \in {"alive", "zombie"}
                         /\ \A w \in Threads : Holds(w, q)' => w = u
  BY <1>3 DEF ExitReportedOnce
<1>8. QED
  BY <1>4, <1>5, <1>6, <1>7 DEF ExitReportedOnce

LEMMA BdStepExits ==
    ASSUME TypeInv, ExitReportedOnce, NEW t \in Threads, BdStep(t)
    PROVE  ExitReportedOnce'
<1> DEFINE p == call[t].pid
<1>p. {"stamp", "generate", "started", "died", "finish", "register"} \subseteq Places
  BY DEF Places
<1>c. call' = call => call' = [call EXCEPT ![t] = call[t]]
  BY DEF TypeInv, PsvInv, PsvTypeOK
<1>w. /\ watched \subseteq Pids /\ ToSet(kevents) \subseteq Pids
      /\ kevents \in Seq(Pids)
  BY DEF TypeInv, BdTypes, ProcsSound, Forked
<1>1. CASE CountFail(t)
  <2>1. PICK place \in {"stamp", "finish"} :
          Goto(t, place) /\ \E g : call' = [call EXCEPT ![t] = g]
    BY <1>1, <1>c DEF CountFail, Runs
  <2>2. \A u \in Threads, q \in Pids : Holds(u, q)' => Holds(u, q)
    BY <2>1, <1>p, GotoDrops
  <2>3. QED
    BY <1>1, <2>2, QuietExits DEF CountFail
<1>2. CASE Stamp(t)
  <2>1. \A u \in Threads, q \in Pids : Holds(u, q)' => Holds(u, q)
    <3>1. CASE Leaves(t)
      BY <3>1, LeaveDrops
    <3>2. CASE Goto(t, "generate") /\ UNCHANGED call
      BY <3>2, <1>c, <1>p, GotoDrops
    <3>3. QED
      BY <1>2, <3>1, <3>2 DEF Stamp
  <2>2. QED
    BY <1>2, <2>1, QuietExits DEF Stamp
<1>3. CASE Generate(t)
  <2>1. \A u \in Threads, q \in Pids : Holds(u, q)' => Holds(u, q)
    <3>1. CASE Goto(t, "started") /\ Runs(t, StartVM(job[t].vm))
      <4>1. job[t].vm \in VMs
        BY <1>3 DEF Generate, TypeInv, JobsSound, Sound
      <4>2. StartVM(job[t].vm).pid \notin Pids
        BY <4>1, StartVMFacts, ConstantsAssumption
      <4>3. QED
        BY <3>1, <4>2, <1>p, GotoDrops DEF Runs
    <3>2. CASE Goto(t, "finish") /\ Runs(t, FailureState(job[t].vm))
      BY <3>2, <1>p, GotoDrops DEF Runs
    <3>3. QED
      BY <1>3, <3>1, <3>2 DEF Generate
  <2>2. QED
    BY <1>3, <2>1, QuietExits DEF Generate
<1>4. CASE StartFailed(t) \/ Finish(t)
  <2>1. /\ Leaves(t)
        /\ UNCHANGED << proc, watched, kevents >>
    BY <1>4 DEF StartFailed, Finish
  <2>2. \A u \in Threads, q \in Pids : Holds(u, q)' => Holds(u, q)
    BY <2>1, LeaveDrops
  <2>3. QED
    BY <2>1, <2>2, QuietExits
<1>5. CASE Died(t)
  <2>1. \A u \in Threads, q \in Pids : Holds(u, q)' => Holds(u, q)
    <3>1. CASE Leaves(t)
      BY <3>1, LeaveDrops
    <3>2. CASE Goto(t, "finish") /\ Runs(t, FailureState(job[t].vm))
      BY <3>2, <1>p, GotoDrops DEF Runs
    <3>3. QED
      BY <1>5, <3>1, <3>2 DEF Died
  <2>2. QED
    BY <1>5, <2>1, QuietExits DEF Died
<1>h. job[t].at \in {"started", "register"} => Holds(t, p)
  BY DEF Holds
<1>6. CASE Probe(t)
  <2>1. p \in Pids
    <3>1. StartFrame(call[t]) /\ call[t].pc = "ok"
      BY <1>6 DEF Probe, TypeInv, JobsSound, Sound
    <3>2. QED
      BY <3>1 DEF StartFrame
  <2>2. CASE proc[p].state = "zombie"
    <3>1. /\ proc' = [proc EXCEPT ![p].state = "reaped"]
          /\ Goto(t, "died") /\ Runs(t, OnExit(job[t].vm, proc[p].code))
          /\ UNCHANGED << watched, kevents >>
      BY <1>6, <2>2 DEF Probe
    <3>2. /\ Holds(t, p) /\ p \notin watched /\ p \notin ToSet(kevents)
      BY <1>6, <1>h, <2>1 DEF Probe, ExitReportedOnce
    <3>3. \A q \in Pids \ {p} : proc'[q].state = proc[q].state
      BY <3>1 DEF TypeInv, PsvInv, PsvTypeOK
    <3>4. \A u \in Threads, q \in Pids : Holds(u, q)' => Holds(u, q) /\ u # t
      BY <3>1, <1>p, GotoDrops DEF Runs
    <3>5. \A u \in Threads : Holds(u, p) => u = t
      BY <2>1, <3>2 DEF ExitReportedOnce
    <3>6. \A u \in Threads, q \in Pids :
            Holds(u, q)' => Holds(u, q) /\ proc'[q].state = proc[q].state
      BY <3>3, <3>4, <3>5
    <3>7. \A q \in watched \cup ToSet(kevents) : proc'[q].state = proc[q].state
      BY <3>2, <3>3, <1>w
    <3>8. QED
      BY <3>1, <3>6, <3>7, QuietExits
  <2>3. CASE proc[p].state # "zombie"
    <3>1. Goto(t, "register") /\ UNCHANGED << proc, call, watched, kevents >>
      BY <1>6, <2>3 DEF Probe
    <3>2. job' = [job EXCEPT ![t] = [at |-> "register", vm |-> job[t].vm]]
      BY <3>1, <1>p, GotoMoves
    <3>3. \A u \in Threads, q \in Pids : Holds(u, q)' => Holds(u, q)
      BY <1>6, <3>1, <3>2 DEF Probe, Holds, TypeInv, BdTypes
    <3>4. QED
      BY <3>1, <3>3, QuietExits
  <2>4. QED
    BY <2>2, <2>3
<1>7. CASE Register(t)
  <2>1. p \in Pids
    BY <1>7 DEF Register, TypeInv, JobsSound, Sound
  <2>2. /\ Holds(t, p) /\ p \notin watched /\ p \notin ToSet(kevents)
        /\ proc[p].state \in {"alive", "zombie"}
        /\ \A u \in Threads : Holds(u, p) => u = t
    BY <1>7, <1>h, <2>1 DEF Register, ExitReportedOnce
  <2>3. \A u \in Threads, q \in Pids : Holds(u, q)' => Holds(u, q) /\ q # p
    BY <1>7, <2>2, LeaveDrops DEF Register
  <2>4. CASE proc[p].state = "alive"
    <3>1. watched' = watched \cup {p} /\ UNCHANGED << kevents, proc >>
      BY <1>7, <2>4 DEF Register
    <3>2. \A i \in DOMAIN kevents : kevents[i] # p
      BY <2>2 DEF ToSet
    <3>3. QED
      BY <2>2, <2>3, <2>4, <3>1, <3>2 DEF ExitReportedOnce
  <2>5. CASE proc[p].state # "alive"
    <3>1. kevents' = Append(kevents, p) /\ UNCHANGED << watched, proc >>
      BY <1>7, <2>5 DEF Register
    <3>2. proc[p].state = "zombie"
      BY <2>2, <2>5
    <3>3. QED
      BY <2>1, <2>2, <2>3, <3>1, <3>2, <1>w, FiresOnce
  <2>6. QED
    BY <2>4, <2>5
<1>8. QED
  BY <1>1, <1>2, <1>3, <1>4, <1>5, <1>6, <1>7 DEF BdStep

LEMMA CallsExits ==
    ASSUME TypeInv, ExitReportedOnce, NEW t \in Threads, NEW vm \in VMs, NEW f,
           Calls(t, vm, f), UNCHANGED << watched, kevents >>
    PROVE  ExitReportedOnce'
<1>1. \A u \in Threads, q \in Pids : Holds(u, q)' => Holds(u, q)
  BY DropsProcess DEF Calls, Runs
<1>2. QED
  BY <1>1, QuietExits DEF Calls

LEMMA BdStartExits ==
    ASSUME TypeInv, ExitReportedOnce, NEW t \in Threads, NEW vm, BdStart(t, vm)
    PROVE  ExitReportedOnce'
<1>1. call' = [call EXCEPT ![t] = call[t]]
  BY DEF BdStart, psvvars, TypeInv, PsvInv, PsvTypeOK
<1>2. \A u \in Threads, q \in Pids : Holds(u, q)' => Holds(u, q)
  BY <1>1, DropsProcess DEF BdStart
<1>3. QED
  BY <1>2, QuietExits DEF BdStart, psvvars

LEMMA ReceiveExits ==
    ASSUME TypeInv, ExitReportedOnce, ReceiveExit
    PROVE  ExitReportedOnce'
<1>1. /\ kevents \in Seq(Pids) /\ kevents # << >> /\ kevents' = Tail(kevents)
      /\ UNCHANGED << watched, proc >>
  BY DEF TypeInv, BdTypes, ReceiveExit, Calls
<1>2. /\ Len(kevents) \in Nat /\ DOMAIN kevents = 1 .. Len(kevents)
      /\ DOMAIN kevents' = 1 .. (Len(kevents) - 1)
      /\ \A i \in 1 .. (Len(kevents) - 1) : kevents'[i] = kevents[i + 1]
  BY <1>1
<1>3. ToSet(kevents') \subseteq ToSet(kevents)
  BY <1>1, TailSet
<1>4. \A u \in Threads, q \in Pids : Holds(u, q)' => Holds(u, q)
  <2>1. "kq" \in Threads
    BY DirectorAssumption
  <2>2. PICK vm, f : Calls("kq", vm, f)
    BY DEF ReceiveExit
  <2>3. QED
    BY <2>1, <2>2, DropsProcess DEF Calls, Runs
<1>5. \A i \in DOMAIN kevents' : i + 1 \in DOMAIN kevents /\ kevents'[i] = kevents[i + 1]
  BY <1>2
<1>6. ASSUME NEW i \in DOMAIN kevents', NEW k \in DOMAIN kevents',
             kevents'[i] = kevents'[k]
      PROVE  i = k
  <2>1. i + 1 = k + 1
    BY <1>5, <1>6 DEF ExitReportedOnce
  <2>2. i \in Int /\ k \in Int
    BY <1>2, <1>6
  <2>3. QED
    BY <2>1, <2>2
<1>7. \A i \in DOMAIN kevents' :
        proc'[kevents'[i]].state = "zombie" /\ kevents'[i] \notin watched'
  BY <1>1, <1>5 DEF ExitReportedOnce
<1>8. QED
  BY <1>1, <1>3, <1>4, <1>6, <1>7 DEF ExitReportedOnce

LEMMA EndsExits ==
    ASSUME TypeInv, ExitReportedOnce, NEW p \in Pids, Ends(p)
    PROVE  ExitReportedOnce'
<1>1. PICK status : Exits(p, status)
  BY DEF Ends
<1>2. /\ proc[p].state = "alive" /\ proc'[p].state = "zombie"
      /\ \A q \in Pids \ {p} : proc'[q].state = proc[q].state
  BY <1>1 DEF Exits, TypeInv, PsvInv, PsvTypeOK, Process
<1>3. \A u \in Threads, q \in Pids : Holds(u, q)' <=> Holds(u, q)
  BY DEF Ends, Holds
<1>4. p \notin ToSet(kevents)
  BY <1>2 DEF ExitReportedOnce, ToSet
<1>5. /\ kevents \in Seq(Pids) /\ watched \subseteq Pids /\ ToSet(kevents) \subseteq Pids
  BY DEF TypeInv, BdTypes, ProcsSound, Forked
<1>6. CASE p \in watched
  <2>1. watched' = watched \ {p} /\ kevents' = Append(kevents, p)
    BY <1>6 DEF Ends
  <2>2. \A u \in Threads, q \in Pids : Holds(u, q)' => Holds(u, q) /\ q # p
    BY <1>3, <1>6 DEF ExitReportedOnce
  <2>3. QED
    BY <1>2, <1>4, <1>5, <2>1, <2>2, FiresOnce
<1>7. CASE p \notin watched
  <2>1. UNCHANGED << watched, kevents >>
    BY <1>7 DEF Ends
  <2>2. \A q \in watched \cup ToSet(kevents) : proc'[q].state = proc[q].state
    BY <1>2, <1>4, <1>5, <1>7
  <2>3. \A i \in DOMAIN kevents : kevents[i] \in ToSet(kevents)
    BY DEF ToSet
  <2>4. \A u \in Threads, q \in Pids :
          Holds(u, q)' => proc'[q].state \in {"alive", "zombie"}
    BY <1>2, <1>3 DEF ExitReportedOnce
  <2>5. QED
    BY <1>3, <2>1, <2>2, <2>3, <2>4 DEF ExitReportedOnce
<1>8. QED
  BY <1>6, <1>7

LEMMA ThreadExits ==
    ASSUME TypeInv, ExitReportedOnce, NEW t \in Threads, ThreadStep(t)
    PROVE  ExitReportedOnce'
<1>1. CASE Step(t) /\ UNCHANGED bdvars
  BY <1>1, StepExits
<1>2. CASE BdStep(t)
  BY <1>2, BdStepExits
<1>3. CASE RequestReboot(t)
  <2>1. call[t] \in Frame /\ call[t].pc = "request"
    BY <1>3 DEF RequestReboot, TypeInv, PsvInv, PsvTypeOK
  <2>2. Requested(call[t], TRUE).pid = call[t].pid
    BY <2>1 DEF Requested, Jump, Frame
  <2>3. \A u \in Threads, q \in Pids : Holds(u, q)' => Holds(u, q)
    BY <1>3, <2>2 DEF RequestReboot, Runs, Holds, TypeInv, PsvInv, PsvTypeOK
  <2>4. QED
    BY <1>3, <2>3, QuietExits DEF RequestReboot
<1>4. CASE t = "boot" /\ AutoStarts
  BY <1>4, BdStartExits DEF AutoStarts
<1>5. CASE t = "kq" /\ ReceiveExit
  BY <1>5, ReceiveExits
<1>6. CASE t = "rb" /\ BdStart("rb", rebootlist.first)
  BY <1>6, BdStartExits
<1>7. CASE UNCHANGED << psvvars, job, recent, watched, kevents >>
  BY <1>7, QuietExits DEF psvvars, Holds
<1>8. QED
  BY <1>1, <1>2, <1>3, <1>4, <1>5, <1>6, <1>7 DEF ThreadStep, Waits, TakesNext

LEMMA NextExits == TypeInv /\ ExitReportedOnce /\ [Next]_vars => ExitReportedOnce'
<1>1. SUFFICES ASSUME TypeInv, ExitReportedOnce, [Next]_vars
               PROVE  ExitReportedOnce'
  OBVIOUS
<1>2. CASE \E t \in Threads : ThreadStep(t)
  BY <1>1, <1>2, ThreadExits
<1>3. CASE Command
  <2>1. "cmd" \in Threads
    BY DirectorAssumption
  <2>2. PICK vm \in VMs :
          \/ BdStart("cmd", vm)
          \/ \E f : Calls("cmd", vm, f) /\ UNCHANGED << watched, kevents >>
    BY <1>3 DEF Command
  <2>3. QED
    BY <1>1, <2>1, <2>2, BdStartExits, CallsExits
<1>4. CASE \E p \in Pids : Ends(p)
  BY <1>1, <1>4, EndsExits
<1>5. CASE UNCHANGED << psvvars, job, watched, kevents >>
  BY <1>1, <1>5, QuietExits DEF psvvars, Holds
<1>6. QED
  BY <1>1, <1>2, <1>3, <1>4, <1>5
     DEF Next, SpuriousWakeup, Expires, vars, bdvars

(***************************************************************************)
(* In every interleaving of the four threads, with any number of VMs, any  *)
(* commands and any failing hooks, the end of a process is reported to     *)
(* psv_onexit by one thread and once: a process is watched only while it   *)
(* is alive, an event stands for a zombie nobody else collects, and        *)
(* bd_startvm probes only a process that the kqueue does not know yet.     *)
(***************************************************************************)
THEOREM ExitsReportedOnce == Spec => []ExitReportedOnce
<1>1. Init => TypeInv /\ ExitReportedOnce
  <2>1. Init => ExitReportedOnce
    BY DEF Init, ExitReportedOnce, Holds, AtRest
  <2>2. QED
    BY <2>1, InitTypeInv
<1>2. TypeInv /\ ExitReportedOnce /\ [Next]_vars => TypeInv' /\ ExitReportedOnce'
  BY NextTypeInv, NextExits
<1>3. QED
  BY <1>1, <1>2, PTL DEF Spec

----------------------------------------------------------------------------
(***************************************************************************)
(* Who is responsible for a VM while nobody uses the control socket: the   *)
(* autostart, one thread, the reboot list or its process, and only one of  *)
(* them.  No lock says so; the hand-over from one to the next does.  Then, *)
(* from that, in which state the VM is meanwhile: a thread at work on it   *)
(* is in phase with its state, and a VM nobody works on is at ease.        *)
(***************************************************************************)
(* The places of psv_startvm that lie before the fork. *)
BeforeFork == {"undo", "storage", "storagefailed", "launch"}

Ahead(f) == {f.pc, f.then, f.else}

(***************************************************************************)
(* The frame of a thread fits its job: it is about the same VM, forks once *)
(* and only for bd_startvm, and asks for a reboot only after a good exit.  *)
(* A process it has forked is one of the VM.                               *)
(***************************************************************************)
Fits(j, f) ==
    /\ j.at \in {"rest", "count", "stamp", "generate"} => f.pc = "idle"
    /\ j.at \in {"started", "register", "died", "finish"} => f.vm = j.vm
    /\ f.pid \in Pids \/ j.at \in {"died", "finish"} => Ahead(f) \cap BeforeFork = {}
    /\ j.at \in {"died", "finish"} => f.pid \notin Pids
    /\ "request" \in Ahead(f) => f.code < 3 /\ j.at \in {"died", "finish"}

FrameFits == \A t \in Threads :
    /\ Fits(job[t], call[t])
    /\ \A p \in Pids : Holds(t, p) => proc[p].vm = job[t].vm

(* The reboot list holds the VMs of s, in this order. *)
Links(q, s) ==
    IF s = << >> THEN q.first = NoVM /\ q.last = NoVM
    ELSE /\ q.first = s[1] /\ q.last = s[Len(s)] /\ q.next[s[Len(s)]] = NoVM
         /\ \A i \in 1 .. Len(s) - 1 : q.next[s[i]] = s[i + 1]

Distinct(s) == \A i, k \in 1 .. Len(s) : s[i] = s[k] => i = k

(* The process runs, or its end will be told to the kqueue thread. *)
Live(p, vm) == proc[p].vm = vm /\ (proc[p].state = "alive" \/ p \in ToSet(kevents))

(* The threads that start VMs and learn of their ends.  The socket handler *)
(* does neither while the only command is resetfail.                       *)
Unattended == Commands \subseteq {"resetfail"}
Workers == Threads \ {"cmd"}
Free(vm) == \A t \in Workers : ~ Working(t, vm)

(* What the socket handler does then: take FAILED back to INIT. *)
Resets(j, f) ==
    \/ j = AtRest /\ f = Idle
    \/ /\ j.at = "finish" /\ f.pid = NoPid /\ f.code = 0
       /\ \/ f.pc \in {"ok", "err"}
          \/ /\ f.pc \in {"lookup", "enter"} /\ f.then = "ok" /\ f.else = "err"
             /\ f.todo = << "INIT" >>

ResetsOnly == Resets(job["cmd"], call["cmd"])

(* One claim to a VM at a time; a thread keeps the process it has forked. *)
Owned(vm, listed) ==
    /\ vm \in toboot \cup listed => Free(vm) /\ \A p \in Pids : ~ Live(p, vm)
    /\ ~ (vm \in toboot /\ vm \in listed)
    /\ \A t, u \in Workers : Working(t, vm) /\ Working(u, vm) => t = u
    /\ \A p, q \in Pids : Live(p, vm) /\ Live(q, vm) => p = q
    /\ \A t \in Workers, p \in Pids : Working(t, vm) /\ Live(p, vm) => Holds(t, p)

Owners(listed) == \A vm \in VMs : Owned(vm, listed)

OwnInv == \E s \in Seq(VMs) :
    Links(rebootlist, s) /\ Distinct(s) /\ Owners(ToSet(s))

(* Inductive, together with the types and with who reports an exit. *)
Inv == TypeInv /\ ExitReportedOnce /\ FrameFits /\ ResetsOnly /\ OwnInv

-----------------------------------------------------------------------------
(* What a step inside an operation does to the labels of its frame. *)

LabelStep(f, g) ==
    /\ g.code = f.code
    /\ "request" \in Ahead(g) => "request" \in Ahead(f)
    /\ Ahead(f) \cap BeforeFork = {} => Ahead(g) \cap BeforeFork = {} /\ g.pid = f.pid
    /\ g.pid = f.pid \/ Ahead(g) \cap BeforeFork = {}
    /\ f.pc = "exitcode" /\ f.code < 3 => g.pc = "ok"
    /\ f.pc \notin {"idle", "ok", "err", "request"}

LEMMA JumpLabels ==
    ASSUME NEW f \in Frame, NEW label
    PROVE  /\ Ahead(Jump(f, label)) = {label, "idle"}
           /\ Jump(f, label).code = f.code /\ Jump(f, label).pid = f.pid
           /\ Jump(f, label).pc = label /\ Jump(f, label).vm = f.vm
BY DEF Ahead, Jump, Frame

LEMMA WalkLabels ==
    ASSUME NEW f \in Frame, NEW chain, NEW then, NEW else
    PROVE  /\ Ahead(Walk(f, chain, then, else)) = {"lookup", then, else}
           /\ Walk(f, chain, then, else).code = f.code
           /\ Walk(f, chain, then, else).pid = f.pid
           /\ Walk(f, chain, then, else).pc = "lookup"
           /\ Walk(f, chain, then, else).vm = f.vm
BY DEF Ahead, Walk, Frame

LEMMA StepLabels ==
    ASSUME PsvInv, NEW t \in Threads, OfVM(t), Step(t)
    PROVE  LabelStep(call[t], call'[t])
<1> DEFINE f == call[t]
<1>1. f \in Frame
  BY DEF PsvInv, PsvTypeOK
<1>2. \A g : call' = [call EXCEPT ![t] = g] => call'[t] = g
  BY DEF PsvInv, PsvTypeOK
<1>3. ASSUME NEW label \in {f.then, f.else, "ok"},
             call'[t] = Jump(f, label), f.pc \in {"lookup", "enter", "signalled", "clear"}
      PROVE  LabelStep(f, call'[t])
  <2>1. Ahead(call'[t]) = {label, "idle"} /\ call'[t].code = f.code /\ call'[t].pid = f.pid
    BY <1>1, <1>3, JumpLabels
  <2>2. label \in Ahead(f) \cup {"ok"}
    BY <1>3 DEF Ahead
  <2>3. QED
    BY <1>3, <2>1, <2>2 DEF LabelStep, BeforeFork
<1>4. CASE Lookup(t)
  <2>1. f.pc = "lookup"
    BY <1>4 DEF Lookup
  <2>2. CASE HasTransition(vmstate[f.vm], Head(f.todo))
    <3> DEFINE g == [f EXCEPT !.pc = "enter"]
    <3>1. call'[t] = g
      BY <1>2, <1>4, <2>2 DEF Lookup
    <3>2. /\ g.pc = "enter" /\ g.then = f.then /\ g.else = f.else
          /\ g.code = f.code /\ g.pid = f.pid
      BY <1>1 DEF Frame
    <3> HIDE DEF g
    <3>3. QED
      BY <2>1, <3>1, <3>2 DEF LabelStep, Ahead, BeforeFork
  <2>3. CASE ~ HasTransition(vmstate[f.vm], Head(f.todo))
    <3>1. call'[t] = Jump(f, f.else)
      BY <1>2, <1>4, <2>3 DEF Lookup
    <3>2. QED
      BY <1>3, <2>1, <3>1
  <2>4. QED
    BY <2>2, <2>3
<1>5. CASE Enter(t)
  <2>1. f.pc = "enter"
    BY <1>5 DEF Enter
  <2>2. CASE Len(f.todo) = 1
    <3>1. call'[t] = Jump(f, f.then)
      BY <1>2, <1>5, <2>2 DEF Enter
    <3>2. QED
      BY <1>3, <2>1, <3>1
  <2>3. CASE Len(f.todo) # 1
    <3> DEFINE g == [f EXCEPT !.pc = "lookup", !.todo = Tail(f.todo)]
    <3>1. call'[t] = g
      BY <1>2, <1>5, <2>3 DEF Enter
    <3>2. /\ g.pc = "lookup" /\ g.then = f.then /\ g.else = f.else
          /\ g.code = f.code /\ g.pid = f.pid
      BY <1>1 DEF Frame
    <3> HIDE DEF g
    <3>3. QED
      BY <2>1, <3>1, <3>2 DEF LabelStep, Ahead, BeforeFork
  <2>4. QED
    BY <2>2, <2>3
<1>6. CASE HookFails(t)
  <2>1. call'[t] = Jump(f, f.else) /\ f.pc = "enter"
    BY <1>2, <1>6 DEF HookFails
  <2>2. QED
    BY <1>3, <2>1
<1>7. ASSUME NEW label \in {"undo", "storage", "storagefailed", "launch"}, NEW chain,
             NEW then \in {"storage", "launch", "err"},
             NEW else \in {"storagefailed", "err"}, At(t, label, chain, then, else)
      PROVE  LabelStep(f, call'[t])
  <2>1. f.pc = label /\ call'[t] = Walk(f, chain, then, else)
    BY <1>2, <1>7 DEF At
  <2>2. /\ Ahead(call'[t]) = {"lookup", then, else}
        /\ call'[t].code = f.code /\ call'[t].pid = f.pid
    BY <1>1, <2>1, WalkLabels
  <2>3. label \in Ahead(f) \cap BeforeFork
    BY <1>7, <2>1 DEF Ahead, BeforeFork
  <2>4. QED
    BY <1>7, <2>1, <2>2, <2>3 DEF LabelStep
<1>8. ASSUME NEW label \in {"upfailed", "stopfailed", "killfailed"}, NEW chain,
             NEW then \in {"signalled", "err", "kill"}, At(t, label, chain, then, "err")
      PROVE  LabelStep(f, call'[t])
  <2>1. f.pc = label /\ call'[t] = Walk(f, chain, then, "err")
    BY <1>2, <1>8 DEF At
  <2>2. /\ Ahead(call'[t]) = {"lookup", then, "err"}
        /\ call'[t].code = f.code /\ call'[t].pid = f.pid
    BY <1>1, <2>1, WalkLabels
  <2>3. QED
    BY <1>8, <2>1, <2>2 DEF LabelStep, BeforeFork
<1>9. CASE Launch(t)
  <2>1. PICK p \in Pids : call'[t] = Walk([f EXCEPT !.pid = p], UpChain(f.restarting),
                                          "ok", "upfailed")
    BY <1>2, <1>9 DEF Launch
  <2> DEFINE h == [f EXCEPT !.pid = p]
  <2>2. h \in Frame /\ h.code = f.code
    BY <1>1 DEF Frame
  <2>3. f.pc = "launch"
    BY <1>9 DEF Launch
  <2> HIDE DEF h
  <2>4. /\ Ahead(call'[t]) = {"lookup", "ok", "upfailed"} /\ call'[t].code = f.code
    <3>1. call'[t] = Walk(h, UpChain(f.restarting), "ok", "upfailed")
      BY <2>1 DEF h
    <3>2. QED
      BY <2>2, <3>1, WalkLabels
  <2>5. QED
    BY <2>3, <2>4 DEF LabelStep, Ahead, BeforeFork
<1>10. CASE Signalled(t) \/ ClearPid(t)
  <2>1. f.pc \in {"signalled", "clear"} /\ call'[t] = Jump(f, "ok")
    BY <1>2, <1>10 DEF Signalled, ClearPid
  <2>2. QED
    BY <1>3, <2>1
<1>k. CASE Kill(t)
  <2>1. PICK g, h \in Frame, label \in {"ok", "killfailed", "signalled"} :
           /\ g = Jump(h, label) /\ call' = [call EXCEPT ![t] = g]
           /\ h.pid = f.pid /\ h.code = f.code
    BY <1>k, KillMoves
  <2>2. call'[t] = g /\ f.pc = "kill"
    BY <1>2, <1>k, <2>1 DEF Kill
  <2>3. Ahead(g) = {label, "idle"} /\ g.code = f.code /\ g.pid = f.pid
    BY <2>1, JumpLabels
  <2>4. QED
    BY <2>2, <2>3 DEF LabelStep, BeforeFork
<1>11. CASE ExitCode(t)
  <2>1. f.pc = "exitcode"
    BY <1>11 DEF ExitCode
  <2>2. CASE f.code >= 3
    <3>1. call'[t] = Walk(f, FailChain, "clear", "clear")
      BY <1>2, <1>11, <2>2 DEF ExitCode
    <3>2. f.code \in 0 .. 255
      BY <1>1 DEF Frame
    <3>3. ~ (f.code < 3)
      BY <2>2, <3>2
    <3>4. /\ Ahead(call'[t]) = {"lookup", "clear"}
          /\ call'[t].code = f.code /\ call'[t].pid = f.pid
      BY <1>1, <3>1, WalkLabels
    <3>5. QED
      BY <2>1, <3>3, <3>4 DEF LabelStep, BeforeFork
  <2>3. CASE ~ (f.code >= 3)
    <3>1. call'[t] = Jump(f, "ok")
      BY <1>2, <1>11, <2>3 DEF ExitCode
    <3>2. /\ Ahead(call'[t]) = {"ok", "idle"} /\ call'[t].pc = "ok"
          /\ call'[t].code = f.code /\ call'[t].pid = f.pid
      BY <1>1, <3>1, JumpLabels
    <3>3. QED
      BY <2>1, <3>2 DEF LabelStep, BeforeFork
  <2>4. QED
    BY <2>2, <2>3
<1>12. CASE Undo(t) \/ Storage(t) \/ StorageFailed(t) \/ LaunchFails(t)
  BY <1>7, <1>12 DEF Undo, Storage, StorageFailed, LaunchFails
<1>13. CASE UpFailed(t) \/ StopFailed(t) \/ KillFailed(t)
  BY <1>8, <1>13 DEF UpFailed, StopFailed, KillFailed
<1>14. QED
  BY <1>4, <1>5, <1>6, <1>9, <1>10, <1>11, <1>12, <1>13, <1>k DEF Step

-----------------------------------------------------------------------------
(* Frames fit their jobs. *)

LEMMA EntryFits ==
    ASSUME NEW vm \in VMs, NEW code \in 0 .. 255, NEW place \in {"died", "finish"},
           NEW g \in {OnExit(vm, code), FailureState(vm), ResetFailure(vm)}
    PROVE  Fits([at |-> place, vm |-> vm], g) /\ g.pid = NoPid
<1> DEFINE e == Entry(vm)
           f == [e EXCEPT !.code = code]
<1>1. e \in Frame /\ e.vm = vm /\ e.pid = NoPid
  BY EntryFacts
<1> HIDE DEF e
<1>2. f \in Frame /\ f.vm = vm /\ f.pid = NoPid /\ f.code = code
  BY <1>1 DEF Frame
<1>3. NoPid \notin Pids
  BY ConstantsAssumption
<1> HIDE DEF f
<1>4. ASSUME NEW h \in Frame, h.vm = vm, h.pid = NoPid, NEW chain,
             NEW then \in {"request", "exitcode", "ok"}, then = "request" => h.code < 3,
             g = Walk(h, chain, then, "err")
      PROVE  Fits([at |-> place, vm |-> vm], g) /\ g.pid = NoPid
  <2>1. /\ Ahead(g) = {"lookup", then, "err"} /\ g.pid = NoPid /\ g.vm = vm
        /\ g.code = h.code /\ g.pc = "lookup"
    BY <1>4, WalkLabels
  <2>2. QED
    BY <1>3, <1>4, <2>1 DEF Fits, BeforeFork
<1>5. CASE g = FailureState(vm)
  BY <1>1, <1>4, <1>5 DEF FailureState, e
<1>6. CASE g = Walk(f, StopChain, "exitcode", "err")
  BY <1>2, <1>4, <1>6
<1>7. CASE /\ code = 0
           /\ g = Walk(f, RebootedChain, "request", "err") \/ g = Walk(f, RebootChain, "request", "err")
  BY <1>2, <1>4, <1>7
<1>8. ASSUME NEW h \in Frame, h.vm = vm, h.pid = NoPid, NEW label \in {"exitcode", "err"},
             g = Jump(h, label)
      PROVE  Fits([at |-> place, vm |-> vm], g) /\ g.pid = NoPid
  <2>1. /\ Ahead(g) = {label, "idle"} /\ g.pid = NoPid /\ g.vm = vm /\ g.pc = label
    BY <1>8, JumpLabels
  <2>2. QED
    BY <1>3, <2>1 DEF Fits, BeforeFork
<1>9. CASE g = OnExit(vm, code)
  <2>1. \/ g = Walk(f, StopChain, "exitcode", "err")
        \/ /\ code = 0
           /\ g = Walk(f, RebootedChain, "request", "err") \/ g = Walk(f, RebootChain, "request", "err")
        \/ g = Jump(f, "exitcode")
    BY <1>9 DEF OnExit, f, e
  <2>2. QED
    BY <1>2, <1>6, <1>7, <1>8, <2>1
<1>10. CASE g = ResetFailure(vm)
  BY <1>1, <1>4, <1>8, <1>10 DEF ResetFailure, e
<1>11. QED
  BY <1>5, <1>9, <1>10

LEMMA StartFits ==
    ASSUME NEW vm \in VMs
    PROVE  /\ Fits([at |-> "started", vm |-> vm], StartVM(vm)) /\ StartVM(vm).pid = NoPid
<1>1. /\ StartVM(vm).vm = vm /\ StartVM(vm).pid = NoPid
      /\ "request" \notin Ahead(StartVM(vm))
  BY StartVMFacts DEF StartFrame, StartLabels, Ahead
<1>2. NoPid \notin Pids
  BY ConstantsAssumption
<1>3. QED
  BY <1>1, <1>2 DEF Fits

LEMMA RestFits == Fits(AtRest, Idle) /\ AtRest.at = "rest" /\ Idle.pid = NoPid
<1>1. /\ AtRest.at = "rest" /\ Idle.pc = "idle" /\ Ahead(Idle) = {"idle"} /\ Idle.pid = NoPid
  BY DEF AtRest, Idle, Ahead
<1>2. QED
  BY <1>1 DEF Fits, BeforeFork

(* Thread t gets job j and frame g; a process keeps its VM. *)
LEMMA FitsMoves ==
    ASSUME TypeInv, FrameFits, NEW t \in Threads, NEW j, NEW g,
           job' = [job EXCEPT ![t] = j], call' = [call EXCEPT ![t] = g], Fits(j, g),
           \A p \in Forked : proc'[p].vm = proc[p].vm,
           g.pid \in Pids /\ j.at \in {"started", "register"} => proc'[g.pid].vm = j.vm
    PROVE  FrameFits'
<1>1. /\ job'[t] = j /\ call'[t] = g
      /\ \A u \in Threads \ {t} : job'[u] = job[u] /\ call'[u] = call[u]
  BY DEF TypeInv, PsvInv, PsvTypeOK, BdTypes
<1>2. SUFFICES ASSUME NEW u \in Threads
               PROVE  /\ Fits(job'[u], call'[u])
                      /\ \A p \in Pids : Holds(u, p)' => proc'[p].vm = job'[u].vm
  BY DEF FrameFits, Fits, Ahead
<1>3. CASE u = t
  BY <1>1, <1>3 DEF Holds
<1>4. CASE u # t
  <2>1. job'[u] = job[u] /\ call'[u] = call[u]
    BY <1>1, <1>4
  <2>2. \A p \in Pids : Holds(u, p)' => Holds(u, p) /\ p \in Forked
    BY <2>1 DEF Holds, TypeInv, JobsSound, Sound
  <2>3. QED
    BY <2>1, <2>2 DEF FrameFits
<1>5. QED
  BY <1>3, <1>4

LEMMA StepFits ==
    ASSUME TypeInv, FrameFits, NEW t \in Threads, Step(t), UNCHANGED job
    PROVE  FrameFits'
<1> DEFINE f == call[t]
           j == job[t]
<1>1. PICK g : FrameStep(t, g)
  BY StepEffect, TypeOfVM DEF TypeInv
<1>2. call' = [call EXCEPT ![t] = g] /\ call'[t] = g /\ g.vm = f.vm /\ LaunchesOnly(f, g)
  BY <1>1 DEF FrameStep, TypeInv, PsvInv, PsvTypeOK
<1>3. LabelStep(f, g)
  BY <1>2, StepLabels, TypeOfVM DEF TypeInv
<1>4. Fits(j, f)
  BY DEF FrameFits
<1>5. job' = [job EXCEPT ![t] = j]
  BY DEF TypeInv, BdTypes
<1>6. Fits(j, g)
  BY <1>2, <1>3, <1>4 DEF Fits, LabelStep
<1>7. \A p \in Forked : proc'[p].vm = proc[p].vm
  BY <1>2 DEF LaunchesOnly, SameProcess, Forked
<1>8. g.pid \in Pids /\ j.at \in {"started", "register"} => proc'[g.pid].vm = j.vm
  <2>1. CASE g.pid = f.pid /\ \A p \in Pids : SameProcess(p)
    BY <2>1 DEF FrameFits, Holds, SameProcess
  <2>2. CASE proc'[g.pid].vm = f.vm
    BY <1>4, <2>2 DEF Fits
  <2>3. QED
    BY <1>2, <2>1, <2>2 DEF LaunchesOnly
<1> HIDE DEF f, j
<1>9. QED
  BY <1>2, <1>5, <1>6, <1>7, <1>8, FitsMoves

(* A job of a thread goes on, or the thread leaves it. *)
LEMMA LeaveFits ==
    ASSUME TypeInv, FrameFits, NEW t \in Threads, Leaves(t), \A p \in Forked : proc'[p].vm = proc[p].vm
    PROVE  FrameFits'
<1>1. job' = [job EXCEPT ![t] = AtRest] /\ call' = [call EXCEPT ![t] = Idle]
  BY DEF Leaves, Runs
<1>2. QED
  BY <1>1, RestFits, FitsMoves

LEMMA CallFits ==
    ASSUME TypeInv, FrameFits, NEW t \in Threads, NEW vm \in VMs, NEW code \in 0 .. 255,
           NEW place \in {"died", "finish"}, NEW g \in {OnExit(vm, code), FailureState(vm), ResetFailure(vm)},
           job' = [job EXCEPT ![t] = [at |-> place, vm |-> vm]], Runs(t, g),
           \A p \in Forked : proc'[p].vm = proc[p].vm
    PROVE  FrameFits'
<1>1. Fits([at |-> place, vm |-> vm], g)
  BY EntryFits
<1>2. QED
  BY <1>1, FitsMoves DEF Runs

LEMMA GotoFits ==
    ASSUME TypeInv, FrameFits, NEW t \in Threads, NEW j,
           job' = [job EXCEPT ![t] = j], UNCHANGED call,
           \A p \in Forked : proc'[p].vm = proc[p].vm,
           \/ job[t].at \in {"rest", "count", "stamp"} /\ j.at \in {"count", "stamp", "generate"}
           \/ job[t].at = "started" /\ j.at = "register" /\ j.vm = job[t].vm
    PROVE  FrameFits'
<1>1. call' = [call EXCEPT ![t] = call[t]]
  BY DEF TypeInv, PsvInv, PsvTypeOK
<1>2. Fits(job[t], call[t]) /\ \A p \in Pids : Holds(t, p) => proc[p].vm = job[t].vm
  BY DEF FrameFits
<1>3. Fits(j, call[t])
  BY <1>2 DEF Fits
<1>4. call[t].pid \in Pids /\ j.at \in {"started", "register"}
          => call[t].pid \in Forked /\ Holds(t, call[t].pid) /\ j.vm = job[t].vm
  BY DEF Holds, TypeInv, JobsSound, Sound
<1>5. call[t].pid \in Pids /\ j.at \in {"started", "register"}
          => proc'[call[t].pid].vm = j.vm
  BY <1>2, <1>4
<1> DEFINE g == call[t]
<1> HIDE DEF g
<1>6. QED
  <2>1. /\ call' = [call EXCEPT ![t] = g] /\ Fits(j, g)
        /\ g.pid \in Pids /\ j.at \in {"started", "register"} => proc'[g.pid].vm = j.vm
    BY <1>1, <1>3, <1>5 DEF g
  <2>2. QED
    BY <2>1, FitsMoves

LEMMA BdStepFits ==
    ASSUME TypeInv, FrameFits, NEW t \in Threads, BdStep(t)
    PROVE  FrameFits'
<1> DEFINE vm == job[t].vm
           p == call[t].pid
<1>v. job[t].at # "rest" => vm \in VMs
  BY DEF TypeInv, JobsSound, Sound
<1>p. {"stamp", "generate", "started", "died", "finish", "register"} \subseteq Places
  BY DEF Places
<1>0. 0 \in 0 .. 255
  OBVIOUS
<1>s. UNCHANGED proc => \A q \in Forked : proc'[q].vm = proc[q].vm
  OBVIOUS
<1>1. ASSUME job[t].at # "rest", Goto(t, "finish"), Runs(t, FailureState(vm)), UNCHANGED proc
      PROVE  FrameFits'
  BY <1>0, <1>1, <1>p, <1>s, <1>v, CallFits, GotoMoves
<1>2. ASSUME NEW place \in {"stamp", "generate"}, job[t].at \in {"count", "stamp"},
             Goto(t, place), UNCHANGED << call, proc >>
      PROVE  FrameFits'
  <2>1. job' = [job EXCEPT ![t] = [at |-> place, vm |-> vm]]
    BY <1>2, <1>p, GotoMoves
  <2>2. QED
    BY <1>2, <1>s, <2>1, GotoFits
<1>3. ASSUME Leaves(t), UNCHANGED proc
      PROVE  FrameFits'
  BY <1>3, <1>s, LeaveFits
<1>4. CASE CountFail(t)
  BY <1>1, <1>2, <1>4 DEF CountFail
<1>5. CASE Stamp(t)
  BY <1>2, <1>3, <1>5 DEF Stamp
<1>6. CASE Generate(t)
  <2>1. CASE Goto(t, "started") /\ Runs(t, StartVM(vm))
    <3>1. /\ job' = [job EXCEPT ![t] = [at |-> "started", vm |-> vm]]
          /\ call' = [call EXCEPT ![t] = StartVM(vm)]
      BY <2>1, <1>p, GotoMoves DEF Runs
    <3>2. Fits([at |-> "started", vm |-> vm], StartVM(vm)) /\ StartVM(vm).pid \notin Pids
      BY <1>6, <1>v, StartFits, ConstantsAssumption DEF Generate
    <3>3. QED
      BY <1>6, <1>s, <3>1, <3>2, FitsMoves DEF Generate
  <2>2. QED
    BY <1>1, <1>6, <2>1 DEF Generate
<1>7. CASE StartFailed(t) \/ Finish(t) \/ Register(t)
  BY <1>3, <1>7 DEF StartFailed, Finish, Register
<1>8. CASE Died(t)
  BY <1>1, <1>3, <1>8 DEF Died
<1>9. CASE Probe(t)
  <2>1. p \in Pids /\ proc[p].code \in 0 .. 255
    <3>1. p \in Pids
      BY <1>9 DEF Probe, TypeInv, JobsSound, Sound, StartFrame
    <3>2. QED
      BY <3>1 DEF TypeInv, PsvInv, PsvTypeOK, Process
  <2>2. CASE proc[p].state = "zombie"
    <3>1. /\ proc' = [proc EXCEPT ![p].state = "reaped"]
          /\ job' = [job EXCEPT ![t] = [at |-> "died", vm |-> vm]]
          /\ Runs(t, OnExit(vm, proc[p].code))
      BY <1>9, <2>2, <1>p, GotoMoves DEF Probe
    <3>2. \A q \in Forked : proc'[q].vm = proc[q].vm
      BY <3>1 DEF Forked, TypeInv, PsvInv, PsvTypeOK, Process
    <3>3. vm \in VMs
      BY <1>9, <1>v DEF Probe
    <3>4. QED
      BY <2>1, <3>1, <3>2, <3>3, CallFits
  <2>3. CASE proc[p].state # "zombie"
    <3>1. /\ job' = [job EXCEPT ![t] = [at |-> "register", vm |-> vm]]
          /\ UNCHANGED << proc, call >> /\ job[t].at = "started"
      BY <1>9, <2>3, <1>p, GotoMoves DEF Probe
    <3>2. QED
      BY <1>s, <3>1, GotoFits
  <2>4. QED
    BY <2>2, <2>3
<1>10. QED
  BY <1>4, <1>5, <1>6, <1>7, <1>8, <1>9 DEF BdStep

LEMMA NextFits ==
    ASSUME TypeInv, FrameFits, Unattended, [Next]_vars
    PROVE  FrameFits'
<1>s. UNCHANGED proc => \A q \in Forked : proc'[q].vm = proc[q].vm
  OBVIOUS
<1>1. ASSUME NEW t \in Threads, NEW vm, BdStart(t, vm)
      PROVE  FrameFits'
  <2>1. /\ job[t].at = "rest" /\ UNCHANGED << call, proc >>
        /\ job' = [job EXCEPT ![t] = [at |-> "count", vm |-> vm]]
    BY <1>1 DEF BdStart, psvvars
  <2>2. QED
    BY <1>s, <2>1, GotoFits
<1>2. ASSUME NEW t \in Threads, RequestReboot(t)
      PROVE  FrameFits'
  <2> DEFINE g == Requested(call[t], TRUE)
  <2>1. /\ call[t] \in Frame /\ call[t].pc = "request" /\ job' = [job EXCEPT ![t] = job[t]]
        /\ call' = [call EXCEPT ![t] = g] /\ UNCHANGED proc
    BY <1>2 DEF RequestReboot, Runs, TypeInv, PsvInv, PsvTypeOK, BdTypes
  <2>2. /\ Ahead(g) = {"exitcode", "idle"} /\ g.pc = "exitcode"
        /\ g.pid = call[t].pid /\ g.vm = call[t].vm
    BY <2>1, JumpLabels DEF Requested
  <2>3. Fits(job[t], call[t]) /\ job[t].at \in {"died", "finish"}
    <3>1. "request" \in Ahead(call[t]) /\ Fits(job[t], call[t])
      BY <2>1 DEF Ahead, FrameFits
    <3>2. QED
      BY <3>1 DEF Fits
  <2> HIDE DEF g
  <2>4. Fits(job[t], g)
    BY <2>2, <2>3 DEF Fits, BeforeFork
  <2>5. QED
    BY <1>s, <2>1, <2>3, <2>4, FitsMoves
<1>3. CASE ReceiveExit
  <2> DEFINE p == Head(kevents)
             vm == proc[p].vm
             f == IF proc[p].exited THEN OnExit(vm, proc[p].code) ELSE FailureState(vm)
  <2>1. p \in Forked
    BY <1>3, TailSet DEF ReceiveExit, TypeInv, BdTypes, ProcsSound
  <2>2. vm \in VMs /\ proc[p].code \in 0 .. 255
    BY <2>1 DEF TypeInv, ProcsSound, PsvInv, PsvTypeOK, Process, Forked
  <2>3. "kq" \in Threads
    BY DirectorAssumption
  <2>4. /\ job' = [job EXCEPT !["kq"] = [at |-> "finish", vm |-> vm]] /\ Runs("kq", f)
        /\ UNCHANGED proc
    BY <1>3 DEF ReceiveExit, Calls
  <2>5. QED
    BY <1>s, <2>2, <2>3, <2>4, CallFits
<1>4. ASSUME NEW p \in Pids, Ends(p)
      PROVE  FrameFits'
  <2>1. UNCHANGED << job, call >> /\ \A q \in Pids : proc'[q].vm = proc[q].vm
    BY <1>4 DEF Ends, Exits, TypeInv, PsvInv, PsvTypeOK, Process
  <2>2. QED
    BY <2>1 DEF FrameFits, Fits, Ahead, Holds
<1>5. CASE UNCHANGED << job, call, proc >>
  BY <1>5 DEF FrameFits, Fits, Ahead, Holds
<1>6. ASSUME NEW t \in Threads, ThreadStep(t)
      PROVE  FrameFits'
  <2>1. CASE Step(t) /\ UNCHANGED bdvars
    BY <2>1, <1>6, StepFits DEF bdvars
  <2>2. CASE BdStep(t)
    BY <2>2, <1>6, BdStepFits
  <2>3. CASE t = "boot" /\ AutoStarts
    BY <2>3, <1>1, <1>6 DEF AutoStarts
  <2>4. CASE t = "rb" /\ (Waits \/ TakesNext)
    BY <2>4, <1>1, <1>5, <1>6 DEF Waits, TakesNext, psvvars
  <2>5. QED
    BY <1>2, <1>3, <1>6, <2>1, <2>2, <2>3, <2>4 DEF ThreadStep
<1>7. CASE Command
  <2>1. PICK vm \in VMs : Calls("cmd", vm, ResetFailure(vm))
    BY <1>7 DEF Command, Unattended
  <2>2. /\ job' = [job EXCEPT !["cmd"] = [at |-> "finish", vm |-> vm]]
        /\ Runs("cmd", ResetFailure(vm)) /\ UNCHANGED proc
    BY <2>1 DEF Calls
  <2>3. "cmd" \in Threads /\ 0 \in 0 .. 255
    BY DirectorAssumption
  <2>4. QED
    BY <1>s, <2>2, <2>3, CallFits
<1>8. CASE SpuriousWakeup \/ (\E vm \in VMs : Expires(vm)) \/ UNCHANGED vars
  BY <1>5, <1>8 DEF SpuriousWakeup, Expires, vars, psvvars, bdvars
<1>9. QED
  BY <1>4, <1>6, <1>7, <1>8 DEF Next

-----------------------------------------------------------------------------
(* The socket handler keeps to itself. *)

(* A thread leaves the others alone. *)
LEMMA StepsAlone ==
    ASSUME TypeInv, NEW t \in Threads, ThreadStep(t)
    PROVE  \A u \in Threads \ {t} : job'[u] = job[u] /\ call'[u] = call[u]
<1>1. \A f : Runs(t, f) => \A u \in Threads \ {t} : call'[u] = call[u]
  BY DEF Runs, TypeInv, PsvInv, PsvTypeOK
<1>2. \A j : job' = [job EXCEPT ![t] = j] => \A u \in Threads \ {t} : job'[u] = job[u]
  BY DEF TypeInv, BdTypes
<1>3. \A place : Goto(t, place) => \A u \in Threads \ {t} : job'[u] = job[u]
  BY DEF Goto, TypeInv, BdTypes
<1>4. CASE Step(t) /\ UNCHANGED bdvars
  <2>1. PICK g : FrameStep(t, g)
    BY <1>4, StepEffect, TypeOfVM DEF TypeInv
  <2>2. QED
    BY <1>4, <2>1 DEF FrameStep, bdvars, TypeInv, PsvInv, PsvTypeOK
<1>5. CASE BdStep(t)
  BY <1>1, <1>2, <1>3, <1>5
     DEF BdStep, CountFail, Stamp, Generate, StartFailed, Probe, Register, Died, Finish, Leaves
<1>6. CASE RequestReboot(t)
  BY <1>1, <1>6 DEF RequestReboot
<1>7. ASSUME NEW vm, BdStart(t, vm)
      PROVE  \A u \in Threads \ {t} : job'[u] = job[u] /\ call'[u] = call[u]
  BY <1>2, <1>7 DEF BdStart, psvvars
<1>8. CASE (t = "rb" /\ TakesNext) \/ (t = "boot" /\ AutoStarts)
  BY <1>7, <1>8 DEF TakesNext, AutoStarts, psvvars
<1>9. CASE (t = "kq" /\ ReceiveExit) \/ (t = "rb" /\ Waits)
  BY <1>1, <1>2, <1>9 DEF ReceiveExit, Calls, Waits, psvvars
<1>10. QED
  BY <1>4, <1>5, <1>6, <1>8, <1>9 DEF ThreadStep

(* All it can change is the state of the VM it resets. *)
Reset ==
    /\ \A u \in Workers : job'[u] = job[u] /\ call'[u] = call[u]
    /\ UNCHANGED << processid, proc, recent, rebootlist, rbpc, toboot, watched, kevents >>
    /\ \/ UNCHANGED vmstate
       \/ /\ call["cmd"].pc = "enter"
          /\ vmstate' = [vmstate EXCEPT ![call["cmd"].vm] = "INIT"]

LEMMA HandlerResets ==
    ASSUME TypeInv, ResetsOnly, FrameFits, Unattended, ThreadStep("cmd") \/ Command
    PROVE  Reset /\ ResetsOnly'
<1> DEFINE f == call["cmd"]
<1>1. "cmd" \in Threads /\ f \in Frame /\ \A u \in Workers : u \in Threads \ {"cmd"}
  BY DirectorAssumption DEF TypeInv, PsvInv, PsvTypeOK, Workers
<1>2. Resets(job["cmd"], f)
  BY DEF ResetsOnly
<1>3. \A g : call' = [call EXCEPT !["cmd"] = g] => call'["cmd"] = g
  BY <1>1 DEF TypeInv, PsvInv, PsvTypeOK
<1>4. CASE Command
  <2>1. PICK vm \in VMs : Calls("cmd", vm, ResetFailure(vm))
    BY <1>4 DEF Command, Unattended
  <2> DEFINE j == [at |-> "finish", vm |-> vm]
  <2>2. job' = [job EXCEPT !["cmd"] = j] /\ call' = [call EXCEPT !["cmd"] = ResetFailure(vm)]
    BY <2>1 DEF Calls, Runs
  <2>3. j.at = "finish"
    OBVIOUS
  <2> HIDE DEF j
  <2>4. Resets(j, ResetFailure(vm))
    <3> DEFINE e == Entry(vm)
    <3>1. e \in Frame /\ e.pid = NoPid /\ e.code = 0
      BY EntryFacts DEF Entry, Idle
    <3>2. ResetFailure(vm) \in {Walk(e, << "INIT" >>, "ok", "err"), Jump(e, "err")}
      BY DEF ResetFailure
    <3> HIDE DEF e
    <3>3. CASE ResetFailure(vm) = Walk(e, << "INIT" >>, "ok", "err")
      BY <2>3, <3>1, <3>3 DEF Resets, Walk, Frame
    <3>4. CASE ResetFailure(vm) = Jump(e, "err")
      BY <2>3, <3>1, <3>4 DEF Resets, Jump, Frame
    <3>5. QED
      BY <3>2, <3>3, <3>4
  <2>5. job'["cmd"] = j /\ \A u \in Workers : job'[u] = job[u] /\ call'[u] = call[u]
    BY <1>1, <2>2 DEF TypeInv, BdTypes, PsvInv, PsvTypeOK
  <2>6. ResetsOnly'
    BY <1>3, <2>2, <2>4, <2>5 DEF ResetsOnly, Resets
  <2>7. UNCHANGED << vmstate, processid, proc, recent, rebootlist, rbpc, toboot, watched, kevents >>
    BY <1>4, <2>1 DEF Command, Calls, BdStart, psvvars, Unattended
  <2>8. QED
    BY <2>5, <2>6, <2>7 DEF Reset
<1>5. CASE ThreadStep("cmd")
  <2>1. \A u \in Workers : job'[u] = job[u] /\ call'[u] = call[u]
    BY <1>1, <1>5, StepsAlone
  <2>2. CASE Step("cmd") /\ UNCHANGED bdvars
    <3>1. /\ job["cmd"].at = "finish" /\ f.pid = NoPid /\ f.code = 0
          /\ f.pc \in {"lookup", "enter"} /\ f.then = "ok" /\ f.else = "err" /\ f.todo = << "INIT" >>
      <4>1. f.pc \notin {"idle", "ok", "err"}
        BY <1>1, <2>2, StepLabels, TypeOfVM DEF LabelStep, TypeInv
      <4>2. QED
        BY <1>2, <4>1 DEF Resets, Idle
    <3>2. Head(f.todo) = "INIT" /\ Len(f.todo) = 1 /\ "INIT" \notin FailingHooks
      BY <3>1, ConstantsAssumption DEF HookStates
    <3>3. ASSUME NEW label \in {"ok", "err"}, call' = [call EXCEPT !["cmd"] = Jump(f, label)]
          PROVE  ResetsOnly'
      <4> DEFINE g == Jump(f, label)
      <4>1. call'["cmd"] = g
        BY <1>3, <3>3
      <4>2. g.pc = label /\ g.pid = NoPid /\ g.code = 0
        BY <1>1, <3>1, JumpLabels
      <4> HIDE DEF g
      <4>3. QED
        BY <2>2, <3>1, <3>3, <4>1, <4>2 DEF ResetsOnly, Resets, bdvars
    <3>4. CASE Lookup("cmd")
      <4>1. UNCHANGED << vmstate, processid, proc >>
        BY <3>4 DEF Lookup
      <4>2. CASE HasTransition(vmstate[f.vm], Head(f.todo))
        <5> DEFINE g == [f EXCEPT !.pc = "enter"]
        <5>1. call'["cmd"] = g
          BY <1>3, <3>4, <4>2 DEF Lookup
        <5>2. /\ g.pc = "enter" /\ g.then = "ok" /\ g.else = "err" /\ g.todo = << "INIT" >>
              /\ g.pid = NoPid /\ g.code = 0
          BY <1>1, <3>1 DEF Frame
        <5> HIDE DEF g
        <5>3. ResetsOnly'
          BY <2>2, <3>1, <5>1, <5>2 DEF ResetsOnly, Resets, bdvars
        <5>4. QED
          BY <2>1, <2>2, <4>1, <5>3 DEF Reset, bdvars
      <4>3. CASE ~ HasTransition(vmstate[f.vm], Head(f.todo))
        <5>1. call' = [call EXCEPT !["cmd"] = Jump(f, f.else)]
          BY <3>4, <4>3 DEF Lookup
        <5>2. ResetsOnly'
          BY <3>1, <3>3, <5>1
        <5>3. QED
          BY <2>1, <2>2, <4>1, <5>2 DEF Reset, bdvars
      <4>4. QED
        BY <4>2, <4>3
    <3>5. CASE Enter("cmd")
      <4>1. /\ f.pc = "enter" /\ vmstate' = [vmstate EXCEPT ![f.vm] = "INIT"]
            /\ call' = [call EXCEPT !["cmd"] = Jump(f, "ok")] /\ UNCHANGED << processid, proc >>
        BY <3>1, <3>2, <3>5 DEF Enter
      <4>2. ResetsOnly'
        BY <3>3, <4>1
      <4>3. QED
        BY <2>1, <2>2, <4>1, <4>2 DEF Reset, bdvars
    <3>6. ~ HookFails("cmd")
      BY <3>2 DEF HookFails
    <3>7. QED
      BY <2>2, <3>1, <3>4, <3>5, <3>6
         DEF Step, Undo, Storage, StorageFailed, Launch, LaunchFails, UpFailed, StopFailed,
             Kill, KillFailed, Signalled, ExitCode, ClearPid, At
  <2>3. CASE BdStep("cmd") /\ UNCHANGED << rebootlist, rbpc, toboot >>
    <3>1. job["cmd"].at \in {"rest", "finish"}
      BY <1>2 DEF Resets, AtRest
    <3>2. Finish("cmd")
      BY <2>3, <3>1
         DEF BdStep, CountFail, Stamp, Generate, StartFailed, Probe, Register, Died
    <3>3. /\ job' = [job EXCEPT !["cmd"] = AtRest] /\ call' = [call EXCEPT !["cmd"] = Idle]
          /\ UNCHANGED << vmstate, processid, proc, recent, watched, kevents >>
      BY <3>2 DEF Finish, Leaves, Runs
    <3>4. job'["cmd"] = AtRest /\ call'["cmd"] = Idle
      BY <1>1, <1>3, <3>3 DEF TypeInv, BdTypes
    <3>5. QED
      BY <2>1, <2>3, <3>3, <3>4 DEF Reset, ResetsOnly, Resets
  <2>4. CASE RequestReboot("cmd")
    BY <1>2, <2>4 DEF RequestReboot, Resets, Idle
  <2>5. QED
    BY <1>5, <2>2, <2>3, <2>4 DEF ThreadStep
<1>6. QED
  BY <1>4, <1>5

LEMMA NextResets ==
    ASSUME TypeInv, ResetsOnly, FrameFits, Unattended, [Next]_vars
    PROVE  ResetsOnly'
<1>1. CASE ThreadStep("cmd") \/ Command
  BY <1>1, HandlerResets
<1>2. ASSUME NEW t \in Threads \ {"cmd"}, ThreadStep(t)
      PROVE  ResetsOnly'
  <2>1. "cmd" \in Threads \ {t}
    BY <1>2, DirectorAssumption
  <2>2. QED
    BY <1>2, <2>1, StepsAlone DEF ResetsOnly, Resets
<1>3. CASE UNCHANGED << job, call >>
  BY <1>3 DEF ResetsOnly, Resets
<1>4. QED
  BY <1>1, <1>2, <1>3
     DEF Next, SpuriousWakeup, Ends, Expires, vars, psvvars, bdvars

-----------------------------------------------------------------------------
(* The reboot list as a sequence. *)

LEMMA LinksInsert ==
    ASSUME NEW q \in Queues, NEW s \in Seq(VMs), Links(q, s), Distinct(s),
           NEW vm \in VMs, vm \notin ToSet(s)
    PROVE  /\ Links(InsertTail(q, vm), Append(s, vm)) /\ Distinct(Append(s, vm))
           /\ Append(s, vm) \in Seq(VMs) /\ ToSet(Append(s, vm)) = ToSet(s) \cup {vm}
<1> DEFINE a == Append(s, vm)
           n == Len(s)
           r == InsertTail(q, vm)
<1>1. /\ a \in Seq(VMs) /\ a # << >> /\ n \in Nat /\ Len(a) = n + 1 /\ a[n + 1] = vm
      /\ \A i \in 1 .. n : a[i] = s[i] /\ s[i] \in VMs
  OBVIOUS
<1>2. ToSet(a) = ToSet(s) \cup {vm}
  BY AppendSet
<1>3. \A i \in 1 .. n : s[i] # vm
  BY DEF ToSet
<1>4. NoVM \notin VMs
  BY ConstantsAssumption
<1>5. /\ r.first = (IF q.last = NoVM THEN vm ELSE q.first) /\ r.last = vm
      /\ \A v \in VMs : r.next[v] = CASE v = q.last -> vm
                                      [] v = vm /\ v # q.last -> NoVM
                                      [] OTHER -> q.next[v]
  BY DEF InsertTail
<1> HIDE DEF a, r
<1>6. Distinct(a)
  BY <1>1, <1>3 DEF Distinct
<1>7. CASE n = 0
  <2>1. q.last = NoVM
    BY <1>1, <1>7 DEF Links
  <2>2. r.first = vm /\ r.last = vm /\ r.next[vm] = NoVM
    BY <1>4, <1>5, <2>1
  <2>3. Len(a) = 1 /\ a[1] = vm
    BY <1>1, <1>7
  <2>4. Links(r, a)
    BY <1>1, <2>2, <2>3 DEF Links
  <2>5. QED
    BY <1>1, <1>2, <1>6, <2>4 DEF a, r
<1>8. CASE n # 0
  <2>1. /\ q.first = s[1] /\ q.last = s[n] /\ s[n] \in VMs
        /\ \A i \in 1 .. n - 1 : q.next[s[i]] = s[i + 1]
    BY <1>1, <1>8 DEF Links
  <2>2. r.first = a[1] /\ r.last = a[n + 1]
    BY <1>1, <1>4, <1>5, <1>8, <2>1
  <2>3. r.next[vm] = NoVM
    BY <1>1, <1>3, <1>5, <1>8, <2>1
  <2>4. ASSUME NEW i \in 1 .. n
        PROVE  r.next[a[i]] = a[i + 1]
    <3>1. CASE i = n
      BY <1>1, <1>5, <2>1, <3>1
    <3>2. CASE i # n
      <4>1. i \in 1 .. n - 1 /\ i + 1 \in 1 .. n
        BY <1>1, <3>2
      <4>2. s[i] # s[n] /\ s[i] # vm /\ s[i] \in VMs
        BY <1>1, <1>3, <1>8, <3>2 DEF Distinct
      <4>3. r.next[s[i]] = q.next[s[i]]
        BY <1>5, <2>1, <4>2
      <4>4. QED
        BY <1>1, <2>1, <4>1, <4>3
    <3>3. QED
      BY <3>1, <3>2
  <2>5. Links(r, a)
    BY <1>1, <2>2, <2>3, <2>4 DEF Links
  <2>6. QED
    BY <1>1, <1>2, <1>6, <2>5 DEF a, r
<1>9. QED
  BY <1>7, <1>8

LEMMA LinksRemove ==
    ASSUME NEW q \in Queues, NEW s \in Seq(VMs), Links(q, s), Distinct(s), q.first # NoVM
    PROVE  /\ s # << >> /\ q.first = s[1] /\ s[1] \in ToSet(s)
           /\ Links(RemoveHead(q), Tail(s)) /\ Distinct(Tail(s)) /\ Tail(s) \in Seq(VMs)
           /\ ToSet(Tail(s)) \subseteq ToSet(s) \ {s[1]}
<1> DEFINE b == Tail(s)
           n == Len(s)
           r == RemoveHead(q)
<1>1. s # << >> /\ q.first = s[1] /\ q.last = s[n] /\ q.next[s[n]] = NoVM
  BY DEF Links
<1>2. /\ b \in Seq(VMs) /\ n \in Nat /\ n >= 1 /\ Len(b) = n - 1 /\ DOMAIN b = 1 .. n - 1
      /\ \A i \in 1 .. n - 1 : b[i] = s[i + 1]
      /\ \A i \in 1 .. n : s[i] \in VMs
  BY <1>1
<1>3. \A i \in 1 .. n - 1 : q.next[s[i]] = s[i + 1]
  BY <1>1 DEF Links
<1>4. ToSet(b) \subseteq ToSet(s) /\ s[1] \in ToSet(s)
  BY <1>1, TailSet
<1> HIDE DEF b
<1>5. s[1] \notin ToSet(b)
  <2>1. ASSUME NEW i \in 1 .. n - 1, b[i] = s[1] PROVE FALSE
    BY <1>2, <2>1 DEF Distinct
  <2>2. QED
    BY <1>2, <2>1 DEF ToSet
<1>6. Distinct(b)
  <2>1. ASSUME NEW i \in 1 .. n - 1, NEW k \in 1 .. n - 1, b[i] = b[k] PROVE i = k
    <3>1. i + 1 \in 1 .. n /\ k + 1 \in 1 .. n /\ s[i + 1] = s[k + 1]
      BY <1>2, <2>1
    <3>2. QED
      BY <1>2, <3>1 DEF Distinct
  <2>2. QED
    BY <1>2, <2>1 DEF Distinct
<1>7. /\ r.first = q.next[q.first] /\ r.next = q.next
      /\ r.last = IF q.next[q.first] = NoVM THEN NoVM ELSE q.last
  BY DEF RemoveHead, Queues
<1>8. NoVM \notin VMs
  BY ConstantsAssumption
<1> HIDE DEF r
<1>9. Links(r, b)
  <2>1. CASE n = 1
    BY <1>1, <1>2, <1>7, <2>1 DEF Links
  <2>2. CASE n # 1
    <3>1. 1 \in 1 .. n - 1 /\ n - 1 \in 1 .. n - 1 /\ b # << >>
      BY <1>2, <2>2
    <3>2. r.first = s[2] /\ s[2] = b[1] /\ s[2] # NoVM
      BY <1>1, <1>2, <1>3, <1>7, <1>8, <3>1
    <3>3. r.last = s[n] /\ b[n - 1] = s[n] /\ r.next[s[n]] = NoVM
      BY <1>1, <1>2, <1>7, <3>1, <3>2
    <3>4. ASSUME NEW i \in 1 .. (n - 1) - 1 PROVE r.next[b[i]] = b[i + 1]
      <4>1. i \in 1 .. n - 1 /\ i + 1 \in 1 .. n - 1
        BY <1>2
      <4>2. QED
        BY <1>2, <1>3, <1>7, <4>1
    <3>5. QED
      BY <1>2, <3>1, <3>2, <3>3, <3>4 DEF Links
  <2>3. QED
    BY <2>1, <2>2
<1>10. QED
  BY <1>1, <1>2, <1>4, <1>5, <1>6, <1>9 DEF b, r

-----------------------------------------------------------------------------
(* One step concerns one thread and one VM. *)

(* Thread t now serves vm or nobody, and no other VM gets a process. *)
Concerns(t, vm) ==
    /\ \A u \in Threads \ {t} : job'[u] = job[u] /\ call'[u] = call[u]
    /\ job'[t].vm \in {vm, NoVM}
    /\ \A p \in Pids, v \in VMs \ {vm} : Live(p, v)' => Live(p, v)
    /\ toboot' \subseteq toboot

LEMMA OneVM ==
    ASSUME NEW t \in Threads, t \in Workers, NEW vm \in VMs, NEW L, NEW M, Owners(L), Concerns(t, vm),
           M \subseteq L \cup {vm}, Owned(vm, M)'
    PROVE  Owners(M)'
<1>1. SUFFICES ASSUME NEW v \in VMs, v # vm PROVE Owned(v, M)'
  BY DEF Owners
<1>2. Owned(v, L)
  BY DEF Owners
<1>3. \A u \in Workers : Working(u, v)' =>
        Working(u, v) /\ \A p \in Pids : Holds(u, p) => Holds(u, p)'
  <2>1. SUFFICES ASSUME NEW u \in Workers, Working(u, v)'
                 PROVE  Working(u, v) /\ \A p \in Pids : Holds(u, p) => Holds(u, p)'
    OBVIOUS
  <2>2. u # t /\ u \in Threads
    BY <1>1, <2>1, ConstantsAssumption DEF Concerns, Working, Workers
  <2>3. job'[u] = job[u] /\ call'[u] = call[u]
    BY <2>2 DEF Concerns
  <2>4. QED
    BY <2>1, <2>3 DEF Working, Returning, Holds
<1>4. \A p \in Pids : Live(p, v)' => Live(p, v)
  BY <1>1 DEF Concerns
<1>5. (v \in toboot' => v \in toboot) /\ (v \in M => v \in L)
  BY <1>1 DEF Concerns
<1>6. /\ v \in toboot' \cup M => Free(v)' /\ \A p \in Pids : ~ Live(p, v)'
  BY <1>2, <1>3, <1>4, <1>5 DEF Owned, Free
<1>7. /\ \A a, b \in Workers : Working(a, v)' /\ Working(b, v)' => a = b
      /\ \A p, q \in Pids : Live(p, v)' /\ Live(q, v)' => p = q
      /\ \A a \in Workers, p \in Pids : Working(a, v)' /\ Live(p, v)' => Holds(a, p)'
  BY <1>2, <1>3, <1>4 DEF Owned
<1>8. QED
  BY <1>2, <1>5, <1>6, <1>7 DEF Owned

(* What thread t works on it worked on before; a process it still needs it *)
(* still holds.                                                            *)
LEMMA StillOwned ==
    ASSUME NEW t \in Threads, t \in Workers, NEW vm \in VMs, NEW L, Owned(vm, L), Concerns(t, vm),
           Working(t, vm)' => Working(t, vm),
           \A p \in Pids : Live(p, vm)' => Live(p, vm),
           \A p \in Pids : Working(t, vm)' /\ Holds(t, p) /\ Live(p, vm)' => Holds(t, p)'
    PROVE  Owned(vm, L)'
<1>1. \A u \in Workers : Working(u, vm)' => Working(u, vm)
  BY DEF Concerns, Working, Returning, Workers
<1>2. \A u \in Workers, p \in Pids :
        Working(u, vm)' /\ Live(p, vm)' /\ Holds(u, p) => Holds(u, p)'
  <2>1. \A u \in Workers \ {t}, p \in Pids : Holds(u, p) => Holds(u, p)'
    BY DEF Concerns, Holds, Workers
  <2>2. QED
    BY <2>1
<1>3. (vm \in toboot' => vm \in toboot)
  BY DEF Concerns
<1>4. /\ vm \in toboot' \cup L => Free(vm)' /\ \A p \in Pids : ~ Live(p, vm)'
  BY <1>1, <1>3 DEF Owned, Free
<1>5. /\ \A a, b \in Workers : Working(a, vm)' /\ Working(b, vm)' => a = b
      /\ \A p, q \in Pids : Live(p, vm)' /\ Live(q, vm)' => p = q
      /\ \A a \in Workers, p \in Pids : Working(a, vm)' /\ Live(p, vm)' => Holds(a, p)'
  BY <1>1, <1>2 DEF Owned
<1>6. QED
  BY <1>3, <1>4, <1>5 DEF Owned

(* At a place where nothing is held, the VM it works on has no process and *)
(* is on no list.                                                          *)
LEMMA WorkerAlone ==
    ASSUME NEW t \in Threads, t \in Workers, NEW vm \in VMs, NEW L, Owned(vm, L), Working(t, vm)
    PROVE  /\ vm \notin toboot /\ vm \notin L
           /\ \A u \in Workers : Working(u, vm) => u = t
           /\ \A p \in Pids : Live(p, vm) => Holds(t, p)
BY DEF Owned, Free

(* The VM has at most one process left, and nobody works on it but t,      *)
(* which holds that process.                                               *)
LEMMA AloneOwned ==
    ASSUME NEW t \in Threads, t \in Workers, NEW vm \in VMs, NEW L, vm \notin toboot', vm \notin L,
           \A u \in Workers : Working(u, vm)' => u = t,
           \A p, q \in Pids : Live(p, vm)' /\ Live(q, vm)' => p = q,
           \A p \in Pids : Working(t, vm)' /\ Live(p, vm)' => Holds(t, p)'
    PROVE  Owned(vm, L)'
<1>1. vm \notin toboot' \cup L
  OBVIOUS
<1>2. /\ \A u, v \in Workers : Working(u, vm)' /\ Working(v, vm)' => u = v
      /\ \A u \in Workers, p \in Pids : Working(u, vm)' /\ Live(p, vm)' => Holds(u, p)'
  OBVIOUS
<1>3. QED
  BY <1>1, <1>2 DEF Owned

LEMMA SameList ==
    ASSUME OwnInv, UNCHANGED rebootlist, NEW t \in Threads, t \in Workers, NEW vm \in VMs, Concerns(t, vm),
           \A L : Owned(vm, L) => Owned(vm, L)'
    PROVE  OwnInv'
<1>1. PICK s \in Seq(VMs) : Links(rebootlist, s) /\ Distinct(s) /\ Owners(ToSet(s))
  BY DEF OwnInv
<1> DEFINE L == ToSet(s)
<1> HIDE DEF L
<1>2. Owners(L)
  BY <1>1 DEF L
<1>3. Owned(vm, L)'
  BY <1>2 DEF Owners
<1>4. Owners(L)'
  BY <1>2, <1>3, OneVM
<1>5. QED
  BY <1>1, <1>4 DEF OwnInv, L, Links

-----------------------------------------------------------------------------
(* The steps inside an operation. *)

LEMMA StepOwned ==
    ASSUME Inv, NEW t \in Threads, t \in Workers, Step(t), UNCHANGED bdvars
    PROVE  OwnInv'
<1> DEFINE f == call[t]
<1>0. SUFFICES ASSUME NEW vm, vm = job[t].vm PROVE OwnInv'
  OBVIOUS
<1>1. PICK g : FrameStep(t, g)
  BY StepEffect, TypeOfVM DEF Inv, TypeInv
<1>2. /\ call'[t] = g /\ LaunchesOnly(f, g)
      /\ \A u \in Threads \ {t} : call'[u] = call[u]
  BY <1>1 DEF FrameStep, Inv, TypeInv, PsvInv, PsvTypeOK
<1>3. LabelStep(f, g)
  BY <1>2, StepLabels, TypeOfVM DEF Inv, TypeInv
<1>4. Fits(job[t], f) /\ job[t] \in Jobs
  BY DEF Inv, FrameFits, TypeInv, BdTypes
<1>5. job[t].at \in {"started", "register", "died", "finish"} /\ vm \in VMs /\ f.vm = vm
  BY <1>0, <1>3, <1>4 DEF Fits, LabelStep, Jobs, Places, Inv, TypeInv, JobsSound, Sound
<1>6. job' = job /\ toboot' = toboot /\ kevents' = kevents /\ rebootlist' = rebootlist
  BY DEF bdvars
<1>7. CASE g.pid = f.pid /\ \A p \in Pids : SameProcess(p)
  <2>1. \A p \in Pids, v \in VMs : Live(p, v)' => Live(p, v)
    BY <1>6, <1>7 DEF SameProcess, Live
  <2>2. Concerns(t, vm)
    BY <1>0, <1>2, <1>6, <2>1 DEF Concerns
  <2>3. Working(t, vm)' => Working(t, vm)
    BY <1>2, <1>3, <1>6 DEF Working, Returning, LabelStep
  <2>4. \A p \in Pids : Holds(t, p) => Holds(t, p)'
    BY <1>2, <1>6, <1>7 DEF Holds
  <2>5. \A L : Owned(vm, L) => Owned(vm, L)'
    BY <1>5, <2>1, <2>2, <2>3, <2>4, StillOwned
  <2>6. QED
    BY <1>5, <1>6, <2>2, <2>5, SameList DEF Inv
<1>8. CASE /\ g.pid \in Pids
           /\ proc[g.pid].state = "free"
           /\ proc'[g.pid].state = "alive" /\ proc'[g.pid].vm = f.vm
           /\ \A p \in Pids \ {g.pid} : SameProcess(p)
  <2>1. f.pid \notin Pids /\ job[t].at = "started"
    <3>1. f.pid \in Pids \/ job[t].at \in {"died", "finish"} => g.pid = f.pid
      BY <1>3, <1>4 DEF Fits, LabelStep
    <3>2. f.pid \in Pids /\ job[t].at \in {"started", "register"} => proc[f.pid].state # "free"
      BY DEF Inv, TypeInv, JobsSound, Sound, Forked
    <3>3. job[t].at \in {"died", "finish"} => f.pid \notin Pids
      BY <1>4 DEF Fits
    <3>4. job[t].at = "register" => f.pid \in Pids
      BY DEF Inv, TypeInv, JobsSound, Sound
    <3>5. QED
      BY <1>5, <1>8, <3>1, <3>2, <3>3, <3>4
  <2>2. Working(t, vm) /\ Holds(t, g.pid)'
    BY <1>0, <1>2, <1>6, <2>1 DEF Working, Returning, Holds
  <2>3. \A p \in Pids, v \in VMs : Live(p, v)' => Live(p, v) \/ (p = g.pid /\ v = vm)
    BY <1>5, <1>6, <1>8 DEF SameProcess, Live
  <2>4. Concerns(t, vm)
    BY <1>0, <1>2, <1>6, <2>3 DEF Concerns
  <2>5. ASSUME NEW L, Owned(vm, L)
        PROVE  Owned(vm, L)'
    <3>1. /\ vm \notin toboot' /\ vm \notin L
          /\ \A u \in Workers : Working(u, vm) => u = t
          /\ \A p \in Pids : Live(p, vm) => Holds(t, p)
      BY <1>5, <1>6, <2>2, <2>5, WorkerAlone
    <3>2. \A p \in Pids : Live(p, vm)' => p = g.pid
      BY <1>5, <2>1, <2>3, <3>1 DEF Holds
    <3>3. \A u \in Workers : Working(u, vm)' => u = t
      BY <2>4, <3>1 DEF Concerns, Working, Returning, Workers
    <3>4. QED
      BY <1>5, <2>2, <3>1, <3>2, <3>3, AloneOwned
  <2>6. QED
    BY <1>5, <1>6, <2>4, <2>5, SameList DEF Inv
<1>9. QED
  BY <1>2, <1>7, <1>8 DEF LaunchesOnly

-----------------------------------------------------------------------------
(* The steps of bd_startvm. *)

LEMMA PassesOn ==
    ASSUME Inv, NEW t \in Threads, t \in Workers, NEW vm \in VMs, vm = job[t].vm, NEW j, NEW g,
           job' = [job EXCEPT ![t] = j], call' = [call EXCEPT ![t] = g],
           UNCHANGED << proc, toboot, kevents, rebootlist >>,
           j.vm = NoVM \/ (j.vm = vm /\ ~ Returning(t)),
           j.vm = NoVM \/ \A p \in Pids : ~ Holds(t, p)
    PROVE  OwnInv'
<1>1. /\ job'[t] = j /\ call'[t] = g
      /\ \A u \in Threads \ {t} : job'[u] = job[u] /\ call'[u] = call[u]
  BY DEF Inv, TypeInv, BdTypes, PsvInv, PsvTypeOK
<1>2. \A p \in Pids, v \in VMs : Live(p, v)' => Live(p, v)
  BY DEF Live
<1>3. Concerns(t, vm)
  BY <1>1, <1>2 DEF Concerns
<1>4. NoVM \notin VMs
  BY ConstantsAssumption
<1>5. Working(t, vm)' => Working(t, vm) /\ \A p \in Pids : ~ Holds(t, p)
  BY <1>1, <1>4 DEF Working
<1>6. \A L : Owned(vm, L) => Owned(vm, L)'
  BY <1>2, <1>3, <1>5, StillOwned
<1>7. QED
  BY <1>3, <1>6, SameList DEF Inv

LEMMA LeavesOwned ==
    ASSUME Inv, NEW t \in Threads, t \in Workers, job[t].at # "rest", Leaves(t),
           UNCHANGED << proc, toboot, kevents, rebootlist >>
    PROVE  OwnInv'
<1>1. /\ job' = [job EXCEPT ![t] = AtRest] /\ call' = [call EXCEPT ![t] = Idle]
      /\ AtRest.vm = NoVM
  BY DEF Leaves, Runs, AtRest
<1>2. job[t].vm \in VMs
  BY DEF Inv, TypeInv, JobsSound, Sound
<1>3. QED
  BY <1>1, <1>2, PassesOn

LEMMA GotoOwned ==
    ASSUME Inv, NEW t \in Threads, t \in Workers, NEW place \in Places, NEW g,
           Goto(t, place), call' = [call EXCEPT ![t] = g],
           UNCHANGED << proc, toboot, kevents, rebootlist >>,
           job[t].at \in {"count", "stamp", "generate", "died"}, ~ Returning(t)
    PROVE  OwnInv'
<1>1. job' = [job EXCEPT ![t] = [at |-> place, vm |-> job[t].vm]]
  BY GotoMoves DEF Inv
<1>2. job[t].vm \in VMs
  BY DEF Inv, TypeInv, JobsSound, Sound
<1>3. \A p \in Pids : ~ Holds(t, p)
  BY DEF Holds
<1> DEFINE j == [at |-> place, vm |-> job[t].vm]
<1>4. j.vm = job[t].vm
  OBVIOUS
<1> HIDE DEF j
<1>5. job' = [job EXCEPT ![t] = j]
  BY <1>1 DEF j
<1>6. QED
  BY <1>2, <1>3, <1>4, <1>5, PassesOn

LEMMA ProbeOwned ==
    ASSUME Inv, NEW t \in Threads, t \in Workers, Probe(t), UNCHANGED << rebootlist, rbpc, toboot >>
    PROVE  OwnInv'
<1> DEFINE p == call[t].pid
<1>0. SUFFICES ASSUME NEW vm, vm = job[t].vm PROVE OwnInv'
  OBVIOUS
<1>1. /\ job[t].at = "started" /\ p \in Pids /\ vm \in VMs
      /\ kevents' = kevents /\ toboot' = toboot /\ rebootlist' = rebootlist
  <2>1. job[t].at = "started" /\ call[t].pc = "ok" /\ kevents' = kevents
    BY DEF Probe
  <2>2. QED
    BY <1>0, <2>1 DEF Inv, TypeInv, JobsSound, Sound, StartFrame
<1>2. Working(t, vm) /\ Holds(t, p)
  BY <1>0, <1>1 DEF Working, Returning, Holds
<1>3. ASSUME NEW place \in {"died", "register"}, Goto(t, place), NEW g,
             call' = [call EXCEPT ![t] = g],
             \A q \in Pids, v \in VMs : Live(q, v)' => Live(q, v),
             \A q \in Pids : q = p /\ Live(q, vm)' => Holds(t, q)'
      PROVE  OwnInv'
  <2>1. place \in Places
    BY DEF Places
  <2>2. job' = [job EXCEPT ![t] = [at |-> place, vm |-> vm]]
    BY <1>0, <1>3, <2>1, GotoMoves DEF Inv
  <2>3. /\ job'[t].vm = vm
        /\ \A u \in Threads \ {t} : job'[u] = job[u] /\ call'[u] = call[u]
    BY <1>3, <2>2 DEF Inv, TypeInv, BdTypes, PsvInv, PsvTypeOK
  <2>4. Concerns(t, vm)
    BY <1>1, <1>3, <2>3 DEF Concerns
  <2>5. \A q \in Pids : Working(t, vm)' /\ Holds(t, q) /\ Live(q, vm)' => Holds(t, q)'
    <3>1. \A q \in Pids : Holds(t, q) => q = p
      BY DEF Holds
    <3>2. QED
      BY <1>3, <3>1
  <2>6. \A L : Owned(vm, L) => Owned(vm, L)'
    BY <1>1, <1>2, <1>3, <2>4, <2>5, StillOwned
  <2>7. QED
    BY <1>1, <2>4, <2>6, SameList DEF Inv
<1>4. CASE proc[p].state = "zombie"
  <2>1. /\ proc' = [proc EXCEPT ![p].state = "reaped"] /\ Goto(t, "died")
        /\ call' = [call EXCEPT ![t] = OnExit(job[t].vm, proc[p].code)]
    BY <1>4 DEF Probe, Runs
  <2>2. p \notin ToSet(kevents)
    BY <1>1, <1>2 DEF Inv, ExitReportedOnce
  <2>3. /\ proc'[p].state = "reaped"
        /\ \A q \in Pids : proc'[q].vm = proc[q].vm
        /\ \A q \in Pids \ {p} : proc'[q].state = proc[q].state
    BY <1>1, <2>1 DEF Inv, TypeInv, PsvInv, PsvTypeOK, Process
  <2>4. \A q \in Pids, v \in VMs : Live(q, v)' => Live(q, v) /\ q # p
    BY <1>1, <2>2, <2>3 DEF Live
  <2>5. QED
    BY <1>1, <1>3, <2>1, <2>4
<1>5. CASE proc[p].state # "zombie"
  <2>1. Goto(t, "register") /\ proc' = proc /\ call' = call
    BY <1>5 DEF Probe
  <2>2. call' = [call EXCEPT ![t] = call[t]]
    BY <2>1 DEF Inv, TypeInv, PsvInv, PsvTypeOK
  <2>3. \A q \in Pids, v \in VMs : Live(q, v)' => Live(q, v)
    BY <1>1, <2>1 DEF Live
  <2>4. job'[t].at = "register"
    BY <2>1 DEF Goto, Inv, TypeInv, BdTypes, Jobs
  <2>5. \A q \in Pids : q = p => Holds(t, q)'
    BY <2>1, <2>4 DEF Holds
  <2>6. QED
    BY <1>3, <2>1, <2>2, <2>3, <2>5
<1>6. QED
  BY <1>4, <1>5

LEMMA RegisterOwned ==
    ASSUME Inv, NEW t \in Threads, t \in Workers, Register(t), UNCHANGED << rebootlist, rbpc, toboot >>
    PROVE  OwnInv'
<1>0. SUFFICES ASSUME NEW vm, vm = job[t].vm, NEW p, p = call[t].pid PROVE OwnInv'
  OBVIOUS
<1>1. /\ job[t].at = "register" /\ p \in Pids /\ vm \in VMs
      /\ proc' = proc /\ toboot' = toboot /\ rebootlist' = rebootlist
      /\ kevents' \in {kevents, Append(kevents, p)}
  <2>1. /\ job[t].at = "register" /\ proc' = proc
        /\ kevents' \in {kevents, Append(kevents, p)}
    BY <1>0 DEF Register
  <2>2. QED
    BY <1>0, <2>1 DEF Inv, TypeInv, JobsSound, Sound
<1>2. Working(t, vm) /\ Holds(t, p) /\ \A q \in Pids : Holds(t, q) => q = p
  BY <1>0, <1>1 DEF Working, Returning, Holds
<1>3. proc[p].vm = vm
  BY <1>0, <1>1, <1>2 DEF Inv, FrameFits
<1>4. ToSet(kevents') \subseteq ToSet(kevents) \cup {p}
  <2>1. kevents \in Seq(Pids)
    BY DEF Inv, TypeInv, BdTypes
  <2>2. ToSet(Append(kevents, p)) = ToSet(kevents) \cup {p}
    BY <1>1, <2>1, AppendSet
  <2>3. CASE kevents' = kevents
    BY <2>3
  <2>4. CASE kevents' = Append(kevents, p)
    BY <2>2, <2>4
  <2>5. QED
    BY <1>1, <2>3, <2>4
<1>5. \A q \in Pids, v \in VMs : Live(q, v)' => Live(q, v) \/ (q = p /\ v = vm)
  BY <1>1, <1>3, <1>4 DEF Live
<1>6. /\ job'[t].vm = NoVM
      /\ \A u \in Threads \ {t} : job'[u] = job[u] /\ call'[u] = call[u]
  BY DEF Register, Leaves, Runs, AtRest, Inv, TypeInv, BdTypes, PsvInv, PsvTypeOK
<1>7. Concerns(t, vm)
  BY <1>1, <1>5, <1>6 DEF Concerns
<1>8. ASSUME NEW L, Owned(vm, L)
      PROVE  Owned(vm, L)'
  <2>1. /\ vm \notin toboot' /\ vm \notin L
        /\ \A u \in Workers : Working(u, vm) => u = t
        /\ \A q \in Pids : Live(q, vm) => Holds(t, q)
    BY <1>1, <1>2, <1>8, WorkerAlone
  <2>2. \A q \in Pids : Live(q, vm)' => q = p
    BY <1>1, <1>2, <1>5, <2>1
  <2>3. ~ Working(t, vm)'
    BY <1>1, <1>6, ConstantsAssumption DEF Working
  <2>4. \A u \in Workers : Working(u, vm)' => u = t
    BY <1>6, <2>1 DEF Working, Returning, Workers
  <2>5. QED
    BY <1>1, <2>1, <2>2, <2>3, <2>4, AloneOwned
<1>9. QED
  BY <1>1, <1>7, <1>8, SameList DEF Inv

LEMMA BdStepOwned ==
    ASSUME Inv, NEW t \in Threads, t \in Workers, BdStep(t), UNCHANGED << rebootlist, rbpc, toboot >>
    PROVE  OwnInv'
<1>p. {"stamp", "generate", "started", "finish"} \subseteq Places
  BY DEF Places
<1>c. call = [call EXCEPT ![t] = call[t]]
  BY DEF Inv, TypeInv, PsvInv, PsvTypeOK
<1>1. CASE CountFail(t)
  <2>1. /\ job[t].at = "count" /\ UNCHANGED << proc, toboot, kevents, rebootlist >>
        /\ \/ Goto(t, "finish") /\ Runs(t, FailureState(job[t].vm))
           \/ Goto(t, "stamp") /\ call' = call
    BY <1>1 DEF CountFail
  <2>2. ~ Returning(t)
    BY <2>1 DEF Returning
  <2>3. QED
    BY <1>c, <1>p, <2>1, <2>2, GotoOwned DEF Runs
<1>2. CASE Stamp(t)
  <2>1. /\ job[t].at = "stamp" /\ UNCHANGED << proc, toboot, kevents, rebootlist >>
        /\ Leaves(t) \/ (Goto(t, "generate") /\ call' = call)
    BY <1>2 DEF Stamp
  <2>2. ~ Returning(t)
    BY <2>1 DEF Returning
  <2>3. QED
    BY <1>c, <1>p, <2>1, <2>2, GotoOwned, LeavesOwned
<1>3. CASE Generate(t)
  <2>1. /\ job[t].at = "generate" /\ UNCHANGED << proc, toboot, kevents, rebootlist >>
        /\ \/ Goto(t, "started") /\ Runs(t, StartVM(job[t].vm))
           \/ Goto(t, "finish") /\ Runs(t, FailureState(job[t].vm))
    BY <1>3 DEF Generate
  <2>2. ~ Returning(t)
    BY <2>1 DEF Returning
  <2>3. QED
    BY <1>p, <2>1, <2>2, GotoOwned DEF Runs
<1>4. CASE StartFailed(t) \/ Finish(t)
  <2>1. /\ job[t].at # "rest" /\ Leaves(t)
        /\ UNCHANGED << proc, toboot, kevents, rebootlist >>
    BY <1>4 DEF StartFailed, Finish
  <2>2. QED
    BY <2>1, LeavesOwned
<1>5. CASE Died(t)
  <2>1. /\ job[t].at = "died" /\ UNCHANGED << proc, toboot, kevents, rebootlist >>
        /\ \/ Leaves(t)
           \/ call[t].pc = "err" /\ Goto(t, "finish") /\ Runs(t, FailureState(job[t].vm))
    BY <1>5 DEF Died, Returned
  <2>2. call[t].pc = "err" => ~ Returning(t)
    BY <2>1 DEF Returning
  <2>3. QED
    BY <1>p, <2>1, <2>2, GotoOwned, LeavesOwned DEF Runs
<1>6. QED
  BY <1>1, <1>2, <1>3, <1>4, <1>5, ProbeOwned, RegisterOwned DEF BdStep

-----------------------------------------------------------------------------
(* A thread takes on a VM: from the autostart, the reboot list, the kqueue. *)

LEMMA TakesOn ==
    ASSUME Inv, NEW t \in Threads, t \in Workers, NEW vm \in VMs, NEW L, NEW M, Owners(L), Free(vm),
           \A u \in Threads \ {t} : job'[u] = job[u] /\ call'[u] = call[u],
           job'[t].vm = vm, toboot' \subseteq toboot, vm \notin toboot', M \subseteq L \ {vm},
           \A p \in Pids, v \in VMs : Live(p, v)' => Live(p, v) /\ v # vm
    PROVE  Owners(M)'
<1>1. Concerns(t, vm)
  BY DEF Concerns
<1>2. \A u \in Workers : Working(u, vm)' => u = t
  BY DEF Free, Working, Returning, Workers
<1>3. \A p \in Pids : ~ Live(p, vm)'
  OBVIOUS
<1>4. Owned(vm, M)'
  BY <1>2, <1>3, AloneOwned
<1>5. QED
  BY <1>1, <1>4, OneVM

LEMMA BdStartOwned ==
    ASSUME Inv, NEW t \in Threads, t \in Workers, NEW vm \in VMs, NEW L, NEW M, Owners(L), BdStart(t, vm),
           vm \in toboot \cup L, toboot' \subseteq toboot, vm \notin toboot', M \subseteq L \ {vm}
    PROVE  Owners(M)'
<1>1. Owned(vm, L)
  BY DEF Owners
<1>2. Free(vm) /\ \A p \in Pids : ~ Live(p, vm)
  BY <1>1 DEF Owned
<1>3. proc' = proc /\ kevents' = kevents /\ call' = call
  BY DEF BdStart, psvvars
<1>4. job'[t].vm = vm /\ \A u \in Threads \ {t} : job'[u] = job[u] /\ call'[u] = call[u]
  BY <1>3 DEF BdStart, Inv, TypeInv, BdTypes
<1>5. \A p \in Pids, v \in VMs : Live(p, v)' => Live(p, v) /\ v # vm
  BY <1>2, <1>3 DEF Live
<1>6. QED
  BY <1>2, <1>4, <1>5, TakesOn

LEMMA AutoStartsOwned ==
    ASSUME Inv, AutoStarts
    PROVE  OwnInv'
<1>1. PICK vm \in toboot : BdStart("boot", vm) /\ toboot' = toboot \ {vm}
  BY DEF AutoStarts
<1>2. /\ vm \in VMs /\ "boot" \in Threads /\ "boot" \in Workers
      /\ rebootlist' = rebootlist
  BY DirectorAssumption DEF Workers, Inv, TypeInv, BdTypes, AutoStarts
<1>3. PICK s \in Seq(VMs) : Links(rebootlist, s) /\ Distinct(s) /\ Owners(ToSet(s))
  BY DEF Inv, OwnInv
<1> DEFINE L == ToSet(s)
<1> HIDE DEF L
<1>4. Owners(L) /\ Owned(vm, L)
  BY <1>2, <1>3 DEF L, Owners
<1>5. vm \notin L
  BY <1>4 DEF Owned
<1>6. Owners(L)'
  BY <1>1, <1>2, <1>4, <1>5, BdStartOwned
<1>7. QED
  BY <1>2, <1>3, <1>6 DEF OwnInv, L, Links

LEMMA TakesNextOwned ==
    ASSUME Inv, BdStart("rb", rebootlist.first), rebootlist.first # NoVM,
           rebootlist' = RemoveHead(rebootlist), UNCHANGED toboot
    PROVE  OwnInv'
<1>1. PICK s \in Seq(VMs) : Links(rebootlist, s) /\ Distinct(s) /\ Owners(ToSet(s))
  BY DEF Inv, OwnInv
<1> DEFINE L == ToSet(s)
           M == ToSet(Tail(s))
           vm == s[1]
<1>2. rebootlist \in Queues
  BY DEF Inv, TypeInv, BdTypes
<1>3. /\ s # << >> /\ rebootlist.first = vm /\ vm \in L
      /\ Links(RemoveHead(rebootlist), Tail(s)) /\ Distinct(Tail(s)) /\ Tail(s) \in Seq(VMs)
      /\ M \subseteq L \ {vm}
  BY <1>1, <1>2, LinksRemove
<1>4. vm \in VMs
  BY <1>3
<1> HIDE DEF L, M, vm
<1>5. Owners(L) /\ Owned(vm, L) /\ vm \notin toboot
  BY <1>1, <1>3, <1>4 DEF L, Owners, Owned
<1>6. "rb" \in Threads /\ "rb" \in Workers
  BY DirectorAssumption DEF Workers
<1>7. Owners(M)'
  BY <1>3, <1>4, <1>5, <1>6, BdStartOwned
<1>8. QED
  BY <1>3, <1>7 DEF OwnInv, M

LEMMA ReceiveOwned ==
    ASSUME Inv, ReceiveExit
    PROVE  OwnInv'
<1>0. SUFFICES ASSUME NEW p, p = Head(kevents), NEW vm, vm = proc[p].vm PROVE OwnInv'
  OBVIOUS
<1>1. /\ kevents \in Seq(Pids) /\ kevents # << >> /\ kevents' = Tail(kevents)
      /\ proc' = proc /\ toboot' = toboot /\ rebootlist' = rebootlist
  BY DEF ReceiveExit, Calls, Inv, TypeInv, BdTypes
<1>2. "kq" \in Threads /\ "kq" \in Workers
  BY DirectorAssumption DEF Workers
<1>3. /\ job'["kq"].vm = vm
      /\ \A u \in Threads \ {"kq"} : job'[u] = job[u] /\ call'[u] = call[u]
  BY <1>0, <1>2 DEF ReceiveExit, Calls, Runs, Inv, TypeInv, BdTypes, PsvInv, PsvTypeOK
<1>4. p \in ToSet(kevents) /\ ToSet(kevents') \subseteq ToSet(kevents)
  BY <1>0, <1>1, TailSet
<1>5. p \in Pids /\ vm \in VMs /\ Live(p, vm)
  <2>1. p \in Forked
    BY <1>4 DEF Inv, TypeInv, ProcsSound
  <2>2. QED
    BY <1>0, <1>4, <2>1 DEF Inv, TypeInv, ProcsSound, Forked, Live
<1>6. p \notin ToSet(kevents') /\ proc[p].state = "zombie"
  <2>1. DOMAIN kevents = 1 .. Len(kevents) /\ p = kevents[1] /\ 1 \in DOMAIN kevents
    BY <1>0, <1>1
  <2>2. \A i \in DOMAIN kevents' : i + 1 \in DOMAIN kevents /\ kevents'[i] = kevents[i + 1] /\ i # 0
    BY <1>1
  <2>3. \A i \in DOMAIN kevents' : kevents'[i] # p
    <3>1. SUFFICES ASSUME NEW i \in DOMAIN kevents', kevents'[i] = p PROVE FALSE
      OBVIOUS
    <3>2. i \in Nat \ {0}
      BY <1>1
    <3>3. i + 1 = 1
      BY <2>1, <2>2, <3>1 DEF Inv, ExitReportedOnce
    <3>4. QED
      BY <3>2, <3>3
  <2>4. QED
    BY <2>1, <2>3 DEF ToSet, Inv, ExitReportedOnce
<1>7. PICK s \in Seq(VMs) : Links(rebootlist, s) /\ Distinct(s) /\ Owners(ToSet(s))
  BY DEF Inv, OwnInv
<1> DEFINE L == ToSet(s)
<1> HIDE DEF L
<1>8. Owners(L) /\ Owned(vm, L)
  BY <1>5, <1>7 DEF L, Owners
<1>9. vm \notin toboot /\ vm \notin L /\ \A q \in Pids : Live(q, vm) => q = p
  BY <1>5, <1>8 DEF Owned
<1>10. Free(vm)
  <2>1. SUFFICES ASSUME NEW u \in Workers, Working(u, vm) PROVE FALSE
    BY DEF Free
  <2>2. Holds(u, p)
    BY <1>5, <1>8, <2>1 DEF Owned
  <2>3. QED
    BY <1>4, <1>5, <2>1, <2>2 DEF Inv, ExitReportedOnce, Workers
<1>11. \A q \in Pids, v \in VMs : Live(q, v)' => Live(q, v) /\ v # vm
  <2>1. \A q \in Pids, v \in VMs : Live(q, v)' => Live(q, v) /\ q # p
    BY <1>1, <1>4, <1>6 DEF Live
  <2>2. QED
    BY <1>9, <2>1
<1>12. Owners(L)'
  BY <1>1, <1>2, <1>3, <1>5, <1>8, <1>9, <1>10, <1>11, TakesOn
<1>13. QED
  BY <1>1, <1>7, <1>12 DEF OwnInv, L, Links

-----------------------------------------------------------------------------
(* A thread hands a VM over to the restart thread. *)

LEMMA RequestOwned ==
    ASSUME Inv, NEW t \in Threads, t \in Workers, RequestReboot(t)
    PROVE  OwnInv'
<1> DEFINE g == Requested(call[t], TRUE)
<1>0. SUFFICES ASSUME NEW vm, vm = call[t].vm PROVE OwnInv'
  OBVIOUS
<1>1. /\ call[t] \in Frame /\ call[t].pc = "request"
      /\ job' = job /\ proc' = proc /\ toboot' = toboot /\ kevents' = kevents
      /\ rebootlist' = InsertTail(rebootlist, vm) /\ rebootlist \in Queues
      /\ call'[t] = g /\ \A u \in Threads \ {t} : call'[u] = call[u]
  BY <1>0 DEF RequestReboot, Runs, Inv, TypeInv, BdTypes, PsvInv, PsvTypeOK
<1>2. g.pc = "exitcode" /\ g.code = call[t].code
  BY <1>1, JumpLabels DEF Requested
<1> HIDE DEF g
<1>3. job[t].at \in {"died", "finish"} /\ call[t].code < 3 /\ job[t].vm = vm /\ vm \in VMs
  <2>1. "request" \in Ahead(call[t]) /\ Fits(job[t], call[t])
    BY <1>1 DEF Ahead, Inv, FrameFits
  <2>2. QED
    BY <1>0, <2>1 DEF Fits, Inv, TypeInv, JobsSound, Sound
<1>4. Working(t, vm) /\ ~ Working(t, vm)' /\ \A p \in Pids : ~ Holds(t, p)
  BY <1>1, <1>2, <1>3 DEF Working, Returning, Holds
<1>5. PICK s \in Seq(VMs) : Links(rebootlist, s) /\ Distinct(s) /\ Owners(ToSet(s))
  BY DEF Inv, OwnInv
<1> DEFINE L == ToSet(s)
           a == Append(s, vm)
           M == ToSet(a)
<1> HIDE DEF L
<1>6. Owners(L) /\ Owned(vm, L)
  BY <1>3, <1>5 DEF L, Owners
<1>7. /\ vm \notin toboot /\ vm \notin L
      /\ \A u \in Workers : Working(u, vm) => u = t
      /\ \A p \in Pids : ~ Live(p, vm)
  BY <1>3, <1>4, <1>6, WorkerAlone
<1>8. /\ Links(InsertTail(rebootlist, vm), a) /\ Distinct(a) /\ a \in Seq(VMs)
      /\ M = L \cup {vm}
  BY <1>1, <1>3, <1>5, <1>7, LinksInsert DEF L
<1> HIDE DEF a, M
<1>9. \A p \in Pids, v \in VMs : Live(p, v)' => Live(p, v)
  BY <1>1 DEF Live
<1>10. Concerns(t, vm)
  BY <1>1, <1>3, <1>9 DEF Concerns
<1>11. Owned(vm, M)'
  <2>1. Free(vm)'
    BY <1>1, <1>4, <1>7 DEF Free, Working, Returning, Workers
  <2>2. \A p \in Pids : ~ Live(p, vm)'
    BY <1>3, <1>7, <1>9
  <2>3. vm \notin toboot'
    BY <1>1, <1>7
  <2>4. QED
    BY <2>1, <2>2, <2>3 DEF Owned, Free
<1>12. Owners(M)'
  BY <1>3, <1>6, <1>8, <1>10, <1>11, OneVM
<1>13. QED
  BY <1>1, <1>8, <1>12 DEF OwnInv, M

-----------------------------------------------------------------------------
(* All steps. *)

LEMMA QuietOwned ==
    ASSUME OwnInv, UNCHANGED << toboot, rebootlist >>,
           \A u \in Workers : job'[u] = job[u] /\ call'[u] = call[u],
           \A p \in Pids, v \in VMs : Live(p, v)' => Live(p, v)
    PROVE  OwnInv'
<1>1. PICK s \in Seq(VMs) : Links(rebootlist, s) /\ Distinct(s) /\ Owners(ToSet(s))
  BY DEF OwnInv
<1> DEFINE L == ToSet(s)
<1> HIDE DEF L
<1>2. ASSUME NEW v \in VMs
      PROVE  Owned(v, L)'
  <2>1. Owned(v, L)
    BY <1>1, <1>2 DEF L, Owners
  <2>2. \A u \in Workers : Working(u, v)' <=> Working(u, v)
    BY DEF Working, Returning
  <2>3. \A u \in Workers, p \in Pids : Holds(u, p)' <=> Holds(u, p)
    BY DEF Holds
  <2>4. \A p \in Pids : Live(p, v)' => Live(p, v)
    BY <1>2
  <2>5. v \in toboot' \cup L => Free(v)' /\ \A p \in Pids : ~ Live(p, v)'
    BY <2>1, <2>2, <2>4 DEF Owned, Free
  <2>6. /\ \A a, b \in Workers : Working(a, v)' /\ Working(b, v)' => a = b
        /\ \A p, q \in Pids : Live(p, v)' /\ Live(q, v)' => p = q
        /\ \A a \in Workers, p \in Pids : Working(a, v)' /\ Live(p, v)' => Holds(a, p)'
    BY <2>1, <2>2, <2>3, <2>4 DEF Owned
  <2>7. QED
    BY <2>1, <2>5, <2>6 DEF Owned
<1>3. Owners(L)'
  BY <1>2 DEF Owners
<1>4. QED
  BY <1>1, <1>3 DEF OwnInv, L, Links

LEMMA EndsOwned ==
    ASSUME Inv, NEW p \in Pids, Ends(p)
    PROVE  OwnInv'
<1>1. /\ UNCHANGED << job, call, toboot, rebootlist >> /\ proc[p].state = "alive"
      /\ kevents' \in {kevents, Append(kevents, p)}
  BY DEF Ends, Exits
<1>2. /\ \A q \in Pids : proc'[q].vm = proc[q].vm
      /\ \A q \in Pids \ {p} : proc'[q].state = proc[q].state
  BY DEF Ends, Exits, Inv, TypeInv, PsvInv, PsvTypeOK, Process
<1>3. ToSet(kevents') \subseteq ToSet(kevents) \cup {p}
  <2>1. kevents \in Seq(Pids)
    BY DEF Inv, TypeInv, BdTypes
  <2>2. ToSet(Append(kevents, p)) = ToSet(kevents) \cup {p}
    BY <1>1, <2>1, AppendSet
  <2>3. CASE kevents' = kevents
    BY <2>3
  <2>4. CASE kevents' = Append(kevents, p)
    BY <2>2, <2>4
  <2>5. QED
    BY <1>1, <2>3, <2>4
<1>4. \A q \in Pids, v \in VMs : Live(q, v)' => Live(q, v)
  BY <1>1, <1>2, <1>3 DEF Live
<1>5. QED
  BY <1>1, <1>4, QuietOwned DEF Inv

LEMMA NextOwned ==
    ASSUME Inv, Unattended, [Next]_vars
    PROVE  OwnInv'
<1>1. ASSUME \A u \in Workers : job'[u] = job[u] /\ call'[u] = call[u],
             UNCHANGED << toboot, rebootlist, proc, kevents >>
      PROVE  OwnInv'
  BY <1>1, QuietOwned DEF Live, Inv
<1>2. ASSUME NEW t \in Threads, t \in Workers, ThreadStep(t)
      PROVE  OwnInv'
  <2>1. CASE t = "rb" /\ (Waits \/ TakesNext)
    BY <1>1, <2>1, TakesNextOwned DEF Waits, TakesNext, psvvars
  <2>2. QED
    BY <1>2, <2>1, StepOwned, BdStepOwned, RequestOwned, AutoStartsOwned, ReceiveOwned
       DEF ThreadStep
<1>3. CASE Command \/ ThreadStep("cmd")
  BY <1>1, <1>3, HandlerResets DEF Reset, Inv
<1>4. CASE SpuriousWakeup \/ (\E vm \in VMs : Expires(vm)) \/ UNCHANGED vars
  BY <1>1, <1>4 DEF SpuriousWakeup, Expires, vars, psvvars, bdvars
<1>5. QED
  BY <1>2, <1>3, <1>4, EndsOwned DEF Next, Workers

LEMMA InitOwned == Init => FrameFits /\ ResetsOnly /\ OwnInv
<1>1. SUFFICES ASSUME Init PROVE FrameFits /\ ResetsOnly /\ OwnInv
  OBVIOUS
<1>2. /\ \A t \in Threads : job[t] = AtRest /\ call[t] = Idle
      /\ \A p \in Pids : proc[p] = Unforked
      /\ rebootlist = EmptyQueue /\ kevents = << >>
  BY <1>1 DEF Init, PsvInit
<1>3. FrameFits
  BY <1>2, RestFits DEF FrameFits, Holds
<1>4. \A vm \in VMs, p \in Pids : ~ Live(p, vm)
  BY <1>2 DEF Live, Unforked, ToSet
<1>5. \A vm \in VMs, t \in Threads : ~ Working(t, vm)
  BY <1>2, ConstantsAssumption DEF Working, AtRest
<1> DEFINE s == << >>
<1>6. s \in Seq(VMs) /\ ToSet(s) = {} /\ Distinct(s)
  BY DEF ToSet, Distinct
<1>7. Links(rebootlist, s)
  BY <1>2 DEF Links, EmptyQueue
<1>8. Owners({})
  BY <1>4, <1>5 DEF Owners, Owned, Free, Workers
<1>9. ResetsOnly
  BY <1>2, DirectorAssumption DEF ResetsOnly, Resets
<1>10. QED
  BY <1>3, <1>6, <1>7, <1>8, <1>9 DEF OwnInv

LEMMA InitInv == Init => Inv
<1>1. Init => ExitReportedOnce
  BY DEF Init, ExitReportedOnce, Holds, AtRest
<1>2. QED
  BY <1>1, InitTypeInv, InitOwned DEF Inv

LEMMA NextInv ==
    ASSUME Unattended
    PROVE  Inv /\ [Next]_vars => Inv'
BY NextTypeInv, NextExits, NextFits, NextResets, NextOwned DEF Inv

LEMMA InvHolds ==
    ASSUME Unattended
    PROVE  Spec => []Inv
BY InitInv, NextInv, PTL DEF Spec

(***************************************************************************)
(* While no commands arrive, two threads never work on one VM, although no *)
(* lock says so: however many VMs there are, whatever hooks fail, however  *)
(* bhyve ends and whenever the signal of the restart thread comes.         *)
(***************************************************************************)
THEOREM OneWorkerEach ==
    ASSUME Commands = {}
    PROVE  Spec => []OneWorker
<1> DEFINE Unused == job["cmd"] = AtRest
<1>1. Unattended
  BY DEF Unattended
<1>2. Init => Unused
  BY DirectorAssumption DEF Init
<1>3. Inv /\ Unused /\ [Next]_vars => Unused'
  <2>1. SUFFICES ASSUME Inv, Unused, [Next]_vars, job'["cmd"] # AtRest PROVE FALSE
    OBVIOUS
  <2>2. "cmd" \in Threads /\ \A t \in Threads \ {"cmd"} : ~ ThreadStep(t)
    BY <2>1, StepsAlone, DirectorAssumption DEF Inv
  <2>3. ThreadStep("cmd")
    BY <2>1, <2>2 DEF Next, Command, SpuriousWakeup, Ends, Expires, vars, bdvars
  <2>4. job["cmd"].at = "rest" /\ call["cmd"].pc = "idle"
    BY <2>1, <2>2 DEF AtRest, Inv, FrameFits, Fits
  <2>5. ~ Step("cmd")
    <3>1. PsvInv /\ (Step("cmd") => LabelStep(call["cmd"], call'["cmd"]))
      BY <2>1, <2>2, StepLabels, TypeOfVM DEF Inv, TypeInv
    <3>2. QED
      BY <2>4, <3>1 DEF LabelStep
  <2>6. QED
    BY <2>3, <2>4, <2>5
       DEF ThreadStep, BdStep, CountFail, Stamp, Generate, StartFailed, Probe, Register, Died,
           Finish, RequestReboot
<1>4. Inv /\ Unused => OneWorker
  <2>1. SUFFICES ASSUME Inv, Unused, NEW vm \in VMs, NEW t \in Threads, NEW u \in Threads,
                        Working(t, vm), Working(u, vm)
                 PROVE  t = u
    BY DEF OneWorker
  <2>2. t \in Workers /\ u \in Workers
    BY <2>1, ConstantsAssumption DEF Workers, Working, AtRest
  <2>3. QED
    BY <2>1, <2>2 DEF Inv, OwnInv, Owners, Owned
<1>5. QED
  BY <1>1, <1>2, <1>3, <1>4, InvHolds, PTL DEF Spec

(***************************************************************************)
(* Unless a VM is started or stopped by a command, it never has two bhyve  *)
(* processes: one that is alive keeps every thread from launching another. *)
(***************************************************************************)
THEOREM OneProcessEach ==
    ASSUME Commands \subseteq {"resetfail"}
    PROVE  Spec => []SingleProcess
<1>1. Inv => SingleProcess
  <2>1. SUFFICES ASSUME Inv, NEW vm \in VMs PROVE Cardinality(Alive(vm)) <= 1
    BY DEF SingleProcess
  <2>2. PICK s \in Seq(VMs) : Owned(vm, ToSet(s))
    BY <2>1 DEF Inv, OwnInv, Owners
  <2>3. \A p, q \in Alive(vm) : p = q
    BY <2>2 DEF Owned, Alive, Live
  <2>4. CASE Alive(vm) = {}
    <3>1. Cardinality({}) = 0
      BY FS_EmptySet
    <3>2. QED
      BY <2>4, <3>1
  <2>5. CASE Alive(vm) # {}
    <3>1. PICK p : Alive(vm) = {p}
      BY <2>3, <2>5
    <3>2. Cardinality({p}) = 1
      BY FS_Singleton
    <3>3. QED
      BY <3>1, <3>2
  <2>6. QED
    BY <2>4, <2>5
<1>2. QED
  BY <1>1, InvHolds, PTL DEF Unattended

-----------------------------------------------------------------------------
(* The restart limiter. *)

(* A thread that bwv_is_countfail let through has the window to itself. *)
Limit == \A vm \in VMs :
    /\ ~ recent[vm].raced /\ recent[vm].count <= MaxRestart + 1
    /\ \A t \in Threads : job[t].at = "stamp" /\ job[t].vm = vm => recent[vm].count <= MaxRestart

LEMMA QuietLimit ==
    ASSUME TypeInv, Limit, recent' \in [VMs -> Stamps],
           \A vm \in VMs : /\ recent'[vm].count <= recent[vm].count
                           /\ recent'[vm].raced = recent[vm].raced,
           \A t \in Threads : job'[t].at = "stamp" => job'[t] = job[t]
    PROVE  Limit'
<1>1. recent \in [VMs -> Stamps] /\ MaxRestart \in Nat
  BY DirectorAssumption DEF TypeInv, BdTypes
<1>2. SUFFICES ASSUME NEW vm \in VMs
               PROVE  /\ ~ recent'[vm].raced /\ recent'[vm].count <= MaxRestart + 1
                      /\ \A t \in Threads : job'[t].at = "stamp" /\ job'[t].vm = vm
                            => recent'[vm].count <= MaxRestart
  BY DEF Limit
<1>3. /\ recent[vm].count \in Nat /\ recent'[vm].count \in Nat
      /\ recent'[vm].count <= recent[vm].count
      /\ recent'[vm].raced = recent[vm].raced
  BY <1>1 DEF Stamps
<1>4. /\ ~ recent[vm].raced /\ recent[vm].count <= MaxRestart + 1
      /\ \A t \in Threads : job[t].at = "stamp" /\ job[t].vm = vm => recent[vm].count <= MaxRestart
  BY DEF Limit
<1>5. QED
  BY <1>1, <1>3, <1>4

LEMMA MovesLimit ==
    ASSUME TypeInv, Limit, UNCHANGED recent, NEW t \in Threads, NEW j,
           job' = [job EXCEPT ![t] = j], j.at # "stamp"
    PROVE  Limit'
<1>1. /\ recent' \in [VMs -> Stamps]
      /\ \A vm \in VMs : /\ recent'[vm].count <= recent[vm].count
                         /\ recent'[vm].raced = recent[vm].raced
  BY DEF TypeInv, BdTypes, Stamps
<1>2. \A u \in Threads : job'[u].at = "stamp" => job'[u] = job[u]
  BY DEF TypeInv, BdTypes
<1>3. QED
  BY <1>1, <1>2, QuietLimit

LEMMA GotoLimit ==
    ASSUME TypeInv, Limit, UNCHANGED recent, NEW t \in Threads,
           \/ Leaves(t)
           \/ \E place \in Places \ {"stamp"} : Goto(t, place)
    PROVE  Limit'
<1>1. CASE Leaves(t)
  <2>1. job' = [job EXCEPT ![t] = AtRest] /\ AtRest.at # "stamp"
    BY <1>1 DEF Leaves, AtRest
  <2>2. QED
    BY <2>1, MovesLimit
<1>2. ASSUME NEW place \in Places \ {"stamp"}, Goto(t, place)
      PROVE  Limit'
  <2> DEFINE j == [at |-> place, vm |-> job[t].vm]
  <2>1. job' = [job EXCEPT ![t] = j] /\ j.at # "stamp"
    BY <1>2, GotoMoves
  <2> HIDE DEF j
  <2>2. QED
    BY <2>1, MovesLimit
<1>3. QED
  BY <1>1, <1>2

LEMMA GotoMoved ==
    ASSUME TypeInv, NEW t \in Threads, NEW place \in Places, Goto(t, place)
    PROVE  /\ job'[t].at = place /\ job'[t].vm = job[t].vm
           /\ \A u \in Threads \ {t} : job'[u] = job[u]
<1> DEFINE j == [at |-> place, vm |-> job[t].vm]
<1>1. j.at = place /\ j.vm = job[t].vm
  OBVIOUS
<1>2. job' = [job EXCEPT ![t] = j]
  BY GotoMoves
<1> HIDE DEF j
<1>3. QED
  BY <1>1, <1>2 DEF TypeInv, BdTypes

(* Of two threads at the stamps of a VM, each would be at work on it. *)
LEMMA NeverRacing ==
    ASSUME Inv, NEW t \in Threads, job[t].at \in {"count", "stamp"}
    PROVE  /\ job[t].vm \in VMs /\ recent[job[t].vm] \in Stamps /\ ~ Racing(t)
<1>1. job[t].vm \in VMs /\ recent[job[t].vm] \in Stamps
  BY DEF Inv, TypeInv, BdTypes, JobsSound, Sound
<1>2. \A u \in Threads : job[u].at \in {"count", "stamp"} => u \in Workers
  BY DEF Inv, ResetsOnly, Resets, AtRest, Workers
<1>3. \A u \in Threads : job[u].at \in {"count", "stamp"} => Working(u, job[u].vm)
  BY DEF Working, Returning
<1>4. \A u \in Workers : Working(u, job[t].vm) => u = t
  BY <1>1, <1>2, <1>3 DEF Inv, OwnInv, Owners, Owned
<1>5. QED
  BY <1>1, <1>2, <1>3, <1>4 DEF Racing

LEMMA CountLimit ==
    ASSUME Inv, Limit, NEW t \in Threads, CountFail(t)
    PROVE  Limit'
<1>0. SUFFICES ASSUME NEW vm, vm = job[t].vm PROVE Limit'
  OBVIOUS
<1>1. /\ job[t].at = "count" /\ vm \in VMs /\ recent \in [VMs -> Stamps] /\ TypeInv
      /\ MaxRestart \in Nat /\ {"finish", "stamp"} \subseteq Places
      /\ recent[vm] \in Stamps /\ ~ Racing(t) /\ ~ recent[vm].raced
  <2>1. job[t].at = "count"
    BY DEF CountFail
  <2>2. vm \in VMs /\ recent[vm] \in Stamps /\ ~ Racing(t)
    BY <1>0, <2>1, NeverRacing
  <2>3. QED
    BY <2>1, <2>2, DirectorAssumption DEF Inv, TypeInv, BdTypes, Places, Limit
<1>2. PICK n \in 0 .. recent[vm].count : \E kept \in 0 .. n :
        /\ Racing(t) \/ kept = recent[vm].count
        /\ recent' = [recent EXCEPT ![vm] = [count |-> kept, raced |-> recent[vm].raced \/ Racing(t)]]
        /\ IF n > MaxRestart
           THEN Goto(t, "finish") /\ Runs(t, FailureState(vm))
           ELSE Goto(t, "stamp") /\ UNCHANGED call
  BY <1>0 DEF CountFail
<1>3. n = recent[vm].count /\ recent' = recent
  <2>1. recent[vm].count \in Nat /\ recent[vm] = [count |-> recent[vm].count, raced |-> recent[vm].raced]
    BY <1>1 DEF Stamps
  <2>2. PICK kept \in 0 .. n :
           /\ Racing(t) \/ kept = recent[vm].count
           /\ recent' = [recent EXCEPT ![vm] = [count |-> kept, raced |-> recent[vm].raced \/ Racing(t)]]
    BY <1>2
  <2>3. kept = recent[vm].count /\ n = recent[vm].count
    BY <1>1, <2>1, <2>2
  <2>4. (recent[vm].raced \/ Racing(t)) = recent[vm].raced
    <3>1. recent[vm].raced = FALSE
      BY <1>1, Zenon DEF Stamps
    <3>2. QED
      BY <1>1, <3>1
  <2>5. recent' = [recent EXCEPT ![vm] = recent[vm]]
    BY <2>1, <2>2, <2>3, <2>4
  <2>6. QED
    BY <1>1, <2>3, <2>5
<1>4. CASE n > MaxRestart
  <2>1. Goto(t, "finish")
    BY <1>2, <1>4
  <2>2. QED
    BY <1>1, <1>3, <2>1, GotoLimit
<1>5. CASE ~ (n > MaxRestart)
  <2>1. Goto(t, "stamp")
    BY <1>2, <1>5
  <2>2. /\ job'[t].vm = vm
        /\ \A u \in Threads \ {t} : job'[u] = job[u]
    BY <1>0, <1>1, <2>1, GotoMoved
  <2>3. recent[vm].count <= MaxRestart
    BY <1>1, <1>3, <1>5 DEF Stamps
  <2>4. QED
    BY <1>1, <1>3, <2>2, <2>3 DEF Limit
<1>6. QED
  BY <1>4, <1>5

LEMMA StampLimit ==
    ASSUME Inv, Limit, NEW t \in Threads, Stamp(t)
    PROVE  Limit'
<1>0. SUFFICES ASSUME NEW vm, vm = job[t].vm PROVE Limit'
  OBVIOUS
<1>1. /\ job[t].at = "stamp" /\ vm \in VMs /\ recent \in [VMs -> Stamps] /\ TypeInv
      /\ MaxRestart \in Nat /\ "generate" \in Places
      /\ recent[vm] \in Stamps /\ ~ Racing(t) /\ ~ recent[vm].raced
  <2>1. job[t].at = "stamp"
    BY DEF Stamp
  <2>2. vm \in VMs /\ recent[vm] \in Stamps /\ ~ Racing(t)
    BY <1>0, <2>1, NeverRacing
  <2>3. QED
    BY <2>1, <2>2, DirectorAssumption DEF Inv, TypeInv, BdTypes, Places, Limit
<1>2. CASE Leaves(t) /\ recent' = recent
  BY <1>1, <1>2, GotoLimit
<1>3. CASE Goto(t, "generate") /\ recent' = [recent EXCEPT ![vm] = [count |-> recent[vm].count + 1,
                                                                  raced |-> FALSE]]
  <2>1. /\ job'[t].at = "generate"
        /\ \A u \in Threads \ {t} : job'[u] = job[u]
    BY <1>1, <1>3, GotoMoved
  <2>2. recent[vm].count <= MaxRestart /\ recent[vm].count \in Nat
    BY <1>0, <1>1 DEF Limit, Stamps
  <2>3. \A u \in Threads \ {t} : job[u].at = "stamp" => job[u].vm # vm
    BY <1>0, <1>1 DEF Racing
  <2>4. /\ recent'[vm].count <= MaxRestart + 1 /\ ~ recent'[vm].raced
        /\ \A v \in VMs \ {vm} : recent'[v] = recent[v]
    BY <1>1, <1>3, <2>2
  <2>5. QED
    BY <1>1, <2>1, <2>3, <2>4 DEF Limit
<1>4. vmstate[vm] # "FAILED" => Goto(t, "generate") /\ recent' = [recent EXCEPT ![vm] =
                                      [count |-> recent[vm].count + 1, raced |-> FALSE]]
  <2> DEFINE raced == recent[vm].raced \/ Racing(t)
  <2>1. raced = FALSE
    BY <1>1
  <2>2. vmstate[vm] # "FAILED" => /\ Goto(t, "generate")
           /\ \E n \in {recent[vm].count + 1} \cup (IF raced THEN {recent[vm].count} ELSE {}) :
                 recent' = [recent EXCEPT ![vm] = [count |-> n, raced |-> raced]]
    BY <1>0 DEF Stamp
  <2> HIDE DEF raced
  <2>3. QED
    BY <2>1, <2>2
<1>5. vmstate[vm] = "FAILED" => Leaves(t) /\ recent' = recent
  BY <1>0 DEF Stamp
<1>6. QED
  BY <1>2, <1>3, <1>4, <1>5

LEMMA NextLimit ==
    ASSUME Inv, Limit, Unattended, [Next]_vars
    PROVE  Limit'
<1>p. {"started", "died", "finish", "register"} \subseteq Places \ {"stamp"}
  BY DEF Places
<1>t. TypeInv /\ recent \in [VMs -> Stamps]
  BY DEF Inv, TypeInv, BdTypes
<1>1. CASE UNCHANGED << job, recent >>
  BY <1>1, <1>t DEF Limit
<1>2. ASSUME NEW t \in Threads, NEW vm, BdStart(t, vm)
      PROVE  Limit'
  <2> DEFINE j == [at |-> "count", vm |-> vm]
  <2>1. job' = [job EXCEPT ![t] = j] /\ j.at # "stamp" /\ recent' = recent
    BY <1>2 DEF BdStart
  <2> HIDE DEF j
  <2>2. QED
    BY <1>t, <2>1, MovesLimit
<1>3. CASE ReceiveExit
  <2> DEFINE j == [at |-> "finish", vm |-> proc[Head(kevents)].vm]
  <2>1. job' = [job EXCEPT !["kq"] = j] /\ j.at # "stamp" /\ recent' = recent
    BY <1>3 DEF ReceiveExit, Calls
  <2>2. "kq" \in Threads
    BY DirectorAssumption
  <2> HIDE DEF j
  <2>3. QED
    BY <1>t, <2>1, <2>2, MovesLimit
<1>4. ASSUME NEW t \in Threads, BdStep(t)
      PROVE  Limit'
  <2>1. CASE Generate(t) \/ Probe(t) \/ Died(t) \/ StartFailed(t) \/ Register(t) \/ Finish(t)
    <3>1. UNCHANGED recent
      BY <2>1 DEF Generate, Probe, Died, StartFailed, Register, Finish
    <3>2. \/ Leaves(t)
          \/ \E place \in {"started", "died", "finish", "register"} : Goto(t, place)
      BY <2>1 DEF Generate, Probe, Died, StartFailed, Register, Finish
    <3>3. QED
      BY <1>p, <1>t, <3>1, <3>2, GotoLimit
  <2>2. QED
    BY <1>4, <1>t, <2>1, CountLimit, StampLimit DEF BdStep
<1>5. ASSUME NEW t \in Threads, ThreadStep(t)
      PROVE  Limit'
  <2>1. CASE t = "rb" /\ (Waits \/ TakesNext)
    BY <1>1, <1>2, <1>5, <2>1 DEF Waits, TakesNext
  <2>2. CASE t = "boot" /\ AutoStarts
    BY <1>2, <1>5, <2>2 DEF AutoStarts
  <2>3. CASE RequestReboot(t)
    BY <1>1, <2>3 DEF RequestReboot
  <2>4. CASE Step(t) /\ UNCHANGED bdvars
    BY <1>1, <2>4 DEF bdvars
  <2>5. CASE BdStep(t)
    BY <1>4, <2>5
  <2>6. CASE t = "kq" /\ ReceiveExit
    BY <1>3, <2>6
  <2>7. QED
    BY <1>5, <2>1, <2>2, <2>3, <2>4, <2>5, <2>6 DEF ThreadStep
<1>6. ASSUME NEW vm \in VMs, Expires(vm)
      PROVE  Limit'
  <2> DEFINE r == [recent[vm] EXCEPT !.count = recent[vm].count - 1]
  <2>1. recent[vm].count > 0 /\ recent' = [recent EXCEPT ![vm] = r] /\ job' = job
    BY <1>6 DEF Expires
  <2>a. r \in Stamps /\ r.count <= recent[vm].count /\ r.raced = recent[vm].raced
    BY <1>t, <2>1 DEF Stamps
  <2> HIDE DEF r
  <2>2. /\ recent' \in [VMs -> Stamps]
        /\ \A v \in VMs : /\ recent'[v].count <= recent[v].count
                          /\ recent'[v].raced = recent[v].raced
    <3>1. \A v \in VMs : recent[v].count <= recent[v].count
      BY <1>t DEF Stamps
    <3>2. QED
      BY <1>t, <2>1, <2>a, <3>1
  <2>3. QED
    BY <1>t, <2>1, <2>2, QuietLimit
<1>7. CASE Command
  <2>1. UNCHANGED recent /\ \A vm \in VMs : recent[vm].count <= recent[vm].count
    BY <1>t, <1>7, HandlerResets DEF Reset, Inv, Stamps
  <2>2. \A t \in Threads : job'[t].at = "stamp" => job'[t] = job[t]
    <3>1. ResetsOnly' /\ \A u \in Workers : job'[u] = job[u]
      BY <1>7, HandlerResets DEF Reset, Inv
    <3>2. QED
      BY <3>1 DEF ResetsOnly, Resets, AtRest, Workers
  <2>3. QED
    BY <1>t, <2>1, <2>2, QuietLimit
<1>8. QED
  BY <1>1, <1>5, <1>6, <1>7 DEF Next, SpuriousWakeup, Ends, vars, bdvars

(***************************************************************************)
(* Unless commands start VMs, the limiter is exact: nobody else counts the *)
(* starts of a VM between a thread's count and its stamp, so a VM is       *)
(* started maxrestart + 1 times in a window and not once more.             *)
(***************************************************************************)
THEOREM LimiterExact ==
    ASSUME Commands \subseteq {"resetfail"}
    PROVE  Spec => []StartsLimited
<1>0. Unattended
  BY DEF Unattended
<1>1. Init => Inv /\ Limit
  <2>1. SUFFICES ASSUME Init PROVE Limit
    BY InitInv
  <2>2. \A t \in Threads : job[t].at = "rest"
    BY <2>1 DEF Init, AtRest
  <2>3. \A vm \in VMs : recent[vm].count = 0 /\ recent[vm].raced = FALSE
    BY <2>1 DEF Init
  <2>4. MaxRestart \in Nat
    BY DirectorAssumption
  <2>5. QED
    BY <2>2, <2>3, <2>4 DEF Limit
<1>2. Inv /\ Limit /\ [Next]_vars => Inv' /\ Limit'
  BY <1>0, NextInv, NextLimit
<1>3. Limit => StartsLimited
  BY DEF Limit, StartsLimited
<1>4. QED
  BY <1>1, <1>2, <1>3, PTL DEF Spec

-----------------------------------------------------------------------------
(* A walk along a chain of states. *)

(* The states that a start goes through. *)
StartStates == { "START_NETWORK", "PRESTART_AFTER_RESTART", "START_STORAGE",
                 "START_AFTER_RESTART", "RESTARTED", "RUNNING" }

(* The clean-up hooks and those of a stop or a reboot succeed. *)
StartsFailOnly == FailingHooks \subseteq StartStates

(* A frame walks along a chain that it entered in one of the states of     *)
(* from, and nobody else moves the VM.                                     *)
Along(f, s, chain, from, then, else) ==
    /\ f.pc \in {"lookup", "enter"} /\ f.then = then /\ f.else = else
    /\ \E i \in 1 .. Len(chain) :
         /\ f.todo = SubSeq(chain, i, Len(chain))
         /\ s \in IF i = 1 THEN from ELSE {chain[i - 1]}
         /\ f.pc = "enter" => HasTransition(s, chain[i])

(* A frame walks a VM down into the failure state, from anywhere; a reset  *)
(* may come in between.                                                    *)
Failing(f, s, then, else) ==
    /\ f.pc \in {"lookup", "enter"} /\ f.then = then /\ f.else = else
    /\ \E i \in 1 .. Len(FailChain) :
         /\ f.todo = SubSeq(FailChain, i, Len(FailChain))
         /\ i = 1 \/ s \in {FailChain[i - 1], "INIT"}

(* One step of sth_transitionto, from state s to state z. *)
WalkStep(f, s, g, z) ==
    \/ /\ f.pc = "lookup" /\ z = s
       /\ g = IF HasTransition(s, Head(f.todo)) THEN [f EXCEPT !.pc = "enter"] ELSE Jump(f, f.else)
    \/ /\ f.pc = "enter" /\ z = Head(f.todo)
       /\ g = IF Len(f.todo) = 1 THEN Jump(f, f.then)
              ELSE [f EXCEPT !.pc = "lookup", !.todo = Tail(f.todo)]
    \/ /\ f.pc = "enter" /\ z = s /\ Head(f.todo) \in FailingHooks
       /\ g = Jump(f, f.else)

(* What is left of a chain, from its i-th state on. *)
LEMMA RestOfChain ==
    ASSUME NEW S, NEW c \in Seq(S), NEW i \in 1 .. Len(c)
    PROVE  /\ Head(SubSeq(c, i, Len(c))) = c[i]
           /\ (Len(SubSeq(c, i, Len(c))) = 1 <=> i = Len(c))
           /\ i # Len(c) => i + 1 \in 1 .. Len(c) /\ Tail(SubSeq(c, i, Len(c))) = SubSeq(c, i + 1, Len(c))
<1>1. Len(c) \in Nat /\ Len(c) \in i .. Len(c) /\ i \in Int /\ Len(c) \in Int /\ i >= 1 /\ i <= Len(c)
  OBVIOUS
<1>2. /\ Head(SubSeq(c, i, Len(c))) = c[i]
      /\ Tail(SubSeq(c, i, Len(c))) = SubSeq(c, i + 1, Len(c))
  BY <1>1, HeadTailOfSubSeq
<1>3. \A k \in i .. Len(c) : c[k] \in S
  BY <1>1
<1>4. Len(SubSeq(c, i, Len(c))) = Len(c) - i + 1
  BY <1>1, <1>3, SubSeqProperties
<1>5. QED
  BY <1>1, <1>2, <1>4

(* What a step in the middle of an operation keeps of the frame. *)
SameCall(f, g) == g.code = f.code /\ g.restarting = f.restarting /\ g.vm = f.vm /\ g.pid = f.pid

LEMMA JumpKeeps ==
    ASSUME NEW f \in Frame, NEW label
    PROVE  SameCall(f, Jump(f, label)) /\ Jump(f, label).pc = label /\ Jump(f, label).then = "idle"
BY DEF SameCall, Jump, Frame

LEMMA WalkKeeps ==
    ASSUME NEW f \in Frame, NEW chain, NEW then, NEW else
    PROVE  /\ SameCall(f, Walk(f, chain, then, else))
           /\ Walk(f, chain, then, else).pc = "lookup" /\ Walk(f, chain, then, else).todo = chain
           /\ Walk(f, chain, then, else).then = then /\ Walk(f, chain, then, else).else = else
BY DEF SameCall, Walk, Frame

LEMMA AlongStep ==
    ASSUME NEW f \in Frame, NEW s, NEW g, NEW z, NEW chain \in Seq(States), NEW from,
           NEW then, NEW else, Along(f, s, chain, from, then, else), WalkStep(f, s, g, z)
    PROVE  /\ SameCall(f, g)
           /\ \/ Along(g, z, chain, from, then, else)
              \/ g.pc = then /\ z = chain[Len(chain)] /\ g.then = "idle"
              \/ /\ g.pc = else /\ g.then = "idle" /\ z = s
                 /\ \E i \in 1 .. Len(chain) :
                      /\ s \in IF i = 1 THEN from ELSE {chain[i - 1]}
                      /\ ~ HasTransition(s, chain[i]) \/ chain[i] \in FailingHooks
<1>1. /\ f.pc \in {"lookup", "enter"} /\ f.then = then /\ f.else = else
  BY DEF Along
<1>2. PICK i \in 1 .. Len(chain) :
         /\ f.todo = SubSeq(chain, i, Len(chain))
         /\ s \in IF i = 1 THEN from ELSE {chain[i - 1]}
         /\ f.pc = "enter" => HasTransition(s, chain[i])
  BY DEF Along
<1>3. /\ Head(f.todo) = chain[i] /\ (Len(f.todo) = 1 <=> i = Len(chain))
      /\ i # Len(chain) => i + 1 \in 1 .. Len(chain) /\ Tail(f.todo) = SubSeq(chain, i + 1, Len(chain))
  BY <1>2, RestOfChain
<1>4. CASE f.pc = "lookup" /\ HasTransition(s, chain[i])
  <2> DEFINE h == [f EXCEPT !.pc = "enter"]
  <2>1. g = h /\ z = s
    BY <1>3, <1>4 DEF WalkStep
  <2>2. SameCall(f, h) /\ h.pc = "enter" /\ h.then = then /\ h.else = else /\ h.todo = f.todo
    BY <1>1 DEF Frame, SameCall
  <2> HIDE DEF h
  <2>3. Along(h, z, chain, from, then, else)
    BY <1>2, <1>4, <2>1, <2>2 DEF Along
  <2>4. QED
    BY <2>1, <2>2, <2>3
<1>5. CASE g = Jump(f, else) /\ z = s /\ (~ HasTransition(s, chain[i]) \/ chain[i] \in FailingHooks)
  <2>1. SameCall(f, g) /\ g.pc = else /\ g.then = "idle"
    BY <1>5, JumpKeeps
  <2>2. QED
    BY <1>2, <1>5, <2>1
<1>6. CASE f.pc = "enter" /\ z = chain[i] /\ i = Len(chain) /\ g = Jump(f, then)
  <2>1. SameCall(f, g) /\ g.pc = then /\ g.then = "idle"
    BY <1>6, JumpKeeps
  <2>2. QED
    BY <1>6, <2>1
<1>7. CASE /\ f.pc = "enter" /\ z = chain[i] /\ i # Len(chain)
           /\ g = [f EXCEPT !.pc = "lookup", !.todo = Tail(f.todo)]
  <2>1. /\ SameCall(f, g) /\ g.pc = "lookup" /\ g.then = then /\ g.else = else
        /\ g.todo = SubSeq(chain, i + 1, Len(chain))
    BY <1>1, <1>3, <1>7 DEF Frame, SameCall
  <2>2. i + 1 \in 1 .. Len(chain) /\ i + 1 # 1 /\ (i + 1) - 1 = i
    BY <1>3, <1>7
  <2>3. Along(g, z, chain, from, then, else)
    BY <1>7, <2>1, <2>2 DEF Along
  <2>4. QED
    BY <2>1, <2>3
<1>8. QED
  BY <1>1, <1>3, <1>4, <1>5, <1>6, <1>7 DEF WalkStep

LEMMA FailingStep ==
    ASSUME StartsFailOnly, NEW f \in Frame, NEW s, NEW g, NEW z, NEW then, NEW else,
           Failing(f, s, then, else), WalkStep(f, s, g, z)
    PROVE  /\ SameCall(f, g)
           /\ z \in {s, "STOP_STORAGE", "STOP_NETWORK", "STOPPED", "FAILED"}
           /\ \/ Failing(g, z, then, else)
              \/ g.pc = then /\ z = "FAILED" /\ g.then = "idle"
              \/ g.pc = else /\ z = "INIT" /\ s = "INIT" /\ g.then = "idle"
<1> DEFINE c == FailChain
<1>1. /\ f.pc \in {"lookup", "enter"} /\ f.then = then /\ f.else = else
  BY DEF Failing
<1>2. PICK i \in 1 .. Len(c) :
         f.todo = SubSeq(c, i, Len(c)) /\ (i = 1 \/ s \in {c[i - 1], "INIT"})
  BY DEF Failing
<1>3. c \in Seq(States) /\ Len(c) = 4 /\ c[4] = "FAILED"
  BY DEF FailChain, States
<1>4. /\ Head(f.todo) = c[i] /\ (Len(f.todo) = 1 <=> i = Len(c))
      /\ i # Len(c) => i + 1 \in 1 .. Len(c) /\ Tail(f.todo) = SubSeq(c, i + 1, Len(c))
  BY <1>2, <1>3, RestOfChain
<1>5. /\ c[i] \in {"STOP_STORAGE", "STOP_NETWORK", "STOPPED", "FAILED"}
      /\ i = 1 \/ s = c[i - 1] => HasTransition(s, c[i])
  <2>1. i \in {1, 2, 3, 4}
    BY <1>3
  <2>2. QED
    BY <2>1 DEF FailChain, HasTransition, Table, FromAny
<1>6. c[i] \notin FailingHooks
  BY <1>5 DEF StartsFailOnly, StartStates
<1> HIDE DEF c
<1>7. CASE f.pc = "lookup" /\ HasTransition(s, c[i])
  <2> DEFINE h == [f EXCEPT !.pc = "enter"]
  <2>1. g = h /\ z = s
    BY <1>4, <1>7 DEF WalkStep
  <2>2. SameCall(f, h) /\ h.pc = "enter" /\ h.then = then /\ h.else = else /\ h.todo = f.todo
    BY <1>1 DEF Frame, SameCall
  <2> HIDE DEF h
  <2>3. Failing(h, z, then, else)
    BY <1>2, <2>1, <2>2 DEF Failing, c
  <2>4. QED
    BY <2>1, <2>2, <2>3
<1>8. CASE f.pc = "lookup" /\ ~ HasTransition(s, c[i])
  <2>1. g = Jump(f, else) /\ z = s /\ s = "INIT"
    BY <1>1, <1>2, <1>4, <1>5, <1>8 DEF WalkStep
  <2>2. SameCall(f, g) /\ g.pc = else /\ g.then = "idle"
    BY <2>1, JumpKeeps
  <2>3. QED
    BY <2>1, <2>2
<1>9. CASE f.pc = "enter" /\ i = Len(c)
  <2>1. g = Jump(f, then) /\ z = "FAILED"
    BY <1>1, <1>3, <1>4, <1>6, <1>9 DEF WalkStep
  <2>2. SameCall(f, g) /\ g.pc = then /\ g.then = "idle"
    BY <2>1, JumpKeeps
  <2>3. QED
    BY <2>1, <2>2
<1>10. CASE f.pc = "enter" /\ i # Len(c)
  <2>1. g = [f EXCEPT !.pc = "lookup", !.todo = Tail(f.todo)] /\ z = c[i]
    BY <1>4, <1>6, <1>10 DEF WalkStep
  <2>2. /\ SameCall(f, g) /\ g.pc = "lookup" /\ g.then = then /\ g.else = else
        /\ g.todo = SubSeq(c, i + 1, Len(c))
    BY <1>1, <1>4, <1>10, <2>1 DEF Frame, SameCall
  <2>3. i + 1 \in 1 .. Len(c) /\ (i + 1) - 1 = i
    BY <1>4, <1>10
  <2>4. Failing(g, z, then, else)
    BY <2>1, <2>2, <2>3 DEF Failing, c
  <2>5. QED
    BY <1>5, <2>1, <2>2, <2>4
<1>11. QED
  BY <1>1, <1>7, <1>8, <1>9, <1>10

-----------------------------------------------------------------------------
(* A step of an operation, seen from its frame and the state of its VM. *)

Begins(f, label, g, chain, then, else) == f.pc = label /\ g = Walk(f, chain, then, else)

OpStep(f, s, g, z) ==
    \/ WalkStep(f, s, g, z)
    \/ /\ z = s
       /\ \/ Begins(f, "undo", g, UndoPreChain(f.restarting), "storage", "err")
          \/ Begins(f, "storage", g, << StorageState(f.restarting) >>, "launch", "storagefailed")
          \/ Begins(f, "storagefailed", g, FailChain, "launch", "err")
          \/ \E p \in Pids : f.pc = "launch"
               /\ g = Walk([f EXCEPT !.pid = p], UpChain(f.restarting), "ok", "upfailed")
          \/ Begins(f, "launch", g, FailChain, "err", "err")
          \/ Begins(f, "upfailed", g, FailChain, "err", "err")
          \/ f.pc \in {"stopfailed", "kill", "killfailed", "signalled"}
          \/ f.pc = "exitcode" /\ f.code >= 3 /\ g = Walk(f, FailChain, "clear", "clear")
          \/ f.pc = "exitcode" /\ ~ (f.code >= 3) /\ g = Jump(f, "ok")
          \/ f.pc = "clear" /\ g = Jump(f, "ok")

LEMMA StepIsOp ==
    ASSUME PsvInv, NEW t \in Threads, OfVM(t), Step(t), NEW vm \in VMs, call[t].vm = vm
    PROVE  /\ OpStep(call[t], vmstate[vm], call'[t], vmstate'[vm])
           /\ \A v \in VMs \ {vm} : vmstate'[v] = vmstate[v] /\ processid'[v] = processid[v]
           /\ \/ processid'[vm] = processid[vm] /\ call'[t].pid = call[t].pid
              \/ processid'[vm] = call'[t].pid /\ call[t].pc = "launch"
              \/ call[t].pc = "clear"
<1> DEFINE f == call[t]
           s == vmstate[vm]
<1>1. f \in Frame /\ vmstate \in [VMs -> States] /\ processid \in [VMs -> Pids \cup {NoPid}]
  BY DEF PsvInv, PsvTypeOK
<1>2. \A g : call' = [call EXCEPT ![t] = g] => call'[t] = g
  BY DEF PsvInv, PsvTypeOK
<1>3. ASSUME UNCHANGED << vmstate, processid >>, OpStep(f, s, call'[t], s),
             call'[t].pid = f.pid
      PROVE  /\ OpStep(f, s, call'[t], vmstate'[vm])
             /\ \A v \in VMs \ {vm} : vmstate'[v] = vmstate[v] /\ processid'[v] = processid[v]
             /\ processid'[vm] = processid[vm] /\ call'[t].pid = call[t].pid
  BY <1>3
<1>4. ASSUME NEW label, NEW chain, NEW then, NEW else, At(t, label, chain, then, else)
      PROVE  /\ f.pc = label /\ call'[t] = Walk(f, chain, then, else)
             /\ call'[t].pid = f.pid /\ UNCHANGED << vmstate, processid >>
  <2> DEFINE g == Walk(f, chain, then, else)
  <2>1. f.pc = label /\ call' = [call EXCEPT ![t] = g] /\ UNCHANGED << vmstate, processid >>
    BY <1>4 DEF At
  <2>2. g.pid = f.pid
    BY <1>1, WalkLabels
  <2> HIDE DEF g
  <2>3. call'[t] = g
    BY <1>2, <2>1
  <2>4. QED
    BY <2>1, <2>2, <2>3 DEF g
<1>5. CASE Lookup(t)
  <2>1. f.pc = "lookup" /\ UNCHANGED << vmstate, processid >>
    BY <1>5 DEF Lookup
  <2>2. call'[t] = IF HasTransition(s, Head(f.todo)) THEN [f EXCEPT !.pc = "enter"] ELSE Jump(f, f.else)
    BY <1>2, <1>5 DEF Lookup
  <2>3. [f EXCEPT !.pc = "enter"].pid = f.pid /\ Jump(f, f.else).pid = f.pid
    BY <1>1, JumpLabels DEF Frame
  <2>4. call'[t].pid = f.pid
    BY <2>2, <2>3
  <2>5. OpStep(f, s, call'[t], s)
    BY <2>1, <2>2 DEF OpStep, WalkStep
  <2>6. QED
    BY <1>3, <2>1, <2>4, <2>5
<1>6. CASE Enter(t)
  <2>1. f.pc = "enter" /\ UNCHANGED processid /\ vmstate' = [vmstate EXCEPT ![vm] = Head(f.todo)]
    BY <1>6 DEF Enter
  <2>2. call'[t] = IF Len(f.todo) = 1 THEN Jump(f, f.then)
                   ELSE [f EXCEPT !.pc = "lookup", !.todo = Tail(f.todo)]
    BY <1>2, <1>6 DEF Enter
  <2>3. [f EXCEPT !.pc = "lookup", !.todo = Tail(f.todo)].pid = f.pid /\ Jump(f, f.then).pid = f.pid
    BY <1>1, JumpLabels DEF Frame
  <2>4. call'[t].pid = f.pid
    BY <2>2, <2>3
  <2>5. vmstate'[vm] = Head(f.todo) /\ \A v \in VMs \ {vm} : vmstate'[v] = vmstate[v]
    BY <1>1, <2>1
  <2>6. OpStep(f, s, call'[t], vmstate'[vm])
    BY <2>1, <2>2, <2>5 DEF OpStep, WalkStep
  <2>7. QED
    BY <2>1, <2>4, <2>5, <2>6
<1>7. CASE HookFails(t)
  <2>1. /\ f.pc = "enter" /\ UNCHANGED << vmstate, processid >> /\ Head(f.todo) \in FailingHooks
        /\ call'[t] = Jump(f, f.else)
    BY <1>2, <1>7 DEF HookFails
  <2>2. call'[t].pid = f.pid
    BY <1>1, <2>1, JumpLabels
  <2>3. OpStep(f, s, call'[t], s)
    BY <2>1 DEF OpStep, WalkStep
  <2>4. QED
    BY <1>3, <2>1, <2>2, <2>3
<1>8. CASE Launch(t)
  <2>1. f.pc = "launch" /\ UNCHANGED vmstate
    BY <1>8 DEF Launch
  <2>2. PICK p \in Pids : /\ processid' = [processid EXCEPT ![vm] = p]
                          /\ call'[t] = Walk([f EXCEPT !.pid = p], UpChain(f.restarting), "ok", "upfailed")
    BY <1>2, <1>8 DEF Launch
  <2> DEFINE h == [f EXCEPT !.pid = p]
  <2>3. h \in Frame /\ h.pid = p
    BY <1>1 DEF Frame
  <2> HIDE DEF h
  <2>4. call'[t].pid = p
    <3>1. call'[t] = Walk(h, UpChain(f.restarting), "ok", "upfailed")
      BY <2>2 DEF h
    <3>2. QED
      BY <2>3, <3>1, WalkLabels
  <2>5. OpStep(f, s, call'[t], vmstate'[vm])
    BY <2>1, <2>2 DEF OpStep
  <2>6. QED
    BY <1>1, <2>1, <2>2, <2>4, <2>5
<1>9. CASE Kill(t)
  <2>1. f.pc = "kill" /\ UNCHANGED << vmstate, processid >>
    BY <1>9 DEF Kill
  <2>2. PICK g, h \in Frame, label \in {"ok", "killfailed", "signalled"} :
           g = Jump(h, label) /\ call' = [call EXCEPT ![t] = g] /\ h.pid = f.pid
    BY <1>9, KillMoves
  <2>3. call'[t].pid = f.pid
    BY <1>2, <2>2, JumpLabels
  <2>4. QED
    BY <1>3, <2>1, <2>3 DEF OpStep
<1>10. CASE ClearPid(t)
  <2>1. f.pc = "clear" /\ UNCHANGED vmstate /\ processid' = [processid EXCEPT ![vm] = NoPid]
        /\ call'[t] = Jump(f, "ok")
    BY <1>2, <1>10 DEF ClearPid
  <2>2. QED
    BY <1>1, <2>1 DEF OpStep
<1>11. CASE ExitCode(t)
  <2>1. f.pc = "exitcode" /\ UNCHANGED << vmstate, processid >>
        /\ \/ f.code >= 3 /\ call'[t] = Walk(f, FailChain, "clear", "clear")
           \/ ~ (f.code >= 3) /\ call'[t] = Jump(f, "ok")
    BY <1>2, <1>11 DEF ExitCode
  <2>2. call'[t].pid = f.pid
    BY <1>1, <2>1, JumpLabels, WalkLabels
  <2>3. OpStep(f, s, call'[t], s)
    BY <2>1 DEF OpStep
  <2>4. QED
    BY <1>3, <2>1, <2>2, <2>3
<1>12. CASE Undo(t)
  BY <1>3, <1>4, <1>12 DEF Undo, OpStep, Begins
<1>13. CASE Storage(t)
  BY <1>3, <1>4, <1>13 DEF Storage, OpStep, Begins
<1>14. CASE StorageFailed(t)
  BY <1>3, <1>4, <1>14 DEF StorageFailed, OpStep, Begins
<1>15. CASE LaunchFails(t)
  BY <1>3, <1>4, <1>15 DEF LaunchFails, OpStep, Begins
<1>16. CASE UpFailed(t)
  BY <1>3, <1>4, <1>16 DEF UpFailed, OpStep, Begins
<1>17. CASE StopFailed(t)
  BY <1>3, <1>4, <1>17 DEF StopFailed, OpStep
<1>18. CASE KillFailed(t)
  BY <1>3, <1>4, <1>18 DEF KillFailed, OpStep
<1>19. CASE Signalled(t)
  <2>1. f.pc = "signalled" /\ UNCHANGED << vmstate, processid >> /\ call'[t] = Jump(f, "ok")
    BY <1>2, <1>19 DEF Signalled
  <2>2. QED
    BY <1>1, <1>3, <2>1, JumpLabels DEF OpStep
<1>20. QED
  BY <1>3, <1>5, <1>6, <1>7, <1>8, <1>9, <1>10, <1>11, <1>12, <1>13, <1>14, <1>15, <1>16,
     <1>17, <1>18, <1>19 DEF Step

-----------------------------------------------------------------------------
(* Where a thread is in its work on a VM, given the state of the VM. *)

Lost == {"FAILED", "INIT"}

(* psv_startvm. *)
Starting(f, s) ==
    LET r == f.restarting
        prepared == {PreState(r)} \cup Lost
        mounted == {StorageState(r)} \cup Lost
    IN  \/ Along(f, s, << PreState(r) >>, {IF r THEN "RESTART_STOPPED" ELSE "INIT"},
                 "storage", IF r THEN "undo" ELSE "err")
        \/ f.pc = "undo" /\ r
        \/ Failing(f, s, "storage", "err")
        \/ f.pc \in {"storage", "storagefailed"} /\ s \in prepared
        \/ Along(f, s, << StorageState(r) >>, prepared, "launch", "storagefailed")
        \/ Failing(f, s, "launch", "err")
        \/ f.pc = "launch" /\ s \in mounted
        \/ Along(f, s, UpChain(r), mounted, "ok", "upfailed")
        \/ f.pc = "upfailed"
        \/ Failing(f, s, "err", "err")
        \/ f.pc = "err" /\ s \in Lost
        \/ f.pc = "ok" /\ s = "RUNNING"

(* psv_onexit, and psv_failurestate. *)
Ending(f, s) ==
    \/ Along(f, s, RebootChain, {"RUNNING"}, "request", "err") /\ f.code = 0
    \/ f.pc = "request" /\ s = "RESTART_STOPPED" /\ f.code = 0
    \/ Along(f, s, StopChain, {"RUNNING"}, "exitcode", "err") /\ f.code \in {1, 2}
    \/ f.pc = "exitcode" /\ s = "RUNNING" /\ f.code >= 3
    \/ Failing(f, s, "clear", "clear")
    \/ Failing(f, s, "ok", "err")
    \/ f.pc \in {"clear", "ok", "err"} /\ f.then = "idle" /\ s \in Lost

(* States that a walk into the failure state leaves behind. *)
Sinking == {"FAILED", "STOP_STORAGE", "STOP_NETWORK", "STOPPED"}

LEMMA WalkBegins ==
    ASSUME NEW f \in Frame, NEW s, NEW chain \in Seq(States), chain # << >>, NEW from, s \in from,
           NEW then, NEW else, NEW g, g = Walk(f, chain, then, else)
    PROVE  Along(g, s, chain, from, then, else) /\ SameCall(f, g) /\ g.then = then
<1>1. /\ g.pc = "lookup" /\ g.todo = chain /\ g.then = then /\ g.else = else /\ SameCall(f, g)
  BY WalkKeeps
<1>2. 1 \in 1 .. Len(chain) /\ SubSeq(chain, 1, Len(chain)) = chain
  BY SubSeqFull
<1>3. QED
  BY <1>1, <1>2 DEF Along

LEMMA FailBegins ==
    ASSUME NEW f \in Frame, NEW s, NEW then, NEW else, NEW g, g = Walk(f, FailChain, then, else)
    PROVE  Failing(g, s, then, else) /\ SameCall(f, g) /\ g.then = then
<1>1. /\ g.pc = "lookup" /\ g.todo = FailChain /\ g.then = then /\ g.else = else /\ SameCall(f, g)
  BY WalkKeeps
<1>2. FailChain \in Seq(States) /\ FailChain # << >> /\ Len(FailChain) = 4
  BY DEF FailChain, States
<1>3. 1 \in 1 .. Len(FailChain) /\ SubSeq(FailChain, 1, Len(FailChain)) = FailChain
  BY <1>2, SubSeqFull
<1>4. QED
  BY <1>1, <1>3 DEF Failing

-----------------------------------------------------------------------------
(* What is left of a walk after a step. *)

(* Only a walk steps while a frame is looking up or entering a state. *)
LEMMA WalksStep ==
    ASSUME NEW f, NEW s, NEW g, NEW z, OpStep(f, s, g, z), f.pc \in {"lookup", "enter"}
    PROVE  WalkStep(f, s, g, z)
BY DEF OpStep, Begins

LEMMA ChainStates ==
    /\ FailChain \in Seq(States) /\ StopChain \in Seq(States) /\ RebootChain \in Seq(States)
    /\ \A r \in BOOLEAN : /\ << PreState(r) >> \in Seq(States)
                          /\ << StorageState(r) >> \in Seq(States)
                          /\ UpChain(r) \in Seq(States) /\ UpChain(r) # << >>
<1>1. /\ FailChain \in Seq(States) /\ StopChain \in Seq(States) /\ RebootChain \in Seq(States)
      /\ << "RESTARTED", "RUNNING" >> \in Seq(States) /\ << "RUNNING" >> \in Seq(States)
      /\ << "RUNNING" >> # << >> /\ << "RESTARTED", "RUNNING" >> # << >>
  BY DEF FailChain, StopChain, RebootChain, States
<1>2. \A y \in States : << y >> \in Seq(States)
  OBVIOUS
<1>3. \A r \in BOOLEAN : PreState(r) \in States /\ StorageState(r) \in States
  BY DEF PreState, StorageState, States
<1>4. \A r \in BOOLEAN : UpChain(r) \in Seq(States) /\ UpChain(r) # << >>
  BY <1>1 DEF UpChain
<1>5. QED
  BY <1>1, <1>2, <1>3, <1>4

LEMMA StartingOp ==
    ASSUME StartsFailOnly, NEW f \in Frame, NEW s, NEW g, NEW z, Starting(f, s), OpStep(f, s, g, z)
    PROVE  Starting(g, z) /\ (s \in Sinking => z \in Sinking)
<1> DEFINE r == f.restarting
           prepared == {PreState(r)} \cup Lost
           mounted == {StorageState(r)} \cup Lost
<1>1. r \in BOOLEAN
  BY DEF Frame
<1>2. /\ << PreState(r) >> \in Seq(States) /\ << StorageState(r) >> \in Seq(States)
      /\ UpChain(r) \in Seq(States) /\ UpChain(r) # << >> /\ Len(<< StorageState(r) >>) = 1
      /\ Len(<< PreState(r) >>) = 1 /\ << StorageState(r) >>[1] = StorageState(r)
      /\ << PreState(r) >>[1] = PreState(r) /\ << StorageState(r) >> # << >>
  BY <1>1, ChainStates
<1>3. /\ PreState(r) \in {"PRESTART_AFTER_RESTART", "START_NETWORK"}
      /\ StorageState(r) \in {"START_AFTER_RESTART", "START_STORAGE"}
      /\ UpChain(r)[1] \in {"RESTARTED", "RUNNING"} /\ UpChain(r)[Len(UpChain(r))] = "RUNNING"
      /\ Len(UpChain(r)) \in {1, 2} /\ (Len(UpChain(r)) = 2 => UpChain(r)[1] = "RESTARTED")
  BY DEF PreState, StorageState, UpChain
<1>4. /\ HasTransition("INIT", "START_NETWORK")
      /\ \A y \in {"PRESTART_AFTER_RESTART", "START_NETWORK", "START_AFTER_RESTART", "START_STORAGE",
                   "RESTARTED", "RUNNING"} :
            ~ HasTransition("FAILED", y)
      /\ HasTransition("RESTART_STOPPED", "PRESTART_AFTER_RESTART")
  BY DEF HasTransition, Table, FromAny
<1>5. CASE Along(f, s, << PreState(r) >>, {IF r THEN "RESTART_STOPPED" ELSE "INIT"},
                 "storage", IF r THEN "undo" ELSE "err")
  <2> DEFINE from == {IF r THEN "RESTART_STOPPED" ELSE "INIT"}
             else == IF r THEN "undo" ELSE "err"
             c == << PreState(r) >>
  <2>1. Along(f, s, c, from, "storage", else) /\ c \in Seq(States)
    BY <1>2, <1>5
  <2>2. /\ SameCall(f, g)
        /\ \/ Along(g, z, c, from, "storage", else)
           \/ g.pc = "storage" /\ z = c[Len(c)]
           \/ g.pc = else /\ z = s /\ s \in {"RESTART_STOPPED", "INIT"} /\ (~ r => s = "INIT")
    <3>1. WalkStep(f, s, g, z)
      BY <2>1, WalksStep DEF Along
    <3> HIDE DEF c, else, from
    <3>2. /\ SameCall(f, g)
          /\ \/ Along(g, z, c, from, "storage", else)
             \/ g.pc = "storage" /\ z = c[Len(c)] /\ g.then = "idle"
             \/ /\ g.pc = else /\ g.then = "idle" /\ z = s
                /\ \E i \in 1 .. Len(c) :
                     /\ s \in IF i = 1 THEN from ELSE {c[i - 1]}
                     /\ ~ HasTransition(s, c[i]) \/ c[i] \in FailingHooks
      BY <2>1, <3>1, AlongStep
    <3>3. \A i \in 1 .. Len(c) : i = 1
      BY <1>2 DEF c
    <3>4. s \in from => s \in {"RESTART_STOPPED", "INIT"} /\ (~ r => s = "INIT")
      BY DEF from
    <3>5. QED
      BY <3>2, <3>3, <3>4
  <2>3. s \notin Sinking
    <3>1. PICK i \in 1 .. Len(c) : s \in IF i = 1 THEN from ELSE {c[i - 1]}
      BY <2>1 DEF Along
    <3>2. i = 1
      BY <1>2, <3>1
    <3>3. QED
      BY <3>1, <3>2 DEF Sinking
  <2>4. g.restarting = r
    BY <2>2 DEF SameCall
  <2>5. c[Len(c)] = PreState(r)
    BY <1>2
  <2>6. QED
    BY <1>1, <2>2, <2>3, <2>4, <2>5 DEF Starting, Lost
<1>6. ASSUME NEW then \in {"storage", "launch", "err"}, Failing(f, s, then, "err")
      PROVE  Starting(g, z) /\ (s \in Sinking => z \in Sinking)
  <2>1. WalkStep(f, s, g, z)
    BY <1>6, WalksStep DEF Failing
  <2>2. /\ SameCall(f, g)
        /\ z \in {s, "STOP_STORAGE", "STOP_NETWORK", "STOPPED", "FAILED"}
        /\ \/ Failing(g, z, then, "err")
           \/ g.pc = then /\ z = "FAILED"
           \/ g.pc = "err" /\ z = "INIT"
    BY <1>6, <2>1, FailingStep
  <2>3. Starting(g, z)
    BY <2>2 DEF Starting, Lost
  <2>4. QED
    BY <2>2, <2>3 DEF Sinking
<1>7. CASE Along(f, s, << StorageState(r) >>, prepared, "launch", "storagefailed")
  <2> DEFINE c == << StorageState(r) >>
  <2> HIDE DEF prepared
  <2>1. Along(f, s, c, prepared, "launch", "storagefailed") /\ c \in Seq(States)
    BY <1>2, <1>7
  <2>2. WalkStep(f, s, g, z)
    BY <2>1, WalksStep DEF Along
  <2>x. Len(c) = 1 /\ c[1] = StorageState(r)
    BY <1>2
  <2> HIDE DEF c
  <2>3. /\ SameCall(f, g)
        /\ \/ Along(g, z, c, prepared, "launch", "storagefailed")
           \/ g.pc = "launch" /\ z = c[Len(c)] /\ g.then = "idle"
           \/ /\ g.pc = "storagefailed" /\ g.then = "idle" /\ z = s
              /\ \E i \in 1 .. Len(c) :
                   /\ s \in IF i = 1 THEN prepared ELSE {c[i - 1]}
                   /\ ~ HasTransition(s, c[i]) \/ c[i] \in FailingHooks
    BY <2>1, <2>2, AlongStep
  <2>4. \A i \in 1 .. Len(c) : i = 1
    BY <2>x
  <2>5. g.restarting = r
    BY <2>3 DEF SameCall
  <2>6. Starting(g, z)
    <3>1. CASE Along(g, z, c, prepared, "launch", "storagefailed")
      BY <2>5, <3>1 DEF Starting, prepared, c
    <3>2. CASE g.pc = "launch" /\ z = c[Len(c)]
      BY <2>5, <2>x, <3>2 DEF Starting
    <3>3. CASE g.pc = "storagefailed" /\ z = s /\ s \in prepared
      BY <2>5, <3>3 DEF Starting, prepared
    <3>4. QED
      BY <2>3, <2>4, <3>1, <3>2, <3>3
  <2>7. s \in Sinking => z = s
    <3>1. PICK i \in 1 .. Len(c) : /\ f.todo = SubSeq(c, i, Len(c))
                                   /\ s \in IF i = 1 THEN prepared ELSE {c[i - 1]}
                                   /\ f.pc = "enter" => HasTransition(s, c[i])
      BY <2>1 DEF Along
    <3>2. i = 1
      BY <2>4, <3>1
    <3>3. s \in Sinking => s = "FAILED"
      BY <1>3, <3>1, <3>2 DEF prepared, Lost, Sinking
    <3>4. s \in Sinking => f.pc # "enter"
      BY <1>3, <1>4, <2>x, <3>1, <3>2, <3>3
    <3>5. QED
      BY <2>2, <3>4 DEF WalkStep
  <2>8. QED
    BY <2>6, <2>7
<1>8. CASE Along(f, s, UpChain(r), mounted, "ok", "upfailed")
  <2> DEFINE c == UpChain(r)
  <2> HIDE DEF mounted
  <2>1. Along(f, s, c, mounted, "ok", "upfailed") /\ c \in Seq(States)
    BY <1>2, <1>8
  <2>2. WalkStep(f, s, g, z)
    BY <2>1, WalksStep DEF Along
  <2>x. /\ c[1] \in {"RESTARTED", "RUNNING"} /\ c[Len(c)] = "RUNNING" /\ Len(c) \in {1, 2}
        /\ (Len(c) = 2 => c[1] = "RESTARTED")
    BY <1>3
  <2> HIDE DEF c
  <2>3. /\ SameCall(f, g)
        /\ \/ Along(g, z, c, mounted, "ok", "upfailed")
           \/ g.pc = "ok" /\ z = c[Len(c)]
           \/ g.pc = "upfailed"
    BY <2>1, <2>2, AlongStep
  <2>4. g.restarting = r
    BY <2>3 DEF SameCall
  <2>5. Starting(g, z)
    <3>1. CASE Along(g, z, c, mounted, "ok", "upfailed")
      BY <2>4, <3>1 DEF Starting, mounted, c
    <3>2. QED
      BY <2>3, <2>x, <3>1 DEF Starting
  <2>7. s \in Sinking => z = s
    <3>1. PICK i \in 1 .. Len(c) : /\ f.todo = SubSeq(c, i, Len(c))
                                   /\ s \in IF i = 1 THEN mounted ELSE {c[i - 1]}
                                   /\ f.pc = "enter" => HasTransition(s, c[i])
      BY <2>1 DEF Along
    <3>2. i = 1 \/ (i = 2 /\ s = "RESTARTED")
      BY <2>x, <3>1
    <3>3. s \in Sinking => s = "FAILED" /\ i = 1
      BY <1>3, <3>1, <3>2 DEF mounted, Lost, Sinking
    <3>4. s \in Sinking => f.pc # "enter"
      BY <1>4, <2>x, <3>1, <3>3
    <3>5. QED
      BY <2>2, <3>4 DEF WalkStep
  <2>8. QED
    BY <2>5, <2>7
<1>9. CASE f.pc = "undo" /\ r
  <2>1. z = s /\ g = Walk(f, FailChain, "storage", "err")
    BY <1>9 DEF OpStep, WalkStep, Begins, UndoPreChain
  <2>2. Failing(g, s, "storage", "err")
    BY <2>1, FailBegins
  <2>3. QED
    BY <2>1, <2>2 DEF Starting
<1>10. CASE f.pc = "storage" /\ s \in prepared
  <2>1. z = s /\ g = Walk(f, << StorageState(r) >>, "launch", "storagefailed")
    BY <1>10 DEF OpStep, WalkStep, Begins
  <2>p. s \in prepared
    BY <1>10
  <2> DEFINE c == << StorageState(r) >>
  <2>c. c \in Seq(States) /\ c # << >> /\ g = Walk(f, c, "launch", "storagefailed")
    BY <1>2, <2>1
  <2> HIDE DEF prepared, c
  <2>2. Along(g, s, c, prepared, "launch", "storagefailed") /\ SameCall(f, g)
    BY <2>c, <2>p, WalkBegins
  <2>3. g.restarting = r
    BY <2>2 DEF SameCall
  <2>4. QED
    BY <2>1, <2>2, <2>3 DEF Starting, prepared, c
<1>11. CASE f.pc = "storagefailed"
  <2>1. z = s /\ g = Walk(f, FailChain, "launch", "err")
    BY <1>11 DEF OpStep, WalkStep, Begins
  <2>2. Failing(g, s, "launch", "err")
    BY <2>1, FailBegins
  <2>3. QED
    BY <2>1, <2>2 DEF Starting
<1>12. CASE f.pc = "launch" /\ s \in mounted
  <2>1. CASE z = s /\ g = Walk(f, FailChain, "err", "err")
    <3>1. Failing(g, s, "err", "err")
      BY <2>1, FailBegins
    <3>2. QED
      BY <2>1, <3>1 DEF Starting
  <2>2. ASSUME NEW p \in Pids, z = s, g = Walk([f EXCEPT !.pid = p], UpChain(r), "ok", "upfailed")
        PROVE  Starting(g, z)
    <3> DEFINE h == [f EXCEPT !.pid = p]
    <3>1. h \in Frame /\ h.restarting = r
      BY DEF Frame
    <3> HIDE DEF h, mounted
    <3>2. g = Walk(h, UpChain(r), "ok", "upfailed")
      BY <2>2 DEF h
    <3>3. Along(g, s, UpChain(r), mounted, "ok", "upfailed") /\ SameCall(h, g)
      BY <1>2, <1>12, <3>1, <3>2, WalkBegins
    <3>4. g.restarting = r
      BY <3>1, <3>3 DEF SameCall
    <3>5. QED
      BY <2>2, <3>3, <3>4 DEF Starting, mounted
  <2>3. z = s /\ (\/ g = Walk(f, FailChain, "err", "err")
                  \/ \E p \in Pids : g = Walk([f EXCEPT !.pid = p], UpChain(r), "ok", "upfailed"))
    BY <1>12 DEF OpStep, WalkStep, Begins
  <2>4. QED
    BY <2>1, <2>2, <2>3
<1>13. CASE f.pc = "upfailed"
  <2>1. z = s /\ g = Walk(f, FailChain, "err", "err")
    BY <1>13 DEF OpStep, WalkStep, Begins
  <2>2. Failing(g, s, "err", "err")
    BY <2>1, FailBegins
  <2>3. QED
    BY <2>1, <2>2 DEF Starting
<1>14. f.pc \notin {"ok", "err"}
  BY DEF OpStep, WalkStep, Begins
<1>15. QED
  BY <1>5, <1>6, <1>7, <1>8, <1>9, <1>10, <1>11, <1>12, <1>13, <1>14 DEF Starting

LEMMA EndingOp ==
    ASSUME StartsFailOnly, NEW f \in Frame, NEW s, NEW g, NEW z, Ending(f, s), OpStep(f, s, g, z)
    PROVE  /\ SameCall(f, g)
           /\ \/ Ending(g, z)
              \/ g.pc = "exitcode" /\ g.code \in {1, 2} /\ z = "STOPPED" /\ f.then = "exitcode"
           /\ s \in Sinking /\ f.then # "exitcode" => z \in Sinking /\ g.then # "exitcode"
<1>1. CASE Along(f, s, RebootChain, {"RUNNING"}, "request", "err") /\ f.code = 0
  <2> DEFINE c == RebootChain
             from == {"RUNNING"}
  <2>1. WalkStep(f, s, g, z)
    BY <1>1, WalksStep DEF Along
  <2>2. c \in Seq(States) /\ Along(f, s, c, from, "request", "err")
    BY <1>1, ChainStates
  <2>3. Len(c) = 3 /\ c[3] = "RESTART_STOPPED"
        /\ \A i \in 1 .. 3 : \A y : y \in (IF i = 1 THEN from ELSE {c[i - 1]}) =>
              HasTransition(y, c[i]) /\ c[i] \notin StartStates /\ y \notin Sinking
    <3>1. Len(c) = 3 /\ c[1] = "PRESTOP_BEFORE_RESTART" /\ c[2] = "RESTARTING" /\ c[3] = "RESTART_STOPPED"
      BY DEF RebootChain
    <3> HIDE DEF c
    <3>2. SUFFICES ASSUME NEW i \in 1 .. 3, NEW y, y \in (IF i = 1 THEN from ELSE {c[i - 1]})
                   PROVE  HasTransition(y, c[i]) /\ c[i] \notin StartStates /\ y \notin Sinking
      BY <3>1
    <3>3. i = 1 \/ i = 2 \/ i = 3
      OBVIOUS
    <3>4. CASE i = 1
      BY <3>1, <3>2, <3>4 DEF HasTransition, Table, StartStates, Sinking
    <3>5. CASE i = 2
      BY <3>1, <3>2, <3>5 DEF HasTransition, Table, StartStates, Sinking
    <3>6. CASE i = 3
      BY <3>1, <3>2, <3>6 DEF HasTransition, Table, StartStates, Sinking
    <3>7. QED
      BY <3>3, <3>4, <3>5, <3>6
  <2> HIDE DEF c, from
  <2>4. /\ SameCall(f, g)
        /\ \/ Along(g, z, c, from, "request", "err")
           \/ g.pc = "request" /\ z = c[Len(c)] /\ g.then = "idle"
           \/ /\ g.pc = "err" /\ g.then = "idle" /\ z = s
              /\ \E i \in 1 .. Len(c) :
                   /\ s \in IF i = 1 THEN from ELSE {c[i - 1]}
                   /\ ~ HasTransition(s, c[i]) \/ c[i] \in FailingHooks
    BY <2>1, <2>2, AlongStep
  <2>5. \/ Along(g, z, c, from, "request", "err")
        \/ g.pc = "request" /\ z = "RESTART_STOPPED"
    BY <2>3, <2>4 DEF StartsFailOnly
  <2>6. s \notin Sinking
    BY <2>2, <2>3 DEF Along
  <2>7. g.code = 0
    BY <1>1, <2>4 DEF SameCall
  <2>8. Ending(g, z)
    BY <2>5, <2>7 DEF Ending, c, from
  <2>9. QED
    BY <2>4, <2>6, <2>8
<1>2. CASE Along(f, s, StopChain, {"RUNNING"}, "exitcode", "err") /\ f.code \in {1, 2}
  <2> DEFINE c == StopChain
             from == {"RUNNING"}
  <2>1. WalkStep(f, s, g, z)
    BY <1>2, WalksStep DEF Along
  <2>2. c \in Seq(States) /\ Along(f, s, c, from, "exitcode", "err") /\ f.then = "exitcode"
    BY <1>2, ChainStates DEF Along
  <2>3. Len(c) = 3 /\ c[3] = "STOPPED"
        /\ \A i \in 1 .. 3 : \A y : y \in (IF i = 1 THEN from ELSE {c[i - 1]}) =>
              HasTransition(y, c[i]) /\ c[i] \notin StartStates
    <3>1. Len(c) = 3 /\ c[1] = "STOP_STORAGE" /\ c[2] = "STOP_NETWORK" /\ c[3] = "STOPPED"
      BY DEF StopChain
    <3> HIDE DEF c
    <3>2. SUFFICES ASSUME NEW i \in 1 .. 3, NEW y, y \in (IF i = 1 THEN from ELSE {c[i - 1]})
                   PROVE  HasTransition(y, c[i]) /\ c[i] \notin StartStates
      BY <3>1
    <3>3. i = 1 \/ i = 2 \/ i = 3
      OBVIOUS
    <3>4. CASE i = 1
      BY <3>1, <3>2, <3>4 DEF HasTransition, FromAny, StartStates
    <3>5. CASE i = 2
      BY <3>1, <3>2, <3>5 DEF HasTransition, Table, StartStates
    <3>6. CASE i = 3
      BY <3>1, <3>2, <3>6 DEF HasTransition, Table, StartStates
    <3>7. QED
      BY <3>3, <3>4, <3>5, <3>6
  <2> HIDE DEF c, from
  <2>4. /\ SameCall(f, g)
        /\ \/ Along(g, z, c, from, "exitcode", "err")
           \/ g.pc = "exitcode" /\ z = c[Len(c)] /\ g.then = "idle"
           \/ /\ g.pc = "err" /\ g.then = "idle" /\ z = s
              /\ \E i \in 1 .. Len(c) :
                   /\ s \in IF i = 1 THEN from ELSE {c[i - 1]}
                   /\ ~ HasTransition(s, c[i]) \/ c[i] \in FailingHooks
    BY <2>1, <2>2, AlongStep
  <2>5. \/ Along(g, z, c, from, "exitcode", "err")
        \/ g.pc = "exitcode" /\ z = "STOPPED"
    BY <2>3, <2>4 DEF StartsFailOnly
  <2>6. g.code \in {1, 2}
    BY <1>2, <2>4 DEF SameCall
  <2>7. CASE Along(g, z, c, from, "exitcode", "err")
    BY <2>2, <2>4, <2>6, <2>7 DEF Ending, c, from
  <2>8. QED
    BY <2>2, <2>4, <2>5, <2>6, <2>7
<1>3. CASE f.pc = "exitcode" /\ s = "RUNNING" /\ f.code >= 3
  <2>1. z = s /\ g = Walk(f, FailChain, "clear", "clear")
    BY <1>3 DEF OpStep, WalkStep, Begins
  <2>2. Failing(g, s, "clear", "clear") /\ SameCall(f, g)
    BY <2>1, FailBegins
  <2>3. QED
    BY <1>3, <2>1, <2>2 DEF Ending, Sinking
<1>4. CASE Failing(f, s, "clear", "clear") \/ Failing(f, s, "ok", "err")
  <2>1. WalkStep(f, s, g, z)
    BY <1>4, WalksStep DEF Failing
  <2>2. PICK then \in {"clear", "ok"}, else \in {"clear", "err"} :
            (then = "clear" <=> else = "clear") /\ Failing(f, s, then, else)
    BY <1>4
  <2>3. /\ SameCall(f, g)
        /\ z \in {s, "STOP_STORAGE", "STOP_NETWORK", "STOPPED", "FAILED"}
        /\ \/ Failing(g, z, then, else)
           \/ g.pc = then /\ z = "FAILED" /\ g.then = "idle"
           \/ g.pc = else /\ z = "INIT" /\ g.then = "idle"
    BY <2>1, <2>2, FailingStep
  <2>4. Ending(g, z)
    BY <2>2, <2>3 DEF Ending, Lost
  <2>5. g.then # "exitcode"
    BY <2>2, <2>3 DEF Failing
  <2>6. QED
    BY <2>3, <2>4, <2>5 DEF Sinking
<1>5. CASE f.pc = "clear" /\ s \in Lost
  <2>1. z = s /\ g = Jump(f, "ok")
    BY <1>5 DEF OpStep, WalkStep, Begins
  <2>2. SameCall(f, g) /\ g.pc = "ok" /\ g.then = "idle"
    BY <2>1, JumpKeeps
  <2>3. QED
    BY <1>5, <2>1, <2>2 DEF Ending
<1>6. f.pc \notin {"ok", "err", "request"}
  BY DEF OpStep, WalkStep, Begins
<1>7. QED
  BY <1>1, <1>2, <1>3, <1>4, <1>5, <1>6 DEF Ending

(* Where a walk along a chain of known length may be. *)
LEMMA AlongAt ==
    ASSUME NEW f, NEW s, NEW chain, NEW from, NEW then, NEW else, Along(f, s, chain, from, then, else),
           Len(chain) \in 1 .. 3
    PROVE  /\ f.pc \in {"lookup", "enter"} /\ f.then = then
           /\ \/ s \in from /\ (f.pc = "enter" => HasTransition(s, chain[1]))
              \/ s \in {chain[1], chain[2]} /\ Len(chain) = 3
              \/ s = chain[1] /\ Len(chain) = 2
<1>1. PICK i \in 1 .. Len(chain) :
        /\ s \in IF i = 1 THEN from ELSE {chain[i - 1]}
        /\ f.pc = "enter" => HasTransition(s, chain[i])
  BY DEF Along
<1>2. i = 1 \/ (i = 2 /\ Len(chain) \in {2, 3}) \/ (i = 3 /\ Len(chain) = 3)
  <2>1. \A n \in 1 .. 3 : \A k \in 1 .. n : k = 1 \/ (k = 2 /\ n \in {2, 3}) \/ (k = 3 /\ n = 3)
    OBVIOUS
  <2>2. QED
    BY <2>1
<1>3. CASE i = 1
  BY <1>1, <1>3 DEF Along
<1>4. CASE i = 2 /\ Len(chain) \in {2, 3}
  BY <1>1, <1>4 DEF Along
<1>5. CASE i = 3 /\ Len(chain) = 3
  BY <1>1, <1>5 DEF Along
<1>6. QED
  BY <1>2, <1>3, <1>4, <1>5

LEMMA NoWayUp ==
    \A r \in BOOLEAN : /\ ~ HasTransition("FAILED", StorageState(r))
                       /\ ~ HasTransition("FAILED", UpChain(r)[1])
<1>1. /\ \A r \in BOOLEAN : StorageState(r) \in {"START_STORAGE", "START_AFTER_RESTART"}
      /\ \A r \in BOOLEAN : UpChain(r)[1] \in {"RUNNING", "RESTARTED"}
  BY DEF StorageState, UpChain
<1>2. \A y \in {"START_STORAGE", "START_AFTER_RESTART", "RUNNING", "RESTARTED"} : ~ HasTransition("FAILED", y)
  BY DEF HasTransition, Table, FromAny
<1>3. QED
  BY <1>1, <1>2

(* A reset in the middle of a start or an end does not derail it. *)
LEMMA StartingReset ==
    ASSUME NEW f \in Frame, NEW s \in Sinking, Starting(f, s)
    PROVE  Starting(f, "INIT")
<1> DEFINE r == f.restarting
           prepared == {PreState(r)} \cup Lost
           mounted == {StorageState(r)} \cup Lost
<1>1. r \in BOOLEAN /\ s \notin StartStates /\ s \notin {"INIT", "RESTART_STOPPED"}
  BY DEF Frame, StartStates, Sinking
<1>2. /\ PreState(r) \in StartStates /\ StorageState(r) \in StartStates
      /\ Len(UpChain(r)) \in {1, 2} /\ (Len(UpChain(r)) = 2 => UpChain(r)[1] \in StartStates)
  BY DEF PreState, StorageState, UpChain, StartStates
<1>3. "INIT" \in prepared /\ "INIT" \in mounted /\ "INIT" \in Lost
  BY DEF Lost
<1>4. ASSUME NEW chain, NEW from, NEW then, NEW else, Along(f, s, chain, from, then, else),
             Len(chain) \in {1, 2}, Len(chain) = 2 => chain[1] \in StartStates
      PROVE  s \in from /\ (f.pc = "enter" => HasTransition(s, chain[1]))
             /\ ("INIT" \in from /\ f.pc # "enter" => Along(f, "INIT", chain, from, then, else))
  <2>1. s \in from /\ (f.pc = "enter" => HasTransition(s, chain[1]))
    BY <1>1, <1>4, AlongAt
  <2>2. PICK i \in 1 .. Len(chain) :
          /\ f.todo = SubSeq(chain, i, Len(chain))
          /\ s \in IF i = 1 THEN from ELSE {chain[i - 1]}
    BY <1>4 DEF Along
  <2>3. i = 1
    BY <1>1, <1>4, <2>2
  <2>4. QED
    BY <1>4, <2>1, <2>2, <2>3 DEF Along
<1>5. ASSUME NEW then, NEW else, Failing(f, s, then, else)
      PROVE  Failing(f, "INIT", then, else)
  BY <1>5 DEF Failing
<1>6. CASE Along(f, s, << PreState(r) >>, {IF r THEN "RESTART_STOPPED" ELSE "INIT"},
                 "storage", IF r THEN "undo" ELSE "err")
  <2>1. s \in {IF r THEN "RESTART_STOPPED" ELSE "INIT"}
    BY <1>4, <1>6
  <2>2. QED
    BY <1>1, <2>1
<1>7. CASE Along(f, s, << StorageState(r) >>, prepared, "launch", "storagefailed")
  <2> DEFINE c == << StorageState(r) >>
  <2>1. Len(c) = 1 /\ c[1] = StorageState(r)
    OBVIOUS
  <2>2. s \in prepared => s = "FAILED"
    BY <1>1, <1>2 DEF Lost
  <2> HIDE DEF c, prepared
  <2>3. s \in prepared /\ (f.pc = "enter" => HasTransition(s, c[1]))
        /\ (f.pc # "enter" => Along(f, "INIT", c, prepared, "launch", "storagefailed"))
    BY <1>3, <1>4, <1>7, <2>1 DEF c
  <2>4. Along(f, "INIT", c, prepared, "launch", "storagefailed")
    BY <1>1, <2>1, <2>2, <2>3, NoWayUp
  <2>5. QED
    BY <2>4 DEF Starting, c, prepared
<1>8. CASE Along(f, s, UpChain(r), mounted, "ok", "upfailed")
  <2>2. s \in mounted => s = "FAILED"
    BY <1>1, <1>2 DEF Lost
  <2> HIDE DEF mounted
  <2>3. s \in mounted /\ (f.pc = "enter" => HasTransition(s, UpChain(r)[1]))
        /\ (f.pc # "enter" => Along(f, "INIT", UpChain(r), mounted, "ok", "upfailed"))
    BY <1>2, <1>3, <1>4, <1>8
  <2>4. Along(f, "INIT", UpChain(r), mounted, "ok", "upfailed")
    BY <1>1, <2>2, <2>3, NoWayUp
  <2>5. QED
    BY <2>4 DEF Starting, mounted
<1>9. s # "RUNNING"
  BY DEF Sinking
<1>10. QED
  BY <1>3, <1>5, <1>6, <1>7, <1>8, <1>9 DEF Starting

LEMMA EndingReset ==
    ASSUME NEW f \in Frame, NEW s, Ending(f, s)
    PROVE  /\ s \in Sinking /\ f.then # "exitcode" => Ending(f, "INIT")
           /\ s = "FAILED" => f.then # "exitcode"
           /\ f.pc \in {"ok", "err"} => s \in Lost
           /\ f.pc = "exitcode" => f.code >= 3
           /\ f.pc = "request" => s = "RESTART_STOPPED" /\ f.code = 0
<1>1. /\ Len(RebootChain) = 3 /\ RebootChain[1] = "PRESTOP_BEFORE_RESTART" /\ RebootChain[2] = "RESTARTING"
      /\ Len(StopChain) = 3 /\ StopChain[1] = "STOP_STORAGE" /\ StopChain[2] = "STOP_NETWORK"
  BY DEF RebootChain, StopChain
<1>2. CASE Along(f, s, RebootChain, {"RUNNING"}, "request", "err") /\ f.code = 0
  <2>1. f.pc \in {"lookup", "enter"} /\ s \in {"RUNNING", "PRESTOP_BEFORE_RESTART", "RESTARTING"}
    BY <1>1, <1>2, AlongAt
  <2>2. QED
    BY <2>1 DEF Sinking
<1>3. CASE Along(f, s, StopChain, {"RUNNING"}, "exitcode", "err") /\ f.code \in {1, 2}
  <2>1. f.pc \in {"lookup", "enter"} /\ s \in {"RUNNING", "STOP_STORAGE", "STOP_NETWORK"}
        /\ f.then = "exitcode"
    BY <1>1, <1>3, AlongAt
  <2>2. QED
    BY <2>1
<1>4. CASE Failing(f, s, "clear", "clear") \/ Failing(f, s, "ok", "err")
  <2>1. Failing(f, "INIT", "clear", "clear") \/ Failing(f, "INIT", "ok", "err")
    BY <1>4 DEF Failing
  <2>2. f.pc \in {"lookup", "enter"} /\ f.then # "exitcode"
    BY <1>4 DEF Failing
  <2>3. QED
    BY <2>1, <2>2 DEF Ending
<1>5. CASE f.pc = "request" /\ s = "RESTART_STOPPED" /\ f.code = 0
  BY <1>5 DEF Sinking
<1>6. CASE f.pc = "exitcode" /\ s = "RUNNING" /\ f.code >= 3
  BY <1>6 DEF Sinking
<1>7. CASE f.pc \in {"clear", "ok", "err"} /\ f.then = "idle" /\ s \in Lost
  <2>1. Ending(f, "INIT")
    BY <1>7 DEF Ending, Lost
  <2>2. QED
    BY <1>7, <2>1
<1>8. QED
  BY <1>2, <1>3, <1>4, <1>5, <1>6, <1>7 DEF Ending

-----------------------------------------------------------------------------
(* The state of a VM, by who works on it. *)

Phase(j, f, s) ==
    /\ j.at # "rest"
    /\ j.at \in {"count", "stamp", "generate"} => s \in {"INIT", "RESTART_STOPPED"}
    /\ j.at = "started" => Starting(f, s)
    /\ j.at = "register" => s = "RUNNING" /\ f.pc = "ok"
    /\ j.at \in {"died", "finish"} => Ending(f, s)

(* The end of the process has not been received by the kqueue thread. *)
Reported(p, vm) == p \in watched \cup ToSet(kevents) /\ proc[p].vm = vm

Resetting(vm) == job["cmd"].vm = vm /\ call["cmd"].pc \in {"lookup", "enter"}

(* A thread at work on a VM is in phase with the state of the VM.  A reset *)
(* may interfere only with a walk into the failure state.                  *)
InWork(t, vm) ==
    /\ Phase(job[t], call[t], vmstate[vm])
    /\ job[t].at \in {"started", "register"} /\ call[t].pid \in Pids => processid[vm] = call[t].pid
    /\ Resetting(vm) =>
         /\ vmstate[vm] \in Sinking
         /\ job[t].at \in {"died", "finish"} => call[t].then # "exitcode"

(* A VM nobody works on.                                                   *)
AtEase(vm, listed) ==
    /\ vmstate[vm] \in {"INIT", "RUNNING", "STOPPED", "RESTART_STOPPED", "FAILED"}
    /\ vmstate[vm] = "RUNNING" => Reported(processid[vm], vm)
    /\ vmstate[vm] # "RUNNING" => \A p : ~ Reported(p, vm)
    /\ vm \in toboot => vmstate[vm] = "INIT"
    /\ (vm \in listed <=> vmstate[vm] = "RESTART_STOPPED")
    /\ Resetting(vm) => vmstate[vm] = "FAILED"

InOrder(vm, listed) ==
    /\ \A t \in Workers : Working(t, vm) => InWork(t, vm)
    /\ Free(vm) => AtEase(vm, listed)

OrderInv == \E s \in Seq(VMs) :
    Links(rebootlist, s) /\ Distinct(s) /\ \A vm \in VMs : InOrder(vm, ToSet(s))

-----------------------------------------------------------------------------
(* The sequence behind the list is unique. *)

LEMMA NatSet ==
    ASSUME NEW T, 0 \in T, \A n \in Nat : n \in T => n + 1 \in T
    PROVE  Nat \subseteq T
<1> DEFINE B == Nat \ T
           R == OpToRel(<, Nat)
<1>1. SUFFICES ASSUME B # {} PROVE FALSE
  OBVIOUS
<1>2. IsWellFoundedOn(R, Nat)
  BY NatLessThanWellFounded
<1>3. B \subseteq Nat
  OBVIOUS
<1>4. \A x, y \in Nat : x < y => <<x, y>> \in R
  BY DEF OpToRel
<1> HIDE DEF R, B
<1>5. PICK x \in B : \A y \in B : ~ (<<y, x>> \in R)
  BY <1>1, <1>2, <1>3, WFMin
<1>6. x \in Nat /\ x \notin T /\ x # 0
  BY <1>5 DEF B
<1>7. x - 1 \in Nat /\ x - 1 < x /\ (x - 1) + 1 = x
  BY <1>6
<1>8. x - 1 \in T
  BY <1>4, <1>5, <1>6, <1>7 DEF B
<1>9. QED
  BY <1>6, <1>7, <1>8

LEMMA LinksUnique ==
    ASSUME NEW q, NEW s \in Seq(VMs), NEW u \in Seq(VMs), Links(q, s), Links(q, u)
    PROVE  s = u
<1> DEFINE m == Len(s)
           n == Len(u)
           T == {i \in Nat : i + 1 \in 1 .. m /\ i + 1 \in 1 .. n => s[i + 1] = u[i + 1]}
<1>1. /\ m \in Nat /\ n \in Nat /\ DOMAIN s = 1 .. m /\ DOMAIN u = 1 .. n
      /\ \A i \in 1 .. m : s[i] \in VMs
      /\ \A i \in 1 .. n : u[i] \in VMs
      /\ (m = 0 => s = << >>) /\ (n = 0 => u = << >>)
  OBVIOUS
<1>2. NoVM \notin VMs
  BY ConstantsAssumption
<1>3. /\ m # 0 => q.first = s[1] /\ q.first # NoVM /\ q.next[s[m]] = NoVM
                  /\ \A i \in 1 .. m - 1 : q.next[s[i]] = s[i + 1]
      /\ m = 0 => q.first = NoVM
  BY <1>1, <1>2 DEF Links
<1>4. /\ n # 0 => q.first = u[1] /\ q.first # NoVM /\ q.next[u[n]] = NoVM
                  /\ \A i \in 1 .. n - 1 : q.next[u[i]] = u[i + 1]
      /\ n = 0 => q.first = NoVM
  BY <1>1, <1>2 DEF Links
<1> HIDE DEF m, n
<1>5. 0 \in T
  BY <1>1, <1>3, <1>4
<1>6. ASSUME NEW i \in Nat, i \in T
      PROVE  i + 1 \in T
  <2>1. SUFFICES ASSUME (i + 1) + 1 \in 1 .. m, (i + 1) + 1 \in 1 .. n
                 PROVE  s[(i + 1) + 1] = u[(i + 1) + 1]
    OBVIOUS
  <2>2. i + 1 \in 1 .. m - 1 /\ i + 1 \in 1 .. n - 1 /\ i + 1 \in 1 .. m /\ i + 1 \in 1 .. n
    BY <1>1, <2>1
  <2>3. s[i + 1] = u[i + 1]
    BY <1>6, <2>2
  <2>4. q.next[s[i + 1]] = s[(i + 1) + 1] /\ q.next[u[i + 1]] = u[(i + 1) + 1]
    BY <1>1, <1>3, <1>4, <2>2
  <2>5. QED
    BY <2>3, <2>4
<1> HIDE DEF T
<1>7. Nat \subseteq T
  BY <1>5, <1>6, NatSet
<1>8. \A i \in 1 .. m : i \in 1 .. n => s[i] = u[i]
  <2>1. SUFFICES ASSUME NEW i \in 1 .. m, i \in 1 .. n PROVE s[i] = u[i]
    OBVIOUS
  <2>2. i - 1 \in Nat /\ (i - 1) + 1 = i
    BY <1>1
  <2>3. QED
    BY <1>7, <2>1, <2>2 DEF T
<1>9. m = n
  <2>1. CASE m = 0 \/ n = 0
    BY <1>1, <1>2, <1>3, <1>4, <2>1
  <2>2. CASE m # 0 /\ n # 0 /\ m < n
    <3>1. m \in 1 .. m /\ m \in 1 .. n /\ m \in 1 .. n - 1 /\ m + 1 \in 1 .. n
      BY <1>1, <2>2
    <3>2. u[m + 1] = NoVM
      BY <1>3, <1>4, <1>8, <2>2, <3>1
    <3>3. QED
      BY <1>1, <1>2, <3>1, <3>2
  <2>3. CASE m # 0 /\ n # 0 /\ n < m
    <3>1. n \in 1 .. m /\ n \in 1 .. n /\ n \in 1 .. m - 1 /\ n + 1 \in 1 .. m
      BY <1>1, <2>3
    <3>2. s[n + 1] = NoVM
      BY <1>3, <1>4, <1>8, <2>3, <3>1
    <3>3. QED
      BY <1>1, <1>2, <3>1, <3>2
  <2>4. QED
    BY <1>1, <2>1, <2>2, <2>3
<1>10. QED
  <2>1. Len(s) = Len(u) /\ \A i \in 1 .. Len(s) : s[i] = u[i]
    BY <1>8, <1>9 DEF m, n
  <2>2. QED
    BY <2>1, SeqEqual

(* One list for who owns a VM and for the order of its states. *)
LEMMA OneList ==
    ASSUME OwnInv, OrderInv
    PROVE  \E s \in Seq(VMs) : /\ Links(rebootlist, s) /\ Distinct(s) /\ Owners(ToSet(s))
                               /\ \A vm \in VMs : InOrder(vm, ToSet(s))
BY LinksUnique DEF OwnInv, OrderInv

-----------------------------------------------------------------------------
(* A step of a worker, about one VM. *)

About(t, vm) ==
    /\ \A u \in Threads \ {t} : job'[u] = job[u] /\ call'[u] = call[u]
    /\ job[t].vm \in {vm, NoVM} /\ job'[t].vm \in {vm, NoVM}
    /\ \A v \in VMs \ {vm} : /\ vmstate'[v] = vmstate[v] /\ processid'[v] = processid[v]
                             /\ v \in toboot' => v \in toboot
                             /\ \A p : Reported(p, v)' <=> Reported(p, v)

(* A VM the thread has nothing to do with. *)
LEMMA Untouched ==
    ASSUME NEW t \in Threads, t \in Workers, NEW v \in VMs, NEW L, NEW M, InOrder(v, L),
           \A u \in Threads \ {t} : job'[u] = job[u] /\ call'[u] = call[u],
           ~ Working(t, v), ~ Working(t, v)',
           vmstate'[v] = vmstate[v], processid'[v] = processid[v], v \in toboot' => v \in toboot,
           \A p : Reported(p, v)' <=> Reported(p, v), v \in M <=> v \in L
    PROVE  InOrder(v, M)'
<1>1. "cmd" \in Threads \ {t} /\ \A u \in Workers \ {t} : u \in Threads \ {t}
  BY DirectorAssumption DEF Workers
<1>2. Resetting(v)' <=> Resetting(v)
  BY <1>1 DEF Resetting
<1>3. ASSUME NEW u \in Workers, Working(u, v)' PROVE InWork(u, v)'
  <2>1. u # t /\ job'[u] = job[u] /\ call'[u] = call[u]
    BY <1>1, <1>3
  <2>2. Working(u, v)
    BY <1>3, <2>1 DEF Working, Returning
  <2>3. InWork(u, v)
    BY <2>2 DEF InOrder
  <2>4. QED
    BY <1>2, <2>1, <2>3 DEF InWork, Phase
<1>4. Free(v)' => Free(v)
  <2>1. \A u \in Workers \ {t} : Working(u, v) => Working(u, v)'
    BY <1>1 DEF Working, Returning
  <2>2. QED
    BY <2>1 DEF Free
<1>5. ASSUME AtEase(v, L) PROVE AtEase(v, M)'
  BY <1>2, <1>5 DEF AtEase
<1>6. QED
  BY <1>3, <1>4, <1>5 DEF InOrder

LEMMA OthersInOrder ==
    ASSUME NEW t \in Threads, t \in Workers, NEW vm \in VMs, About(t, vm), NEW L, NEW M,
           \A v \in VMs : InOrder(v, L), M \ {vm} = L \ {vm}, InOrder(vm, M)'
    PROVE  \A v \in VMs : InOrder(v, M)'
<1>1. SUFFICES ASSUME NEW v \in VMs, v # vm PROVE InOrder(v, M)'
  OBVIOUS
<1>2. ~ Working(t, v) /\ ~ Working(t, v)'
  BY <1>1, ConstantsAssumption DEF About, Working
<1>3. v \in M <=> v \in L
  BY <1>1
<1>4. QED
  BY <1>1, <1>2, <1>3, Untouched DEF About

(* Thread t and nobody else works on the VM now. *)
LEMMA WorksInOrder ==
    ASSUME NEW t \in Workers, NEW vm, NEW M, \A u \in Workers \ {t} : ~ Working(u, vm)', Working(t, vm)',
           InWork(t, vm)'
    PROVE  InOrder(vm, M)'
BY DEF InOrder, Free

(* Nobody works on the VM any more. *)
LEMMA EaseInOrder ==
    ASSUME NEW vm, NEW M, \A u \in Workers : ~ Working(u, vm)', AtEase(vm, M)'
    PROVE  InOrder(vm, M)'
BY DEF InOrder

(* The reports of a VM that a thread works on are still to come. *)
LEMMA NoReports ==
    ASSUME TypeInv, ExitReportedOnce, NEW t \in Workers, NEW vm \in VMs, NEW L, Owned(vm, L), Working(t, vm)
    PROVE  \A p : ~ Reported(p, vm)
<1>1. SUFFICES ASSUME NEW p, Reported(p, vm) PROVE FALSE
  OBVIOUS
<1>2. p \in Forked /\ p \in Pids
  BY <1>1 DEF TypeInv, ProcsSound, Reported, Forked
<1>3. Live(p, vm)
  BY <1>1, <1>2 DEF Reported, Live, ExitReportedOnce
<1>4. Holds(t, p)
  BY <1>2, <1>3 DEF Owned
<1>5. QED
  BY <1>1, <1>2, <1>4 DEF ExitReportedOnce, Reported, Workers

-----------------------------------------------------------------------------
(* The steps inside an operation. *)

LEMMA AtWork ==
    ASSUME TypeInv, ExitReportedOnce, NEW t \in Workers, NEW vm \in VMs, NEW L, Owned(vm, L), InOrder(vm, L),
           Working(t, vm)
    PROVE  /\ InWork(t, vm) /\ vm \notin toboot /\ vm \notin L
           /\ \A u \in Workers : Working(u, vm) => u = t
           /\ \A p : ~ Reported(p, vm)
<1>1. t \in Threads
  BY DEF Workers
<1>2. vm \notin toboot /\ vm \notin L /\ \A u \in Workers : Working(u, vm) => u = t
  BY <1>1, WorkerAlone
<1>3. QED
  BY <1>2, NoReports DEF InOrder

LEMMA StepOrder ==
    ASSUME Inv, StartsFailOnly, OrderInv, NEW t \in Threads, t \in Workers, Step(t), UNCHANGED bdvars
    PROVE  OrderInv'
<1> DEFINE f == call[t]
<1>0. SUFFICES ASSUME NEW vm, vm = job[t].vm, NEW g, g = call'[t] PROVE OrderInv'
  OBVIOUS
<1>1. LabelStep(f, g) /\ f \in Frame
  BY <1>0, StepLabels, TypeOfVM DEF Inv, TypeInv, PsvInv, PsvTypeOK
<1>2. Fits(job[t], f) /\ job[t] \in Jobs
  BY DEF Inv, FrameFits, TypeInv, BdTypes
<1>3. job[t].at \in {"started", "register", "died", "finish"} /\ vm \in VMs /\ f.vm = vm
  BY <1>0, <1>1, <1>2 DEF Fits, LabelStep, Jobs, Places, Inv, TypeInv, JobsSound, Sound
<1>4. job' = job /\ toboot' = toboot /\ kevents' = kevents /\ watched' = watched /\ rebootlist' = rebootlist
  BY DEF bdvars
<1>5. \A u \in Threads \ {t} : job'[u] = job[u] /\ call'[u] = call[u]
  BY StepsAlone DEF Inv, ThreadStep
<1>6. \A p, v : Reported(p, v)' <=> Reported(p, v)
  <2>1. \A p \in Forked : proc'[p].vm = proc[p].vm
    BY StepEffect, TypeOfVM DEF Inv, TypeInv, FrameStep, LaunchesOnly, SameProcess, Forked
  <2>2. watched \cup ToSet(kevents) \subseteq Forked
    BY DEF Inv, TypeInv, ProcsSound
  <2>3. QED
    BY <1>4, <2>1, <2>2 DEF Reported
<1> DEFINE s == vmstate[vm]
           z == vmstate'[vm]
<1>7. /\ OpStep(f, s, g, z)
      /\ \A v \in VMs \ {vm} : vmstate'[v] = vmstate[v] /\ processid'[v] = processid[v]
      /\ \/ processid'[vm] = processid[vm] /\ g.pid = f.pid
         \/ processid'[vm] = g.pid /\ f.pc = "launch"
         \/ f.pc = "clear"
  BY <1>0, <1>3, StepIsOp, TypeOfVM DEF Inv, TypeInv
<1>8. About(t, vm)
  BY <1>0, <1>4, <1>5, <1>6, <1>7 DEF About
<1>9. PICK q \in Seq(VMs) : /\ Links(rebootlist, q) /\ Distinct(q) /\ Owners(ToSet(q))
                            /\ \A v \in VMs : InOrder(v, ToSet(q))
  BY OneList DEF Inv
<1> DEFINE L == ToSet(q)
<1> HIDE DEF L
<1>10. \A v \in VMs : Owned(v, L) /\ InOrder(v, L)
  BY <1>9 DEF L, Owners
<1>11. Resetting(vm)' <=> Resetting(vm)
  <2>1. "cmd" \in Threads \ {t}
    BY DirectorAssumption DEF Workers
  <2>2. QED
    BY <1>5, <2>1 DEF Resetting
<1> HIDE DEF f, s, z
<1>12. InOrder(vm, L)'
  <2>1. CASE Returning(t)
    <3>1. f.pc = "exitcode" /\ f.code < 3 /\ f.code \in Nat
      <4>1. f.code \in 0 .. 255
        BY <1>1 DEF Frame
      <4>2. f.pc = "exitcode" /\ f.code < 3
        BY <1>1, <2>1 DEF Returning, LabelStep, f
      <4>3. \A n \in 0 .. 255 : n \in Nat
        OBVIOUS
      <4>4. QED
        BY <4>1, <4>2, <4>3
    <3>2. z = s /\ g.pc = "ok" /\ g.code = f.code /\ processid'[vm] = processid[vm]
      <4>1. g.pc = "ok" /\ g.code = f.code
        BY <1>1, <3>1 DEF LabelStep
      <4>2. QED
        BY <1>7, <3>1, <4>1 DEF OpStep, WalkStep, Begins
    <3>3. Returning(t)'
      BY <1>0, <1>3, <1>4, <2>1, <3>1, <3>2 DEF Returning, f
    <3>4. ~ Working(t, vm) /\ ~ Working(t, vm)'
      BY <2>1, <3>3 DEF Working
    <3>5. QED
      BY <1>3, <1>4, <1>5, <1>6, <1>10, <3>2, <3>4, Untouched DEF s, z
  <2>2. CASE ~ Returning(t)
    <3>1. Working(t, vm)
      BY <1>0, <2>2 DEF Working
    <3>2. /\ InWork(t, vm) /\ vm \notin toboot /\ vm \notin L
          /\ \A u \in Workers : Working(u, vm) => u = t
          /\ \A p : ~ Reported(p, vm)
      BY <1>3, <1>10, <3>1, AtWork DEF Inv
    <3>3. \A u \in Workers \ {t} : ~ Working(u, vm)'
      BY <1>5, <3>2 DEF Working, Returning, Workers
    <3>4. job'[t] = job[t] /\ Phase(job[t], f, s)
      BY <1>4, <3>2 DEF InWork, f, s
    <3>5. CASE job[t].at = "started"
      <4>1. Starting(f, s)
        BY <3>4, <3>5 DEF Phase
      <4>2. Starting(g, z) /\ (s \in Sinking => z \in Sinking)
        BY <1>1, <1>7, <4>1, StartingOp
      <4>3. f.pc # "clear"
        BY <4>1 DEF Starting, Along, Failing
      <4>4. g.pid \in Pids => processid'[vm] = g.pid
        BY <1>7, <3>2, <3>5, <4>3 DEF InWork, f
      <4>5. InWork(t, vm)'
        BY <1>0, <1>11, <3>2, <3>4, <3>5, <4>2, <4>4 DEF InWork, Phase, s, z
      <4>6. Working(t, vm)'
        BY <1>0, <3>4, <3>5 DEF Working, Returning
      <4>7. QED
        BY <3>3, <4>5, <4>6, WorksInOrder
    <3>6. CASE job[t].at = "register"
      BY <1>1, <3>4, <3>6 DEF Phase, LabelStep
    <3>7. CASE job[t].at \in {"died", "finish"}
      <4>1. Ending(f, s)
        BY <3>4, <3>7 DEF Phase
      <4>2. /\ \/ Ending(g, z)
               \/ g.pc = "exitcode" /\ g.code \in {1, 2} /\ z = "STOPPED" /\ f.then = "exitcode"
            /\ s \in Sinking /\ f.then # "exitcode" => z \in Sinking /\ g.then # "exitcode"
        BY <1>1, <1>7, <4>1, EndingOp
      <4>3. Resetting(vm) => s \in Sinking /\ f.then # "exitcode"
        BY <3>2, <3>7 DEF InWork, f, s
      <4>4. CASE Working(t, vm)'
        <5>1. Ending(g, z)
          <6>1. g.pc = "exitcode" /\ g.code \in {1, 2} => Returning(t)'
            BY <1>0, <3>4, <3>7 DEF Returning
          <6>2. QED
            BY <4>2, <4>4, <6>1 DEF Working
        <5>2. InWork(t, vm)'
          BY <1>0, <1>11, <3>4, <3>7, <4>2, <4>3, <5>1 DEF InWork, Phase, z
        <5>3. QED
          BY <3>3, <4>4, <5>2, WorksInOrder
      <4>5. CASE ~ Working(t, vm)'
        <5>1. Returning(t)'
          BY <1>0, <3>4, <4>5 DEF Working
        <5>2. g.pc \in {"ok", "err"} \/ (g.pc = "exitcode" /\ g.code < 3)
          BY <1>0, <5>1 DEF Returning
        <5>3. Ending(g, z) => z \in Lost
          <6>1. g \in Frame /\ g.code \in Nat
            <7>1. PsvInv'
              BY StepTyped, TypeOfVM DEF Inv, TypeInv
            <7>2. g \in Frame
              BY <1>0, <7>1 DEF PsvInv, PsvTypeOK
            <7>3. g.code \in 0 .. 255
              BY <7>2 DEF Frame
            <7>4. \A n \in 0 .. 255 : n \in Nat
              OBVIOUS
            <7>5. QED
              BY <7>2, <7>3, <7>4
          <6>2. \A n \in Nat : ~ (n < 3 /\ n >= 3)
            OBVIOUS
          <6>3. QED
            BY <5>2, <6>1, <6>2, EndingReset
        <5>4. \/ z \in Lost /\ (s \in Sinking => z \in Sinking \/ f.then = "exitcode")
              \/ z = "STOPPED" /\ f.then = "exitcode"
          BY <4>2, <5>3
        <5>5. AtEase(vm, L)'
          <6>1. z \in {"INIT", "FAILED", "STOPPED"}
            BY <5>4 DEF Lost
          <6>2. Resetting(vm)' => z = "FAILED"
            BY <1>11, <4>3, <5>4 DEF Lost, Sinking
          <6>3. vm \notin toboot' /\ \A p : ~ Reported(p, vm)'
            BY <1>4, <1>6, <3>2
          <6>4. QED
            BY <3>2, <6>1, <6>2, <6>3 DEF AtEase, z
        <5>6. QED
          BY <3>3, <4>5, <5>5, EaseInOrder
      <4>6. QED
        BY <4>4, <4>5
    <3>8. QED
      BY <1>3, <3>5, <3>6, <3>7
  <2>3. QED
    BY <2>1, <2>2
<1>13. \A v \in VMs : InOrder(v, L)'
  BY <1>3, <1>8, <1>10, <1>12, OthersInOrder
<1>14. QED
  BY <1>4, <1>9, <1>13 DEF OrderInv, L, Links

-----------------------------------------------------------------------------
(* How the operations begin. *)

LEMMA StartBegins ==
    ASSUME NEW vm \in VMs, NEW s, vmstate[vm] = s, s \in {"INIT", "RESTART_STOPPED"}
    PROVE  Starting(StartVM(vm), s) /\ StartVM(vm).pid = NoPid
<1> DEFINE e == Entry(vm)
           r == s = "RESTART_STOPPED"
           h == [e EXCEPT !.restarting = r]
           c == << PreState(r) >>
           from == {IF r THEN "RESTART_STOPPED" ELSE "INIT"}
           else == IF r THEN "undo" ELSE "err"
           g == Walk(h, c, "storage", else)
<1>1. e \in Frame
  BY EntryFacts
<1> HIDE DEF e
<1>2. r \in BOOLEAN /\ h \in Frame /\ h.restarting = r
  <2>1. r \in BOOLEAN
    OBVIOUS
  <2> HIDE DEF r
  <2>2. QED
    BY <1>1, <2>1 DEF Frame
<1>3. s \in from /\ c \in Seq(States) /\ c # << >>
  BY <1>2, ChainStates
<1>4. StartVM(vm) = g
  BY DEF StartVM, StartableStates, e
<1> HIDE DEF h, c, from, else, r
<1>5. Along(g, s, c, from, "storage", else) /\ SameCall(h, g)
  BY <1>2, <1>3, WalkBegins
<1>6. g.restarting = r
  BY <1>2, <1>5 DEF SameCall
<1>7. Starting(g, s)
  BY <1>5, <1>6 DEF Starting, c, from, else
<1>8. QED
  BY <1>4, <1>7, StartFits

LEMMA FailureBegins ==
    ASSUME NEW vm \in VMs, NEW s
    PROVE  /\ Ending(FailureState(vm), s)
           /\ FailureState(vm).pc = "lookup" /\ FailureState(vm).then # "exitcode"
<1> DEFINE e == Entry(vm)
           g == Walk(e, FailChain, "ok", "err")
<1>1. e \in Frame
  BY EntryFacts
<1> HIDE DEF e
<1>2. Failing(g, s, "ok", "err") /\ g.then = "ok" /\ g.pc = "lookup"
  BY <1>1, FailBegins, WalkKeeps
<1>3. g = FailureState(vm)
  BY DEF FailureState, e
<1>4. QED
  BY <1>2, <1>3 DEF Ending

LEMMA ExitBegins ==
    ASSUME NEW vm \in VMs, NEW code \in 0 .. 255, vmstate[vm] = "RUNNING"
    PROVE  /\ Ending(OnExit(vm, code), "RUNNING")
           /\ \/ OnExit(vm, code).pc = "lookup"
              \/ OnExit(vm, code).pc = "exitcode" /\ OnExit(vm, code).code >= 3
<1> DEFINE e == Entry(vm)
           f == [e EXCEPT !.code = code]
<1>1. e \in Frame
  BY EntryFacts
<1> HIDE DEF e
<1>2. f \in Frame /\ f.code = code
  BY <1>1 DEF Frame
<1>3. OnExit(vm, code) = IF code = 0 THEN Walk(f, RebootChain, "request", "err")
                         ELSE IF code \in {1, 2} THEN Walk(f, StopChain, "exitcode", "err")
                         ELSE Jump(f, "exitcode")
  BY DEF OnExit, e
<1> HIDE DEF f
<1>4. RebootChain # << >> /\ StopChain # << >> /\ RebootChain \in Seq(States) /\ StopChain \in Seq(States)
  BY ChainStates DEF RebootChain, StopChain
<1>5. CASE code = 0
  <2> DEFINE g == Walk(f, RebootChain, "request", "err")
  <2>1. "RUNNING" \in {"RUNNING"} /\ OnExit(vm, code) = g /\ g.pc = "lookup"
    BY <1>2, <1>3, <1>5, WalkKeeps
  <2> HIDE DEF g
  <2>2. Along(g, "RUNNING", RebootChain, {"RUNNING"}, "request", "err") /\ SameCall(f, g)
    BY <1>2, <1>4, <2>1, WalkBegins DEF g
  <2>3. QED
    BY <1>2, <1>5, <2>1, <2>2 DEF Ending, SameCall
<1>6. CASE code \in {1, 2}
  <2> DEFINE g == Walk(f, StopChain, "exitcode", "err")
  <2>1. "RUNNING" \in {"RUNNING"} /\ OnExit(vm, code) = g /\ g.pc = "lookup"
    BY <1>2, <1>3, <1>6, WalkKeeps
  <2> HIDE DEF g
  <2>2. Along(g, "RUNNING", StopChain, {"RUNNING"}, "exitcode", "err") /\ SameCall(f, g)
    BY <1>2, <1>4, <2>1, WalkBegins DEF g
  <2>3. QED
    BY <1>2, <1>6, <2>1, <2>2 DEF Ending, SameCall
<1>7. CASE code \notin {0, 1, 2}
  <2>1. code >= 3
    BY <1>7
  <2> DEFINE g == Jump(f, "exitcode")
  <2>2. OnExit(vm, code) = g
    BY <1>3, <1>7
  <2>3. g.pc = "exitcode" /\ g.code = code
    BY <1>2, JumpLabels
  <2> HIDE DEF g
  <2>4. QED
    BY <2>1, <2>2, <2>3 DEF Ending
<1>8. QED
  BY <1>5, <1>6, <1>7

-----------------------------------------------------------------------------
(* A worker goes on with another operation, or is done. *)

LEMMA MovesOrder ==
    ASSUME Inv, OrderInv, NEW t \in Threads, t \in Workers, NEW vm \in VMs, Working(t, vm), NEW j, NEW g,
           job' = [job EXCEPT ![t] = j], call' = [call EXCEPT ![t] = g], j.vm = vm,
           UNCHANGED << vmstate, processid, rebootlist, toboot >>, \A p, v : Reported(p, v)' <=> Reported(p, v),
           InWork(t, vm) =>
             /\ Phase(j, g, vmstate[vm]) /\ ~ Returning(t)'
             /\ j.at \in {"started", "register"} /\ g.pid \in Pids => processid[vm] = g.pid
             /\ j.at \in {"died", "finish"} => g.then # "exitcode" \/ vmstate[vm] \notin Sinking
    PROVE  OrderInv'
<1>1. /\ job'[t] = j /\ call'[t] = g /\ job[t].vm = vm
      /\ \A u \in Threads \ {t} : job'[u] = job[u] /\ call'[u] = call[u]
  BY DEF Inv, TypeInv, BdTypes, PsvInv, PsvTypeOK, Working
<1>2. About(t, vm)
  BY <1>1 DEF About
<1>3. PICK q \in Seq(VMs) : /\ Links(rebootlist, q) /\ Distinct(q) /\ Owners(ToSet(q))
                            /\ \A v \in VMs : InOrder(v, ToSet(q))
  BY OneList DEF Inv
<1> DEFINE L == ToSet(q)
<1> HIDE DEF L
<1>4. \A v \in VMs : Owned(v, L) /\ InOrder(v, L)
  BY <1>3 DEF L, Owners
<1>5. InWork(t, vm) /\ \A u \in Workers : Working(u, vm) => u = t
  BY <1>4, AtWork DEF Inv
<1>6. \A u \in Workers \ {t} : ~ Working(u, vm)'
  BY <1>1, <1>5 DEF Working, Returning, Workers
<1>7. Resetting(vm)' <=> Resetting(vm)
  <2>1. "cmd" \in Threads \ {t}
    BY DirectorAssumption DEF Workers
  <2>2. QED
    BY <1>1, <2>1 DEF Resetting
<1>8. InWork(t, vm)' /\ Working(t, vm)'
  BY <1>1, <1>5, <1>7 DEF InWork, Working, Phase
<1>9. \A v \in VMs : InOrder(v, L)'
  BY <1>2, <1>4, <1>6, <1>8, WorksInOrder, OthersInOrder
<1>10. QED
  BY <1>3, <1>9 DEF OrderInv, L, Links

LEMMA LeavesOrder ==
    ASSUME Inv, OrderInv, NEW t \in Threads, t \in Workers, job[t].at # "rest", Leaves(t),
           UNCHANGED << vmstate, processid, rebootlist, toboot >>, \A p, v : Reported(p, v)' <=> Reported(p, v),
           ~ Returning(t) /\ InWork(t, job[t].vm) => vmstate[job[t].vm] \in Lost
    PROVE  OrderInv'
<1>0. SUFFICES ASSUME NEW vm, vm = job[t].vm PROVE OrderInv'
  OBVIOUS
<1>1. /\ job'[t] = AtRest /\ AtRest.vm = NoVM /\ vm \in VMs
      /\ \A u \in Threads \ {t} : job'[u] = job[u] /\ call'[u] = call[u]
  BY <1>0 DEF Leaves, Runs, AtRest, Inv, TypeInv, BdTypes, PsvInv, PsvTypeOK, JobsSound, Sound
<1>2. About(t, vm)
  BY <1>0, <1>1 DEF About
<1>3. PICK q \in Seq(VMs) : /\ Links(rebootlist, q) /\ Distinct(q) /\ Owners(ToSet(q))
                            /\ \A v \in VMs : InOrder(v, ToSet(q))
  BY OneList DEF Inv
<1> DEFINE L == ToSet(q)
<1> HIDE DEF L
<1>4. \A v \in VMs : Owned(v, L) /\ InOrder(v, L)
  BY <1>3 DEF L, Owners
<1>5. ~ Working(t, vm)'
  BY <1>1, ConstantsAssumption DEF Working
<1>6. InOrder(vm, L)'
  <2>1. CASE Returning(t)
    <3>1. ~ Working(t, vm)
      BY <2>1 DEF Working
    <3>2. QED
      BY <1>1, <1>4, <1>5, <3>1, Untouched
  <2>2. CASE ~ Returning(t)
    <3>1. Working(t, vm)
      BY <1>0, <2>2 DEF Working
    <3>2. /\ InWork(t, vm) /\ vm \notin toboot /\ vm \notin L
          /\ \A u \in Workers : Working(u, vm) => u = t
          /\ \A p : ~ Reported(p, vm)
      BY <1>1, <1>4, <3>1, AtWork DEF Inv
    <3>3. vmstate[vm] \in Lost /\ (Resetting(vm) => vmstate[vm] \in Sinking)
      BY <1>0, <2>2, <3>2 DEF InWork
    <3>4. \A u \in Workers : ~ Working(u, vm)'
      BY <1>1, <1>5, <3>2 DEF Working, Returning, Workers
    <3>5. Resetting(vm)' => Resetting(vm)
      <4>1. "cmd" \in Threads \ {t}
        BY DirectorAssumption DEF Workers
      <4>2. QED
        BY <1>1, <4>1 DEF Resetting
    <3>6. AtEase(vm, L)'
      BY <3>2, <3>3, <3>5 DEF AtEase, Lost, Sinking
    <3>7. QED
      BY <3>4, <3>6, EaseInOrder
  <2>3. QED
    BY <2>1, <2>2
<1>7. \A v \in VMs : InOrder(v, L)'
  BY <1>1, <1>2, <1>4, <1>6, OthersInOrder
<1>8. QED
  BY <1>3, <1>7 DEF OrderInv, L, Links

-----------------------------------------------------------------------------
(* The steps of bd_startvm. *)

LEMMA RegisterOrder ==
    ASSUME Inv, OrderInv, NEW t \in Threads, t \in Workers, Register(t), UNCHANGED << rebootlist, rbpc, toboot >>
    PROVE  OrderInv'
<1>0. SUFFICES ASSUME NEW vm, vm = job[t].vm, NEW p, p = call[t].pid PROVE OrderInv'
  OBVIOUS
<1>1. /\ job[t].at = "register" /\ vm \in VMs /\ p \in Pids
      /\ job'[t] = AtRest /\ AtRest.vm = NoVM
      /\ \A u \in Threads \ {t} : job'[u] = job[u] /\ call'[u] = call[u]
      /\ proc' = proc /\ vmstate' = vmstate /\ processid' = processid
      /\ rebootlist' = rebootlist /\ toboot' = toboot
  BY <1>0 DEF Register, Leaves, Runs, AtRest, Inv, TypeInv, BdTypes, PsvInv, PsvTypeOK, JobsSound, Sound
<1>2. watched' \cup ToSet(kevents') = (watched \cup ToSet(kevents)) \cup {p}
  <2>1. kevents \in Seq(Pids)
    BY DEF Inv, TypeInv, BdTypes
  <2>2. ToSet(Append(kevents, p)) = ToSet(kevents) \cup {p}
    BY <1>1, <2>1, AppendSet
  <2>3. \/ watched' = watched \cup {p} /\ kevents' = kevents
        \/ watched' = watched /\ kevents' = Append(kevents, p)
    BY <1>0 DEF Register
  <2>4. CASE watched' = watched \cup {p} /\ kevents' = kevents
    BY <2>4
  <2>5. CASE watched' = watched /\ kevents' = Append(kevents, p)
    BY <2>2, <2>5
  <2>6. QED
    BY <2>3, <2>4, <2>5
<1>3. proc[p].vm = vm
  BY <1>0, <1>1 DEF Inv, FrameFits, Holds
<1>4. About(t, vm)
  <2>1. \A v \in VMs \ {vm} : \A q : Reported(q, v)' <=> Reported(q, v)
    BY <1>1, <1>2, <1>3 DEF Reported
  <2>2. QED
    BY <1>0, <1>1, <2>1 DEF About
<1>5. PICK q \in Seq(VMs) : /\ Links(rebootlist, q) /\ Distinct(q) /\ Owners(ToSet(q))
                            /\ \A v \in VMs : InOrder(v, ToSet(q))
  BY OneList DEF Inv
<1> DEFINE L == ToSet(q)
<1> HIDE DEF L
<1>6. \A v \in VMs : Owned(v, L) /\ InOrder(v, L)
  BY <1>5 DEF L, Owners
<1>7. Working(t, vm)
  BY <1>0, <1>1 DEF Working, Returning
<1>8. /\ InWork(t, vm) /\ vm \notin toboot /\ vm \notin L
      /\ \A u \in Workers : Working(u, vm) => u = t
  BY <1>1, <1>6, <1>7, AtWork DEF Inv
<1>9. vmstate[vm] = "RUNNING" /\ processid[vm] = p /\ ~ Resetting(vm)
  BY <1>0, <1>1, <1>8 DEF InWork, Phase, Sinking
<1>10. \A u \in Workers : ~ Working(u, vm)'
  BY <1>1, <1>8, ConstantsAssumption DEF Working, Returning, Workers
<1>11. ~ Resetting(vm)'
  <2>1. "cmd" \in Threads \ {t}
    BY DirectorAssumption DEF Workers
  <2>2. QED
    BY <1>1, <1>9, <2>1 DEF Resetting
<1>12. AtEase(vm, L)'
  <2>1. Reported(p, vm)'
    BY <1>1, <1>2, <1>3 DEF Reported
  <2>2. vmstate'[vm] = "RUNNING" /\ processid'[vm] = p /\ vm \notin toboot'
    BY <1>1, <1>8, <1>9
  <2>3. QED
    BY <1>8, <1>11, <2>1, <2>2 DEF AtEase
<1>13. \A v \in VMs : InOrder(v, L)'
  BY <1>1, <1>4, <1>6, <1>10, <1>12, EaseInOrder, OthersInOrder
<1>14. QED
  BY <1>1, <1>5, <1>13 DEF OrderInv, L, Links

LEMMA BdStepOrder ==
    ASSUME Inv, OrderInv, NEW t \in Threads, t \in Workers, BdStep(t), UNCHANGED << rebootlist, rbpc, toboot >>
    PROVE  OrderInv'
<1>0. SUFFICES ASSUME NEW vm, vm = job[t].vm PROVE OrderInv'
  OBVIOUS
<1> DEFINE f == call[t]
           s == vmstate[vm]
<1>p. {"stamp", "generate", "started", "died", "finish", "register"} \subseteq Places
  BY DEF Places
<1>1. job[t].at # "rest" /\ vm \in VMs /\ UNCHANGED << vmstate, processid, rebootlist, toboot >>
  <2>1. job[t].at # "rest" /\ UNCHANGED << vmstate, processid, rebootlist, toboot >>
    BY DEF BdStep, CountFail, Stamp, Generate, StartFailed, Probe, Register, Died, Finish
  <2>2. QED
    BY <1>0, <2>1 DEF Inv, TypeInv, JobsSound, Sound
<1>2. f \in Frame /\ f.code \in Nat
  <2>1. f \in Frame
    BY DEF Inv, TypeInv, PsvInv, PsvTypeOK
  <2>2. \A n \in 0 .. 255 : n \in Nat
    OBVIOUS
  <2>3. QED
    BY <2>1, <2>2 DEF Frame
<1>3. UNCHANGED << proc, watched, kevents >> => \A p, v : Reported(p, v)' <=> Reported(p, v)
  BY DEF Reported
<1>4. ASSUME NEW place \in {"stamp", "generate", "started", "died", "finish", "register"}, Goto(t, place),
             NEW g, call' = [call EXCEPT ![t] = g], \A p, v : Reported(p, v)' <=> Reported(p, v),
             ~ Returning(t),
             InWork(t, vm) =>
               /\ \A j : j.at = place => Phase(j, g, s)
               /\ place \in {"died", "finish"} => g.pc = "lookup" \/ (g.pc = "exitcode" /\ ~ (g.code < 3))
               /\ place \in {"started", "register"} /\ g.pid \in Pids => processid[vm] = g.pid
               /\ place \in {"died", "finish"} => g.then # "exitcode" \/ s \notin Sinking
      PROVE  OrderInv'
  <2> DEFINE j == [at |-> place, vm |-> vm]
  <2>1. j.at = place /\ j.vm = vm
    OBVIOUS
  <2>2. job' = [job EXCEPT ![t] = j]
    BY <1>0, <1>4, <1>p, GotoMoves DEF Inv
  <2> HIDE DEF j
  <2>3. job'[t] = j /\ call'[t] = g
    BY <1>4, <2>2 DEF Inv, TypeInv, BdTypes, PsvInv, PsvTypeOK
  <2>4. InWork(t, vm) => ~ Returning(t)'
    BY <1>4, <2>1, <2>3 DEF Returning
  <2>5. Working(t, vm)
    BY <1>0, <1>4 DEF Working
  <2>6. QED
    BY <1>1, <1>4, <2>1, <2>2, <2>4, <2>5, MovesOrder
<1>5. ASSUME Goto(t, "finish"), Runs(t, FailureState(vm)), UNCHANGED << proc, watched, kevents >>,
             ~ Returning(t)
      PROVE  OrderInv'
  <2> DEFINE g == FailureState(vm)
  <2>1. Ending(g, s) /\ g.pc = "lookup" /\ g.then # "exitcode" /\ call' = [call EXCEPT ![t] = g]
    BY <1>1, <1>5, FailureBegins DEF Runs
  <2> HIDE DEF g, s
  <2>2. \A j : j.at = "finish" => Phase(j, g, s)
    BY <2>1 DEF Phase
  <2>3. QED
    BY <1>3, <1>4, <1>5, <2>1, <2>2
<1>6. CASE CountFail(t)
  <2>1. job[t].at = "count" /\ ~ Returning(t) /\ UNCHANGED << proc, watched, kevents >>
    BY <1>6 DEF CountFail, Returning
  <2>2. CASE Goto(t, "stamp") /\ UNCHANGED call
    <3>1. call' = [call EXCEPT ![t] = f]
      BY <2>2 DEF Inv, TypeInv, PsvInv, PsvTypeOK
    <3>2. InWork(t, vm) => \A j : j.at = "stamp" => Phase(j, f, s)
      BY <2>1 DEF InWork, Phase
    <3> HIDE DEF f, s
    <3>3. QED
      BY <1>3, <1>4, <2>1, <2>2, <3>1, <3>2
  <2>3. QED
    BY <1>0, <1>5, <1>6, <2>1, <2>2 DEF CountFail
<1>7. CASE Stamp(t)
  <2>1. job[t].at = "stamp" /\ ~ Returning(t) /\ UNCHANGED << proc, watched, kevents >>
    BY <1>7 DEF Stamp, Returning
  <2>2. CASE Goto(t, "generate") /\ UNCHANGED call
    <3>1. call' = [call EXCEPT ![t] = f]
      BY <2>2 DEF Inv, TypeInv, PsvInv, PsvTypeOK
    <3>2. InWork(t, vm) => \A j : j.at = "generate" => Phase(j, f, s)
      BY <2>1 DEF InWork, Phase
    <3> HIDE DEF f, s
    <3>3. QED
      BY <1>3, <1>4, <2>1, <2>2, <3>1, <3>2
  <2>3. CASE s = "FAILED" /\ Leaves(t)
    <3>1. InWork(t, vm) => s \in Lost
      BY <2>3 DEF Lost
    <3>2. QED
      BY <1>0, <1>1, <1>3, <2>1, <2>3, <3>1, LeavesOrder
  <2>4. QED
    BY <1>0, <1>7, <2>2, <2>3 DEF Stamp
<1>8. CASE Generate(t)
  <2>1. job[t].at = "generate" /\ ~ Returning(t) /\ UNCHANGED << proc, watched, kevents >>
    BY <1>8 DEF Generate, Returning
  <2>2. CASE Goto(t, "started") /\ Runs(t, StartVM(vm))
    <3> DEFINE g == StartVM(vm)
    <3>1. InWork(t, vm) => s \in {"INIT", "RESTART_STOPPED"}
      BY <2>1 DEF InWork, Phase
    <3>2. InWork(t, vm) => Starting(g, s) /\ g.pid = NoPid
      BY <1>1, <3>1, StartBegins
    <3>3. call' = [call EXCEPT ![t] = g] /\ NoPid \notin Pids
      BY <2>2, ConstantsAssumption DEF Runs
    <3> HIDE DEF g, s
    <3>4. InWork(t, vm) => \A j : j.at = "started" => Phase(j, g, s)
      BY <3>2 DEF Phase
    <3>5. QED
      BY <1>3, <1>4, <2>1, <2>2, <3>2, <3>3, <3>4
  <2>3. QED
    BY <1>0, <1>5, <1>8, <2>1, <2>2 DEF Generate
<1>9. CASE StartFailed(t)
  <2>1. job[t].at = "started" /\ f.pc = "err" /\ Leaves(t) /\ UNCHANGED << proc, watched, kevents >>
    BY <1>9 DEF StartFailed
  <2>2. InWork(t, vm) => s \in Lost
    BY <2>1 DEF InWork, Phase, Starting, Along, Failing
  <2>3. QED
    BY <1>0, <1>1, <1>3, <2>1, <2>2, LeavesOrder
<1>10. CASE Died(t) \/ Finish(t)
  <2>1. /\ job[t].at \in {"died", "finish"} /\ f.pc \in {"ok", "err"} /\ UNCHANGED << proc, watched, kevents >>
        /\ \/ Leaves(t)
           \/ job[t].at = "died" /\ f.pc = "err" /\ Goto(t, "finish") /\ Runs(t, FailureState(vm))
    BY <1>0, <1>10 DEF Died, Finish, Returned
  <2>2. CASE Leaves(t)
    <3>1. InWork(t, vm) => s \in Lost
      BY <1>2, <2>1, EndingReset DEF InWork, Phase
    <3>2. QED
      BY <1>0, <1>1, <1>3, <2>1, <2>2, <3>1, LeavesOrder
  <2>3. CASE job[t].at = "died" /\ f.pc = "err" /\ Goto(t, "finish") /\ Runs(t, FailureState(vm))
    <3>1. ~ Returning(t)
      BY <2>3 DEF Returning
    <3>2. QED
      BY <1>5, <2>1, <2>3, <3>1
  <2>4. QED
    BY <2>1, <2>2, <2>3
<1>11. CASE Probe(t)
  <2> DEFINE p == f.pid
  <2>1. /\ job[t].at = "started" /\ f.pc = "ok" /\ ~ Returning(t) /\ watched' = watched /\ kevents' = kevents
    BY <1>11 DEF Probe, Returning
  <2>2. p \in Pids /\ proc[p].code \in 0 .. 255
    <3>1. p \in Pids
      BY <2>1 DEF Inv, TypeInv, JobsSound, Sound, StartFrame
    <3>2. QED
      BY <3>1 DEF Inv, TypeInv, PsvInv, PsvTypeOK, Process
  <2>3. InWork(t, vm) => s = "RUNNING" /\ processid[vm] = p
    BY <2>1, <2>2 DEF InWork, Phase, Starting, Along, Failing
  <2>4. CASE proc[p].state = "zombie"
    <3> DEFINE g == OnExit(vm, proc[p].code)
    <3>1. proc' = [proc EXCEPT ![p].state = "reaped"] /\ Goto(t, "died") /\ call' = [call EXCEPT ![t] = g]
      BY <1>0, <1>11, <2>4 DEF Probe, Runs
    <3>2. \A q, v : Reported(q, v)' <=> Reported(q, v)
      <4>1. \A q \in Pids : proc'[q].vm = proc[q].vm
        BY <3>1 DEF Inv, TypeInv, PsvInv, PsvTypeOK, Process
      <4>2. watched \cup ToSet(kevents) \subseteq Pids
        BY DEF Inv, TypeInv, ProcsSound, Forked
      <4>3. QED
        BY <2>1, <4>1, <4>2 DEF Reported
    <3>3. InWork(t, vm) => /\ Ending(g, s) /\ s \notin Sinking
                           /\ g.pc = "lookup" \/ (g.pc = "exitcode" /\ g.code >= 3)
      BY <1>1, <2>2, <2>3, ExitBegins DEF Sinking
    <3>4. InWork(t, vm) => g.pc = "lookup" \/ (g.pc = "exitcode" /\ ~ (g.code < 3))
      <4>1. OnExit(vm, proc[p].code).code \in Nat
        <5>1. g \in Frame
          BY <1>1, <2>2, OnExitGood DEF GoodFrame
        <5>2. \A n \in 0 .. 255 : n \in Nat
          OBVIOUS
        <5>3. QED
          BY <5>1, <5>2 DEF Frame
      <4>2. \A n \in Nat : n >= 3 => ~ (n < 3)
        OBVIOUS
      <4> HIDE DEF g
      <4>3. QED
        BY <3>3, <4>1, <4>2 DEF g
    <3> HIDE DEF g, s
    <3>5. InWork(t, vm) => \A j : j.at = "died" => Phase(j, g, s)
      BY <3>3 DEF Phase
    <3>6. QED
      BY <1>4, <2>1, <3>1, <3>2, <3>3, <3>4, <3>5
  <2>5. CASE proc[p].state # "zombie"
    <3>1. Goto(t, "register") /\ UNCHANGED << proc, watched, kevents >> /\ call' = [call EXCEPT ![t] = f]
      BY <1>11, <2>5 DEF Probe, Inv, TypeInv, PsvInv, PsvTypeOK
    <3>2. InWork(t, vm) => \A j : j.at = "register" => Phase(j, f, s)
      BY <2>1, <2>3 DEF Phase
    <3> HIDE DEF f, s
    <3>3. QED
      BY <1>3, <1>4, <2>1, <2>3, <3>1, <3>2
  <2>6. QED
    BY <2>4, <2>5
<1>12. QED
  BY <1>6, <1>7, <1>8, <1>9, <1>10, <1>11, RegisterOrder DEF BdStep

-----------------------------------------------------------------------------
(* A thread takes on a VM that was at ease. *)

LEMMA TailRest ==
    ASSUME NEW S, NEW s \in Seq(S), s # << >>
    PROVE  Head(s) = s[1] /\ ToSet(s) \subseteq ToSet(Tail(s)) \cup {s[1]}
<1>1. /\ Len(Tail(s)) = Len(s) - 1 /\ Len(s) \in Nat /\ Tail(s) \in Seq(S)
      /\ \A k \in 1 .. Len(s) - 1 : Tail(s)[k] = s[k + 1]
  OBVIOUS
<1>2. ASSUME NEW i \in 1 .. Len(s), i # 1
      PROVE  s[i] \in ToSet(Tail(s))
  <2>1. i - 1 \in 1 .. Len(s) - 1 /\ (i - 1) + 1 = i
    BY <1>1, <1>2
  <2>2. Tail(s)[i - 1] = s[i] /\ i - 1 \in DOMAIN Tail(s)
    BY <1>1, <2>1
  <2>3. QED
    BY <2>2 DEF ToSet
<1>3. \A x \in ToSet(s) : \E i \in 1 .. Len(s) : x = s[i]
  BY DEF ToSet
<1>4. QED
  BY <1>2, <1>3

(* A thread takes on a VM that was at ease. *)
LEMMA TakesOnOrder ==
    ASSUME Inv, NEW t \in Threads, t \in Workers, NEW vm \in VMs, NEW L, NEW M,
           \A v \in VMs : InOrder(v, L), Free(vm), job[t].at = "rest", M \ {vm} = L \ {vm},
           \A u \in Threads \ {t} : job'[u] = job[u] /\ call'[u] = call[u], job'[t].vm = vm,
           \A v \in VMs \ {vm} : /\ vmstate'[v] = vmstate[v] /\ processid'[v] = processid[v]
                                 /\ v \in toboot' => v \in toboot
                                 /\ \A p : Reported(p, v)' <=> Reported(p, v),
           Working(t, vm)', InWork(t, vm)'
    PROVE  \A v \in VMs : InOrder(v, M)'
<1>1. job[t].vm \in VMs \cup {NoVM} /\ ~ Returning(t)
  BY DEF Returning, Inv, TypeInv, BdTypes, Jobs
<1>2. job[t].vm = NoVM
  <2>1. SUFFICES ASSUME job[t].vm \in VMs PROVE FALSE
    BY <1>1
  <2>2. InWork(t, job[t].vm)
    BY <1>1, <2>1 DEF InOrder, Working
  <2>3. QED
    BY <2>2 DEF InWork, Phase
<1>3. About(t, vm)
  BY <1>2 DEF About
<1>4. \A u \in Workers \ {t} : ~ Working(u, vm)'
  BY DEF Free, Working, Returning, Workers
<1>5. QED
  BY <1>3, <1>4, WorksInOrder, OthersInOrder

LEMMA BdStartOrder ==
    ASSUME Inv, NEW t \in Threads, t \in Workers, NEW vm \in VMs, NEW L, NEW M,
           \A v \in VMs : InOrder(v, L), Free(vm), BdStart(t, vm), M \ {vm} = L \ {vm},
           toboot' \subseteq toboot, vm \in toboot \cup L
    PROVE  \A v \in VMs : InOrder(v, M)'
<1>1. AtEase(vm, L)
  BY DEF InOrder
<1>2. /\ job[t].at = "rest" /\ UNCHANGED << vmstate, processid, proc, call, watched, kevents >>
      /\ job' = [job EXCEPT ![t] = [at |-> "count", vm |-> vm]]
  BY DEF BdStart, psvvars
<1>3. /\ job'[t].at = "count" /\ job'[t].vm = vm
      /\ \A u \in Threads \ {t} : job'[u] = job[u] /\ call'[u] = call[u]
  BY <1>2 DEF Inv, TypeInv, BdTypes
<1>4. \A p, v : Reported(p, v)' <=> Reported(p, v)
  BY <1>2 DEF Reported
<1>5. vmstate[vm] \in {"INIT", "RESTART_STOPPED"}
  BY <1>1 DEF AtEase
<1>6. ~ Resetting(vm)'
  <2>1. "cmd" \in Threads \ {t}
    BY DirectorAssumption DEF Workers
  <2>2. ~ Resetting(vm)
    BY <1>1, <1>5 DEF AtEase
  <2>3. QED
    BY <1>3, <2>1, <2>2 DEF Resetting
<1>7. Working(t, vm)' /\ InWork(t, vm)'
  BY <1>2, <1>3, <1>5, <1>6 DEF Working, Returning, InWork, Phase
<1>8. \A v \in VMs \ {vm} : /\ vmstate'[v] = vmstate[v] /\ processid'[v] = processid[v]
                            /\ v \in toboot' => v \in toboot
                            /\ \A p : Reported(p, v)' <=> Reported(p, v)
  BY <1>2, <1>4
<1>9. QED
  BY <1>2, <1>3, <1>7, <1>8, TakesOnOrder

LEMMA AutoStartsOrder ==
    ASSUME Inv, OrderInv, AutoStarts
    PROVE  OrderInv'
<1>1. PICK vm \in toboot : BdStart("boot", vm) /\ toboot' = toboot \ {vm}
  BY DEF AutoStarts
<1>2. /\ vm \in VMs /\ "boot" \in Threads /\ "boot" \in Workers /\ rebootlist' = rebootlist
  BY DirectorAssumption DEF Workers, Inv, TypeInv, BdTypes, AutoStarts
<1>3. PICK s \in Seq(VMs) : /\ Links(rebootlist, s) /\ Distinct(s) /\ Owners(ToSet(s))
                            /\ \A v \in VMs : InOrder(v, ToSet(s))
  BY OneList DEF Inv
<1> DEFINE L == ToSet(s)
<1> HIDE DEF L
<1>4. Owned(vm, L) /\ \A v \in VMs : InOrder(v, L)
  BY <1>2, <1>3 DEF L, Owners
<1>5. Free(vm)
  BY <1>4 DEF Owned
<1>6. \A v \in VMs : InOrder(v, L)'
  BY <1>1, <1>2, <1>4, <1>5, BdStartOrder
<1>7. QED
  BY <1>2, <1>3, <1>6 DEF OrderInv, L, Links

LEMMA TakesNextOrder ==
    ASSUME Inv, OrderInv, BdStart("rb", rebootlist.first), rebootlist.first # NoVM,
           rebootlist' = RemoveHead(rebootlist), UNCHANGED toboot
    PROVE  OrderInv'
<1>1. PICK s \in Seq(VMs) : /\ Links(rebootlist, s) /\ Distinct(s) /\ Owners(ToSet(s))
                            /\ \A v \in VMs : InOrder(v, ToSet(s))
  BY OneList DEF Inv
<1> DEFINE L == ToSet(s)
           M == ToSet(Tail(s))
           vm == s[1]
<1>2. rebootlist \in Queues
  BY DEF Inv, TypeInv, BdTypes
<1>3. /\ s # << >> /\ rebootlist.first = vm /\ vm \in L
      /\ Links(RemoveHead(rebootlist), Tail(s)) /\ Distinct(Tail(s)) /\ Tail(s) \in Seq(VMs)
      /\ M \subseteq L \ {vm}
  BY <1>1, <1>2, LinksRemove
<1>4. vm \in VMs
  BY <1>3
<1>5. L \ {vm} \subseteq M
  BY <1>3, TailRest
<1> HIDE DEF L, M, vm
<1>6. Owned(vm, L) /\ \A v \in VMs : InOrder(v, L)
  BY <1>1, <1>4 DEF L, Owners
<1>7. Free(vm)
  BY <1>3, <1>6 DEF Owned
<1>8. "rb" \in Threads /\ "rb" \in Workers
  BY DirectorAssumption DEF Workers
<1>9. M \ {vm} = L \ {vm}
  BY <1>3, <1>5
<1>10. \A v \in VMs : InOrder(v, M)'
  BY <1>3, <1>4, <1>6, <1>7, <1>8, <1>9, BdStartOrder
<1>11. QED
  BY <1>3, <1>10 DEF OrderInv, M

LEMMA ReceiveOrder ==
    ASSUME Inv, OrderInv, ReceiveExit
    PROVE  OrderInv'
<1>0. SUFFICES ASSUME NEW p, p = Head(kevents), NEW vm, vm = proc[p].vm,
                      NEW g, g = IF proc[p].exited THEN OnExit(vm, proc[p].code) ELSE FailureState(vm)
               PROVE  OrderInv'
  OBVIOUS
<1>1. /\ kevents \in Seq(Pids) /\ kevents # << >> /\ kevents' = Tail(kevents) /\ job["kq"].at = "rest"
      /\ UNCHANGED << vmstate, processid, proc, toboot, rebootlist, watched >>
  BY DEF ReceiveExit, Calls, Inv, TypeInv, BdTypes
<1>2. "kq" \in Threads /\ "kq" \in Workers
  BY DirectorAssumption DEF Workers
<1>3. /\ job'["kq"].at = "finish" /\ job'["kq"].vm = vm /\ call'["kq"] = g
      /\ \A u \in Threads \ {"kq"} : job'[u] = job[u] /\ call'[u] = call[u]
  BY <1>0, <1>2 DEF ReceiveExit, Calls, Runs, Inv, TypeInv, BdTypes, PsvInv, PsvTypeOK
<1>4. p \in ToSet(kevents) /\ ToSet(kevents') \subseteq ToSet(kevents)
  BY <1>0, <1>1, TailSet
<1>5. p \in Pids /\ vm \in VMs /\ Live(p, vm) /\ Reported(p, vm) /\ proc[p].code \in 0 .. 255
  <2>1. p \in Forked
    BY <1>4 DEF Inv, TypeInv, ProcsSound
  <2>2. QED
    BY <1>0, <1>4, <2>1
       DEF Inv, TypeInv, ProcsSound, Forked, Live, Reported, PsvInv, PsvTypeOK, Process
<1>6. PICK s \in Seq(VMs) : /\ Links(rebootlist, s) /\ Distinct(s) /\ Owners(ToSet(s))
                            /\ \A v \in VMs : InOrder(v, ToSet(s))
  BY OneList DEF Inv
<1> DEFINE L == ToSet(s)
<1> HIDE DEF L
<1>7. Owned(vm, L) /\ \A v \in VMs : InOrder(v, L)
  BY <1>5, <1>6 DEF L, Owners
<1>8. Free(vm)
  <2>1. SUFFICES ASSUME NEW u \in Workers, Working(u, vm) PROVE FALSE
    BY DEF Free
  <2>2. \A q : ~ Reported(q, vm)
    BY <1>5, <1>7, <2>1, AtWork DEF Inv
  <2>3. QED
    BY <1>5, <2>2
<1>9. vmstate[vm] = "RUNNING" /\ ~ Resetting(vm)
  <2>1. AtEase(vm, L)
    BY <1>5, <1>7, <1>8 DEF InOrder
  <2>2. vmstate[vm] = "RUNNING"
    BY <1>5, <2>1 DEF AtEase
  <2>3. QED
    BY <2>1, <2>2 DEF AtEase
<1>10. ~ Resetting(vm)'
  <2>1. "cmd" \in Threads \ {"kq"}
    BY DirectorAssumption
  <2>2. QED
    BY <1>3, <1>9, <2>1 DEF Resetting
<1>11. /\ Ending(g, "RUNNING")
       /\ \/ g.pc = "lookup"
          \/ g.pc = "exitcode" /\ g.code >= 3
  BY <1>0, <1>5, <1>9, ExitBegins, FailureBegins
<1>12. g.pc = "exitcode" => ~ (g.code < 3)
  <2>1. g \in Frame
    BY <1>0, <1>5, OnExitGood, FailureStateGood DEF GoodFrame
  <2>2. g.code \in Nat
    <3>1. \A n \in 0 .. 255 : n \in Nat
      OBVIOUS
    <3>2. QED
      BY <2>1, <3>1 DEF Frame
  <2>3. \A n \in Nat : n >= 3 => ~ (n < 3)
    OBVIOUS
  <2>4. QED
    BY <1>11, <2>2, <2>3
<1>13. Working("kq", vm)' /\ InWork("kq", vm)'
  <2>1. Working("kq", vm)'
    BY <1>3, <1>11, <1>12 DEF Working, Returning
  <2>2. InWork("kq", vm)'
    BY <1>1, <1>3, <1>9, <1>10, <1>11 DEF InWork, Phase
  <2>3. QED
    BY <2>1, <2>2
<1>14. \A v \in VMs \ {vm} : \A q : Reported(q, v)' <=> Reported(q, v)
  <2>1. ToSet(kevents) \subseteq ToSet(kevents') \cup {p}
    BY <1>0, <1>1, TailRest
  <2>2. QED
    BY <1>0, <1>1, <1>4, <2>1 DEF Reported
<1>15. \A v \in VMs \ {vm} : /\ vmstate'[v] = vmstate[v] /\ processid'[v] = processid[v]
                             /\ v \in toboot' => v \in toboot
                             /\ \A q : Reported(q, v)' <=> Reported(q, v)
  BY <1>1, <1>14
<1>16. \A v \in VMs : InOrder(v, L)'
  BY <1>1, <1>2, <1>3, <1>5, <1>7, <1>8, <1>13, <1>15, TakesOnOrder
<1>17. QED
  BY <1>1, <1>6, <1>16 DEF OrderInv, L, Links

-----------------------------------------------------------------------------
(* A thread hands a VM over to the restart thread. *)

LEMMA RequestOrder ==
    ASSUME Inv, OrderInv, NEW t \in Threads, t \in Workers, RequestReboot(t)
    PROVE  OrderInv'
<1> DEFINE g == Requested(call[t], TRUE)
<1>0. SUFFICES ASSUME NEW vm, vm = call[t].vm PROVE OrderInv'
  OBVIOUS
<1>1. /\ call[t] \in Frame /\ call[t].pc = "request" /\ rebootlist \in Queues
      /\ UNCHANGED << vmstate, processid, job, proc, toboot, watched, kevents >>
      /\ rebootlist' = InsertTail(rebootlist, vm)
      /\ call'[t] = g /\ \A u \in Threads \ {t} : call'[u] = call[u]
  BY <1>0 DEF RequestReboot, Runs, Inv, TypeInv, BdTypes, PsvInv, PsvTypeOK
<1>2. g.pc = "exitcode" /\ g.code = call[t].code
  BY <1>1, JumpLabels DEF Requested
<1> HIDE DEF g
<1>3. job[t].at \in {"died", "finish"} /\ call[t].code < 3 /\ job[t].vm = vm /\ vm \in VMs
  <2>1. "request" \in Ahead(call[t]) /\ Fits(job[t], call[t])
    BY <1>1 DEF Ahead, Inv, FrameFits
  <2>2. QED
    BY <1>0, <2>1 DEF Fits, Inv, TypeInv, JobsSound, Sound
<1>4. Working(t, vm) /\ ~ Working(t, vm)'
  BY <1>1, <1>2, <1>3 DEF Working, Returning
<1>5. PICK s \in Seq(VMs) : /\ Links(rebootlist, s) /\ Distinct(s) /\ Owners(ToSet(s))
                            /\ \A v \in VMs : InOrder(v, ToSet(s))
  BY OneList DEF Inv
<1> DEFINE L == ToSet(s)
           a == Append(s, vm)
           M == ToSet(a)
<1> HIDE DEF L
<1>6. \A v \in VMs : Owned(v, L) /\ InOrder(v, L)
  BY <1>5 DEF L, Owners
<1>7. /\ InWork(t, vm) /\ vm \notin toboot /\ vm \notin L
      /\ \A u \in Workers : Working(u, vm) => u = t
      /\ \A p : ~ Reported(p, vm)
  BY <1>3, <1>4, <1>6, AtWork DEF Inv
<1>8. /\ Links(InsertTail(rebootlist, vm), a) /\ Distinct(a) /\ a \in Seq(VMs) /\ M = L \cup {vm}
  BY <1>1, <1>3, <1>5, <1>7, LinksInsert DEF L
<1> HIDE DEF a, M
<1>9. \A p, v : Reported(p, v)' <=> Reported(p, v)
  BY <1>1 DEF Reported
<1>10. About(t, vm)
  BY <1>1, <1>3, <1>9 DEF About
<1>11. vmstate[vm] = "RESTART_STOPPED" /\ ~ Resetting(vm)
  <2>1. Ending(call[t], vmstate[vm])
    BY <1>3, <1>7 DEF InWork, Phase
  <2>2. vmstate[vm] = "RESTART_STOPPED"
    BY <1>1, <2>1, EndingReset
  <2>3. QED
    BY <1>7, <2>2 DEF InWork, Sinking
<1>12. AtEase(vm, M)'
  <2>1. "cmd" \in Threads \ {t}
    BY DirectorAssumption DEF Workers
  <2>2. ~ Resetting(vm)'
    BY <1>1, <1>11, <2>1 DEF Resetting
  <2>3. QED
    BY <1>1, <1>7, <1>8, <1>9, <1>11, <2>2 DEF AtEase
<1>13. \A u \in Workers : ~ Working(u, vm)'
  BY <1>1, <1>4, <1>7 DEF Working, Returning, Workers
<1>14. InOrder(vm, M)'
  BY <1>12, <1>13, EaseInOrder
<1>15. M \ {vm} = L \ {vm}
  BY <1>8
<1>16. \A v \in VMs : InOrder(v, M)'
  BY <1>3, <1>6, <1>10, <1>14, <1>15, OthersInOrder
<1>17. QED
  BY <1>1, <1>8, <1>16 DEF OrderInv, M

-----------------------------------------------------------------------------
(* The socket handler and the environment. *)

LEMMA ResetMoves ==
    ASSUME Inv, Unattended, ThreadStep("cmd") \/ Command, NEW vm \in VMs
    PROVE  /\ vmstate'[vm] = vmstate[vm] \/ (vmstate'[vm] = "INIT" /\ Resetting(vm) /\ ~ Resetting(vm)')
           /\ Resetting(vm)' => Resetting(vm) \/ vmstate[vm] = "FAILED"
<1> DEFINE f == call["cmd"]
<1>1. "cmd" \in Threads /\ f \in Frame /\ Resets(job["cmd"], f)
  BY DirectorAssumption DEF Inv, TypeInv, PsvInv, PsvTypeOK, ResetsOnly
<1>2. \A g : call' = [call EXCEPT !["cmd"] = g] => call'["cmd"] = g
  BY <1>1 DEF Inv, TypeInv, PsvInv, PsvTypeOK
<1>3. CASE Command
  <2>1. PICK v \in VMs : Calls("cmd", v, ResetFailure(v))
    BY <1>3 DEF Command, Unattended
  <2> DEFINE g == ResetFailure(v)
  <2>2. /\ call'["cmd"] = g /\ job'["cmd"].vm = v /\ vmstate' = vmstate
    BY <1>1, <1>2, <2>1 DEF Calls, Runs, Inv, TypeInv, BdTypes
  <2>3. g.pc \in {"lookup", "enter"} => vmstate[v] = "FAILED"
    <3>1. Entry(v) \in Frame
      BY EntryFacts
    <3>2. vmstate[v] # "FAILED" => g = Jump(Entry(v), "err")
      BY DEF ResetFailure
    <3>3. Jump(Entry(v), "err").pc = "err"
      BY <3>1, JumpLabels
    <3>4. QED
      BY <3>2, <3>3
  <2> HIDE DEF g
  <2>4. QED
    BY <2>2, <2>3 DEF Resetting
<1>4. CASE ThreadStep("cmd")
  <2>1. CASE Step("cmd") /\ UNCHANGED bdvars
    <3>1. f.pc \notin {"idle", "ok", "err"}
      BY <1>1, <2>1, StepLabels, TypeOfVM DEF LabelStep, Inv, TypeInv
    <3>2. /\ job["cmd"].at = "finish" /\ f.pc \in {"lookup", "enter"} /\ f.then = "ok" /\ f.else = "err"
          /\ f.todo = << "INIT" >>
      BY <1>1, <3>1 DEF Resets, Idle
    <3>3. Head(f.todo) = "INIT" /\ Len(f.todo) = 1
      BY <3>2
    <3>4. f.vm \in VMs /\ f.vm = job["cmd"].vm
      BY <1>1, <3>2 DEF Inv, FrameFits, Fits, TypeInv, JobsSound, Sound
    <3> DEFINE w == f.vm
    <3>5. /\ OpStep(f, vmstate[w], call'["cmd"], vmstate'[w])
          /\ \A v \in VMs \ {w} : vmstate'[v] = vmstate[v]
      BY <1>1, <2>1, <3>4, StepIsOp, TypeOfVM DEF Inv, TypeInv
    <3>6. WalkStep(f, vmstate[w], call'["cmd"], vmstate'[w])
      BY <3>2, <3>5, WalksStep
    <3>7. vmstate'[w] = vmstate[w] \/ (vmstate'[w] = "INIT" /\ call'["cmd"].pc = "ok")
      <4>1. Jump(f, f.then).pc = "ok"
        BY <1>1, <3>2, JumpLabels
      <4>2. QED
        BY <3>3, <3>6, <4>1 DEF WalkStep
    <3>8. job' = job
      BY <2>1 DEF bdvars
    <3> HIDE DEF f
    <3>9. CASE vm = w
      BY <3>2, <3>4, <3>7, <3>8, <3>9 DEF Resetting, f
    <3>10. CASE vm # w
      BY <3>4, <3>5, <3>8, <3>10 DEF Resetting
    <3>11. QED
      BY <3>9, <3>10
  <2>2. CASE BdStep("cmd")
    <3>1. job["cmd"].at \in {"rest", "finish"}
      BY <1>1 DEF Resets, AtRest
    <3>2. Finish("cmd")
      BY <2>2, <3>1
         DEF BdStep, CountFail, Stamp, Generate, StartFailed, Probe, Register, Died
    <3>3. vmstate' = vmstate /\ call'["cmd"] = Idle
      BY <1>2, <3>2 DEF Finish, Leaves, Runs
    <3>4. QED
      BY <3>3 DEF Resetting, Idle
  <2>3. CASE RequestReboot("cmd")
    BY <1>1, <2>3 DEF RequestReboot, Resets, Idle
  <2>4. QED
    BY <1>4, <2>1, <2>2, <2>3 DEF ThreadStep
<1>5. QED
  BY <1>3, <1>4

LEMMA ResetOrder ==
    ASSUME Inv, OrderInv, Unattended, ThreadStep("cmd") \/ Command
    PROVE  OrderInv'
<1>1. Reset
  BY HandlerResets DEF Inv
<1>2. PICK s \in Seq(VMs) : /\ Links(rebootlist, s) /\ Distinct(s)
                            /\ \A v \in VMs : InOrder(v, ToSet(s))
  BY DEF OrderInv
<1> DEFINE L == ToSet(s)
<1> HIDE DEF L
<1>3. ASSUME NEW v \in VMs PROVE InOrder(v, L)'
  <2>1. InOrder(v, L)
    BY <1>2, <1>3 DEF L
  <2>2. /\ \A p : Reported(p, v)' <=> Reported(p, v)
        /\ processid' = processid /\ toboot' = toboot
    BY <1>1 DEF Reset, Reported
  <2>3. \A t \in Workers : job'[t] = job[t] /\ call'[t] = call[t] /\ call[t] \in Frame
    BY <1>1 DEF Reset, Workers, Inv, TypeInv, PsvInv, PsvTypeOK
  <2>4. \A t \in Workers : Working(t, v)' <=> Working(t, v)
    BY <2>3 DEF Working, Returning
  <2>5. CASE vmstate'[v] = vmstate[v]
    <3>1. Resetting(v)' => Resetting(v) \/ vmstate[v] = "FAILED"
      BY <1>3, ResetMoves
    <3>2. ASSUME NEW t \in Workers, Working(t, v) PROVE InWork(t, v)'
      <4>1. InWork(t, v)
        BY <2>1, <3>2 DEF InOrder
      <4>2. vmstate[v] = "FAILED" => /\ vmstate[v] \in Sinking
                                     /\ job[t].at \in {"died", "finish"} => call[t].then # "exitcode"
        BY <2>3, <4>1, EndingReset DEF InWork, Phase, Sinking
      <4>3. QED
        BY <2>2, <2>3, <2>5, <3>1, <4>1, <4>2 DEF InWork, Phase
    <3>3. AtEase(v, L) => AtEase(v, L)'
      BY <2>2, <2>5, <3>1 DEF AtEase
    <3>4. QED
      BY <2>1, <2>4, <3>2, <3>3 DEF InOrder, Free
  <2>6. CASE vmstate'[v] = "INIT" /\ Resetting(v) /\ ~ Resetting(v)'
    <3>1. ASSUME NEW t \in Workers, Working(t, v) PROVE InWork(t, v)'
      <4>1. InWork(t, v)
        BY <2>1, <3>1 DEF InOrder
      <4>2. /\ vmstate[v] \in Sinking
            /\ job[t].at \in {"died", "finish"} => call[t].then # "exitcode"
        BY <2>6, <4>1 DEF InWork
      <4>3. Phase(job[t], call[t], "INIT")
        BY <2>3, <4>1, <4>2, StartingReset, EndingReset DEF InWork, Phase, Sinking
      <4>4. QED
        BY <2>2, <2>3, <2>6, <4>1, <4>3 DEF InWork, Phase
    <3>2. AtEase(v, L) => AtEase(v, L)'
      BY <2>2, <2>6 DEF AtEase
    <3>3. QED
      BY <2>1, <2>4, <3>1, <3>2 DEF InOrder, Free
  <2>7. QED
    BY <1>3, <2>5, <2>6, ResetMoves
<1>4. rebootlist' = rebootlist
  BY <1>1 DEF Reset
<1>5. QED
  BY <1>2, <1>3, <1>4 DEF OrderInv, L, Links

LEMMA QuietOrder ==
    ASSUME OrderInv, UNCHANGED << job, call, vmstate, processid, toboot, rebootlist >>,
           \A p, v : Reported(p, v)' <=> Reported(p, v)
    PROVE  OrderInv'
<1>1. PICK s \in Seq(VMs) : /\ Links(rebootlist, s) /\ Distinct(s)
                            /\ \A v \in VMs : InOrder(v, ToSet(s))
  BY DEF OrderInv
<1> DEFINE L == ToSet(s)
<1> HIDE DEF L
<1>2. ASSUME NEW v \in VMs PROVE InOrder(v, L)'
  <2>1. InOrder(v, L)
    BY <1>1, <1>2 DEF L
  <2>2. \A t \in Workers : (Working(t, v)' <=> Working(t, v)) /\ (InWork(t, v)' <=> InWork(t, v))
    BY DEF Working, Returning, InWork, Phase, Resetting
  <2>3. AtEase(v, L) => AtEase(v, L)'
    BY DEF AtEase, Resetting
  <2>4. QED
    BY <2>1, <2>2, <2>3 DEF InOrder, Free
<1>3. QED
  BY <1>1, <1>2 DEF OrderInv, L, Links

LEMMA EndsOrder ==
    ASSUME Inv, OrderInv, NEW p \in Pids, Ends(p)
    PROVE  OrderInv'
<1>1. /\ UNCHANGED << job, call, vmstate, processid, toboot, rebootlist >>
      /\ \A q \in Pids : proc'[q].vm = proc[q].vm
  BY DEF Ends, Exits, Inv, TypeInv, PsvInv, PsvTypeOK, Process
<1>2. watched' \cup ToSet(kevents') = watched \cup ToSet(kevents)
  <2>1. CASE p \in watched
    <3>1. ToSet(Append(kevents, p)) = ToSet(kevents) \cup {p}
      BY AppendSet DEF Inv, TypeInv, BdTypes
    <3>2. watched' = watched \ {p} /\ kevents' = Append(kevents, p)
      BY <2>1 DEF Ends
    <3>3. QED
      BY <2>1, <3>1, <3>2
  <2>2. CASE p \notin watched
    BY <2>2 DEF Ends
  <2>3. QED
    BY <2>1, <2>2
<1>3. watched \cup ToSet(kevents) \subseteq Pids
  BY DEF Inv, TypeInv, ProcsSound, Forked
<1>4. \A q, v : Reported(q, v)' <=> Reported(q, v)
  BY <1>1, <1>2, <1>3 DEF Reported
<1>5. QED
  BY <1>1, <1>4, QuietOrder

LEMMA NextOrder ==
    ASSUME Inv, OrderInv, Unattended, StartsFailOnly, [Next]_vars
    PROVE  OrderInv'
<1>1. ASSUME UNCHANGED << psvvars, job, toboot, rebootlist, watched, kevents >>
      PROVE  OrderInv'
  <2>1. \A q, v : Reported(q, v)' <=> Reported(q, v)
    BY <1>1 DEF psvvars, Reported
  <2>2. QED
    BY <1>1, <2>1, QuietOrder DEF psvvars
<1>2. ASSUME NEW t \in Threads, t \in Workers, ThreadStep(t)
      PROVE  OrderInv'
  <2>1. CASE t = "rb" /\ (Waits \/ TakesNext)
    BY <1>1, <2>1, TakesNextOrder DEF Waits, TakesNext
  <2>2. QED
    BY <1>2, <2>1, StepOrder, BdStepOrder, RequestOrder, AutoStartsOrder, ReceiveOrder DEF ThreadStep
<1>3. CASE Command \/ ThreadStep("cmd")
  BY <1>3, ResetOrder
<1>4. CASE SpuriousWakeup \/ (\E vm \in VMs : Expires(vm)) \/ UNCHANGED vars
  BY <1>1, <1>4 DEF SpuriousWakeup, Expires, vars, bdvars
<1>5. QED
  BY <1>2, <1>3, <1>4, EndsOrder DEF Next, Workers

LEMMA InitOrder == Init => OrderInv
<1>1. SUFFICES ASSUME Init PROVE OrderInv
  OBVIOUS
<1>2. /\ \A t \in Threads : job[t] = AtRest /\ call[t] = Idle
      /\ \A vm \in VMs : vmstate[vm] = "INIT"
      /\ rebootlist = EmptyQueue /\ kevents = << >> /\ watched = {}
  BY <1>1 DEF Init, PsvInit
<1>3. \A p, vm : ~ Reported(p, vm)
  BY <1>2 DEF Reported, ToSet
<1>4. \A vm \in VMs, t \in Workers : ~ Working(t, vm)
  BY <1>2, ConstantsAssumption DEF Working, AtRest, Workers
<1>5. \A vm \in VMs : ~ Resetting(vm)
  BY <1>2, DirectorAssumption DEF Resetting, Idle
<1>6. \A vm \in VMs : InOrder(vm, {})
  BY <1>2, <1>3, <1>4, <1>5 DEF InOrder, AtEase
<1> DEFINE s == << >>
<1>7. s \in Seq(VMs) /\ ToSet(s) = {} /\ Distinct(s)
  BY DEF ToSet, Distinct
<1>8. Links(rebootlist, s)
  BY <1>2 DEF Links, EmptyQueue
<1>9. QED
  BY <1>6, <1>7, <1>8 DEF OrderInv

LEMMA OrderHolds ==
    ASSUME Unattended, StartsFailOnly
    PROVE  Spec => [](Inv /\ OrderInv)
<1>1. Inv /\ OrderInv /\ [Next]_vars => (Inv /\ OrderInv)'
  BY NextInv, NextOrder
<1>2. QED
  BY <1>1, InitInv, InitOrder, PTL DEF Spec

LEMMA IdlingAtEase ==
    ASSUME OrderInv, NEW vm \in VMs, Idling(vm)
    PROVE  \E s \in Seq(VMs) : Links(rebootlist, s) /\ AtEase(vm, ToSet(s))
BY DEF OrderInv, InOrder, Free, Idling, Workers

-----------------------------------------------------------------------------
(* The reboot list. *)

(* The list as the property reads it: along the links, up to the NULL. *)
Upto(s, n) == SubSeq(Append(s, NoVM), 1, IF n <= Len(s) THEN n + 1 ELSE Len(s) + 1)
Follow(q, u) == IF Last(u) = NoVM THEN u ELSE Append(u, q.next[Last(u)])

LEMMA UptoFacts ==
    ASSUME NEW s \in Seq(VMs), NEW n \in Nat
    PROVE  /\ Upto(s, n) \in Seq(VMs \cup {NoVM})
           /\ Len(Upto(s, n)) = IF n <= Len(s) THEN n + 1 ELSE Len(s) + 1
           /\ \A i \in 1 .. Len(Upto(s, n)) : Upto(s, n)[i] = IF i <= Len(s) THEN s[i] ELSE NoVM
<1> DEFINE a == Append(s, NoVM)
           k == IF n <= Len(s) THEN n + 1 ELSE Len(s) + 1
<1>1. /\ s \in Seq(VMs \cup {NoVM}) /\ Len(s) \in Nat /\ NoVM \in VMs \cup {NoVM}
  OBVIOUS
<1>2. /\ a \in Seq(VMs \cup {NoVM}) /\ Len(a) = Len(s) + 1
      /\ \A i \in 1 .. Len(a) : a[i] = IF i <= Len(s) THEN s[i] ELSE NoVM
  BY <1>1
<1>3. k \in 1 .. Len(a)
  BY <1>1, <1>2
<1> HIDE DEF a, k
<1>4. /\ SubSeq(a, 1, k) \in Seq(VMs \cup {NoVM}) /\ Len(SubSeq(a, 1, k)) = k
      /\ \A i \in 1 .. k : SubSeq(a, 1, k)[i] = a[i]
  BY <1>2, <1>3
<1>5. \A i \in 1 .. k : i \in 1 .. Len(a)
  BY <1>2, <1>3
<1>6. Upto(s, n) = SubSeq(a, 1, k)
  BY DEF Upto, a, k
<1>7. QED
  BY <1>2, <1>4, <1>5, <1>6 DEF k

LEMMA FollowStep ==
    ASSUME NEW q, NEW s \in Seq(VMs), Links(q, s), NEW n \in Nat, n # 0
    PROVE  Upto(s, n) = Follow(q, Upto(s, n - 1))
<1> DEFINE u == Upto(s, n - 1)
           w == Upto(s, n)
<1>1. /\ n - 1 \in Nat /\ Len(s) \in Nat
      /\ u \in Seq(VMs \cup {NoVM}) /\ w \in Seq(VMs \cup {NoVM})
      /\ Len(u) = (IF n - 1 <= Len(s) THEN n ELSE Len(s) + 1)
      /\ Len(w) = (IF n <= Len(s) THEN n + 1 ELSE Len(s) + 1)
      /\ \A i \in 1 .. Len(u) : u[i] = IF i <= Len(s) THEN s[i] ELSE NoVM
      /\ \A i \in 1 .. Len(w) : w[i] = IF i <= Len(s) THEN s[i] ELSE NoVM
  <2>1. n - 1 \in Nat /\ (n - 1) + 1 = n
    OBVIOUS
  <2>2. QED
    BY <2>1, UptoFacts
<1>2. /\ NoVM \notin VMs /\ \A i \in 1 .. Len(s) : s[i] \in VMs /\ s[i] # NoVM
  BY ConstantsAssumption
<1> HIDE DEF u, w
<1>3. Last(u) = u[Len(u)]
  BY DEF Last
<1>4. CASE n <= Len(s)
  <2>1. /\ Len(u) = n /\ Len(w) = n + 1 /\ n \in 1 .. Len(s) /\ n \in 1 .. Len(u)
    BY <1>1, <1>4
  <2>2. Last(u) = s[n] /\ s[n] # NoVM
    BY <1>1, <1>2, <1>3, <2>1
  <2>3. q.next[s[n]] = w[n + 1]
    <3>1. s # << >>
      BY <1>1, <1>4
    <3>2. CASE n = Len(s)
      BY <1>1, <2>1, <3>1, <3>2 DEF Links
    <3>3. CASE n # Len(s)
      <4>1. n \in 1 .. Len(s) - 1 /\ n + 1 \in 1 .. Len(w) /\ n + 1 <= Len(s)
        BY <1>1, <2>1, <3>3
      <4>2. QED
        BY <1>1, <3>1, <4>1 DEF Links
    <3>4. QED
      BY <3>2, <3>3
  <2> DEFINE x == w[n + 1]
             b == Append(u, x)
  <2>4. x \in VMs \cup {NoVM}
    BY <1>1, <2>1
  <2> HIDE DEF x
  <2>5. /\ b \in Seq(VMs \cup {NoVM}) /\ Len(b) = n + 1 /\ b[n + 1] = x
        /\ \A i \in 1 .. n : b[i] = u[i]
    BY <1>1, <2>1, <2>4
  <2> HIDE DEF b
  <2>6. \A i \in 1 .. n : i \in 1 .. Len(u) /\ i \in 1 .. Len(w)
    BY <1>1, <2>1
  <2>7. \A i \in 1 .. n + 1 : i \in 1 .. n \/ i = n + 1
    OBVIOUS
  <2>8. \A i \in 1 .. n + 1 : b[i] = w[i]
    BY <1>1, <2>5, <2>6, <2>7 DEF x
  <2>9. b = w
    BY <1>1, <2>1, <2>5, <2>8, SeqEqual
  <2>10. QED
    BY <2>2, <2>3, <2>9 DEF Follow, b, x, u, w
<1>5. CASE ~ (n <= Len(s))
  <2>1. /\ Len(u) = Len(s) + 1 /\ Len(w) = Len(s) + 1 /\ Len(s) + 1 \in 1 .. Len(u)
    BY <1>1, <1>5
  <2>2. Last(u) = NoVM
    BY <1>1, <1>3, <2>1
  <2>3. \A i \in 1 .. Len(u) : u[i] = w[i]
    BY <1>1, <2>1
  <2>4. u = w
    BY <1>1, <2>1, <2>3, SeqEqual
  <2>5. QED
    BY <2>2, <2>4 DEF Follow, u, w
<1>6. QED
  BY <1>4, <1>5

(* The recursive function of QueueOrder, whatever it is, is this one. *)
LEMMA OrderIs ==
    ASSUME NEW s \in Seq(VMs), Links(rebootlist, s), IsFiniteSet(VMs), Distinct(s)
    PROVE  QueueOrder = Append(s, NoVM)
<1> DEFINE N == Cardinality(VMs)
           Eq(r) == r = [n \in 0 .. N |->
                          IF n = 0 THEN << rebootlist.first >>
                          ELSE LET u == r[n - 1] IN
                               IF Last(u) = NoVM THEN u ELSE Append(u, rebootlist.next[Last(u)])]
           R == CHOOSE r : Eq(r)
           c == [n \in 0 .. N |-> Upto(s, n)]
<1>1. N \in Nat
  BY FS_CardinalityType
<1>2. Len(s) <= N
  <2>1. /\ Len(s) \in Nat /\ IsFiniteSet(1 .. Len(s)) /\ Cardinality(1 .. Len(s)) = Len(s)
    <3>1. Len(s) \in Nat
      OBVIOUS
    <3>2. QED
      BY <3>1, FS_Interval
  <2>2. s \in Injection(1 .. Len(s), VMs)
    <3>1. s \in [1 .. Len(s) -> VMs]
      OBVIOUS
    <3>2. QED
      BY <3>1 DEF Distinct, Injection, IsInjective
  <2>3. QED
    BY <2>1, <2>2, FS_Injection
<1> HIDE DEF N
<1>3. Upto(s, 0) = << rebootlist.first >>
  <2>1. /\ Len(Upto(s, 0)) = 1 /\ Upto(s, 0) \in Seq(VMs \cup {NoVM})
        /\ \A i \in 1 .. 1 : Upto(s, 0)[i] = IF i <= Len(s) THEN s[i] ELSE NoVM
    <3>1. 0 \in Nat /\ Len(s) \in Nat
      OBVIOUS
    <3>2. Len(Upto(s, 0)) = IF 0 <= Len(s) THEN 0 + 1 ELSE Len(s) + 1
      BY <3>1, UptoFacts
    <3>3. Len(Upto(s, 0)) = 1
      BY <3>1, <3>2
    <3>4. QED
      BY <3>1, <3>3, UptoFacts
  <2>2. rebootlist.first = IF 1 <= Len(s) THEN s[1] ELSE NoVM
    <3>1. s = << >> => Len(s) = 0
      OBVIOUS
    <3>2. s # << >> => 1 <= Len(s)
      OBVIOUS
    <3>3. QED
      BY <3>1, <3>2 DEF Links
  <2> DEFINE x == rebootlist.first
             o == << x >>
  <2>3. x \in VMs \cup {NoVM}
    BY <2>2
  <2>4. x = IF 1 <= Len(s) THEN s[1] ELSE NoVM
    BY <2>2
  <2> HIDE DEF x
  <2>5. o \in Seq(VMs \cup {NoVM}) /\ Len(o) = 1 /\ o[1] = x
    BY <2>3
  <2> HIDE DEF o
  <2>6. \A i \in 1 .. Len(o) : o[i] = Upto(s, 0)[i]
    BY <2>1, <2>4, <2>5
  <2>7. o = Upto(s, 0)
    BY <2>1, <2>5, <2>6, SeqEqual
  <2>8. QED
    BY <2>7 DEF o, x
<1>4. \A n \in Nat : n # 0 =>
        Upto(s, n) = LET u == Upto(s, n - 1) IN
                     IF Last(u) = NoVM THEN u ELSE Append(u, rebootlist.next[Last(u)])
  BY FollowStep DEF Follow
<1>5. Eq(c)
  <2>1. ASSUME NEW n \in 0 .. N
        PROVE  c[n] = IF n = 0 THEN << rebootlist.first >>
                      ELSE LET u == c[n - 1] IN
                           IF Last(u) = NoVM THEN u ELSE Append(u, rebootlist.next[Last(u)])
    <3>1. n \in Nat /\ c[n] = Upto(s, n)
      BY <1>1
    <3>2. n # 0 => c[n - 1] = Upto(s, n - 1)
      BY <1>1
    <3> HIDE DEF c
    <3>3. QED
      BY <1>3, <1>4, <3>1, <3>2
  <2>2. QED
    BY <2>1
<1> HIDE DEF c
<1>6. Eq(R)
  BY <1>5
<1> HIDE DEF R
<1> DEFINE T == {n \in Nat : n <= N => R[n] = Upto(s, n)}
<1>7. \A n \in 0 .. N : R[n] = IF n = 0 THEN << rebootlist.first >>
                               ELSE LET u == R[n - 1] IN
                                    IF Last(u) = NoVM THEN u ELSE Append(u, rebootlist.next[Last(u)])
  BY <1>6
<1> HIDE DEF Eq
<1>8. 0 \in T
  BY <1>1, <1>3, <1>7
<1>9. ASSUME NEW n \in Nat, n \in T
      PROVE  n + 1 \in T
  <2>1. SUFFICES ASSUME n + 1 <= N PROVE R[n + 1] = Upto(s, n + 1)
    OBVIOUS
  <2>2. n + 1 \in 0 .. N /\ n + 1 # 0 /\ (n + 1) - 1 = n /\ n <= N /\ n + 1 \in Nat
    BY <1>1, <2>1
  <2>3. R[n] = Upto(s, n)
    BY <1>9, <2>2
  <2> DEFINE k == n + 1
  <2>4. R[k] = LET u == R[k - 1] IN
                   IF Last(u) = NoVM THEN u ELSE Append(u, rebootlist.next[Last(u)])
    BY <1>7, <2>2
  <2>5. Upto(s, k) = LET u == Upto(s, k - 1) IN
                   IF Last(u) = NoVM THEN u ELSE Append(u, rebootlist.next[Last(u)])
    BY <1>4, <2>2
  <2>6. QED
    BY <2>2, <2>3, <2>4, <2>5
<1> HIDE DEF T
<1>10. Nat \subseteq T
  BY <1>8, <1>9, NatSet
<1>11. R[N] = Upto(s, N)
  <2>1. N \in T /\ N <= N
    BY <1>1, <1>10
  <2>2. QED
    BY <2>1 DEF T
<1>12. Upto(s, N) = Append(s, NoVM)
  <2> DEFINE a == Append(s, NoVM)
  <2>1. a \in Seq(VMs \cup {NoVM}) /\ Len(a) = Len(s) + 1 /\ Len(s) \in Nat
    <3>1. s \in Seq(VMs \cup {NoVM})
      OBVIOUS
    <3>2. QED
      BY <3>1
  <2> HIDE DEF a
  <2>2. SubSeq(a, 1, Len(a)) = a
    BY <2>1
  <2>3. (IF N <= Len(s) THEN N + 1 ELSE Len(s) + 1) = Len(a)
    BY <1>1, <1>2, <2>1
  <2>4. Upto(s, N) = SubSeq(a, 1, IF N <= Len(s) THEN N + 1 ELSE Len(s) + 1)
    BY DEF Upto, a
  <2>5. Upto(s, N) = a
    BY <2>2, <2>3, <2>4
  <2>6. QED
    BY <2>5 DEF a
<1>13. QueueOrder = R[N]
  BY DEF QueueOrder, R, N, Eq
<1>14. QED
  BY <1>11, <1>12, <1>13

LEMMA ListIsSound ==
    ASSUME OrderInv, IsFiniteSet(VMs)
    PROVE  RebootListSound
<1>1. PICK s \in Seq(VMs) : /\ Links(rebootlist, s) /\ Distinct(s)
                            /\ \A vm \in VMs : InOrder(vm, ToSet(s))
  BY DEF OrderInv
<1> DEFINE order == QueueOrder
           listed == ToSet(order) \ {NoVM}
<1>2. order = Append(s, NoVM)
  BY <1>1, OrderIs
<1>3. /\ order \in Seq(VMs \cup {NoVM}) /\ Len(order) = Len(s) + 1 /\ Len(s) \in Nat
      /\ order[Len(s) + 1] = NoVM /\ \A i \in 1 .. Len(s) : order[i] = s[i]
  <2>1. s \in Seq(VMs \cup {NoVM})
    OBVIOUS
  <2>2. QED
    BY <1>2, <2>1
<1>4. ToSet(order) = ToSet(s) \cup {NoVM}
  <2>1. s \in Seq(VMs \cup {NoVM}) /\ NoVM \in VMs \cup {NoVM}
    OBVIOUS
  <2>2. ToSet(Append(s, NoVM)) = ToSet(s) \cup {NoVM}
    BY <2>1, AppendSet
  <2>3. QED
    BY <1>2, <2>2
<1>5. listed = ToSet(s)
  <2>1. ToSet(s) \subseteq VMs
    BY DEF ToSet
  <2>2. QED
    BY <1>4, <2>1, ConstantsAssumption
<1> HIDE DEF order, listed
<1>6. Last(order) = NoVM
  BY <1>3 DEF Last
<1>7. rebootlist.last = IF Len(order) = 1 THEN NoVM ELSE order[Len(order) - 1]
  <2>1. CASE s = << >>
    BY <1>1, <1>3, <2>1 DEF Links
  <2>2. CASE s # << >>
    <3>1. Len(s) # 0 /\ Len(s) \in 1 .. Len(s) /\ Len(order) - 1 = Len(s) /\ Len(order) # 1
      BY <1>3, <2>2
    <3>2. QED
      BY <1>1, <1>3, <2>2, <3>1 DEF Links
  <2>3. QED
    BY <2>1, <2>2
<1>8. \A vm \in VMs : Idling(vm) => (vm \in listed <=> vmstate[vm] = "RESTART_STOPPED")
  BY <1>1, <1>5 DEF InOrder, Free, Idling, Workers, AtEase
<1>9. QED
  BY <1>6, <1>7, <1>8 DEF RebootListSound, order, listed

-----------------------------------------------------------------------------
(* What follows. *)

(***************************************************************************)
(* No VM is left half-way between two states: whenever no thread works on  *)
(* it, it is in a state that an event or a command can leave.  Only the    *)
(* clean-up hooks and those of a stop or a reboot must not fail: set_vm    *)
(* gives up there without undoing the walk.                                *)
(***************************************************************************)
THEOREM AlwaysParkedAtRest ==
    ASSUME Commands \subseteq {"resetfail"}, FailingHooks \subseteq StartStates
    PROVE  Spec => []ParkedAtRest
<1>1. Unattended /\ StartsFailOnly
  BY DEF Unattended, StartsFailOnly
<1>2. OrderInv => ParkedAtRest
  BY IdlingAtEase DEF ParkedAtRest, AtEase, RestStates
<1>3. QED
  BY <1>1, <1>2, OrderHolds, PTL

(***************************************************************************)
(* A VM that is called RUNNING is watched: the knote bd_startvm registers  *)
(* for its process, or the event that knote fired, is there until the      *)
(* kqueue thread takes the VM on.                                          *)
(***************************************************************************)
THEOREM RunningStaysWatched ==
    ASSUME Commands \subseteq {"resetfail"}, FailingHooks \subseteq StartStates
    PROVE  Spec => []RunningIsWatched
<1>1. Unattended /\ StartsFailOnly
  BY DEF Unattended, StartsFailOnly
<1>2. OrderInv => RunningIsWatched
  BY IdlingAtEase DEF RunningIsWatched, AtEase, Reported
<1>3. QED
  BY <1>1, <1>2, OrderHolds, PTL

(***************************************************************************)
(* The reboot list ends where its tail pointer says, no VM is inserted     *)
(* while it is still listed, and exactly the VMs that wait for the restart *)
(* thread are on it, at every point between the kqueue thread's insertion  *)
(* and the restart thread's removal, which take bd->mtx one by one.        *)
(***************************************************************************)
THEOREM AlwaysOneList ==
    ASSUME Commands \subseteq {"resetfail"}, FailingHooks \subseteq StartStates, IsFiniteSet(VMs)
    PROVE  Spec => []RebootListSound
<1>1. Unattended /\ StartsFailOnly
  BY DEF Unattended, StartsFailOnly
<1>2. OrderInv => RebootListSound
  BY ListIsSound
<1>3. QED
  BY <1>1, <1>2, OrderHolds, PTL

=============================================================================
