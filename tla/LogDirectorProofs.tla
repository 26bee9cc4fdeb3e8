------------------------- MODULE LogDirectorProofs --------------------------
(***************************************************************************)
(* What holds of the log director for any number of threads and programs.  *)
(***************************************************************************)
EXTENDS LogDirector, TLAPS

-----------------------------------------------------------------------------
(* Types.  What was written is in the pipe or in the log, and an event     *)
(* promises no more than is in the pipe, for only its thread reads.        *)

Conserved ==
    /\ \A c \in Clients : logged[c] + piped[c] = written[c]
    /\ kq # NoEvent => kq.who \in Clients /\ kq.ready <= piped[kq.who]

(* A thread that launches has a client. *)
JobsSound == \A l \in Launchers : job[l].pc # "idle" => job[l].who \in Clients

TypeInv == TypeOK /\ Conserved /\ JobsSound

LEMMA InitTypes == Init => TypeInv
BY LogAssumption
DEF Init, TypeInv, TypeOK, Conserved, JobsSound, Jobs, RedirectorClients, NoJob, NoEvent

(* Every step of a launcher leaves what is written, piped and logged alone, *)
(* and gives it a job that has a client.                                   *)
LEMMA LauncherKeeps ==
    ASSUME TypeInv, NEW l \in Launchers, NEW j \in Jobs,
           j.pc # "idle" => j.who \in Clients,
           job' = [job EXCEPT ![l] = j],
           UNCHANGED << written, piped, logged, kq >>,
           clients' \in [Launchers -> SUBSET Clients],
           client' \in [Clients -> RedirectorClients],
           holders' \in [Clients -> SUBSET ({"parent"} \cup Clients)],
           program' \in [Clients -> {"none", "running", "exited"}]
    PROVE  TypeInv'
<1>1. job' \in [Launchers -> Jobs] /\ JobsSound'
  BY DEF TypeInv, TypeOK, JobsSound
<1>2. QED
  BY <1>1 DEF TypeInv, TypeOK, Conserved

LEMMA NewClientTypes ==
    ASSUME TypeInv, NEW l \in Launchers, NEW c \in Clients, NewClient(l, c)
    PROVE  TypeInv'
<1> DEFINE j == [pc |-> "link", who |-> c, first |-> {}]
           cl == [client[c] EXCEPT !.st = "open"]
<1>1. j \in Jobs /\ j.who \in Clients /\ cl \in RedirectorClients
  BY DEF Jobs, RedirectorClients, TypeInv, TypeOK
<1>2. /\ job' = [job EXCEPT ![l] = j] /\ client' = [client EXCEPT ![c] = cl]
      /\ holders' = [holders EXCEPT ![c] = {"parent"}]
      /\ UNCHANGED << clients, program, written, piped, logged, kq >>
  BY DEF NewClient
<1> HIDE DEF j, cl
<1>3. QED
  BY <1>1, <1>2, LauncherKeeps DEF TypeInv, TypeOK

LEMMA LaunchTypes ==
    ASSUME TypeInv, NEW l \in Launchers, Launch(l)
    PROVE  TypeInv'
<1> DEFINE c == job[l].who
           at(pc) == [job[l] EXCEPT !.pc = pc]
<1>1. /\ job[l] \in Jobs /\ c \in Clients
      /\ clients \in [Launchers -> SUBSET Clients]
      /\ client \in [Clients -> RedirectorClients]
      /\ holders \in [Clients -> SUBSET ({"parent"} \cup Clients)]
      /\ program \in [Clients -> {"none", "running", "exited"}]
  BY DEF Launch, Link, Insert, Fork, ForkFails, Accept, Close, TypeInv, TypeOK, JobsSound
<1>2. UNCHANGED << written, piped, logged, kq >>
  BY DEF Launch, Link, Insert, Fork, ForkFails, Accept, Close
<1>3. CASE Link(l)
  <2> DEFINE j == [job[l] EXCEPT !.pc = "insert", !.first = clients[l]]
  <2>1. j \in Jobs /\ j.who \in Clients
    BY <1>1 DEF Jobs
  <2>2. job' = [job EXCEPT ![l] = j] /\ UNCHANGED << clients, client, holders, program >>
    BY <1>3 DEF Link
  <2> HIDE DEF j
  <2>3. QED
    BY <1>1, <1>2, <2>1, <2>2, LauncherKeeps
<1>4. CASE Insert(l)
  <2> DEFINE j == [job[l] EXCEPT !.pc = "fork", !.first = {}]
  <2>1. j \in Jobs /\ j.who \in Clients /\ {c} \cup job[l].first \in SUBSET Clients
    BY <1>1 DEF Jobs
  <2>2. /\ job' = [job EXCEPT ![l] = j] /\ UNCHANGED << client, holders, program >>
        /\ clients' = [clients EXCEPT ![l] = {c} \cup job[l].first]
    BY <1>4 DEF Insert
  <2> HIDE DEF j
  <2>3. QED
    BY <1>1, <1>2, <2>1, <2>2, LauncherKeeps
<1>5. at("accept") \in Jobs /\ at("accept").who \in Clients
      /\ at("close") \in Jobs /\ at("close").who \in Clients
  BY <1>1 DEF Jobs
<1>6. CASE Fork(l)
  <2>1. /\ job' = [job EXCEPT ![l] = at("accept")] /\ UNCHANGED << clients, client >>
        /\ program' = [program EXCEPT ![c] = "running"]
        /\ holders' = [d \in Clients |-> IF "parent" \in holders[d] THEN holders[d] \cup {c}
                                         ELSE holders[d]]
    BY <1>6 DEF Fork, GoTo
  <2> HIDE DEF at
  <2>2. /\ holders' \in [Clients -> SUBSET ({"parent"} \cup Clients)]
        /\ program' \in [Clients -> {"none", "running", "exited"}]
    BY <1>1, <2>1
  <2>3. QED
    BY <1>1, <1>2, <1>5, <2>1, <2>2, LauncherKeeps
<1>7. CASE ForkFails(l)
  <2>1. /\ job' = [job EXCEPT ![l] = at("accept")]
        /\ UNCHANGED << clients, client, holders, program >>
    BY <1>7 DEF ForkFails, GoTo
  <2> HIDE DEF at
  <2>2. QED
    BY <1>1, <1>2, <1>5, <2>1, LauncherKeeps
<1>8. CASE Accept(l)
  <2> DEFINE cl == [client[c] EXCEPT !.accepted = TRUE]
  <2>1. /\ job' = [job EXCEPT ![l] = at("close")] /\ client' = [client EXCEPT ![c] = cl]
        /\ UNCHANGED << clients, holders, program >>
    BY <1>8 DEF Accept, GoTo
  <2>2. cl \in RedirectorClients
    <3>1. client[c] \in RedirectorClients
      BY <1>1
    <3> HIDE DEF c
    <3>2. QED
      BY <3>1 DEF RedirectorClients
  <2> HIDE DEF at, cl
  <2>3. QED
    BY <1>1, <1>2, <1>5, <2>1, <2>2, LauncherKeeps
<1>9. CASE Close(l)
  <2> DEFINE cl == [client[c] EXCEPT !.closes = client[c].closes + 1]
  <2>1. /\ job' = [job EXCEPT ![l] = NoJob] /\ client' = [client EXCEPT ![c] = cl]
        /\ holders' = [holders EXCEPT ![c] = holders[c] \ {"parent"}]
        /\ UNCHANGED << clients, program >>
    BY <1>9 DEF Close
  <2>2. cl \in RedirectorClients /\ NoJob \in Jobs /\ NoJob.pc = "idle"
    BY <1>1 DEF RedirectorClients, NoJob, Jobs
  <2> HIDE DEF cl
  <2>3. QED
    BY <1>1, <1>2, <2>1, <2>2, LauncherKeeps
<1>10. QED
  BY <1>3, <1>4, <1>6, <1>7, <1>8, <1>9 DEF Launch

LEMMA ProgramTypes ==
    ASSUME TypeInv, NEW c \in Clients, Output(c) \/ Exit(c)
    PROVE  TypeInv'
<1>1. CASE Output(c)
  <2>1. /\ written' = [written EXCEPT ![c] = written[c] + 1]
        /\ piped' = [piped EXCEPT ![c] = piped[c] + 1]
        /\ written[c] < MaxOutput
        /\ UNCHANGED << job, clients, client, holders, program, logged, kq >>
    BY <1>1 DEF Output
  <2>2. /\ written[c] \in 0 .. MaxOutput /\ piped[c] \in 0 .. MaxOutput
        /\ logged[c] \in 0 .. MaxOutput /\ logged[c] + piped[c] = written[c]
    BY DEF TypeInv, TypeOK, Conserved
  <2>3. written[c] + 1 \in 0 .. MaxOutput /\ piped[c] + 1 \in 0 .. MaxOutput
        /\ logged[c] + (piped[c] + 1) = written[c] + 1
    BY <2>1, <2>2, LogAssumption
  <2>4. TypeOK' /\ JobsSound'
    BY <2>1, <2>3 DEF TypeInv, TypeOK, JobsSound
  <2>5. Conserved'
    <3>1. \A d \in Clients : logged'[d] + piped'[d] = written'[d]
      BY <2>1, <2>3 DEF TypeInv, TypeOK, Conserved
    <3>2. kq # NoEvent => kq.who \in Clients /\ kq.ready <= piped[kq.who]
          /\ piped[kq.who] \in Nat /\ kq.ready \in Nat
      BY DEF TypeInv, TypeOK, Conserved
    <3>3. \A d \in Clients : piped'[d] = piped[d] \/ piped'[d] = piped[d] + 1
      BY <2>1 DEF TypeInv, TypeOK
    <3>4. kq # NoEvent => kq.ready <= piped'[kq.who]
      BY <3>2, <3>3
    <3>5. QED
      BY <2>1, <3>1, <3>2, <3>4 DEF Conserved
  <2>6. QED
    BY <2>4, <2>5 DEF TypeInv
<1>2. CASE Exit(c)
  BY <1>2 DEF Exit, TypeInv, TypeOK, Conserved, JobsSound
<1>3. QED
  BY <1>1, <1>2

LEMMA KqueueTypes == ASSUME TypeInv, Kqueue PROVE TypeInv'
<1>1. ASSUME NEW c \in Clients, Wake(c) PROVE TypeInv'
  <2> DEFINE eof == (holders[c] = {})
  <2>1. /\ kq' = [who |-> c, eof |-> eof, ready |-> piped[c]] /\ eof \in BOOLEAN
        /\ UNCHANGED << job, clients, client, holders, program, written, piped, logged >>
    BY <1>1 DEF Wake
  <2>2. piped[c] \in 0 .. MaxOutput
    BY DEF TypeInv, TypeOK
  <2> HIDE DEF eof
  <2>3. /\ kq'.who \in Clients /\ kq'.ready <= piped'[kq'.who]
        /\ kq' \in [who : Clients \cup {NoClient}, eof : BOOLEAN, ready : Nat]
    BY <2>1, <2>2, LogAssumption
  <2>4. QED
    BY <2>1, <2>3 DEF TypeInv, TypeOK, Conserved, JobsSound
<1>2. NoEvent \in [who : Clients \cup {NoClient}, eof : BOOLEAN, ready : Nat]
  BY DEF NoEvent
<1>3. CASE ReceiveOnData
  <2> DEFINE c == kq.who
             n == kq.ready
  <2>1. /\ piped' = [piped EXCEPT ![c] = piped[c] - n]
        /\ logged' = [logged EXCEPT ![c] = logged[c] + n]
        /\ kq' = NoEvent
        /\ UNCHANGED << job, clients, client, holders, program, written >>
    BY <1>3 DEF ReceiveOnData
  <2>2. /\ c \in Clients /\ n \in Nat /\ n <= piped[c]
        /\ piped[c] \in 0 .. MaxOutput /\ logged[c] \in 0 .. MaxOutput
        /\ written[c] \in 0 .. MaxOutput /\ logged[c] + piped[c] = written[c]
    BY <1>3 DEF ReceiveOnData, TypeInv, TypeOK, Conserved
  <2> HIDE DEF c, n
  <2>3. /\ piped[c] - n \in 0 .. MaxOutput /\ logged[c] + n \in 0 .. MaxOutput
        /\ (logged[c] + n) + (piped[c] - n) = written[c]
    BY <2>2, LogAssumption
  <2>4. QED
    BY <1>2, <2>1, <2>2, <2>3 DEF TypeInv, TypeOK, Conserved, JobsSound
<1>4. CASE FreeClient
  <2> DEFINE c == kq.who
             n == client[c].closes + (IF client[c].accepted THEN 0 ELSE 1)
             cl == [client[c] EXCEPT !.st = "freed", !.closes = n]
  <2>1. /\ client' = [client EXCEPT ![c] = cl]
        /\ clients' = [l \in Launchers |-> clients[l] \ {c}]
        /\ kq' = NoEvent
        /\ UNCHANGED << job, holders, program, written, piped, logged >>
    BY <1>4 DEF FreeClient
  <2>2. c \in Clients /\ client[c] \in RedirectorClients
    BY <1>4 DEF FreeClient, TypeInv, TypeOK, Conserved
  <2>3. n \in Nat
    BY <2>2 DEF RedirectorClients
  <2> HIDE DEF n
  <2>4. cl \in RedirectorClients
    BY <2>2, <2>3 DEF RedirectorClients
  <2> HIDE DEF c, cl
  <2>5. QED
    BY <1>2, <2>1, <2>2, <2>4 DEF TypeInv, TypeOK, Conserved, JobsSound
<1>5. QED
  BY <1>1, <1>3, <1>4 DEF Kqueue

LEMMA TypesInductive == ASSUME TypeInv, [Next]_vars PROVE TypeInv'
<1>1. CASE UNCHANGED vars
  BY <1>1 DEF vars, TypeInv, TypeOK, Conserved, JobsSound
<1>2. QED
  BY <1>1, NewClientTypes, LaunchTypes, ProgramTypes, KqueueTypes DEF Next

(***************************************************************************)
(* Nothing is logged that was not written, nothing is logged twice, and    *)
(* the director never reads more from a pipe than there is.                *)
(***************************************************************************)
THEOREM TypesHold == Spec => []TypeOK
<1>1. TypeInv => TypeOK
  BY DEF TypeInv
<1>2. QED
  BY <1>1, InitTypes, TypesInductive, PTL DEF Spec

-----------------------------------------------------------------------------
(* Who holds what.  The daemon has the write end of a client's pipe open   *)
(* until the launching thread is done with the client, so the pipe has no  *)
(* end before, and the client is not freed.                                *)

(* A thread that launches holds its client, and no other thread has it. *)
Held ==
    /\ \A l \in Launchers : job[l].pc # "idle" =>
          client[job[l].who].st = "open" /\ "parent" \in holders[job[l].who]
    /\ \A l, m \in Launchers :
          l # m /\ job[l].pc # "idle" /\ job[m].pc # "idle" => job[l].who # job[m].who

(* What the end of a pipe means stays true until it is handled. *)
EndIsFinal ==
    kq # NoEvent => /\ client[kq.who].st = "open"
                    /\ kq.eof => holders[kq.who] = {}

(* The write end is open, or its closing was noted. *)
ClosedOnce ==
    /\ \A c \in Clients :
          /\ client[c].closes <= 1
          /\ "parent" \in holders[c] => client[c].closes = 0
          /\ client[c].st = "none" => client[c].closes = 0 /\ holders[c] = {}
          /\ client[c].st = "open" /\ "parent" \notin holders[c] => client[c].accepted
    /\ \A l \in Launchers : job[l].pc = "close" => client[job[l].who].accepted

OwnersInv == Held /\ EndIsFinal /\ ClosedOnce

LEMMA InitOwners == Init => OwnersInv
BY DEF Init, OwnersInv, Held, EndIsFinal, ClosedOnce, NoJob

LEMMA OwnersInductive == ASSUME TypeInv, OwnersInv, [Next]_vars PROVE OwnersInv'
<1>1. /\ job \in [Launchers -> Jobs] /\ client \in [Clients -> RedirectorClients]
      /\ holders \in [Clients -> SUBSET ({"parent"} \cup Clients)]
      /\ \A l \in Launchers : job[l].pc # "idle" => job[l].who \in Clients
      /\ kq # NoEvent => kq.who \in Clients
  BY DEF TypeInv, TypeOK, JobsSound, Conserved
<1>2. Held /\ EndIsFinal /\ ClosedOnce
  BY DEF OwnersInv
<1>3. ASSUME NEW l \in Launchers, NEW c \in Clients, NewClient(l, c) PROVE OwnersInv'
  <2> DEFINE cl == [client[c] EXCEPT !.st = "open"]
             j == [pc |-> "link", who |-> c, first |-> {}]
  <2>1. /\ job[l].pc = "idle" /\ client[c].st = "none"
        /\ job' = [job EXCEPT ![l] = j] /\ client' = [client EXCEPT ![c] = cl]
        /\ holders' = [holders EXCEPT ![c] = {"parent"}] /\ kq' = kq
    BY <1>3 DEF NewClient
  <2>2. cl.st = "open" /\ cl.closes = client[c].closes /\ cl.accepted = client[c].accepted
        /\ j.pc = "link" /\ j.who = c
    BY <1>1 DEF RedirectorClients
  <2> HIDE DEF cl, j
  <2>3. Held'
    BY <1>1, <1>2, <2>1, <2>2 DEF Held
  <2>4. EndIsFinal'
    BY <1>1, <1>2, <2>1, <2>2 DEF EndIsFinal
  <2>5. ClosedOnce'
    BY <1>1, <1>2, <2>1, <2>2 DEF ClosedOnce, Held
  <2>6. QED
    BY <2>3, <2>4, <2>5 DEF OwnersInv
<1>4. ASSUME NEW l \in Launchers, Link(l) \/ Insert(l) \/ ForkFails(l) PROVE OwnersInv'
  <2>1. /\ job' = [job EXCEPT ![l] = job'[l]] /\ job'[l].who = job[l].who
        /\ job[l].pc # "idle" /\ job'[l].pc \in {"insert", "fork", "accept"}
        /\ UNCHANGED << client, holders, kq >>
    BY <1>1, <1>4 DEF Link, Insert, ForkFails, GoTo, Jobs
  <2>2. Held'
    BY <1>1, <1>2, <2>1 DEF Held
  <2>3. EndIsFinal' /\ ClosedOnce'
    BY <1>1, <1>2, <2>1 DEF EndIsFinal, ClosedOnce
  <2>4. QED
    BY <2>2, <2>3 DEF OwnersInv
<1>5. ASSUME NEW l \in Launchers, Fork(l) PROVE OwnersInv'
  <2> DEFINE c == job[l].who
  <2>1. /\ job' = [job EXCEPT ![l] = job'[l]] /\ job'[l].who = job[l].who
        /\ job[l].pc # "idle" /\ job'[l].pc = "accept"
        /\ UNCHANGED << client, kq >>
        /\ holders' = [d \in Clients |-> IF "parent" \in holders[d] THEN holders[d] \cup {c}
                                         ELSE holders[d]]
    BY <1>1, <1>5 DEF Fork, GoTo, Jobs
  <2>2. /\ c \in Clients /\ c # "parent"
        /\ \A d \in Clients : "parent" \in holders'[d] <=> "parent" \in holders[d]
        /\ \A d \in Clients : "parent" \notin holders[d] => holders'[d] = holders[d]
    BY <1>1, <2>1, LogAssumption
  <2> HIDE DEF c
  <2>3. Held'
    BY <1>1, <1>2, <2>1, <2>2 DEF Held
  <2>4. EndIsFinal'
    BY <1>1, <1>2, <2>1, <2>2 DEF EndIsFinal
  <2>5. ClosedOnce'
    BY <1>1, <1>2, <2>1, <2>2 DEF ClosedOnce
  <2>6. QED
    BY <2>3, <2>4, <2>5 DEF OwnersInv
<1>6. ASSUME NEW l \in Launchers, Accept(l) PROVE OwnersInv'
  <2> DEFINE c == job[l].who
             cl == [client[c] EXCEPT !.accepted = TRUE]
  <2>1. /\ job' = [job EXCEPT ![l] = job'[l]] /\ job'[l].who = c
        /\ job[l].pc # "idle" /\ job'[l].pc = "close"
        /\ client' = [client EXCEPT ![c] = cl] /\ UNCHANGED << holders, kq >>
    BY <1>1, <1>6 DEF Accept, GoTo, Jobs
  <2>2. c \in Clients
    BY <1>1, <2>1
  <2>3. cl.st = client[c].st /\ cl.closes = client[c].closes /\ cl.accepted
    <3>1. client[c] \in RedirectorClients
      BY <1>1, <2>2
    <3> HIDE DEF c
    <3>2. QED
      BY <3>1 DEF RedirectorClients
  <2> HIDE DEF cl
  <2>4. Held'
    BY <1>1, <1>2, <2>1, <2>2, <2>3 DEF Held
  <2>5. EndIsFinal'
    BY <1>1, <1>2, <2>1, <2>2, <2>3 DEF EndIsFinal
  <2>6. ClosedOnce'
    BY <1>1, <1>2, <2>1, <2>2, <2>3 DEF ClosedOnce
  <2>7. QED
    BY <2>4, <2>5, <2>6 DEF OwnersInv
<1>7. ASSUME NEW l \in Launchers, Close(l) PROVE OwnersInv'
  <2> DEFINE c == job[l].who
             cl == [client[c] EXCEPT !.closes = client[c].closes + 1]
  <2>1. /\ job' = [job EXCEPT ![l] = NoJob] /\ job[l].pc = "close"
        /\ client' = [client EXCEPT ![c] = cl] /\ kq' = kq
        /\ holders' = [holders EXCEPT ![c] = holders[c] \ {"parent"}]
    BY <1>7 DEF Close
  <2>2. c \in Clients /\ NoJob.pc = "idle"
    BY <1>1, <2>1 DEF NoJob
  <2>3. cl.st = client[c].st /\ cl.closes = client[c].closes + 1
        /\ cl.accepted = client[c].accepted
    <3>1. client[c] \in RedirectorClients
      BY <1>1, <2>2
    <3> HIDE DEF c
    <3>2. QED
      BY <3>1 DEF RedirectorClients
  <2>4. client[c].st = "open" /\ client[c].closes = 0 /\ client[c].accepted
    BY <1>2, <2>1, <2>2 DEF Held, ClosedOnce
  <2>5. \A m \in Launchers : m # l /\ job[m].pc # "idle" => job[m].who # c
    BY <1>2, <2>1 DEF Held
  <2> HIDE DEF c, cl
  <2>6. Held'
    BY <1>1, <1>2, <2>1, <2>2, <2>3, <2>5 DEF Held
  <2>7. EndIsFinal'
    BY <1>1, <1>2, <2>1, <2>2, <2>3 DEF EndIsFinal
  <2>8. ClosedOnce'
    <3>1. \A d \in Clients : /\ client'[d].st = client[d].st
                             /\ client'[d].accepted = client[d].accepted
                             /\ d # c => client'[d].closes = client[d].closes
                                         /\ holders'[d] = holders[d]
      BY <1>1, <2>1, <2>2, <2>3
    <3>2. client'[c].closes = 1 /\ holders'[c] = holders[c] \ {"parent"}
      BY <1>1, <2>1, <2>2, <2>3, <2>4
    <3>3. \A m \in Launchers : job'[m].pc = "close" => m # l /\ job[m].pc = "close"
                                                       /\ job'[m].who = job[m].who
      BY <1>1, <2>1, <2>2
    <3>4. \A m \in Launchers : job'[m].pc = "close" => client'[job'[m].who].accepted
      BY <1>1, <1>2, <3>1, <3>3 DEF ClosedOnce
    <3>5. ASSUME NEW d \in Clients
          PROVE  /\ client'[d].closes <= 1
                 /\ "parent" \in holders'[d] => client'[d].closes = 0
                 /\ client'[d].st = "none" => client'[d].closes = 0 /\ holders'[d] = {}
                 /\ client'[d].st = "open" /\ "parent" \notin holders'[d] => client'[d].accepted
      <4>1. CASE d = c
        BY <2>4, <3>1, <3>2, <4>1
      <4>2. CASE d # c
        BY <1>2, <3>1, <4>2 DEF ClosedOnce
      <4>3. QED
        BY <4>1, <4>2
    <3>6. QED
      BY <3>4, <3>5 DEF ClosedOnce
  <2>9. QED
    BY <2>6, <2>7, <2>8 DEF OwnersInv
<1>8. ASSUME NEW c \in Clients, Output(c) \/ Exit(c) PROVE OwnersInv'
  <2>1. /\ UNCHANGED << job, client, kq >>
        /\ \A d \in Clients : holders'[d] = holders[d] \/ holders'[d] = holders[d] \ {c}
    BY <1>8 DEF Output, Exit
  <2>2. \A d \in Clients : /\ "parent" \in holders'[d] <=> "parent" \in holders[d]
                           /\ holders[d] = {} => holders'[d] = {}
    BY <2>1, LogAssumption
  <2>3. QED
    BY <1>1, <1>2, <2>1, <2>2 DEF OwnersInv, Held, EndIsFinal, ClosedOnce
<1>9. ASSUME NEW c \in Clients, Wake(c) PROVE OwnersInv'
  <2>1. /\ client[c].st = "open" /\ UNCHANGED << job, client, holders >>
        /\ kq'.who = c /\ (kq'.eof => holders[c] = {})
    BY <1>9 DEF Wake
  <2>2. QED
    BY <1>2, <2>1 DEF OwnersInv, Held, EndIsFinal, ClosedOnce
<1>10. CASE ReceiveOnData
  BY <1>2, <1>10 DEF ReceiveOnData, OwnersInv, Held, EndIsFinal, ClosedOnce
<1>11. CASE FreeClient
  <2> DEFINE c == kq.who
             n == client[c].closes + (IF client[c].accepted THEN 0 ELSE 1)
             cl == [client[c] EXCEPT !.st = "freed", !.closes = n]
  <2>1. /\ kq # NoEvent /\ client' = [client EXCEPT ![c] = cl] /\ kq' = NoEvent
        /\ UNCHANGED << job, holders >>
    BY <1>11 DEF FreeClient
  <2>2. c \in Clients /\ holders[c] = {} /\ client[c].st = "open"
    BY <1>1, <1>2, <1>11 DEF FreeClient, EndIsFinal
  <2>3. client[c].accepted /\ client[c].closes <= 1
    BY <1>2, <2>2 DEF ClosedOnce
  <2>4. client[c].closes \in Nat /\ client[c] \in RedirectorClients
    BY <1>1, <2>2 DEF RedirectorClients
  <2>5. n = client[c].closes
    BY <2>3, <2>4
  <2> HIDE DEF n
  <2>6. cl.st = "freed" /\ cl.closes = client[c].closes /\ cl.accepted = client[c].accepted
    BY <2>4, <2>5 DEF RedirectorClients
  <2>7. \A l \in Launchers : job[l].pc # "idle" => job[l].who # c
    BY <1>2, <2>2 DEF Held
  <2> HIDE DEF c, cl
  <2>8. Held'
    BY <1>1, <1>2, <2>1, <2>2, <2>7 DEF Held
  <2>9. ClosedOnce'
    <3>1. \A d \in Clients : /\ client'[d].closes = client[d].closes
                             /\ client'[d].accepted = client[d].accepted
                             /\ d # c => client'[d].st = client[d].st
                             /\ d = c => client'[d].st = "freed"
      BY <1>1, <2>1, <2>6
    <3>2. job' = job /\ holders' = holders
      BY <2>1
    <3>3. QED
      BY <1>1, <1>2, <3>1, <3>2 DEF ClosedOnce
  <2>10. QED
    BY <2>1, <2>8, <2>9 DEF OwnersInv, EndIsFinal
<1>12. CASE UNCHANGED vars
  BY <1>2, <1>12 DEF vars, OwnersInv, Held, EndIsFinal, ClosedOnce
<1>13. QED
  BY <1>3, <1>4, <1>5, <1>6, <1>7, <1>8, <1>9, <1>10, <1>11, <1>12 DEF Next, Launch, Kqueue

(***************************************************************************)
(* ldrd_freeclient never frees a client that pd_launch_redirected is still *)
(* working on, and the write end of a pipe is closed once, although the    *)
(* two threads share no lock.                                              *)
(***************************************************************************)
THEOREM ClientsOutliveLaunch == Spec => []OutlivesLaunch
<1>1. OwnersInv => OutlivesLaunch
  BY DEF OwnersInv, Held, ClosedOnce, OutlivesLaunch
<1>2. QED
  BY <1>1, InitTypes, InitOwners, TypesInductive, OwnersInductive, PTL DEF Spec

=============================================================================
