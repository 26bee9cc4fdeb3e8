---------------------------- MODULE LogDirector ----------------------------
(***************************************************************************)
(* liblogging/log_director.c: stdout and stderr of every program go        *)
(* through a pipe of its own to the log file of its VM.  A thread that     *)
(* launches a program (pd_launch_redirected, for hook scripts and bhyve)   *)
(* makes the pipe; the director's kqueue thread reads it and releases it   *)
(* at its end.  Threads, programs and the kernel's copies of descriptors   *)
(* interleave freely.                                                      *)
(***************************************************************************)
EXTENDS Integers

CONSTANTS
    Launchers, \* the threads, each with the redirector of the VM it works on
    Clients,   \* the redirector clients, and with them the programs
    MaxOutput, \* bound: what a program may write
    NoClient

ASSUME LogAssumption ==
    NoClient \notin Clients /\ MaxOutput \in Nat /\ "parent" \notin Clients

VARIABLES
    job,      \* a launcher: where it is, its client, and the list it read the head of
    clients,  \* what can be reached from ldr->clients of a launcher's redirector
    client,   \* struct log_director_redirector_client
    holders,  \* who has the write end of a client's pipe open
    program,  \* not started, running, or exited
    written,  \* what a program has written,
    piped,    \* what of it is in the pipe,
    logged,   \* and what is in the log file
    kq        \* the event that ld_kqueue_thread works on

vars == << job, clients, client, holders, program, written, piped, logged, kq >>

NoJob == [pc |-> "idle", who |-> NoClient, first |-> {}]
NoEvent == [who |-> NoClient, eof |-> FALSE, ready |-> 0]

Init ==
    /\ job = [l \in Launchers |-> NoJob]
    /\ clients = [l \in Launchers |-> {}]
    /\ client = [c \in Clients |-> [st |-> "none", accepted |-> FALSE, closes |-> 0]]
    /\ holders = [c \in Clients |-> {}]
    /\ program = [c \in Clients |-> "none"]
    /\ written = [c \in Clients |-> 0]
    /\ piped = [c \in Clients |-> 0]
    /\ logged = [c \in Clients |-> 0]
    /\ kq = NoEvent

-----------------------------------------------------------------------------
(* A launching thread, pd_launch_redirected.  "parent" is the daemon. *)

GoTo(l, pc) == job' = [job EXCEPT ![l] = [@ EXCEPT !.pc = pc]]

(* ldr_newclient: the pipe, and its event before anything else. *)
NewClient(l, c) ==
    /\ job[l].pc = "idle" /\ client[c].st = "none"
    /\ job' = [job EXCEPT ![l] = [pc |-> "link", who |-> c, first |-> {}]]
    /\ client' = [client EXCEPT ![c] = [@ EXCEPT !.st = "open"]]
    /\ holders' = [holders EXCEPT ![c] = {"parent"}]
    /\ UNCHANGED << clients, program, written, piped, logged, kq >>

(* LIST_INSERT_HEAD under ldr->mtx: the head is read and written.  The     *)
(* kqueue thread removes from the list without the mutex, so what is read  *)
(* may be freed before it is linked.                                       *)
Link(l) ==
    /\ job[l].pc = "link"
    /\ job' = [job EXCEPT ![l] = [@ EXCEPT !.pc = "insert", !.first = clients[l]]]
    /\ UNCHANGED << clients, client, holders, program, written, piped, logged, kq >>

Insert(l) ==
    /\ job[l].pc = "insert"
    /\ clients' = [clients EXCEPT ![l] = {job[l].who} \cup job[l].first]
    /\ job' = [job EXCEPT ![l] = [@ EXCEPT !.pc = "fork", !.first = {}]]
    /\ UNCHANGED << client, holders, program, written, piped, logged, kq >>

(* The program gets a copy of every write end that is open in the daemon:  *)
(* none is close-on-exec.  It lives on past execve with all of them.       *)
Fork(l) ==
    LET c == job[l].who
    IN  /\ job[l].pc = "fork"
        /\ program' = [program EXCEPT ![c] = "running"]
        /\ holders' = [d \in Clients |-> IF "parent" \in holders[d] THEN holders[d] \cup {c}
                                         ELSE holders[d]]
        /\ GoTo(l, "accept")
        /\ UNCHANGED << clients, client, written, piped, logged, kq >>

(* The write end is closed all the same. *)
ForkFails(l) ==
    /\ job[l].pc = "fork"
    /\ GoTo(l, "accept")
    /\ UNCHANGED << clients, client, holders, program, written, piped, logged, kq >>

\* Faulty variant: does not note it.
FaultyAccept(l) ==
    /\ job[l].pc = "accept"
    /\ GoTo(l, "close")
    /\ UNCHANGED << clients, client, holders, program, written, piped, logged, kq >>

(* ldrd_accept_redirect notes that the write end is closed, *)
Accept(l) ==
    /\ job[l].pc = "accept"
    /\ client' = [client EXCEPT ![job[l].who] = [@ EXCEPT !.accepted = TRUE]]
    /\ GoTo(l, "close")
    /\ UNCHANGED << clients, holders, program, written, piped, logged, kq >>

\* Faulty variant: leaves the write end open.
FaultyClose(l) ==
    /\ job[l].pc = "close"
    /\ job' = [job EXCEPT ![l] = NoJob]
    /\ UNCHANGED << clients, client, holders, program, written, piped, logged, kq >>

(* and closes it. *)
Close(l) ==
    LET c == job[l].who
    IN  /\ job[l].pc = "close"
        /\ holders' = [holders EXCEPT ![c] = @ \ {"parent"}]
        /\ client' = [client EXCEPT ![c] = [@ EXCEPT !.closes = client[c].closes + 1]]
        /\ job' = [job EXCEPT ![l] = NoJob]
        /\ UNCHANGED << clients, program, written, piped, logged, kq >>

-----------------------------------------------------------------------------
(* Programs: hook scripts and bhyve *)

Output(c) ==
    /\ program[c] = "running" /\ written[c] < MaxOutput
    /\ written' = [written EXCEPT ![c] = @ + 1]
    /\ piped' = [piped EXCEPT ![c] = @ + 1]
    /\ UNCHANGED << job, clients, client, holders, program, logged, kq >>

Exit(c) ==
    /\ program[c] = "running"
    /\ program' = [program EXCEPT ![c] = "exited"]
    /\ holders' = [d \in Clients |-> holders[d] \ {c}]
    /\ UNCHANGED << job, clients, client, written, piped, logged, kq >>

-----------------------------------------------------------------------------
(* ld_kqueue_thread *)

(* kevent: something to read, or nobody left who could write. *)
Wake(c) ==
    /\ kq = NoEvent /\ client[c].st = "open"
    /\ piped[c] > 0 \/ holders[c] = {}
    /\ kq' = [who |-> c, eof |-> holders[c] = {}, ready |-> piped[c]]
    /\ UNCHANGED << job, clients, client, holders, program, written, piped, logged >>

\* Faulty variant: what was read is still in the pipe.
FaultyReceiveOnData ==
    LET c == kq.who
    IN  /\ kq # NoEvent /\ ~ kq.eof
        /\ logged' = [logged EXCEPT ![c] = @ + kq.ready]
        /\ kq' = NoEvent
        /\ UNCHANGED << job, clients, client, holders, program, written, piped >>

(* ldr_recv_ondata reads what was ready and writes it to the log file. *)
ReceiveOnData ==
    LET c == kq.who
    IN  /\ kq # NoEvent /\ ~ kq.eof
        /\ piped' = [piped EXCEPT ![c] = @ - kq.ready]
        /\ logged' = [logged EXCEPT ![c] = @ + kq.ready]
        /\ kq' = NoEvent
        /\ UNCHANGED << job, clients, client, holders, program, written >>

(* ldrd_freeclient, at the end of the pipe: the read end is closed, and    *)
(* the write end if that has not been noted.                               *)
FreeClient ==
    LET c == kq.who
    IN  /\ kq # NoEvent /\ kq.eof
        /\ client' = [client EXCEPT ![c] = [@ EXCEPT
                !.st = "freed",
                !.closes = client[c].closes + (IF client[c].accepted THEN 0 ELSE 1)]]
        /\ clients' = [l \in Launchers |-> clients[l] \ {c}]
        /\ kq' = NoEvent
        /\ UNCHANGED << job, holders, program, written, piped, logged >>

Kqueue == (\E c \in Clients : Wake(c)) \/ ReceiveOnData \/ FreeClient

(* A launcher that has begun goes on. *)
Launch(l) ==
    Link(l) \/ Insert(l) \/ Fork(l) \/ ForkFails(l) \/ Accept(l) \/ Close(l)

Next ==
    \/ Kqueue
    \/ \E l \in Launchers : Launch(l) \/ \E c \in Clients : NewClient(l, c)
    \/ \E c \in Clients : Output(c) \/ Exit(c)

Spec == Init /\ [][Next]_vars

(* Both kinds of threads are scheduled; a program may run for ever. *)
FairSpec == Spec /\ WF_vars(Kqueue) /\ \A l \in Launchers : WF_vars(Launch(l))

-----------------------------------------------------------------------------

Jobs == [pc : {"idle", "link", "insert", "fork", "accept", "close"},
         who : Clients \cup {NoClient}, first : SUBSET Clients]
RedirectorClients == [st : {"none", "open", "freed"}, accepted : BOOLEAN, closes : Nat]

(* The type invariant; the bounds say that nothing is logged twice. *)
TypeOK ==
    /\ job \in [Launchers -> Jobs]
    /\ clients \in [Launchers -> SUBSET Clients]
    /\ client \in [Clients -> RedirectorClients]
    /\ holders \in [Clients -> SUBSET ({"parent"} \cup Clients)]
    /\ program \in [Clients -> {"none", "running", "exited"}]
    /\ written \in [Clients -> 0 .. MaxOutput]
    /\ piped \in [Clients -> 0 .. MaxOutput]
    /\ logged \in [Clients -> 0 .. MaxOutput]
    /\ kq \in [who : Clients \cup {NoClient}, eof : BOOLEAN, ready : Nat]

(***************************************************************************)
(* The kqueue thread frees a client on its own, with no lock.  It does so  *)
(* only when the thread that launches the program does not touch it any    *)
(* more, and between the two of them the write end is closed once: a       *)
(* second close would hit whatever was opened under that number meanwhile. *)
(***************************************************************************)
OutlivesLaunch ==
    /\ \A l \in Launchers : job[l].pc # "idle" => client[job[l].who].st = "open"
    /\ \A c \in Clients : client[c].closes <= 1

(***************************************************************************)
(* Once nobody but the daemon could still write to a client's pipe, the    *)
(* client is released, unless another program is launched meanwhile and    *)
(* takes a copy of the write end along.                                    *)
(***************************************************************************)
Released ==
    \A c \in Clients :
        (program[c] = "exited" /\ holders[c] \subseteq {"parent"})
            ~> (client[c].st = "freed" \/ holders[c] \cap Clients # {})

(***************************************************************************)
(* "Log files record stdout as well as stderr output": nothing that a      *)
(* program wrote is thrown away with its pipe.                             *)
(***************************************************************************)
LastWordsLogged ==
    \A c \in Clients : client[c].st = "freed" => logged[c] = written[c]

=============================================================================
