---------------------------- MODULE SocketServer ----------------------------
(***************************************************************************)
(* The control socket: libsocket/socket_handle.c with reply_collector.c,   *)
(* started and stopped by vmstated_launch, and the clients at the other    *)
(* end (libsocket/socket_connect.c, used by vmstatedctl and the tests).    *)
(*                                                                         *)
(* sh_accept_thread creates a handler thread for each event and joins it   *)
(* at once, so the two are one thread here.  Its steps interleave with     *)
(* those of the clients and of the main thread.                            *)
(***************************************************************************)
EXTENDS SocketBuffer, FiniteSets

CONSTANTS
    Clients,
    Scripts   \* the sequences of commands a client may send on a connection

(* A command is its bytes, 1 for any byte but zero, and what the director  *)
(* does with it: "vm" and "status" are BHYV commands, "plain" is any other *)
(* command, which it skips, and "bad" is no command at all.                *)
Kinds == {"plain", "vm", "status", "bad"}

ASSUME ScriptsAssumption ==
    /\ Clients # {}
    /\ \A s \in Scripts : s \in Seq([bytes : Seq({0, 1}), kind : Kinds])

(* The name of a command ends at z. *)
NameEnds(bytes, z) ==
    z \in DOMAIN bytes /\ bytes[z] = 0 /\ \A i \in 1 .. z - 1 : bytes[i] = 1

(* It fits into the buffer, as does a zero behind its data. *)
Readable(bytes) ==
    /\ Len(bytes) <= MaxData
    /\ \E z \in 2 .. CmdLen + 1 :
          /\ NameEnds(bytes, z)
          /\ Len(bytes) < MaxData \/ \E i \in z + 1 .. Len(bytes) : bytes[i] = 0

(* Its data is text, with no zero in it: nothing is left when the server   *)
(* drops it.                                                               *)
Whole(bytes) ==
    \A z \in DOMAIN bytes :
        NameEnds(bytes, z) => \A i \in z + 1 .. Len(bytes) - 1 : bytes[i] = 1

(* Its name is too long, or has no end, or its data has none.              *)
Unreadable(bytes) ==
    \/ \E z \in CmdLen + 2 .. MaxData : NameEnds(bytes, z)
    \/ /\ Len(bytes) >= MaxData
       /\ \/ \A i \in 1 .. MaxData : bytes[i] = 1
          \/ \E z \in 1 .. CmdLen + 1 :
                NameEnds(bytes, z) /\ \A i \in z + 1 .. MaxData : bytes[i] = 1

(* A BHYV command has its connection to itself (vmstatedctl connects for   *)
(* each), or is the last on it, as is one that is none: what is left of it *)
(* in the buffer, its second reply or its short one would meet the next.   *)
ASSUME ConversationsAssumption ==
    \A s \in Scripts : \A k \in DOMAIN s :
        /\ IF s[k].kind = "bad" THEN Unreadable(s[k].bytes) ELSE Readable(s[k].bytes)
        /\ k < Len(s) => s[k].kind = "plain" /\ Whole(s[k].bytes)

VARIABLES
    main,     \* where vmstated_launch is; "dead" once the process is gone
    state,    \* sh->state
    shutdown, \* the EVFILT_USER event was triggered
    listener, \* the EVFILT_READ event of sh->socketfd: armed or disabled
    backlog,  \* clients in the listen queue
    watch,    \* the EVFILT_READ event of a connection
    conn,     \* struct socket_connection
    thread,   \* sh_accept_thread and its handler
    client,   \* the other end
    received  \* calls of the listeners: the number of the command they got

server == << main, state, shutdown, listener, watch, conn, thread, received >>
vars == << server, backlog, client >>

NoConnection == [open |-> FALSE, buf |-> EmptyBuffer, short_reply |-> 0, stc |-> << >>]
Idle == [pc |-> "none", who |-> CHOOSE c \in Clients : TRUE, ready |-> 0, eof |-> FALSE,
         parsed |-> [err |-> "none", cmdlen |-> 0, datalen |-> 0],
         result |-> [kind |-> "ok", to |-> 0], used |-> FALSE]
Away == [pc |-> "away", script |-> << >>, sent |-> 0, stream |-> << >>,
         inbox |-> << >>, answers |-> << >>]

Init ==
    /\ main = "new" /\ state = "READY" /\ shutdown = FALSE
    /\ listener = "armed" /\ backlog = << >>
    /\ watch = [c \in Clients |-> "none"]
    /\ conn = [c \in Clients |-> NoConnection]
    /\ thread = Idle
    /\ client = [c \in Clients |-> Away]
    /\ received = [c \in Clients |-> << >>]

-----------------------------------------------------------------------------
(* Clients.  They write a command at once and wait for one reply before    *)
(* the next; they may leave at any time.                                   *)

Open == main \in {"new", "starting", "up", "joining"}

Connect(c) ==
    /\ Open /\ client[c].pc = "away"
    /\ \E s \in Scripts : client' = [client EXCEPT ![c] = [@ EXCEPT !.pc = "idle", !.script = s]]
    /\ backlog' = Append(backlog, c)
    /\ UNCHANGED server

(* The bytes of the k-th command of client c. *)
Message(c, k) ==
    [i \in DOMAIN client[c].script[k].bytes |-> k * client[c].script[k].bytes[i]]

Send(c) ==
    LET k == client[c].sent + 1
    IN  /\ Open /\ client[c].pc = "idle" /\ k \in DOMAIN client[c].script
        /\ client' = [client EXCEPT ![c] = [@ EXCEPT
                !.pc = "waiting", !.sent = k, !.stream = client[c].stream \o Message(c, k)]]
        /\ UNCHANGED << server, backlog >>

Receive(c) ==
    /\ client[c].pc = "waiting" /\ client[c].inbox # << >>
    /\ client' = [client EXCEPT ![c] = [@ EXCEPT
            !.pc = "idle", !.inbox = Tail(client[c].inbox),
            !.answers = Append(client[c].answers, Head(client[c].inbox))]]
    /\ UNCHANGED << server, backlog >>

Leave(c) ==
    /\ client[c].pc \in {"idle", "waiting"}
    /\ client' = [client EXCEPT ![c] = [@ EXCEPT !.pc = "gone"]]
    /\ UNCHANGED << server, backlog >>

-----------------------------------------------------------------------------
(* The main thread. *)

(* sh_start: it returns when the thread has signalled listener_ready. *)
Start ==
    /\ main = "new" /\ state = "READY"
    /\ main' = "starting" /\ state' = "STARTED"
    /\ thread' = [thread EXCEPT !.pc = "begin"]
    /\ UNCHANGED << shutdown, listener, backlog, watch, conn, client, received >>

Begin ==
    /\ thread.pc = "begin"
    /\ main' = "up" /\ state' = "RUNNING"
    /\ thread' = [thread EXCEPT !.pc = "wait"]
    /\ UNCHANGED << shutdown, listener, backlog, watch, conn, client, received >>

(* sh_stop: SIGTERM has come.  It joins the thread. *)
Stop ==
    /\ main = "up" /\ state = "RUNNING"
    /\ main' = "joining" /\ state' = "STOPPING" /\ shutdown' = TRUE
    /\ UNCHANGED << listener, backlog, watch, conn, thread, client, received >>

(* sh_free closes the connections. *)
Free ==
    /\ main = "joining" /\ thread.pc = "done"
    /\ main' = "freed"
    /\ conn' = [c \in Clients |-> NoConnection]
    /\ watch' = [c \in Clients |-> "none"]
    /\ listener' = "disabled" /\ backlog' = << >>
    /\ UNCHANGED << state, shutdown, thread, client, received >>

-----------------------------------------------------------------------------
(* The accept thread. *)

At(pc) == main # "dead" /\ thread.pc = pc

Ready(c) == client[c].stream # << >> \/ client[c].pc = "gone"

(* kevent returns an event, which is disabled until it has been handled.   *)
Wake ==
    /\ At("wait")
    /\ \/ /\ listener = "armed" /\ backlog # << >>
          /\ listener' = "disabled"
          /\ thread' = [thread EXCEPT !.pc = "accept", !.used = TRUE]
          /\ UNCHANGED watch
       \/ \E c \in Clients :
              /\ watch[c] = "armed" /\ Ready(c)
              /\ watch' = [watch EXCEPT ![c] = "disabled"]
              /\ thread' = [thread EXCEPT !.pc = "handle", !.used = TRUE, !.who = c,
                                          !.ready = Len(client[c].stream),
                                          !.eof = (client[c].pc = "gone")]
              /\ UNCHANGED listener
    /\ UNCHANGED << main, state, shutdown, backlog, conn, client, received >>

(* The shutdown event: the loop ends.  What follows reads sct, the argument *)
(* of the last handler: NULL if there was none, and else freed memory.      *)
ShutDown ==
    /\ At("wait") /\ shutdown
    /\ state' = "STOPPED"
    /\ thread' = [thread EXCEPT !.pc = "done"]
    /\ main' \in (IF thread.used THEN {main, "dead"} ELSE {"dead"})
    /\ UNCHANGED << shutdown, listener, backlog, watch, conn, client, received >>

(* The event that is enabled again at the end is the one in sct, which is  *)
(* the connection's by now.                                                *)
Accept ==
    LET c == Head(backlog)
    IN  /\ At("accept")
        /\ backlog' = Tail(backlog)
        /\ conn' = [conn EXCEPT ![c] = [NoConnection EXCEPT !.open = TRUE]]
        /\ watch' = [watch EXCEPT ![c] = "armed"]
        /\ thread' = [thread EXCEPT !.pc = "wait"]
        /\ UNCHANGED << main, state, shutdown, listener, client, received >>

(* The connection's event goes with its descriptor.  Enabling it fails     *)
(* with EBADF, which is accepted, or with ENOENT, which is not, if another *)
(* thread was given the number meanwhile.                                  *)
Disconnect ==
    /\ At("handle") /\ thread.eof
    /\ conn' = [conn EXCEPT ![thread.who] = NoConnection]
    /\ watch' = [watch EXCEPT ![thread.who] = "none"]
    /\ thread' = [thread EXCEPT !.pc = "wait"]
    /\ main' \in {main, "dead"}
    /\ UNCHANGED << state, shutdown, listener, backlog, client, received >>

\* Faulty variant: the event stays disabled.
FaultyRearmed(c) == watch

Rearmed(c) == [watch EXCEPT ![c] = "armed"]

(* Only what was ready when the event came is read; then the buffer is     *)
(* parsed.                                                                 *)
ReadAndParse ==
    LET c == thread.who
        n == Room(conn[c].buf, thread.ready)
        p == TryParse(ReadData(conn[c].buf, n, client[c].stream))
        more == p.err = "keepreading"
    IN  /\ At("handle") /\ ~ thread.eof
        /\ client' = [client EXCEPT ![c] = [@ EXCEPT
                !.stream = SubSeq(client[c].stream, n + 1, Len(client[c].stream))]]
        /\ conn' = [conn EXCEPT ![c] = [@ EXCEPT !.buf = p.buf]]
        /\ thread' = [thread EXCEPT
                !.pc = IF more THEN "wait" ELSE IF p.err = "none" THEN "call" ELSE "error",
                !.parsed = [err |-> p.err, cmdlen |-> p.cmdlen, datalen |-> p.datalen]]
        /\ watch' = IF more THEN Rearmed(c) ELSE watch
        /\ UNCHANGED << main, state, shutdown, listener, backlog, received >>

(* write to a client: one that has left is the end of the process, by      *)
(* SIGPIPE, and without it by err or assert.                               *)
Write(c, reply) ==
    IF client[c].pc = "gone" THEN main' = "dead" /\ UNCHANGED client
    ELSE /\ client' = [client EXCEPT ![c] = [@ EXCEPT !.inbox = Append(client[c].inbox, reply)]]
         /\ UNCHANGED main

\* Faulty variant: the client is not told.
FaultyReplyError ==
    /\ At("error")
    /\ thread' = [thread EXCEPT !.pc = "call"]
    /\ UNCHANGED << main, state, shutdown, listener, backlog, watch, conn, client, received >>

(* What cannot be parsed is reported; the listeners are called all the     *)
(* same, with what is now in the buffer.                                   *)
ReplyError ==
    /\ At("error")
    /\ Write(thread.who, [kind |-> "error", to |-> client[thread.who].sent])
    /\ thread' = [thread EXCEPT !.pc = "call"]
    /\ UNCHANGED << state, shutdown, listener, backlog, watch, conn, received >>

(* The command the listeners are given, 0 if it is none of the client's.   *)
Command(c) ==
    LET found == {k \in 1 .. client[c].sent :
                    client[c].script[k].kind # "bad" /\ Pending(conn[c].buf) = Message(c, k)}
    IN  IF found = {} THEN 0 ELSE CHOOSE k \in found : TRUE

(* bd_recv_ondata: its result, and what it gives to the reply collector.   *)
(* It skips what is no BHYV command; only an unknown VM has a short reply.  *)
Outcomes(kind) ==
    IF kind = "plain" THEN {[result |-> "ok", adds |-> "nothing"]}
    ELSE {[result |-> "ok",  adds |-> IF kind = "status" THEN "data" ELSE "nothing"],
          [result |-> "nok", adds |-> "nothing"]}
            \cup (IF kind = "vm" THEN {[result |-> "nok", adds |-> "short"]} ELSE {})

(* src_reply: data is added to what the connection has collected. *)
AddData(connection, k) == [connection EXCEPT !.stc = Append(@, k)]

(* src_short_reply keeps a reply that is already set. *)
AddShortReply(connection, k) ==
    [connection EXCEPT !.short_reply = IF @ = 0 THEN k ELSE @]

(* sh_call_listeners *)
CallListeners ==
    LET c == thread.who
        k == Command(c)
    IN  /\ At("call")
        /\ received' = [received EXCEPT ![c] = Append(@, k)]
        /\ \E o \in Outcomes(IF k = 0 THEN "plain" ELSE client[c].script[k].kind) :
              /\ thread' = [thread EXCEPT !.pc = "reply", !.result = [kind |-> o.result, to |-> k]]
              /\ conn' = [conn EXCEPT ![c] = IF o.adds = "data" THEN AddData(@, k)
                                             ELSE IF o.adds = "short" THEN AddShortReply(@, k)
                                             ELSE @]
        /\ UNCHANGED << main, state, shutdown, listener, backlog, watch, client >>

(* src_get_reply: everything that was collected, in one piece. *)
Collected(connection) ==
    [kind |-> "data", to |-> IF Len(connection.stc) = 1 THEN connection.stc[1] ELSE 0]

(* Data goes before a short reply, a short reply before OK and NOK.        *)
Answer(c) ==
    IF conn[c].stc # << >> THEN Collected(conn[c])
    ELSE IF conn[c].short_reply # 0 THEN [kind |-> "short", to |-> conn[c].short_reply]
    ELSE thread.result

(* The reply is sent and the command dropped. *)
Reply ==
    LET c == thread.who
        size == MessageSize(thread.parsed.cmdlen, thread.parsed.datalen)
    IN  /\ At("reply")
        /\ Write(c, Answer(c))
        /\ conn' = [conn EXCEPT ![c] = [@ EXCEPT !.buf = DropBytes(conn[c].buf, size)]]
        /\ watch' = Rearmed(c)
        /\ thread' = [thread EXCEPT !.pc = "wait"]
        /\ UNCHANGED << state, shutdown, listener, backlog, received >>

Thread ==
    \/ Begin \/ Wake \/ ShutDown \/ Accept \/ Disconnect
    \/ ReadAndParse \/ ReplyError \/ CallListeners \/ Reply

Next ==
    \/ Thread
    \/ Start \/ Stop \/ Free
    \/ \E c \in Clients : Connect(c) \/ Send(c) \/ Receive(c) \/ Leave(c)

Spec == Init /\ [][Next]_vars

(* vmstated_launch starts the server, and the thread is scheduled; nobody  *)
(* makes clients send, or stay.                                            *)
FairSpec == Spec /\ WF_vars(Thread) /\ WF_vars(Start)

-----------------------------------------------------------------------------

Replies == [kind : {"error", "ok", "nok", "short", "data"}, to : Nat]
Connections == [open : BOOLEAN, buf : Buffers, short_reply : Nat, stc : Seq(Nat)]
Handlers == [pc : {"none", "begin", "wait", "accept", "handle", "error", "call", "reply", "done"},
             who : Clients, ready : Nat, eof : BOOLEAN,
             parsed : [err : Errors, cmdlen : Nat, datalen : Nat],
             result : Replies, used : BOOLEAN]
Ends == [pc : {"away", "idle", "waiting", "gone"}, script : {<< >>} \cup Scripts, sent : Nat,
         stream : Seq(Nat), inbox : Seq(Replies), answers : Seq(Replies)]

(* The type invariant of the server and its clients; buf in Buffers says   *)
(* that bytes_read stays within the buffer.                                *)
TypeOK ==
    /\ main \in {"new", "starting", "up", "joining", "freed", "dead"}
    /\ state \in {"READY", "STARTED", "RUNNING", "STOPPING", "STOPPED"}
    /\ shutdown \in BOOLEAN
    /\ listener \in {"armed", "disabled"}
    /\ backlog \in Seq(Clients)
    /\ watch \in [Clients -> {"none", "armed", "disabled"}]
    /\ conn \in [Clients -> Connections]
    /\ thread \in Handlers
    /\ client \in [Clients -> Ends]
    /\ received \in [Clients -> Seq(Nat)]

(***************************************************************************)
(* shc_dropmessage and sh_try_cmdparsing agree on where a command ends: the *)
(* listeners get each command whole and once, and have got it before the   *)
(* client has its reply.                                                   *)
(***************************************************************************)
DeliveredOnce ==
    \A c \in Clients : \A k \in DOMAIN client[c].script :
        LET calls == Cardinality({i \in DOMAIN received[c] : received[c][i] = k})
        IN  /\ calls <= 1
            /\ (k \in DOMAIN client[c].answers /\ client[c].script[k].kind # "bad" => calls = 1)

(***************************************************************************)
(* The reply a client reads after a command is the reply to that command:  *)
(* an error if it is none, data only for a status, and OK or NOK for the   *)
(* result that this call of the listeners had.                             *)
(***************************************************************************)
AnswersItsOwn ==
    \A c \in Clients : \A k \in DOMAIN client[c].answers :
        LET reply == client[c].answers[k]
            kind == client[c].script[k].kind
        IN  /\ reply.to = k
            /\ (reply.kind = "error" <=> kind = "bad")
            /\ (reply.kind = "data" => kind = "status")
            /\ (reply.kind = "short" => kind = "vm")

(***************************************************************************)
(* A connection is never forgotten: its event is armed, or it is the one   *)
(* that the handler thread works on.                                       *)
(***************************************************************************)
EventNotLost ==
    \A c \in Clients :
        conn[c].open => \/ watch[c] = "armed"
                        \/ thread.who = c /\ thread.pc \in {"handle", "error", "call", "reply"}

(***************************************************************************)
(* sh_accept_handler_thread enables the event again whatever it has done   *)
(* with it: a client whose connection was accepted gets its reply, unless  *)
(* it leaves first or the daemon comes to an end.                          *)
(***************************************************************************)
Replied ==
    \A c \in Clients :
        (client[c].pc = "waiting" /\ conn[c].open)
            ~> (client[c].inbox # << >> \/ client[c].pc # "waiting" \/ shutdown \/ main = "dead")

(***************************************************************************)
(* "It provides a socket file on which utilities can send commands": each  *)
(* of them connects, so a client in the listen queue is accepted.          *)
(***************************************************************************)
Accepted ==
    \A c \in Clients :
        (\E i \in DOMAIN backlog : backlog[i] = c) ~> (conn[c].open \/ shutdown \/ main = "dead")

=============================================================================
