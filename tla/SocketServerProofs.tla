------------------------- MODULE SocketServerProofs -------------------------
(***************************************************************************)
(* What holds of the control socket for any size of the buffer, for any    *)
(* number of clients and for any conversations they have.                  *)
(***************************************************************************)
EXTENDS SocketServer, TLAPS, SequenceTheorems, FiniteSetTheorems, WellFoundedInduction

-----------------------------------------------------------------------------
(* The buffer. *)

LEMMA FirstPlace ==
    ASSUME NEW S \in SUBSET Nat, S # {}
    PROVE  \E m \in S : \A k \in S : m <= k
<1>1. \E m \in S : \A k \in S : ~ (<<k, m>> \in OpToRel(<, Nat))
  BY NatLessThanWellFounded, WFMin
<1>2. \A m, k \in S : ~ (<<k, m>> \in OpToRel(<, Nat)) => m <= k
  BY DEF OpToRel
<1>3. QED
  BY <1>1, <1>2

(* memchr finds the first zero byte of the range, if there is one. *)
LEMMA FirstZeroFound ==
    ASSUME NEW b, NEW from \in Nat, NEW to \in Nat
    PROVE  LET z == FirstZero(b, from, to)
           IN  IF \E i \in from .. to : b.bytes[i] = 0
               THEN /\ z \in from .. to /\ b.bytes[z] = 0
                    /\ \A i \in from .. to : b.bytes[i] = 0 => z <= i
               ELSE z = 0
<1> DEFINE zeros == {i \in from .. to : b.bytes[i] = 0}
<1>1. CASE zeros = {}
  BY <1>1 DEF FirstZero
<1>2. CASE zeros # {}
  <2>1. zeros \in SUBSET Nat
    OBVIOUS
  <2>3. \E m \in zeros : \A k \in zeros : m <= k
    <3> HIDE DEF zeros
    <3> QED  BY <1>2, <2>1, FirstPlace
  <2>4. FirstZero(b, from, to) = CHOOSE i \in zeros : \A j \in zeros : i <= j
    BY <1>2 DEF FirstZero
  <2>5. QED
    BY <1>2, <2>3, <2>4
<1>3. QED
  BY <1>1, <1>2

LEMMA FirstZeroIs ==
    ASSUME NEW b, NEW n \in Nat, \E i \in 1 .. n : b.bytes[i] = 0, NEW f, f = FirstZero(b, 1, n)
    PROVE  f \in 1 .. n /\ b.bytes[f] = 0 /\ \A i \in 1 .. n : b.bytes[i] = 0 => f <= i
BY FirstZeroFound

(* What is read goes into the room that is left. *)
LEMMA RoomIsLeft ==
    ASSUME NEW b \in Buffers, NEW ready \in Nat
    PROVE  Room(b, ready) \in 0 .. (MaxData - b.read) /\ Room(b, ready) <= ready
BY SizesAssumption DEF Buffers, Room

LEMMA ReadDataType ==
    ASSUME NEW b \in Buffers, NEW stream \in Seq(Nat), NEW n \in Nat,
           n <= Len(stream), n <= MaxData - b.read
    PROVE  ReadData(b, n, stream) \in Buffers
<1>1. b.read \in Nat /\ b.read + n \in 0 .. MaxData
  BY SizesAssumption DEF Buffers
<1>2. \A i \in b.read + 1 .. b.read + n : stream[i - b.read] \in Nat
  BY <1>1, ElementOfSeq
<1>3. \A i \in 1 .. MaxData : b.bytes[i] \in Nat
  BY DEF Buffers
<1>4. QED
  BY <1>1, <1>2, <1>3 DEF ReadData, Buffers

LEMMA DropBytesType ==
    ASSUME NEW b \in Buffers, NEW count \in Nat
    PROVE  DropBytes(b, count) \in Buffers
<1>1. CASE count >= b.read
  BY <1>1, SizesAssumption DEF DropBytes, EmptyBuffer, Buffers
<1>2. CASE count < b.read
  BY <1>2, SizesAssumption DEF DropBytes, Buffers
<1>3. QED
  BY <1>1, <1>2 DEF Buffers

LEMMA PendingIs ==
    ASSUME NEW b \in Buffers
    PROVE  /\ Pending(b) \in Seq(Nat) /\ Len(Pending(b)) = b.read
           /\ \A i \in 1 .. b.read : Pending(b)[i] = b.bytes[i]
<1>1. b.read \in Nat /\ \A i \in 1 .. b.read : b.bytes[i] \in Nat
  BY SizesAssumption DEF Buffers
<1>2. Pending(b) = [i \in 1 .. b.read |-> b.bytes[i]]
  BY DEF Pending
<1>3. Pending(b) \in Seq(Nat)
  BY <1>1, <1>2, IsASeq
<1>4. QED
  BY <1>1, <1>2, <1>3, LenProperties

(***************************************************************************)
(* sh_read_data puts the bytes it reads behind those that wait: none is    *)
(* lost, and none overwritten.                                             *)
(***************************************************************************)
THEOREM ReadingAppends ==
    ASSUME NEW b \in Buffers, NEW stream \in Seq(Nat), NEW n \in Nat,
           n <= Len(stream), n <= MaxData - b.read
    PROVE  Pending(ReadData(b, n, stream)) = Pending(b) \o SubSeq(stream, 1, n)
<1> DEFINE r == ReadData(b, n, stream)
           new == SubSeq(stream, 1, n)
<1>1. r \in Buffers
  BY ReadDataType
<1>2. b.read \in Nat /\ MaxData \in Nat /\ b.read <= MaxData
  BY SizesAssumption DEF Buffers
<1>3. /\ r.read = b.read + n
      /\ \A i \in 1 .. b.read : r.bytes[i] = b.bytes[i]
      /\ \A i \in b.read + 1 .. b.read + n : r.bytes[i] = stream[i - b.read]
  <2>1. r = [bytes |-> [i \in 1 .. MaxData |-> IF i \in b.read + 1 .. b.read + n
                                               THEN stream[i - b.read] ELSE b.bytes[i]],
             read |-> b.read + n]
    BY DEF ReadData
  <2> HIDE DEF r
  <2>2. \A i \in 1 .. MaxData : r.bytes[i] = IF i \in b.read + 1 .. b.read + n
                                             THEN stream[i - b.read] ELSE b.bytes[i]
    BY <2>1
  <2>3. b.read + n <= MaxData
    BY <1>2
  <2>4. r.read = b.read + n
    BY <2>1
  <2>5. \A i \in 1 .. b.read : i \in 1 .. MaxData /\ i \notin b.read + 1 .. b.read + n
    BY <1>2
  <2>6. \A i \in b.read + 1 .. b.read + n : i \in 1 .. MaxData
    BY <1>2, <2>3
  <2>7. QED
    BY <2>2, <2>4, <2>5, <2>6
<1>4. /\ new \in Seq(Nat) /\ Len(new) = n
      /\ \A i \in 1 .. n : new[i] = stream[i]
  <2>1. \A i \in 1 .. n : stream[i] \in Nat
    BY ElementOfSeq, LenProperties
  <2>2. QED
    BY <2>1, SubSeqProperties
<1> HIDE DEF r, new
<1>5. Pending(r) \in Seq(Nat) /\ Len(Pending(r)) = b.read + n
      /\ \A i \in 1 .. b.read + n : Pending(r)[i] = r.bytes[i]
  BY <1>1, <1>3, PendingIs
<1>6. Pending(b) \in Seq(Nat) /\ Len(Pending(b)) = b.read
      /\ \A i \in 1 .. b.read : Pending(b)[i] = b.bytes[i]
  BY PendingIs
<1> DEFINE both == Pending(b) \o new
<1>7. both \in Seq(Nat) /\ Len(both) = b.read + n
      /\ \A i \in 1 .. b.read + n :
            both[i] = IF i <= b.read THEN Pending(b)[i] ELSE new[i - b.read]
  <2> DEFINE old == Pending(b)
  <2> HIDE DEF old
  <2>1. old \in Seq(Nat) /\ new \in Seq(Nat) /\ Len(old) = b.read /\ Len(new) = n
    BY <1>4, <1>6 DEF old
  <2>2. /\ old \o new \in Seq(Nat) /\ Len(old \o new) = Len(old) + Len(new)
        /\ \A i \in 1 .. Len(old) + Len(new) :
              (old \o new)[i] = IF i <= Len(old) THEN old[i] ELSE new[i - Len(old)]
    BY <2>1, ConcatProperties, Zenon
  <2>3. both = old \o new
    BY DEF old
  <2> HIDE DEF both
  <2>4. \A i \in 1 .. b.read + n :
            both[i] = IF i <= b.read THEN old[i] ELSE new[i - b.read]
    BY <2>1, <2>2, <2>3, Zenon
  <2>5. QED
    BY <2>1, <2>2, <2>3, <2>4, Zenon DEF old
<1> HIDE DEF both
<1>8. \A i \in 1 .. b.read + n : Pending(r)[i] = both[i]
  <2> SUFFICES ASSUME NEW i \in 1 .. b.read + n PROVE Pending(r)[i] = both[i]
    OBVIOUS
  <2>1. CASE i <= b.read
    BY <1>2, <1>3, <1>5, <1>6, <1>7, <2>1
  <2>2. CASE i > b.read
    <3>1. i \in b.read + 1 .. b.read + n /\ i - b.read \in 1 .. n
      BY <1>2, <2>2
    <3>2. both[i] = new[i - b.read]
      BY <1>2, <1>7, <2>2
    <3>3. Pending(r)[i] = stream[i - b.read]
      BY <1>3, <1>5, <3>1
    <3>4. QED
      BY <1>4, <3>1, <3>2, <3>3
  <2>3. QED
    BY <1>2, <2>1, <2>2
<1>9. Pending(r) = both
  BY <1>5, <1>7, <1>8, SeqEqual
<1>10. QED
  BY <1>9 DEF both, r, new

(***************************************************************************)
(* shc_dropbytes takes bytes from the front and keeps the others in order, *)
(* although it zeroes and copies ranges that overlap.                      *)
(***************************************************************************)
THEOREM DroppingTakesTheFront ==
    ASSUME NEW b \in Buffers, NEW count \in Nat
    PROVE  Pending(DropBytes(b, count)) = SubSeq(Pending(b), count + 1, b.read)
<1> DEFINE d == DropBytes(b, count)
           rest == SubSeq(Pending(b), count + 1, b.read)
<1>1. d \in Buffers
  BY DropBytesType
<1>2. b.read \in Nat /\ MaxData \in Nat /\ b.read <= MaxData
  BY SizesAssumption DEF Buffers
<1>3. Pending(d) \in Seq(Nat) /\ Len(Pending(d)) = d.read
      /\ \A i \in 1 .. d.read : Pending(d)[i] = d.bytes[i]
  BY <1>1, PendingIs
<1>4. Pending(b) \in Seq(Nat) /\ Len(Pending(b)) = b.read
      /\ \A i \in 1 .. b.read : Pending(b)[i] = b.bytes[i]
  BY PendingIs
<1>5. CASE count >= b.read
  <2>1. d.read = 0
    BY <1>5 DEF DropBytes, EmptyBuffer
  <2>2. Pending(d) = << >>
    BY <1>3, <2>1, EmptySeq
  <2>3. rest = << >>
    BY <1>2, <1>5, SubSeqEmpty
  <2>4. QED
    BY <2>2, <2>3
<1>6. CASE count < b.read
  <2>1. d.read = b.read - count
        /\ \A i \in 1 .. b.read - count : d.bytes[i] = b.bytes[i + count]
    <3>1. d = [bytes |-> [i \in 1 .. MaxData |->
                            IF i + count <= MaxData THEN b.bytes[i + count]
                            ELSE IF i > count THEN 0 ELSE b.bytes[i]],
               read |-> b.read - count]
      BY <1>2, <1>6 DEF DropBytes
    <3> HIDE DEF d
    <3>2. \A i \in 1 .. MaxData : i + count <= MaxData => d.bytes[i] = b.bytes[i + count]
      BY <3>1
    <3>3. \A i \in 1 .. b.read - count : i \in 1 .. MaxData /\ i + count <= MaxData
      BY <1>2, <1>6
    <3>4. QED
      BY <3>1, <3>2, <3>3
  <2>2. \A i \in count + 1 .. b.read : Pending(b)[i] \in Nat
    BY <1>2, <1>4, ElementOfSeq
  <2>3. rest \in Seq(Nat) /\ Len(rest) = b.read - count
        /\ \A i \in 1 .. b.read - count : rest[i] = Pending(b)[count + i]
    <3>1. /\ rest \in Seq(Nat)
          /\ Len(rest) = IF count + 1 <= b.read THEN b.read - (count + 1) + 1 ELSE 0
          /\ \A i \in 1 .. b.read - (count + 1) + 1 : rest[i] = Pending(b)[count + 1 + i - 1]
      BY <1>2, <2>2, SubSeqProperties
    <3> HIDE DEF rest
    <3>2. QED
      BY <1>2, <1>6, <3>1
  <2> HIDE DEF d, rest
  <2>4. \A i \in 1 .. b.read - count : Pending(d)[i] = rest[i]
    <3> SUFFICES ASSUME NEW i \in 1 .. b.read - count PROVE Pending(d)[i] = rest[i]
      OBVIOUS
    <3>1. i + count \in 1 .. b.read /\ i + count = count + i
      BY <1>2
    <3>2. QED
      BY <1>3, <1>4, <2>1, <2>3, <3>1
  <2>5. Pending(d) = rest
    BY <1>3, <2>1, <2>3, <2>4, SeqEqual
  <2>6. QED
    BY <2>5 DEF d, rest
<1>7. QED
  BY <1>2, <1>5, <1>6

(* The parser leaves a sound buffer and says sizes that make sense. *)
LEMMA TryParseType ==
    ASSUME NEW b \in Buffers
    PROVE  /\ TryParse(b).err \in Errors
           /\ TryParse(b).cmdlen \in Nat
           /\ TryParse(b).datalen \in Nat
           /\ TryParse(b).buf \in Buffers
<1> DEFINE z == FirstZero(b, 1, b.read)
<1>0. EmptyBuffer \in Buffers
  BY SizesAssumption DEF EmptyBuffer, Buffers
<1>1. b.read \in Nat /\ MaxData \in Nat
  BY SizesAssumption DEF Buffers
<1>2. z = 0 \/ z \in 1 .. b.read
  BY <1>1, FirstZeroFound
<1>3. CASE b.read = 0 \/ z = 0
  BY <1>0, <1>3 DEF TryParse, Parsed, Errors
<1>4. CASE b.read # 0 /\ z # 0 /\ z - 1 > CmdLen
  <2>1. MessageSize(z - 1, 0) \in Nat
    BY <1>1, <1>2, <1>4 DEF MessageSize
  <2>2. TryParse(b) = Parsed("invalidcmd", z - 1, 0, DropBytes(b, MessageSize(z - 1, 0)))
    BY <1>4 DEF TryParse
  <2>3. DropBytes(b, MessageSize(z - 1, 0)) \in Buffers
    BY <2>1, DropBytesType
  <2>4. z - 1 \in Nat
    BY <1>1, <1>2, <1>4
  <2>5. QED
    BY <2>2, <2>3, <2>4 DEF Parsed, Errors
<1>5. CASE b.read # 0 /\ z # 0 /\ ~ (z - 1 > CmdLen)
  <2> DEFINE zd == FirstZero(b, z + 1, MaxData)
  <2>1. TryParse(b) = ParseData(b, z)
    BY <1>5 DEF TryParse
  <2>2. z - 1 \in Nat /\ z + 1 \in Nat
    BY <1>1, <1>2, <1>5
  <2>3. zd = 0 \/ zd \in z + 1 .. MaxData
    BY <1>1, <2>2, FirstZeroFound
  <2> HIDE DEF z, zd
  <2>4. zd # 0 => zd - z - 1 \in Nat
    <3>1. z \in Int
      BY <1>1, <1>2
    <3>2. QED
      BY <1>1, <2>3, <3>1
  <2>5. ParseData(b, z) \in {Parsed("none", z - 1, zd - z - 1, b),
                             Parsed("datatoolong", z - 1, 0, EmptyBuffer),
                             Parsed("keepreading", z - 1, 0, b)}
        /\ (ParseData(b, z) = Parsed("none", z - 1, zd - z - 1, b) => zd # 0)
    BY DEF ParseData, zd, Parsed
  <2>6. QED
    BY <1>0, <2>1, <2>2, <2>4, <2>5 DEF Parsed, Errors
<1>6. QED
  BY <1>3, <1>4, <1>5

-----------------------------------------------------------------------------
(* Types.  TypeOK needs to know that a handler that accepts has somebody   *)
(* to accept, and that what was ready to be read when the event came still *)
(* is, for only this thread reads.                                         *)

ThreadSound ==
    /\ thread.pc = "accept" => backlog # << >>
    /\ thread.pc = "handle" /\ ~ thread.eof => thread.ready <= Len(client[thread.who].stream)

TypeInv == TypeOK /\ ThreadSound

LEMMA NewTypes ==
    /\ EmptyBuffer \in Buffers /\ NoConnection \in Connections
    /\ Idle \in Handlers /\ Away \in Ends
<1>1. EmptyBuffer \in Buffers
  BY SizesAssumption DEF EmptyBuffer, Buffers
<1>2. << >> \in Seq(Nat) /\ << >> \in Seq(Replies)
  OBVIOUS
<1>3. (CHOOSE c \in Clients : TRUE) \in Clients
  BY ScriptsAssumption
<1>4. QED
  BY <1>1, <1>2, <1>3
  DEF NoConnection, Connections, Idle, Handlers, Away, Ends, Replies, Errors

LEMMA InitTypes == Init => TypeInv
<1> SUFFICES ASSUME Init PROVE TypeInv
  OBVIOUS
<1>1. /\ thread \in Handlers /\ conn \in [Clients -> Connections]
      /\ client \in [Clients -> Ends]
  BY NewTypes DEF Init
<1>2. backlog \in Seq(Clients) /\ received \in [Clients -> Seq(Nat)]
  BY DEF Init
<1>3. thread.pc = "none"
  BY DEF Init, Idle
<1>4. QED
  BY <1>1, <1>2, <1>3 DEF Init, TypeInv, TypeOK, ThreadSound

(* The bytes of a command are numbered like the command. *)
LEMMA MessageType ==
    ASSUME NEW c \in Clients, client[c] \in Ends, NEW k \in DOMAIN client[c].script
    PROVE  k \in Nat /\ Message(c, k) \in Seq(Nat)
<1> DEFINE s == client[c].script
           bytes == s[k].bytes
<1>1. s \in Scripts
  BY DEF Ends
<1>2. s \in Seq([bytes : Seq({0, 1}), kind : Kinds])
  BY <1>1, ScriptsAssumption
<1>3. k \in 1 .. Len(s) /\ Len(s) \in Nat
  BY <1>2
<1>4. s[k] \in [bytes : Seq({0, 1}), kind : Kinds]
  BY <1>2, <1>3, ElementOfSeq
<1>5. bytes \in Seq({0, 1})
  BY <1>4
<1> HIDE DEF s
<1>6. DOMAIN bytes = 1 .. Len(bytes) /\ Len(bytes) \in Nat
      /\ \A i \in 1 .. Len(bytes) : bytes[i] \in {0, 1}
  BY <1>5, LenProperties, ElementOfSeq
<1> HIDE DEF bytes
<1>7. Message(c, k) = [i \in 1 .. Len(bytes) |-> k * bytes[i]]
  BY <1>6 DEF Message, s, bytes
<1>8. k \in Nat
  BY <1>3
<1>9. \A i \in 1 .. Len(bytes) : k * bytes[i] \in Nat
  <2> SUFFICES ASSUME NEW i \in 1 .. Len(bytes) PROVE k * bytes[i] \in Nat
    OBVIOUS
  <2>1. bytes[i] = 0 \/ bytes[i] = 1
    BY <1>6
  <2>2. QED
    BY <1>8, <2>1
<1>10. QED
  BY <1>6, <1>7, <1>8, <1>9, IsASeq

(* A client's steps. *)

LEMMA ConnectTypes == ASSUME TypeInv, NEW c \in Clients, Connect(c) PROVE TypeInv'
<1>1. PICK s \in Scripts : client' = [client EXCEPT ![c] = [@ EXCEPT !.pc = "idle", !.script = s]]
  BY DEF Connect
<1> DEFINE e == [client[c] EXCEPT !.pc = "idle", !.script = s]
<1>2. e \in Ends /\ e.stream = client[c].stream
  BY DEF TypeInv, TypeOK, Ends
<1>3. client' = [client EXCEPT ![c] = e] /\ client \in [Clients -> Ends]
  BY <1>1 DEF TypeInv, TypeOK
<1>4. backlog' = Append(backlog, c) /\ UNCHANGED server /\ backlog \in Seq(Clients)
  BY DEF Connect, TypeInv, TypeOK
<1> HIDE DEF e
<1>5. client' \in [Clients -> Ends] /\ \A d \in Clients : client'[d].stream = client[d].stream
  BY <1>2, <1>3
<1>6. backlog' \in Seq(Clients) /\ backlog' # << >>
  BY <1>4, AppendProperties, EmptySeq
<1>7. QED
  BY <1>4, <1>5, <1>6 DEF TypeInv, TypeOK, ThreadSound, server, Handlers

LEMMA SendTypes == ASSUME TypeInv, NEW c \in Clients, Send(c) PROVE TypeInv'
<1> DEFINE k == client[c].sent + 1
           stream == client[c].stream \o Message(c, k)
           e == [client[c] EXCEPT !.pc = "waiting", !.sent = k, !.stream = stream]
<1>1. client[c] \in Ends /\ k \in DOMAIN client[c].script
  BY DEF Send, TypeInv, TypeOK
<1>2. k \in Nat /\ Message(c, k) \in Seq(Nat) /\ client[c].stream \in Seq(Nat)
  BY <1>1, MessageType DEF Ends
<1>3. stream \in Seq(Nat) /\ Len(stream) >= Len(client[c].stream)
  <2> DEFINE a == client[c].stream
             m == Message(c, k)
  <2>1. a \in Seq(Nat) /\ m \in Seq(Nat) /\ stream = a \o m
    BY <1>2
  <2> HIDE DEF a, m, stream
  <2>2. stream \in Seq(Nat) /\ Len(stream) = Len(a) + Len(m)
    BY <2>1, ConcatProperties
  <2>3. Len(a) \in Nat /\ Len(m) \in Nat
    BY <2>1, LenProperties
  <2>4. QED
    BY <2>2, <2>3 DEF a
<1>4. /\ client' = [client EXCEPT ![c] = e] /\ client \in [Clients -> Ends]
      /\ UNCHANGED << server, backlog >>
  BY DEF Send, TypeInv, TypeOK
<1> HIDE DEF k, stream
<1>5. e \in Ends /\ e.stream = stream
  BY <1>1, <1>2, <1>3 DEF Ends
<1> HIDE DEF e
<1>6. /\ client' \in [Clients -> Ends]
      /\ \A d \in Clients : Len(client'[d].stream) >= Len(client[d].stream)
  <2>1. \A d \in Clients : Len(client[d].stream) \in Nat
    BY LenProperties DEF TypeInv, TypeOK, Ends
  <2>2. QED
    BY <1>3, <1>4, <1>5, <2>1
<1>7. thread' = thread /\ thread.who \in Clients /\ thread.ready \in Nat
  BY <1>4 DEF server, TypeInv, TypeOK, Handlers
<1>8. \A d \in Clients : Len(client'[d].stream) \in Nat /\ Len(client[d].stream) \in Nat
  BY <1>6, LenProperties DEF TypeInv, TypeOK, Ends
<1>9. ThreadSound'
  BY <1>4, <1>6, <1>7, <1>8 DEF TypeInv, ThreadSound
<1>10. QED
  BY <1>4, <1>6, <1>9 DEF TypeInv, TypeOK, server

LEMMA ReceiveTypes == ASSUME TypeInv, NEW c \in Clients, Receive(c) PROVE TypeInv'
<1> DEFINE rest == Tail(client[c].inbox)
           answers == Append(client[c].answers, Head(client[c].inbox))
           e == [client[c] EXCEPT !.pc = "idle", !.inbox = rest, !.answers = answers]
<1>1. /\ client[c] \in Ends /\ client[c].inbox \in Seq(Replies)
      /\ client[c].inbox # << >> /\ client[c].answers \in Seq(Replies)
  BY DEF Receive, TypeInv, TypeOK, Ends
<1>2. Head(client[c].inbox) \in Replies /\ rest \in Seq(Replies)
  BY <1>1, HeadTailProperties
<1>3. answers \in Seq(Replies)
  BY <1>1, <1>2, AppendProperties
<1>4. /\ client' = [client EXCEPT ![c] = e] /\ client \in [Clients -> Ends]
      /\ UNCHANGED << server, backlog >>
  BY DEF Receive, TypeInv, TypeOK
<1> HIDE DEF rest, answers
<1>5. e \in Ends /\ e.stream = client[c].stream
  BY <1>1, <1>2, <1>3 DEF Ends
<1> HIDE DEF e
<1>6. client' \in [Clients -> Ends] /\ \A d \in Clients : client'[d].stream = client[d].stream
  BY <1>4, <1>5
<1>7. QED
  BY <1>4, <1>6 DEF TypeInv, TypeOK, ThreadSound, server, Handlers

LEMMA LeaveTypes == ASSUME TypeInv, NEW c \in Clients, Leave(c) PROVE TypeInv'
<1> DEFINE e == [client[c] EXCEPT !.pc = "gone"]
<1>1. /\ client' = [client EXCEPT ![c] = e] /\ client \in [Clients -> Ends]
      /\ UNCHANGED << server, backlog >>
  BY DEF Leave, TypeInv, TypeOK
<1>2. e \in Ends /\ e.stream = client[c].stream
  BY <1>1 DEF Ends
<1> HIDE DEF e
<1>3. client' \in [Clients -> Ends] /\ \A d \in Clients : client'[d].stream = client[d].stream
  BY <1>1, <1>2
<1>4. QED
  BY <1>1, <1>3 DEF TypeInv, TypeOK, ThreadSound, server, Handlers

(* The main thread. *)

LEMMA MainTypes == ASSUME TypeInv, Start \/ Begin \/ Stop \/ Free PROVE TypeInv'
<1>1. CASE Start
  BY <1>1 DEF Start, TypeInv, TypeOK, ThreadSound, Handlers
<1>2. CASE Begin
  BY <1>2 DEF Begin, TypeInv, TypeOK, ThreadSound, Handlers
<1>3. CASE Stop
  BY <1>3 DEF Stop, TypeInv, TypeOK, ThreadSound
<1>4. CASE Free
  BY <1>4, NewTypes, EmptySeq DEF Free, TypeInv, TypeOK, ThreadSound
<1>5. QED
  BY <1>1, <1>2, <1>3, <1>4

(* The handler thread. *)

LEMMA WakeTypes == ASSUME TypeInv, Wake PROVE TypeInv'
<1>1. thread \in Handlers /\ client \in [Clients -> Ends]
  BY DEF TypeInv, TypeOK
<1>2. UNCHANGED << main, state, shutdown, backlog, conn, client, received >>
  BY DEF Wake
<1>3. CASE /\ listener = "armed" /\ backlog # << >>
           /\ listener' = "disabled"
           /\ thread' = [thread EXCEPT !.pc = "accept", !.used = TRUE]
           /\ UNCHANGED watch
  BY <1>1, <1>2, <1>3 DEF TypeInv, TypeOK, ThreadSound, Handlers
<1>4. ASSUME NEW c \in Clients,
             watch' = [watch EXCEPT ![c] = "disabled"],
             thread' = [thread EXCEPT !.pc = "handle", !.used = TRUE, !.who = c,
                                      !.ready = Len(client[c].stream),
                                      !.eof = (client[c].pc = "gone")],
             UNCHANGED listener
      PROVE  TypeInv'
  <2>1. Len(client[c].stream) \in Nat
    BY <1>1, LenProperties DEF Ends
  <2> DEFINE gone == (client[c].pc = "gone")
  <2>2. gone \in BOOLEAN
    OBVIOUS
  <2>3. thread' = [thread EXCEPT !.pc = "handle", !.used = TRUE, !.who = c,
                                 !.ready = Len(client[c].stream), !.eof = gone]
    BY <1>4
  <2> HIDE DEF gone
  <2>4. thread' \in Handlers /\ thread'.pc = "handle"
        /\ thread'.ready = Len(client[c].stream) /\ thread'.who = c
    BY <1>1, <2>1, <2>2, <2>3 DEF Handlers
  <2>5. QED
    BY <1>2, <1>4, <2>1, <2>4 DEF TypeInv, TypeOK, ThreadSound
<1>5. QED
  BY <1>3, <1>4 DEF Wake

LEMMA ShutDownTypes == ASSUME TypeInv, ShutDown PROVE TypeInv'
<1>1. main' \in {main, "dead"}
  BY DEF ShutDown
<1>2. QED
  BY <1>1 DEF ShutDown, TypeInv, TypeOK, ThreadSound, Handlers

LEMMA AcceptTypes == ASSUME TypeInv, Accept PROVE TypeInv'
<1> DEFINE c == Head(backlog)
           new == [NoConnection EXCEPT !.open = TRUE]
<1>1. backlog \in Seq(Clients) /\ backlog # << >>
  BY DEF Accept, At, TypeInv, TypeOK, ThreadSound
<1>2. c \in Clients /\ Tail(backlog) \in Seq(Clients)
  BY <1>1, HeadTailProperties
<1>3. new \in Connections
  BY NewTypes DEF Connections
<1>4. /\ backlog' = Tail(backlog) /\ conn' = [conn EXCEPT ![c] = new]
      /\ watch' = [watch EXCEPT ![c] = "armed"]
      /\ thread' = [thread EXCEPT !.pc = "wait"]
      /\ UNCHANGED << main, state, shutdown, listener, client, received >>
  BY DEF Accept
<1> HIDE DEF c, new
<1>5. QED
  BY <1>2, <1>3, <1>4 DEF TypeInv, TypeOK, ThreadSound, Handlers

LEMMA DisconnectTypes == ASSUME TypeInv, Disconnect PROVE TypeInv'
<1>1. main' \in {main, "dead"}
  BY DEF Disconnect
<1>2. QED
  BY <1>1, NewTypes DEF Disconnect, TypeInv, TypeOK, ThreadSound, Handlers

LEMMA ReadAndParseTypes == ASSUME TypeInv, ReadAndParse PROVE TypeInv'
<1> DEFINE c == thread.who
           n == Room(conn[c].buf, thread.ready)
           stream == client[c].stream
           p == TryParse(ReadData(conn[c].buf, n, stream))
           rest == SubSeq(stream, n + 1, Len(stream))
           cn == [conn[c] EXCEPT !.buf = p.buf]
           e == [client[c] EXCEPT !.stream = rest]
           pc == IF p.err = "keepreading" THEN "wait"
                 ELSE IF p.err = "none" THEN "call" ELSE "error"
           parsed == [err |-> p.err, cmdlen |-> p.cmdlen, datalen |-> p.datalen]
<1>1. /\ thread \in Handlers /\ c \in Clients /\ conn[c] \in Connections
      /\ client[c] \in Ends /\ watch \in [Clients -> {"none", "armed", "disabled"}]
  BY DEF TypeInv, TypeOK, Handlers
<1>2. conn[c].buf \in Buffers /\ stream \in Seq(Nat) /\ thread.ready \in Nat
      /\ thread.ready <= Len(stream)
  BY <1>1 DEF ReadAndParse, At, TypeInv, ThreadSound, Connections, Ends, Handlers
<1>3. n \in Nat /\ n <= Len(stream) /\ n <= MaxData - conn[c].buf.read
  <2>1. n \in 0 .. (MaxData - conn[c].buf.read) /\ n <= thread.ready
    BY <1>2, RoomIsLeft
  <2>2. MaxData \in Nat /\ conn[c].buf.read \in Nat
    BY <1>2, SizesAssumption DEF Buffers
  <2>3. Len(stream) \in Nat
    BY <1>2, LenProperties
  <2> HIDE DEF n, stream
  <2>4. QED
    BY <1>2, <2>1, <2>2, <2>3
<1>4. ReadData(conn[c].buf, n, stream) \in Buffers
  BY <1>2, <1>3, ReadDataType
<1>5. p.err \in Errors /\ p.cmdlen \in Nat /\ p.datalen \in Nat /\ p.buf \in Buffers
  BY <1>4, TryParseType
<1>6. rest \in Seq(Nat)
  <2>1. Len(stream) \in Nat /\ \A i \in 1 .. Len(stream) : stream[i] \in Nat
    BY <1>2, LenProperties, ElementOfSeq
  <2>2. n + 1 \in Int /\ Len(stream) \in Int
        /\ \A i \in n + 1 .. Len(stream) : stream[i] \in Nat
    BY <1>3, <2>1
  <2> HIDE DEF n, stream
  <2>3. QED
    BY <2>2, SubSeqProperties
<1>7. /\ client' = [client EXCEPT ![c] = e]
      /\ conn' = [conn EXCEPT ![c] = cn]
      /\ thread' = [thread EXCEPT !.pc = pc, !.parsed = parsed]
      /\ watch' = (IF p.err = "keepreading" THEN [watch EXCEPT ![c] = "armed"] ELSE watch)
      /\ UNCHANGED << main, state, shutdown, listener, backlog, received >>
  BY DEF ReadAndParse, Rearmed
<1> HIDE DEF n, stream, p, rest
<1>8. cn \in Connections /\ e \in Ends
      /\ parsed \in [err : Errors, cmdlen : Nat, datalen : Nat]
      /\ pc \in {"wait", "call", "error"}
  BY <1>1, <1>5, <1>6 DEF Connections, Ends
<1> HIDE DEF cn, e, pc, parsed
<1>9. thread' \in Handlers /\ thread'.pc \in {"wait", "call", "error"}
  BY <1>1, <1>7, <1>8 DEF Handlers
<1> HIDE DEF c
<1>10. watch' \in [Clients -> {"none", "armed", "disabled"}]
  BY <1>1, <1>7
<1>11. client' \in [Clients -> Ends] /\ conn' \in [Clients -> Connections]
  BY <1>1, <1>7, <1>8 DEF TypeInv, TypeOK
<1>12. QED
  BY <1>7, <1>9, <1>10, <1>11 DEF TypeInv, TypeOK, ThreadSound

LEMMA WriteTypes ==
    ASSUME TypeInv, NEW c \in Clients, NEW reply \in Replies, Write(c, reply)
    PROVE  main' \in {main, "dead"} /\ client' \in [Clients -> Ends]
<1>1. CASE client[c].pc = "gone"
  BY <1>1 DEF Write, TypeInv, TypeOK
<1>2. CASE client[c].pc # "gone"
  <2> DEFINE inbox == Append(client[c].inbox, reply)
             e == [client[c] EXCEPT !.inbox = inbox]
  <2>1. client[c] \in Ends /\ inbox \in Seq(Replies)
    BY AppendProperties DEF TypeInv, TypeOK, Ends
  <2>2. client' = [client EXCEPT ![c] = e] /\ main' = main
    BY <1>2 DEF Write
  <2> HIDE DEF inbox
  <2>3. e \in Ends
    BY <2>1 DEF Ends
  <2> HIDE DEF e
  <2>4. QED
    BY <2>2, <2>3 DEF TypeInv, TypeOK
<1>3. QED
  BY <1>1, <1>2

LEMMA ReplyErrorTypes == ASSUME TypeInv, ReplyError PROVE TypeInv'
<1> DEFINE reply == [kind |-> "error", to |-> client[thread.who].sent]
<1>1. thread \in Handlers /\ thread.who \in Clients /\ reply \in Replies
  BY DEF TypeInv, TypeOK, Handlers, Ends, Replies
<1>2. Write(thread.who, reply)
  BY DEF ReplyError
<1> HIDE DEF reply
<1>3. main' \in {main, "dead"} /\ client' \in [Clients -> Ends]
  BY <1>1, <1>2, WriteTypes
<1>4. thread' \in Handlers /\ thread'.pc = "call"
  BY <1>1 DEF ReplyError, Handlers
<1>5. QED
  BY <1>3, <1>4 DEF ReplyError, TypeInv, TypeOK, ThreadSound

LEMMA CallListenersTypes == ASSUME TypeInv, CallListeners PROVE TypeInv'
<1> DEFINE c == thread.who
           k == Command(c)
           kind == IF k = 0 THEN "plain" ELSE client[c].script[k].kind
<1>1. thread \in Handlers /\ c \in Clients /\ conn[c] \in Connections /\ client[c] \in Ends
  BY DEF TypeInv, TypeOK, Handlers
<1>2. k \in Nat
  <2>1. client[c].sent \in Nat
    BY <1>1 DEF Ends
  <2>2. QED
    BY <2>1 DEF Command
<1>3. PICK o \in Outcomes(kind) :
        /\ thread' = [thread EXCEPT !.pc = "reply", !.result = [kind |-> o.result, to |-> k]]
        /\ conn' = [conn EXCEPT ![c] = IF o.adds = "data" THEN AddData(@, k)
                                       ELSE IF o.adds = "short" THEN AddShortReply(@, k)
                                       ELSE @]
  BY DEF CallListeners
<1>4. /\ received' = [received EXCEPT ![c] = Append(@, k)]
      /\ UNCHANGED << main, state, shutdown, listener, backlog, watch, client >>
  BY DEF CallListeners
<1> HIDE DEF k, kind
<1>5. o.result \in {"ok", "nok"}
  BY <1>3 DEF Outcomes
<1>6. thread' \in Handlers /\ thread'.pc = "reply"
  BY <1>1, <1>2, <1>3, <1>5 DEF Handlers, Replies
<1>7. AddData(conn[c], k) \in Connections /\ AddShortReply(conn[c], k) \in Connections
  <2>1. conn[c].stc \in Seq(Nat)
    BY <1>1 DEF Connections
  <2>2. Append(conn[c].stc, k) \in Seq(Nat)
    BY <1>2, <2>1, AppendProperties
  <2>3. QED
    BY <1>1, <1>2, <2>2 DEF AddData, AddShortReply, Connections
<1>8. conn' \in [Clients -> Connections]
  BY <1>1, <1>3, <1>7 DEF TypeInv, TypeOK
<1>9. received' \in [Clients -> Seq(Nat)]
  BY <1>1, <1>2, <1>4, AppendProperties DEF TypeInv, TypeOK
<1>10. QED
  BY <1>4, <1>6, <1>8, <1>9 DEF TypeInv, TypeOK, ThreadSound

LEMMA ReplyTypes == ASSUME TypeInv, Reply PROVE TypeInv'
<1> DEFINE c == thread.who
           size == MessageSize(thread.parsed.cmdlen, thread.parsed.datalen)
           buf == DropBytes(conn[c].buf, size)
           cn == [conn[c] EXCEPT !.buf = buf]
<1>1. thread \in Handlers /\ c \in Clients /\ conn[c] \in Connections
  BY DEF TypeInv, TypeOK, Handlers
<1>2. Answer(c) \in Replies
  <2>1. Collected(conn[c]) \in Replies
    <3>1. CASE Len(conn[c].stc) = 1
      <4>1. conn[c].stc \in Seq(Nat)
        BY <1>1 DEF Connections
      <4>2. conn[c].stc[1] \in Nat
        BY <3>1, <4>1, ElementOfSeq
      <4>3. QED
        BY <3>1, <4>2 DEF Collected, Replies
    <3>2. CASE Len(conn[c].stc) # 1
      BY <3>2 DEF Collected, Replies
    <3>3. QED
      BY <3>1, <3>2
  <2>2. [kind |-> "short", to |-> conn[c].short_reply] \in Replies /\ thread.result \in Replies
    BY <1>1 DEF Connections, Handlers, Replies
  <2>3. QED
    BY <2>1, <2>2 DEF Answer
<1>3. main' \in {main, "dead"} /\ client' \in [Clients -> Ends]
  BY <1>1, <1>2, WriteTypes DEF Reply
<1>4. size \in Nat /\ conn[c].buf \in Buffers
  BY <1>1 DEF MessageSize, Handlers, Connections
<1>5. buf \in Buffers
  BY <1>4, DropBytesType
<1>6. /\ conn' = [conn EXCEPT ![c] = cn]
      /\ watch' = [watch EXCEPT ![c] = "armed"]
      /\ thread' = [thread EXCEPT !.pc = "wait"]
      /\ UNCHANGED << state, shutdown, listener, backlog, received >>
  BY DEF Reply, Rearmed
<1> HIDE DEF size, buf
<1>7. cn \in Connections
  BY <1>1, <1>5 DEF Connections
<1> HIDE DEF cn
<1>8. thread' \in Handlers /\ thread'.pc = "wait"
  BY <1>1, <1>6 DEF Handlers
<1>9. QED
  BY <1>1, <1>3, <1>6, <1>7, <1>8 DEF TypeInv, TypeOK, ThreadSound

LEMMA TypesInductive == ASSUME TypeInv, [Next]_vars PROVE TypeInv'
<1>1. CASE Thread
  BY <1>1, MainTypes, WakeTypes, ShutDownTypes, AcceptTypes, DisconnectTypes,
     ReadAndParseTypes, ReplyErrorTypes, CallListenersTypes, ReplyTypes DEF Thread
<1>2. CASE Start \/ Stop \/ Free
  BY <1>2, MainTypes
<1>3. CASE \E c \in Clients : Connect(c) \/ Send(c) \/ Receive(c) \/ Leave(c)
  BY <1>3, ConnectTypes, SendTypes, ReceiveTypes, LeaveTypes
<1>4. CASE UNCHANGED vars
  BY <1>4 DEF vars, server, TypeInv, TypeOK, ThreadSound
<1>5. QED
  BY <1>1, <1>2, <1>3, <1>4 DEF Next

(***************************************************************************)
(* The buffers never overflow, and nothing else in the server or in what   *)
(* it exchanges with its clients goes out of shape: sh_read_data and       *)
(* shc_dropbytes agree on bytes_read.                                      *)
(***************************************************************************)
THEOREM TypesHold == Spec => []TypeOK
<1>1. TypeInv => TypeOK
  BY DEF TypeInv
<1>2. QED
  BY <1>1, InitTypes, TypesInductive, PTL DEF Spec

-----------------------------------------------------------------------------
(* Events. *)

(* There is no thread before sh_start. *)
NotStarted == main = "new" => thread.pc = "none"

LEMMA NotStartedInductive == ASSUME NotStarted, [Next]_vars PROVE NotStarted'
<1>1. CASE Thread
  BY <1>1 DEF Thread, NotStarted, Begin, Wake, ShutDown, Accept, Disconnect, ReadAndParse,
     ReplyError, CallListeners, Reply, Write, At
<1>2. CASE Start \/ Stop \/ Free
  BY <1>2 DEF Start, Stop, Free, NotStarted
<1>3. CASE \E c \in Clients : Connect(c) \/ Send(c) \/ Receive(c) \/ Leave(c)
  BY <1>3 DEF Connect, Send, Receive, Leave, server, NotStarted
<1>4. CASE UNCHANGED vars
  BY <1>4 DEF vars, server, NotStarted
<1>5. QED
  BY <1>1, <1>2, <1>3, <1>4 DEF Next

LEMMA EventsInductive ==
    ASSUME TypeInv, NotStarted, EventNotLost, [Next]_vars
    PROVE  EventNotLost'
<1> USE DEF EventNotLost
<1> DEFINE Handled(c) == thread.who = c /\ thread.pc \in {"handle", "error", "call", "reply"}
<1>0. /\ thread \in Handlers /\ thread.who \in Clients
      /\ watch \in [Clients -> {"none", "armed", "disabled"}]
      /\ conn \in [Clients -> Connections]
  BY DEF TypeInv, TypeOK, Handlers
<1>1. CASE Start \/ Begin \/ Stop \/ ShutDown
  BY <1>0, <1>1 DEF Start, Begin, Stop, ShutDown, At, Handlers, NotStarted
<1>2. CASE Free
  BY <1>2 DEF Free, NoConnection
<1>3. CASE Wake
  <2>1. thread.pc = "wait" /\ conn' = conn
    BY <1>3 DEF Wake, At
  <2>2. CASE watch' = watch
    BY <1>0, <2>1, <2>2
  <2>3. ASSUME NEW c \in Clients, watch' = [watch EXCEPT ![c] = "disabled"],
               thread'.pc = "handle", thread'.who = c
        PROVE  EventNotLost'
    BY <1>0, <2>1, <2>3
  <2>4. QED
    BY <1>0, <1>3, <2>2, <2>3 DEF Wake, Handlers
<1>4. CASE Accept
  <2>1. Head(backlog) \in Clients
    BY <1>4, HeadTailProperties DEF Accept, At, TypeInv, TypeOK, ThreadSound
  <2>2. QED
    BY <1>0, <1>4, <2>1 DEF Accept, At, Handlers
<1>5. CASE Disconnect
  BY <1>0, <1>5 DEF Disconnect, At, Handlers, NoConnection
<1>6. CASE ReadAndParse
  <2> DEFINE p == TryParse(ReadData(conn[thread.who].buf, Room(conn[thread.who].buf, thread.ready),
                                    client[thread.who].stream))
             cn == [conn[thread.who] EXCEPT !.buf = p.buf]
  <2>1. /\ conn' = [conn EXCEPT ![thread.who] = cn]
        /\ thread.pc = "handle" /\ thread'.who = thread.who
        /\ \/ watch' = [watch EXCEPT ![thread.who] = "armed"]
           \/ watch' = watch /\ thread'.pc \in {"call", "error"}
    BY <1>0, <1>6 DEF ReadAndParse, At, Handlers, Rearmed
  <2>2. cn.open = conn[thread.who].open
    BY <1>0 DEF Connections
  <2> HIDE DEF cn
  <2>3. \A d \in Clients : conn'[d].open = conn[d].open
    BY <1>0, <2>1, <2>2
  <2>4. QED
    BY <1>0, <2>1, <2>3
<1>7. CASE ReplyError
  BY <1>0, <1>7 DEF ReplyError, At, Handlers
<1>8. CASE CallListeners
  <2> DEFINE k == Command(thread.who)
  <2>1. /\ thread'.who = thread.who /\ thread'.pc = "reply" /\ thread.pc = "call"
        /\ watch' = watch
    BY <1>0, <1>8 DEF CallListeners, At, Handlers
  <2>2. PICK cn \in {AddData(conn[thread.who], k), AddShortReply(conn[thread.who], k),
                     conn[thread.who]} : conn' = [conn EXCEPT ![thread.who] = cn]
    BY <1>8 DEF CallListeners
  <2>3. cn.open = conn[thread.who].open
    BY <1>0, <2>2 DEF AddData, AddShortReply, Connections
  <2>4. \A d \in Clients : conn'[d].open = conn[d].open
    BY <1>0, <2>2, <2>3
  <2>5. QED
    BY <1>0, <2>1, <2>4
<1>9. CASE Reply
  BY <1>0, <1>9 DEF Reply, At, Handlers, Rearmed, Connections
<1>10. CASE \E c \in Clients : Connect(c) \/ Send(c) \/ Receive(c) \/ Leave(c)
  BY <1>10 DEF Connect, Send, Receive, Leave, server
<1>11. CASE UNCHANGED vars
  BY <1>11 DEF vars, server
<1>12. QED
  BY <1>1, <1>2, <1>3, <1>4, <1>5, <1>6, <1>7, <1>8, <1>9, <1>10, <1>11 DEF Next, Thread

(***************************************************************************)
(* Whatever sh_accept_handler_thread does with an event, the connection it *)
(* belongs to can wake the server again.                                   *)
(***************************************************************************)
THEOREM NoEventIsLost == Spec => []EventNotLost
<1>1. Init => EventNotLost /\ NotStarted
  BY DEF Init, EventNotLost, NotStarted, NoConnection, Idle
<1>2. QED
  BY <1>1, InitTypes, TypesInductive, NotStartedInductive, EventsInductive, PTL DEF Spec

-----------------------------------------------------------------------------
(* What the parser makes of the commands that clients send. *)

LEMMA NoZero ==
    ASSUME NEW b, NEW from \in Nat, NEW to \in Nat,
           \A i \in from .. to : b.bytes[i] # 0
    PROVE  FirstZero(b, from, to) = 0
BY FirstZeroFound

(* sh_read_data into an empty buffer. *)
LEMMA ReadingFills ==
    ASSUME NEW m \in Seq(Nat), NEW n, n = Room(EmptyBuffer, Len(m)),
           NEW b, b = ReadData(EmptyBuffer, n, m)
    PROVE  /\ n \in Nat /\ n <= Len(m) /\ n <= MaxData /\ (n = MaxData \/ n = Len(m))
           /\ b \in Buffers /\ b.read = n
           /\ \A i \in 1 .. MaxData : b.bytes[i] = IF i <= n THEN m[i] ELSE 0
<1>1. MaxData \in Nat /\ Len(m) \in Nat /\ EmptyBuffer.read = 0 /\ EmptyBuffer \in Buffers
  BY SizesAssumption, NewTypes, LenProperties DEF EmptyBuffer
<1>2. n \in Nat /\ n <= Len(m) /\ n <= MaxData /\ (n = MaxData \/ n = Len(m))
  BY <1>1 DEF Room
<1>3. b \in Buffers
  BY <1>1, <1>2, ReadDataType
<1>4. b = [bytes |-> [i \in 1 .. MaxData |-> IF i \in 1 .. n THEN m[i] ELSE 0], read |-> n]
  <2>1. b = [bytes |-> [i \in 1 .. MaxData |-> IF i \in 0 + 1 .. 0 + n THEN m[i - 0]
                                               ELSE EmptyBuffer.bytes[i]], read |-> 0 + n]
    BY <1>1 DEF ReadData
  <2>2. \A i \in 1 .. MaxData : EmptyBuffer.bytes[i] = 0 /\ i - 0 = i
    BY DEF EmptyBuffer
  <2>3. 0 + 1 = 1 /\ 0 + n = n
    BY <1>2
  <2>4. QED
    BY <2>1, <2>2, <2>3
<1>5. QED
  BY <1>2, <1>3, <1>4

(* The bytes of a command, numbered. *)
Numbered(bytes, k) == [i \in DOMAIN bytes |-> k * bytes[i]]

LEMMA NumberedIs ==
    ASSUME NEW bytes \in Seq({0, 1}), NEW k \in Nat
    PROVE  /\ Numbered(bytes, k) \in Seq(Nat) /\ Len(Numbered(bytes, k)) = Len(bytes)
           /\ Len(bytes) \in Nat /\ DOMAIN bytes = 1 .. Len(bytes)
           /\ \A i \in 1 .. Len(bytes) : /\ bytes[i] \in {0, 1}
                                         /\ Numbered(bytes, k)[i] = k * bytes[i]
                                         /\ Numbered(bytes, k)[i] \in {0, k}
                                         /\ (bytes[i] = 0 => Numbered(bytes, k)[i] = 0)
                                         /\ (bytes[i] = 1 => Numbered(bytes, k)[i] = k)
<1> DEFINE m == Numbered(bytes, k)
<1>1. DOMAIN bytes = 1 .. Len(bytes) /\ Len(bytes) \in Nat
      /\ \A i \in 1 .. Len(bytes) : bytes[i] \in {0, 1}
  BY LenProperties, ElementOfSeq
<1>2. m = [i \in 1 .. Len(bytes) |-> k * bytes[i]]
  BY <1>1 DEF Numbered
<1>3. \A i \in 1 .. Len(bytes) : (bytes[i] = 0 => k * bytes[i] = 0) /\ (bytes[i] = 1 => k * bytes[i] = k)
  OBVIOUS
<1>4. \A i \in 1 .. Len(bytes) : k * bytes[i] \in Nat /\ k * bytes[i] \in {0, k}
  BY <1>1, <1>3
<1>5. m \in Seq(Nat) /\ Len(m) = Len(bytes)
  BY <1>1, <1>2, <1>4, IsASeq
<1>6. QED
  BY <1>1, <1>2, <1>3, <1>4, <1>5

(* memchr finds the end of a name that was read. *)
LEMMA NameIsFound ==
    ASSUME NEW bytes \in Seq({0, 1}), NEW k \in Nat, k > 0,
           NEW m, m = Numbered(bytes, k), NEW n, n = Room(EmptyBuffer, Len(m)),
           NEW b, b = ReadData(EmptyBuffer, n, m), NEW z \in Nat, NameEnds(bytes, z), z <= n
    PROVE  FirstZero(b, 1, b.read) = z /\ z \in 1 .. n
<1>2. /\ m \in Seq(Nat) /\ Len(m) = Len(bytes) /\ Len(bytes) \in Nat
      /\ DOMAIN bytes = 1 .. Len(bytes)
      /\ \A i \in 1 .. Len(bytes) : /\ bytes[i] \in {0, 1}
                                    /\ (bytes[i] = 0 => m[i] = 0)
                                    /\ (bytes[i] = 1 => m[i] = k)
  BY NumberedIs
<1>3. MaxData \in Nat
  BY SizesAssumption
<1>4. /\ n \in Nat /\ n <= Len(m) /\ n <= MaxData /\ b.read = n
      /\ \A i \in 1 .. MaxData : b.bytes[i] = IF i <= n THEN m[i] ELSE 0
  BY <1>2, ReadingFills
<1>5. z \in 1 .. n /\ z \in 1 .. MaxData /\ z \in 1 .. Len(bytes)
  BY <1>2, <1>3, <1>4 DEF NameEnds
<1>6. b.bytes[z] = 0 /\ \A i \in 1 .. z - 1 : b.bytes[i] # 0
  <2>1. b.bytes[z] = 0
    BY <1>2, <1>4, <1>5 DEF NameEnds
  <2>2. \A i \in 1 .. z - 1 : i \in 1 .. MaxData /\ i <= n /\ bytes[i] = 1 /\ i \in 1 .. Len(bytes)
    BY <1>3, <1>4, <1>5 DEF NameEnds
  <2>3. QED
    BY <1>2, <1>4, <2>1, <2>2
<1> DEFINE f == FirstZero(b, 1, n)
<1>7. f \in 1 .. n /\ b.bytes[f] = 0 /\ \A i \in 1 .. n : b.bytes[i] = 0 => f <= i
  <2>1. 1 \in Nat /\ n \in Nat /\ \E i \in 1 .. n : b.bytes[i] = 0
    BY <1>4, <1>5, <1>6
  <2>2. f = FirstZero(b, 1, n)
    OBVIOUS
  <2> HIDE DEF f
  <2>3. QED
    BY <2>1, <2>2, FirstZeroIs
<1> HIDE DEF f
<1>8. f <= z /\ ~ (f <= z - 1)
  BY <1>5, <1>6, <1>7
<1>9. QED
  BY <1>4, <1>5, <1>7, <1>8 DEF f

(* A command that fits is found, whole. *)
LEMMA ReadableParses ==
    ASSUME NEW bytes \in Seq({0, 1}), Readable(bytes), NEW k \in Nat, k > 0,
           NEW m, m = Numbered(bytes, k), NEW n, n = Room(EmptyBuffer, Len(m)),
           NEW b, b = ReadData(EmptyBuffer, n, m), NEW p, p = TryParse(b)
    PROVE  /\ n = Len(m) /\ Len(m) # 0 /\ p.err = "none" /\ p.buf = b /\ Pending(b) = m
           /\ Whole(bytes) => MessageSize(p.cmdlen, p.datalen) >= b.read
<1>1. PICK z \in 2 .. CmdLen + 1 :
        /\ NameEnds(bytes, z)
        /\ Len(bytes) < MaxData \/ \E i \in z + 1 .. Len(bytes) : bytes[i] = 0
  BY DEF Readable
<1>2. /\ m \in Seq(Nat) /\ Len(m) = Len(bytes) /\ Len(bytes) \in Nat
      /\ DOMAIN bytes = 1 .. Len(bytes)
      /\ \A i \in 1 .. Len(bytes) : /\ bytes[i] \in {0, 1}
                                    /\ (bytes[i] = 0 => m[i] = 0)
                                    /\ (bytes[i] = 1 => m[i] = k)
  BY NumberedIs
<1>3. MaxData \in Nat /\ CmdLen \in Nat /\ Len(bytes) <= MaxData
  BY SizesAssumption DEF Readable
<1>4. /\ n \in Nat /\ n <= Len(m) /\ (n = MaxData \/ n = Len(m))
      /\ b \in Buffers /\ b.read = n
      /\ \A i \in 1 .. MaxData : b.bytes[i] = IF i <= n THEN m[i] ELSE 0
  BY <1>2, ReadingFills
<1>5. n = Len(m) /\ n = Len(bytes)
  BY <1>2, <1>3, <1>4
<1>6. z \in 1 .. n /\ z \in 1 .. MaxData /\ z - 1 <= CmdLen /\ z \in Nat /\ z > 1 /\ b.read > 0
  BY <1>1, <1>2, <1>3, <1>4, <1>5 DEF NameEnds
<1>8. FirstZero(b, 1, b.read) = z
  BY <1>1, <1>6, NameIsFound
<1>9. p = ParseData(b, z)
  BY <1>3, <1>6, <1>8 DEF TryParse
<1> DEFINE zd == FirstZero(b, z + 1, MaxData)
<1>10. \E i \in z + 1 .. MaxData : b.bytes[i] = 0
  <2>1. CASE Len(bytes) < MaxData
    <3>1. MaxData \in z + 1 .. MaxData /\ MaxData > n /\ MaxData \in 1 .. MaxData
      BY <1>3, <1>5, <1>6, <2>1
    <3>2. b.bytes[MaxData] = 0
      BY <1>3, <1>4, <3>1
    <3>3. QED
      BY <3>1, <3>2
  <2>2. ASSUME NEW i \in z + 1 .. Len(bytes), bytes[i] = 0
        PROVE  \E j \in z + 1 .. MaxData : b.bytes[j] = 0
    <3>1. i \in z + 1 .. MaxData /\ i \in 1 .. MaxData /\ i <= n /\ i \in 1 .. Len(bytes)
      BY <1>2, <1>3, <1>5, <1>6
    <3>2. b.bytes[i] = 0
      BY <1>2, <1>4, <2>2, <3>1
    <3>3. QED
      BY <3>1, <3>2
  <2>3. QED
    BY <1>1, <2>1, <2>2
<1>11. zd \in z + 1 .. MaxData /\ b.bytes[zd] = 0
       /\ \A i \in z + 1 .. MaxData : b.bytes[i] = 0 => zd <= i
  <2>1. z + 1 \in Nat /\ MaxData \in Nat
    BY <1>3, <1>6
  <2>2. QED
    BY <1>10, <2>1, FirstZeroFound
<1> HIDE DEF zd
<1>12. zd # 0 /\ p = Parsed("none", z - 1, zd - z - 1, b)
  BY <1>6, <1>9, <1>11 DEF ParseData, zd
<1>13. Pending(b) = m
  <2>1. Pending(b) \in Seq(Nat) /\ Len(Pending(b)) = n
        /\ \A i \in 1 .. n : Pending(b)[i] = b.bytes[i]
    BY <1>4, PendingIs
  <2>2. \A i \in 1 .. n : Pending(b)[i] = m[i]
    BY <1>3, <1>4, <1>5, <2>1
  <2>3. QED
    BY <1>2, <1>5, <2>1, <2>2, SeqEqual
<1>14. ASSUME Whole(bytes) PROVE MessageSize(p.cmdlen, p.datalen) >= b.read
  <2>1. \A i \in z + 1 .. Len(bytes) - 1 : bytes[i] = 1
    BY <1>1, <1>14 DEF Whole, NameEnds
  <2>2. \A i \in z + 1 .. Len(bytes) - 1 : b.bytes[i] # 0
    <3>1. \A i \in z + 1 .. Len(bytes) - 1 : i \in 1 .. Len(bytes) /\ i \in 1 .. MaxData /\ i <= n
      BY <1>2, <1>3, <1>5, <1>6
    <3>2. \A i \in z + 1 .. Len(bytes) - 1 : b.bytes[i] = m[i] /\ m[i] = k
      BY <1>2, <1>4, <2>1, <3>1
    <3>3. QED
      BY <3>2
  <2>3. ~ (zd <= Len(bytes) - 1)
    BY <1>2, <1>3, <1>6, <1>11, <2>2
  <2>4. MessageSize(p.cmdlen, p.datalen) = z - 1 + (zd - z - 1) + 2
    BY <1>12 DEF Parsed, MessageSize
  <2>5. QED
    BY <1>2, <1>3, <1>4, <1>5, <1>6, <1>11, <2>3, <2>4
<1>15. QED
  BY <1>2, <1>4, <1>5, <1>6, <1>12, <1>13, <1>14 DEF Parsed

(* The bytes in a buffer are zero or a given number. *)
BytesIn(b, k) == \A i \in 1 .. MaxData : b.bytes[i] \in {0, k}

LEMMA DroppingKeepsBytes ==
    ASSUME NEW b \in Buffers, NEW k, BytesIn(b, k), NEW count \in Nat
    PROVE  BytesIn(DropBytes(b, count), k)
<1>1. CASE count >= b.read
  BY <1>1 DEF DropBytes, EmptyBuffer, BytesIn
<1>2. CASE ~ (count >= b.read)
  <2> DEFINE d == DropBytes(b, count)
  <2>1. d = [bytes |-> [i \in 1 .. MaxData |->
                          IF i + count <= MaxData THEN b.bytes[i + count]
                          ELSE IF i > count THEN 0 ELSE b.bytes[i]],
             read |-> b.read - count]
    BY <1>2 DEF DropBytes
  <2> HIDE DEF d
  <2>2. \A i \in 1 .. MaxData : d.bytes[i] = IF i + count <= MaxData THEN b.bytes[i + count]
                                            ELSE IF i > count THEN 0 ELSE b.bytes[i]
    BY <2>1
  <2>3. \A i \in 1 .. MaxData : i + count <= MaxData => i + count \in 1 .. MaxData
    BY SizesAssumption
  <2>4. \A i \in 1 .. MaxData : d.bytes[i] \in {0, k}
    BY <2>2, <2>3 DEF BytesIn
  <2>5. QED
    BY <2>4 DEF BytesIn, d
<1>3. QED
  BY <1>1, <1>2

LEMMA ReadingKeepsBytes ==
    ASSUME NEW b \in Buffers, NEW k, BytesIn(b, k), NEW stream \in Seq(Nat), NEW n \in Nat,
           n <= Len(stream), \A i \in 1 .. Len(stream) : stream[i] \in {0, k}
    PROVE  BytesIn(ReadData(b, n, stream), k)
<1>1. b.read \in Nat /\ Len(stream) \in Nat
  BY SizesAssumption, LenProperties DEF Buffers
<1>2. \A i \in b.read + 1 .. b.read + n : i - b.read \in 1 .. Len(stream)
  BY <1>1
<1>3. \A i \in b.read + 1 .. b.read + n : stream[i - b.read] \in {0, k}
  BY <1>2
<1>4. QED
  BY <1>3 DEF ReadData, BytesIn

LEMMA ParsingKeepsBytes ==
    ASSUME NEW b \in Buffers, NEW k, BytesIn(b, k)
    PROVE  BytesIn(TryParse(b).buf, k)
<1> DEFINE z == FirstZero(b, 1, b.read)
<1>1. b.read \in Nat /\ (z = 0 \/ z \in 1 .. b.read)
  BY SizesAssumption, FirstZeroFound DEF Buffers
<1>2. BytesIn(EmptyBuffer, k)
  BY DEF EmptyBuffer, BytesIn
<1>3. z # 0 => MessageSize(z - 1, 0) \in Nat
  BY <1>1 DEF MessageSize
<1>4. z # 0 => BytesIn(DropBytes(b, MessageSize(z - 1, 0)), k)
  BY <1>3, DroppingKeepsBytes
<1>5. TryParse(b).buf \in {b, EmptyBuffer}
      \/ (z # 0 /\ TryParse(b).buf = DropBytes(b, MessageSize(z - 1, 0)))
  BY DEF TryParse, ParseData, Parsed
<1>6. QED
  BY <1>2, <1>4, <1>5

(* What cannot be read is an error. *)
LEMMA UnreadableFails ==
    ASSUME NEW bytes \in Seq({0, 1}), Unreadable(bytes), NEW k \in Nat, k > 0,
           NEW m, m = Numbered(bytes, k), NEW n, n = Room(EmptyBuffer, Len(m)),
           NEW b, b = ReadData(EmptyBuffer, n, m), NEW p, p = TryParse(b)
    PROVE  p.err \notin {"none", "keepreading"}
<1>2. /\ m \in Seq(Nat) /\ Len(m) = Len(bytes) /\ Len(bytes) \in Nat
      /\ DOMAIN bytes = 1 .. Len(bytes)
      /\ \A i \in 1 .. Len(bytes) : /\ bytes[i] \in {0, 1}
                                    /\ (bytes[i] = 1 => m[i] = k)
  BY NumberedIs
<1>3. MaxData \in Nat /\ MaxData > 0 /\ CmdLen \in Nat
  BY SizesAssumption
<1>4. /\ n \in Nat /\ n <= Len(m) /\ n <= MaxData /\ (n = MaxData \/ n = Len(m)) /\ b.read = n
      /\ \A i \in 1 .. MaxData : b.bytes[i] = IF i <= n THEN m[i] ELSE 0
  BY <1>2, ReadingFills
<1>5. ASSUME NEW z \in CmdLen + 2 .. MaxData, NameEnds(bytes, z)
      PROVE  p.err \notin {"none", "keepreading"}
  <2>1. z \in Nat /\ z <= n /\ z - 1 > CmdLen /\ z # 0
    BY <1>2, <1>3, <1>4, <1>5 DEF NameEnds
  <2>2. FirstZero(b, 1, b.read) = z /\ b.read # 0
    BY <1>4, <1>5, <2>1, NameIsFound
  <2>3. p.err = "invalidcmd"
    BY <2>1, <2>2 DEF TryParse, Parsed
  <2>4. QED
    BY <2>3
<1>6. ASSUME Len(bytes) >= MaxData, \A i \in 1 .. MaxData : bytes[i] = 1
      PROVE  p.err \notin {"none", "keepreading"}
  <2>1. n = MaxData
    BY <1>2, <1>3, <1>4, <1>6
  <2>2. \A i \in 1 .. n : b.bytes[i] # 0
    <3>1. \A i \in 1 .. n : i \in 1 .. MaxData /\ i <= n /\ i \in 1 .. Len(bytes)
      BY <1>2, <1>3, <1>4, <2>1
    <3>2. \A i \in 1 .. n : b.bytes[i] = m[i] /\ m[i] = k
      BY <1>2, <1>4, <1>6, <3>1
    <3>3. QED
      BY <3>2
  <2>3. FirstZero(b, 1, b.read) = 0
    <3>1. 1 \in Nat /\ n \in Nat
      BY <1>4
    <3>2. FirstZero(b, 1, n) = 0
      BY <2>2, <3>1, NoZero
    <3>3. QED
      BY <1>4, <3>2
  <2>4. p.err = "garbage"
    BY <1>3, <1>4, <2>1, <2>3 DEF TryParse, Parsed
  <2>5. QED
    BY <2>4
<1>7. ASSUME Len(bytes) >= MaxData, NEW z \in 1 .. CmdLen + 1, NameEnds(bytes, z),
             \A i \in z + 1 .. MaxData : bytes[i] = 1
      PROVE  p.err \notin {"none", "keepreading"}
  <2>1. n = MaxData /\ z \in Nat
    BY <1>2, <1>3, <1>4, <1>7
  <2>2. CASE z > MaxData
    <3>1. \A i \in 1 .. MaxData : bytes[i] = 1
      BY <1>3, <1>7, <2>2 DEF NameEnds
    <3>2. QED
      BY <1>6, <1>7, <3>1
  <2>3. CASE z <= MaxData
    <3>1. FirstZero(b, 1, b.read) = z
      BY <1>7, <2>1, <2>3, NameIsFound
    <3>2. \A i \in z + 1 .. MaxData : b.bytes[i] # 0
      <4>1. \A i \in z + 1 .. MaxData : i \in 1 .. MaxData /\ i <= n /\ i \in 1 .. Len(bytes)
        BY <1>2, <1>3, <1>4, <1>7, <2>1
      <4>2. \A i \in z + 1 .. MaxData : b.bytes[i] = m[i] /\ m[i] = k
        BY <1>2, <1>4, <1>7, <4>1
      <4>3. QED
        BY <4>2
    <3>3. FirstZero(b, z + 1, MaxData) = 0
      <4>1. z + 1 \in Nat /\ MaxData \in Nat
        BY <1>3, <2>1
      <4>2. QED
        BY <3>2, <4>1, NoZero
    <3>4. ~ (z - 1 > CmdLen) /\ z # 0 /\ b.read # 0 /\ b.read = MaxData
      BY <1>3, <1>4, <1>7, <2>1
    <3>5. p = Parsed("datatoolong", z - 1, 0, EmptyBuffer)
      BY <3>1, <3>3, <3>4 DEF TryParse, ParseData
    <3>6. QED
      BY <3>5 DEF Parsed
  <2>4. QED
    BY <1>3, <2>1, <2>2, <2>3
<1>8. QED
  BY <1>5, <1>6, <1>7 DEF Unreadable

-----------------------------------------------------------------------------
(* Delivery.  A client's dialogue with the server is a matter of its end e, *)
(* its connection cn, the calls r its commands led to, and the thread th.  *)

Said(e, k) == Numbered(e.script[k].bytes, k)
Got(r, k) == \E i \in DOMAIN r : r[i] = k
Last(e) == e.sent = Len(e.script)
Bad(e, k) == e.script[k].kind = "bad"
Clean(cn) == cn.stc = << >> /\ cn.short_reply = 0
Busy(c, th) == th.who = c /\ th.pc \in {"error", "call", "reply"}
Emptied(cn, th) == MessageSize(th.parsed.cmdlen, th.parsed.datalen) >= cn.buf.read

(* What is AnswersItsOwn of one reply. *)
Suits(reply, k, kind) ==
    /\ reply.to = k
    /\ reply.kind = "error" <=> kind = "bad"
    /\ reply.kind = "data" => kind = "status"
    /\ reply.kind = "short" => kind = "vm"

(* The reply that sh_accept_handler_thread chooses. *)
Chosen(cn, result) ==
    IF cn.stc # << >> THEN Collected(cn)
    ELSE IF cn.short_reply # 0 THEN [kind |-> "short", to |-> cn.short_reply]
    ELSE result

(* One command is under way at a time. *)
Counts(e) ==
    /\ e.sent \in 0 .. Len(e.script)
    /\ Len(e.answers) <= e.sent
    /\ e.pc = "away" => e = Away
    /\ e.pc = "idle" => Len(e.answers) = e.sent /\ (e.sent < Len(e.script) => e.inbox = << >>)
    /\ e.pc = "waiting" =>
          /\ e.sent > 0 /\ Len(e.answers) = e.sent - 1
          /\ e.sent < Len(e.script) => Len(e.inbox) <= 1

(* Every reply is to its command, and so is the next one to be read. *)
Told(e) ==
    /\ \A k \in 1 .. Len(e.answers) : Suits(e.answers[k], k, e.script[k].kind)
    /\ e.pc = "waiting" /\ e.inbox # << >> => Suits(Head(e.inbox), e.sent, e.script[e.sent].kind)

(* The listeners got what was replied to, and nothing twice. *)
Heard(e, r) ==
    /\ \A i \in 1 .. Len(r) : r[i] <= e.sent
    /\ \A i, j \in 1 .. Len(r) : r[i] = r[j] /\ r[i] # 0 => i = j
    /\ \A k \in 1 .. Len(e.answers) : ~ Bad(e, k) => Got(r, k)
    /\ e.pc = "waiting" /\ e.inbox # << >> /\ ~ Bad(e, e.sent) => Got(r, e.sent)

(* Nothing has been replied to the last command that was sent. *)
Asked(e) == e.sent > 0 /\ e.pc \in {"waiting", "gone"} /\ e.inbox = << >>

(* Only the last command is in the buffer and on its way there. *)
Traces(e, cn) ==
    /\ BytesIn(cn.buf, e.sent)
    /\ \A i \in 1 .. Len(e.stream) : e.stream[i] \in {0, e.sent}

(* Where the last command is: all of it is still to be read, ... *)
InStream(c, e, cn, r, th) ==
    /\ Asked(e) /\ ~ Busy(c, th) /\ Clean(cn) /\ ~ Got(r, e.sent)
    /\ e.stream = Said(e, e.sent) /\ cn.buf = EmptyBuffer

(* ... or it is in the buffer and goes to the listeners, ... *)
InBuffer(c, e, cn, r, th) ==
    /\ Asked(e) /\ th.who = c /\ th.pc = "call" /\ Clean(cn) /\ ~ Got(r, e.sent)
    /\ ~ Bad(e, e.sent) /\ e.stream = << >> /\ Pending(cn.buf) = Said(e, e.sent)
    /\ Last(e) \/ Emptied(cn, th)

(* ... or the listeners have it and the reply is due, ... *)
InHand(c, e, cn, r, th) ==
    /\ Asked(e) /\ th.who = c /\ th.pc = "reply" /\ Got(r, e.sent)
    /\ ~ Bad(e, e.sent) /\ e.stream = << >>
    /\ Last(e) \/ (Emptied(cn, th) /\ Clean(cn))
    /\ Suits(Chosen(cn, th.result), e.sent, e.script[e.sent].kind)

(* ... or it is to be rejected, ... *)
Rejected(c, e, cn, th) ==
    /\ Asked(e) /\ th.who = c /\ th.pc = "error" /\ Last(e) /\ Bad(e, e.sent) /\ Traces(e, cn)

(* ... or it has its reply; what a rejected one left behind is still read. *)
Answered(c, e, cn, th) ==
    /\ ~ Busy(c, th) /\ e.stream = << >> /\ (e.pc = "waiting" => e.inbox # << >>)
    /\ (Last(e) /\ e.sent > 0) \/ (cn.buf = EmptyBuffer /\ Clean(cn))
Spilling(e, cn) ==
    /\ e.sent > 0 /\ Last(e) /\ Bad(e, e.sent) /\ Traces(e, cn)
    /\ (e.pc = "waiting" => e.inbox # << >>)

Stage(c, e, cn, r, th) ==
    \/ InStream(c, e, cn, r, th) \/ InBuffer(c, e, cn, r, th) \/ InHand(c, e, cn, r, th)
    \/ Rejected(c, e, cn, th) \/ Answered(c, e, cn, th) \/ Spilling(e, cn)

Dialogue(c, e, cn, r, th) ==
    Counts(e) /\ Told(e) /\ Heard(e, r) /\ Stage(c, e, cn, r, th)

-----------------------------------------------------------------------------
(* A command of a script is one of those that clients send. *)
LEMMA CommandIs ==
    ASSUME NEW s \in Scripts, NEW k \in 1 .. Len(s)
    PROVE  /\ s \in Seq([bytes : Seq({0, 1}), kind : Kinds]) /\ Len(s) \in Nat /\ k \in Nat
           /\ s[k].bytes \in Seq({0, 1}) /\ s[k].kind \in Kinds
           /\ s[k].kind = "bad" => Unreadable(s[k].bytes)
           /\ s[k].kind # "bad" => Readable(s[k].bytes)
           /\ k < Len(s) => s[k].kind = "plain" /\ Whole(s[k].bytes)
<1>1. s \in Seq([bytes : Seq({0, 1}), kind : Kinds])
  BY ScriptsAssumption
<1>2. DOMAIN s = 1 .. Len(s) /\ Len(s) \in Nat /\ s[k] \in [bytes : Seq({0, 1}), kind : Kinds]
  BY <1>1, LenProperties, ElementOfSeq
<1>3. /\ IF s[k].kind = "bad" THEN Unreadable(s[k].bytes) ELSE Readable(s[k].bytes)
      /\ k < Len(s) => s[k].kind = "plain" /\ Whole(s[k].bytes)
  BY <1>2, ConversationsAssumption
<1>4. QED
  BY <1>1, <1>2, <1>3

(* A step that leaves the dialogue alone, or opens or closes the connection *)
(* while the thread does not work on it.                                   *)
LEMMA Undisturbed ==
    ASSUME NEW c, NEW e, NEW cn, NEW cn2, NEW r, NEW th, NEW th2,
           Dialogue(c, e, cn, r, th), ~ Busy(c, th), ~ Busy(c, th2),
           cn2 = cn \/ (cn2.buf = EmptyBuffer /\ Clean(cn2))
    PROVE  Dialogue(c, e, cn2, r, th2)
<1>1. CASE InStream(c, e, cn, r, th)
  <2>1. InStream(c, e, cn2, r, th2)
    BY <1>1 DEF InStream
  <2>2. QED
    BY <2>1 DEF Dialogue, Stage
<1>2. CASE Answered(c, e, cn, th)
  <2>1. Answered(c, e, cn2, th2)
    BY <1>2 DEF Answered
  <2>2. QED
    BY <2>1 DEF Dialogue, Stage
<1>3. CASE Spilling(e, cn)
  <2>1. Traces(e, cn2)
    <3>1. BytesIn(EmptyBuffer, e.sent)
      BY DEF BytesIn, EmptyBuffer
    <3>2. QED
      BY <1>3, <3>1 DEF Spilling, Traces
  <2>2. Spilling(e, cn2)
    BY <1>3, <2>1 DEF Spilling
  <2>3. QED
    BY <2>2 DEF Dialogue, Stage
<1>4. QED
  BY <1>1, <1>2, <1>3 DEF Dialogue, Stage, InBuffer, InHand, Rejected, Busy

LEMMA ConnectDialogue ==
    ASSUME NEW c, NEW e \in Ends, NEW cn, NEW r, NEW th, Dialogue(c, e, cn, r, th),
           e.pc = "away", NEW s \in Scripts
    PROVE  Dialogue(c, [e EXCEPT !.pc = "idle", !.script = s], cn, r, th)
<1> DEFINE f == [e EXCEPT !.pc = "idle", !.script = s]
<1>1. e = Away
  BY DEF Dialogue, Counts
<1>2. /\ e.sent = 0 /\ e.stream = << >> /\ e.inbox = << >> /\ e.answers = << >>
      /\ f.sent = 0 /\ f.stream = << >> /\ f.inbox = << >> /\ f.answers = << >>
      /\ f.pc = "idle" /\ f.script = s
  BY <1>1 DEF Away
<1>3. Len(s) \in Nat
  BY ScriptsAssumption, LenProperties
<1> HIDE DEF f
<1>4. Answered(c, e, cn, th) /\ cn.buf = EmptyBuffer /\ Clean(cn)
  BY <1>2 DEF Dialogue, Stage, InStream, InBuffer, InHand, Rejected, Answered, Spilling, Asked
<1>5. Answered(c, f, cn, th)
  BY <1>2, <1>4 DEF Answered
<1>6. Len(f.answers) = 0 /\ Len(e.answers) = 0
  BY <1>2, EmptySeq
<1>7. Counts(f)
  BY <1>2, <1>3, <1>6 DEF Counts
<1>8. Told(f)
  BY <1>2, <1>6 DEF Told
<1>9. Heard(f, r)
  BY <1>2, <1>6 DEF Dialogue, Heard
<1>10. QED
  BY <1>5, <1>7, <1>8, <1>9 DEF Dialogue, Stage, f

LEMMA SendDialogue ==
    ASSUME NEW c, NEW e \in Ends, NEW cn, NEW r \in Seq(Nat), NEW th, Dialogue(c, e, cn, r, th),
           e.pc = "idle", NEW k, k = e.sent + 1, k \in DOMAIN e.script
    PROVE  Dialogue(c, [e EXCEPT !.pc = "waiting", !.sent = k, !.stream = e.stream \o Said(e, k)],
                    cn, r, th)
<1> DEFINE f == [e EXCEPT !.pc = "waiting", !.sent = k, !.stream = e.stream \o Said(e, k)]
<1>1. e.script \in Scripts /\ e.sent \in Nat
  BY EmptySeq DEF Ends
<1>2. k \in 1 .. Len(e.script) /\ k \in Nat
  BY <1>1, ScriptsAssumption, LenProperties
<1>3. /\ f.sent = k /\ f.stream = e.stream \o Said(e, k) /\ f.inbox = e.inbox
      /\ f.answers = e.answers /\ f.pc = "waiting" /\ f.script = e.script
  BY DEF Ends
<1> HIDE DEF f
<1>4. Len(e.script) \in Nat /\ Len(e.answers) \in Nat /\ e.script[k].bytes \in Seq({0, 1})
  BY <1>1, <1>2, CommandIs, LenProperties DEF Ends
<1>5. ~ Last(e) /\ e.inbox = << >> /\ Len(e.answers) = e.sent
  BY <1>1, <1>2, <1>4 DEF Last, Dialogue, Counts
<1>6. Answered(c, e, cn, th) /\ cn.buf = EmptyBuffer /\ Clean(cn)
  BY <1>5 DEF Dialogue, Stage, InStream, InBuffer, InHand, Rejected, Answered, Spilling, Asked
<1>7. f.stream = Said(f, k)
  <2>1. Said(e, k) \in Seq(Nat)
    BY <1>2, <1>4, NumberedIs DEF Said
  <2>2. << >> \o Said(e, k) = Said(e, k)
    BY <2>1, ConcatEmptySeq
  <2>3. QED
    BY <1>3, <1>6, <2>2 DEF Answered, Said
<1>8. \A i \in 1 .. Len(r) : r[i] <= e.sent /\ r[i] # k /\ r[i] <= k
  <2>1. \A i \in 1 .. Len(r) : r[i] <= e.sent /\ r[i] \in Nat
    BY ElementOfSeq DEF Dialogue, Heard
  <2>2. QED
    BY <1>1, <2>1
<1>9. ~ Got(r, k)
  BY <1>8, LenProperties DEF Got
<1>10. InStream(c, f, cn, r, th)
  BY <1>2, <1>3, <1>5, <1>6, <1>7, <1>9 DEF InStream, Asked, Answered
<1>11. Counts(f)
  <2>1. Len(f.inbox) = 0
    BY <1>3, <1>5, EmptySeq
  <2>2. QED
    BY <1>1, <1>2, <1>3, <1>4, <1>5, <2>1 DEF Counts
<1>12. Told(f)
  BY <1>3, <1>5 DEF Dialogue, Told
<1>13. Heard(f, r)
  BY <1>3, <1>5, <1>8 DEF Dialogue, Heard, Bad
<1>14. QED
  BY <1>10, <1>11, <1>12, <1>13 DEF Dialogue, Stage, f

LEMMA ReceiveDialogue ==
    ASSUME NEW c, NEW e \in Ends, NEW cn, NEW r, NEW th, Dialogue(c, e, cn, r, th),
           e.pc = "waiting", e.inbox # << >>
    PROVE  Dialogue(c, [e EXCEPT !.pc = "idle", !.inbox = Tail(e.inbox),
                                 !.answers = Append(e.answers, Head(e.inbox))], cn, r, th)
<1> DEFINE reply == Head(e.inbox)
           answers == Append(e.answers, reply)
           f == [e EXCEPT !.pc = "idle", !.inbox = Tail(e.inbox), !.answers = answers]
<1>1. e.inbox \in Seq(Replies) /\ e.answers \in Seq(Replies) /\ e.sent \in Nat
  BY DEF Ends
<1>2. /\ f.sent = e.sent /\ f.stream = e.stream /\ f.inbox = Tail(e.inbox)
      /\ f.answers = answers /\ f.pc = "idle" /\ f.script = e.script
  BY DEF Ends
<1> HIDE DEF f
<1>3. reply \in Replies /\ Tail(e.inbox) \in Seq(Replies) /\ Len(Tail(e.inbox)) = Len(e.inbox) - 1
      /\ Len(e.inbox) \in Nat
  BY <1>1, HeadTailProperties, LenProperties
<1> HIDE DEF reply
<1>4. /\ Len(answers) = Len(e.answers) + 1 /\ Len(e.answers) \in Nat
      /\ \A i \in 1 .. Len(e.answers) : answers[i] = e.answers[i]
      /\ answers[Len(e.answers) + 1] = reply
  BY <1>1, <1>3, AppendProperties, LenProperties
<1> HIDE DEF answers
<1>5. Len(e.answers) = e.sent - 1 /\ e.sent > 0
      /\ (e.sent < Len(e.script) => Len(e.inbox) <= 1) /\ e.sent \in 0 .. Len(e.script)
  BY DEF Dialogue, Counts
<1>6. Counts(f)
  <2>1. e.sent < Len(e.script) => f.inbox = << >>
    <3> SUFFICES ASSUME e.sent < Len(e.script) PROVE f.inbox = << >>
      OBVIOUS
    <3> DEFINE rest == Tail(e.inbox)
    <3>0. rest \in Seq(Replies) /\ Len(rest) = Len(e.inbox) - 1 /\ Len(e.inbox) <= 1
      BY <1>3, <1>5
    <3> HIDE DEF rest
    <3>1. Len(rest) = 0
      <4>1. Len(rest) \in Nat
        BY <3>0, LenProperties
      <4>2. \A x, y \in Nat : x = y - 1 /\ y <= 1 => x = 0
        OBVIOUS
      <4>3. QED
        BY <1>3, <3>0, <4>1, <4>2, Zenon
    <3>2. QED
      BY <1>2, <3>0, <3>1, EmptySeq DEF rest
  <2>2. QED
    BY <1>1, <1>2, <1>4, <1>5, <2>1 DEF Counts
<1>7. \A k \in 1 .. Len(answers) : k \in 1 .. Len(e.answers) \/ k = e.sent
  BY <1>1, <1>4, <1>5
<1>8. answers[e.sent] = reply
  BY <1>1, <1>4, <1>5
<1>9. Told(f)
  BY <1>2, <1>4, <1>7, <1>8 DEF Dialogue, Told, reply
<1>10. Heard(f, r)
  BY <1>2, <1>7 DEF Dialogue, Heard, Bad
<1>11. Stage(c, f, cn, r, th)
  <2>1. Answered(c, e, cn, th) \/ Spilling(e, cn)
    BY DEF Dialogue, Stage, InStream, InBuffer, InHand, Rejected, Asked
  <2>2. CASE Answered(c, e, cn, th)
    BY <1>2, <2>2 DEF Answered, Last, Stage
  <2>3. CASE Spilling(e, cn)
    BY <1>2, <2>3 DEF Spilling, Last, Bad, Traces, Stage
  <2>4. QED
    BY <2>1, <2>2, <2>3
<1>12. QED
  BY <1>6, <1>9, <1>10, <1>11 DEF Dialogue, f, answers, reply

LEMMA LeaveDialogue ==
    ASSUME NEW c, NEW e \in Ends, NEW cn, NEW r, NEW th, Dialogue(c, e, cn, r, th),
           e.pc \in {"idle", "waiting"}
    PROVE  Dialogue(c, [e EXCEPT !.pc = "gone"], cn, r, th)
<1> DEFINE f == [e EXCEPT !.pc = "gone"]
<1>1. /\ f.sent = e.sent /\ f.stream = e.stream /\ f.inbox = e.inbox
      /\ f.answers = e.answers /\ f.pc = "gone" /\ f.script = e.script
  BY DEF Ends
<1> HIDE DEF f
<1>2. Counts(f) /\ Told(f)
  BY <1>1 DEF Dialogue, Counts, Told
<1>3. Heard(f, r)
  BY <1>1 DEF Dialogue, Heard, Bad
<1>4. Stage(c, f, cn, r, th)
  <2>1. CASE InStream(c, e, cn, r, th)
    BY <1>1, <2>1 DEF InStream, Asked, Said, Stage
  <2>2. CASE InBuffer(c, e, cn, r, th)
    <3>1. InBuffer(c, f, cn, r, th)
      BY <1>1, <2>2 DEF InBuffer, Asked, Said, Bad, Last
    <3>2. QED
      BY <3>1 DEF Stage
  <2>3. CASE InHand(c, e, cn, r, th)
    <3>1. InHand(c, f, cn, r, th)
      BY <1>1, <2>3 DEF InHand, Asked, Bad, Last
    <3>2. QED
      BY <3>1 DEF Stage
  <2>4. CASE Rejected(c, e, cn, th)
    BY <1>1, <2>4 DEF Rejected, Asked, Bad, Last, Traces, Stage
  <2>5. CASE Answered(c, e, cn, th)
    BY <1>1, <2>5 DEF Answered, Last, Stage
  <2>6. CASE Spilling(e, cn)
    BY <1>1, <2>6 DEF Spilling, Last, Bad, Traces, Stage
  <2>7. QED
    BY <2>1, <2>2, <2>3, <2>4, <2>5, <2>6 DEF Dialogue, Stage
<1>5. QED
  BY <1>2, <1>3, <1>4 DEF Dialogue, f

-----------------------------------------------------------------------------
(* The thread's steps. *)

(* The command that was sent last. *)
LEMMA SentIs ==
    ASSUME NEW e \in Ends, Counts(e), e.sent > 0
    PROVE  /\ e.script \in Scripts /\ Len(e.script) \in Nat /\ e.sent \in 1 .. Len(e.script)
           /\ Said(e, e.sent) \in Seq(Nat)
           /\ e.script[e.sent].bytes \in Seq({0, 1})
           /\ Bad(e, e.sent) => Unreadable(e.script[e.sent].bytes) /\ Last(e)
           /\ ~ Bad(e, e.sent) => Readable(e.script[e.sent].bytes)
           /\ ~ Last(e) => e.script[e.sent].kind = "plain" /\ Whole(e.script[e.sent].bytes)
<1>1. e.sent \in 0 .. Len(e.script) /\ e.sent \in Nat
  BY DEF Counts, Ends
<1>2. e.script \in Scripts
  <2>1. CASE e.script = << >>
    BY <1>1, <2>1, EmptySeq
  <2>2. CASE e.script # << >>
    BY <2>2 DEF Ends
  <2>3. QED
    BY <2>1, <2>2
<1>3. Len(e.script) \in Nat
  BY <1>2, ScriptsAssumption, LenProperties
<1>4. e.sent \in 1 .. Len(e.script)
  BY <1>1, <1>3
<1>5. /\ e.script[e.sent].bytes \in Seq({0, 1})
      /\ e.script[e.sent].kind = "bad" => Unreadable(e.script[e.sent].bytes)
      /\ e.script[e.sent].kind # "bad" => Readable(e.script[e.sent].bytes)
      /\ e.sent < Len(e.script) => e.script[e.sent].kind = "plain" /\ Whole(e.script[e.sent].bytes)
  BY <1>2, <1>4, CommandIs
<1>6. ~ Last(e) => e.sent < Len(e.script)
  BY <1>3, <1>4 DEF Last
<1>7. Said(e, e.sent) \in Seq(Nat)
  BY <1>1, <1>5, NumberedIs DEF Said
<1>8. QED
  BY <1>2, <1>3, <1>4, <1>5, <1>6, <1>7 DEF Bad

(* A command that can be read tells its number by its first byte. *)
LEMMA FirstByte ==
    ASSUME NEW e \in Ends, e.script \in Scripts, NEW k \in 1 .. Len(e.script), ~ Bad(e, k)
    PROVE  k \in Nat /\ Said(e, k) \in Seq(Nat) /\ Len(Said(e, k)) \in Nat
           /\ Len(Said(e, k)) >= 1 /\ Said(e, k)[1] = k
<1> DEFINE bytes == e.script[k].bytes
<1>1. k \in Nat /\ bytes \in Seq({0, 1}) /\ Readable(bytes)
  BY CommandIs DEF Bad
<1>2. PICK z \in 2 .. CmdLen + 1 : NameEnds(bytes, z)
  BY <1>1 DEF Readable
<1>3. /\ Numbered(bytes, k) \in Seq(Nat) /\ Len(Numbered(bytes, k)) = Len(bytes)
      /\ Len(bytes) \in Nat /\ DOMAIN bytes = 1 .. Len(bytes)
      /\ \A i \in 1 .. Len(bytes) : bytes[i] = 1 => Numbered(bytes, k)[i] = k
  BY <1>1, NumberedIs
<1> HIDE DEF bytes
<1>4. z \in 1 .. Len(bytes) /\ z > 1 /\ 1 \in 1 .. z - 1
  BY <1>2, <1>3, SizesAssumption DEF NameEnds
<1>5. bytes[1] = 1 /\ 1 \in 1 .. Len(bytes)
  BY <1>2, <1>3, <1>4 DEF NameEnds
<1>6. QED
  BY <1>1, <1>3, <1>5 DEF Said, bytes

(* What was not read yet is still to come. *)
LEMMA RestOf ==
    ASSUME NEW s \in Seq(Nat), NEW n \in Nat, n <= Len(s), NEW k,
           \A i \in 1 .. Len(s) : s[i] \in {0, k}
    PROVE  LET rest == SubSeq(s, n + 1, Len(s))
           IN  /\ rest \in Seq(Nat) /\ \A i \in 1 .. Len(rest) : rest[i] \in {0, k}
               /\ n = Len(s) => rest = << >>
<1> DEFINE rest == SubSeq(s, n + 1, Len(s))
<1>1. Len(s) \in Nat /\ \A i \in 1 .. Len(s) : s[i] \in Nat
  BY LenProperties, ElementOfSeq
<1>2. \A i \in n + 1 .. Len(s) : s[i] \in Nat
  BY <1>1
<1>3. /\ rest \in Seq(Nat)
      /\ Len(rest) = IF n + 1 <= Len(s) THEN Len(s) - (n + 1) + 1 ELSE 0
      /\ \A i \in 1 .. Len(s) - (n + 1) + 1 : rest[i] = s[n + 1 + i - 1]
  BY <1>1, <1>2, SubSeqProperties
<1> HIDE DEF rest
<1>4. Len(rest) = Len(s) - n
  BY <1>1, <1>3
<1>5. \A i \in 1 .. Len(rest) : i \in 1 .. Len(s) - (n + 1) + 1 /\ n + 1 + i - 1 \in 1 .. Len(s)
  BY <1>1, <1>4
<1>6. \A i \in 1 .. Len(rest) : rest[i] \in {0, k}
  BY <1>3, <1>5
<1>7. n = Len(s) => rest = << >>
  BY <1>1, <1>3, <1>4, EmptySeq
<1>8. QED
  BY <1>3, <1>6, <1>7 DEF rest

LEMMA ReadDialogue ==
    ASSUME NEW c, NEW e \in Ends, NEW cn \in Connections, NEW r \in Seq(Nat), NEW th,
           Dialogue(c, e, cn, r, th), th.who = c, th.pc = "handle",
           e.stream # << >>,
           NEW n, n = Room(cn.buf, Len(e.stream)),
           NEW p, p = TryParse(ReadData(cn.buf, n, e.stream)),
           NEW f, f = [e EXCEPT !.stream = SubSeq(e.stream, n + 1, Len(e.stream))],
           NEW cm, cm = [cn EXCEPT !.buf = p.buf],
           NEW th2, th2.who = c, th2.parsed.cmdlen = p.cmdlen, th2.parsed.datalen = p.datalen,
           th2.pc = IF p.err = "keepreading" THEN "wait" ELSE IF p.err = "none" THEN "call" ELSE "error"
    PROVE  Dialogue(c, f, cm, r, th2)
<1>1. e.stream \in Seq(Nat) /\ Len(e.stream) \in Nat /\ cn.buf \in Buffers /\ e.sent \in Nat
  BY LenProperties DEF Ends, Connections
<1>2. n \in Nat /\ n <= Len(e.stream) /\ n <= MaxData - cn.buf.read
  <2>1. cn.buf.read \in Nat /\ MaxData \in Nat
    BY <1>1, SizesAssumption DEF Buffers
  <2>2. n \in 0 .. MaxData - cn.buf.read /\ n <= Len(e.stream)
    BY <1>1, RoomIsLeft
  <2>3. QED
    BY <2>1, <2>2
<1> DEFINE b == ReadData(cn.buf, n, e.stream)
           rest == SubSeq(e.stream, n + 1, Len(e.stream))
<1>3. b \in Buffers
  BY <1>1, <1>2, ReadDataType
<1>4. /\ f.sent = e.sent /\ f.stream = rest /\ f.inbox = e.inbox
      /\ f.answers = e.answers /\ f.pc = e.pc /\ f.script = e.script
      /\ cm.buf = p.buf /\ cm.stc = cn.stc /\ cm.short_reply = cn.short_reply
  BY DEF Ends, Connections
<1>5. Counts(f) /\ Told(f) /\ Heard(f, r)
  <2>1. e.pc # "away"
    BY DEF Dialogue, Counts, Away
  <2>2. Counts(f)
    BY <1>4, <2>1 DEF Dialogue, Counts
  <2>3. Told(f) /\ Heard(f, r)
    BY <1>4 DEF Dialogue, Told, Heard, Bad
  <2>4. QED
    BY <2>2, <2>3
<1>6. ASSUME \A i \in 1 .. Len(e.stream) : e.stream[i] \in {0, e.sent}, BytesIn(cn.buf, e.sent)
      PROVE  Traces(f, cm)
  <2>1. BytesIn(b, e.sent)
    BY <1>1, <1>2, <1>6, ReadingKeepsBytes
  <2>2. BytesIn(p.buf, e.sent)
    BY <1>3, <2>1, ParsingKeepsBytes
  <2>3. \A i \in 1 .. Len(rest) : rest[i] \in {0, e.sent}
    BY <1>1, <1>2, <1>6, RestOf
  <2>4. QED
    BY <1>4, <2>2, <2>3 DEF Traces
<1>7. CASE InStream(c, e, cn, r, th)
  <2> DEFINE bytes == e.script[e.sent].bytes
             m == Said(e, e.sent)
  <2>1. /\ e.sent > 0 /\ Asked(e) /\ Clean(cn) /\ ~ Got(r, e.sent) /\ e.stream = m
        /\ cn.buf = EmptyBuffer
    BY <1>7 DEF InStream, Asked
  <2>2. /\ e.sent \in 1 .. Len(e.script) /\ bytes \in Seq({0, 1}) /\ m \in Seq(Nat)
        /\ Bad(e, e.sent) => Unreadable(bytes) /\ Last(e)
        /\ ~ Bad(e, e.sent) => Readable(bytes)
        /\ ~ Last(e) => Whole(bytes)
    BY <2>1, SentIs DEF Dialogue
  <2>3. m = Numbered(bytes, e.sent) /\ n = Room(EmptyBuffer, Len(m))
        /\ b = ReadData(EmptyBuffer, n, m) /\ p = TryParse(b)
    BY <2>1 DEF Said
  <2>4. \A i \in 1 .. Len(m) : m[i] \in {0, e.sent}
    <3>1. Len(Numbered(bytes, e.sent)) = Len(bytes)
          /\ \A i \in 1 .. Len(bytes) : Numbered(bytes, e.sent)[i] \in {0, e.sent}
      BY <1>1, <2>2, NumberedIs
    <3>2. QED
      BY <2>3, <3>1
  <2> HIDE DEF bytes, m, b
  <2>5. CASE Bad(e, e.sent)
    <3>1. p.err \notin {"none", "keepreading"}
      BY <1>1, <2>1, <2>2, <2>3, <2>5, UnreadableFails
    <3>2. Traces(f, cm)
      <4>1. BytesIn(EmptyBuffer, e.sent)
        BY DEF BytesIn, EmptyBuffer
      <4>2. QED
        BY <1>6, <2>1, <2>4, <4>1
    <3>3. Rejected(c, f, cm, th2)
      BY <1>4, <2>1, <2>2, <2>5, <3>1, <3>2 DEF Rejected, Asked, Bad, Last
    <3>4. QED
      BY <1>5, <3>3 DEF Dialogue, Stage
  <2>6. CASE ~ Bad(e, e.sent)
    <3>1. /\ n = Len(m) /\ p.err = "none" /\ p.buf = b /\ Pending(b) = m
          /\ Whole(bytes) => MessageSize(p.cmdlen, p.datalen) >= b.read
      <4>1. Readable(bytes) /\ e.sent > 0 /\ e.sent \in Nat /\ bytes \in Seq({0, 1})
        BY <1>1, <2>1, <2>2, <2>6
      <4>2. QED
        BY <2>3, <4>1, ReadableParses
    <3>2. f.stream = << >>
      BY <1>1, <1>2, <1>4, <2>1, <2>4, <3>1, RestOf
    <3>3. Last(f) \/ Emptied(cm, th2)
      BY <1>4, <2>2, <3>1 DEF Last, Emptied
    <3>4. InBuffer(c, f, cm, r, th2)
      BY <1>4, <2>1, <2>6, <3>1, <3>2, <3>3 DEF InBuffer, Asked, Bad, Clean, Said, m
    <3>5. QED
      BY <1>5, <3>4 DEF Dialogue, Stage
  <2>7. QED
    BY <2>5, <2>6
<1>8. CASE Spilling(e, cn)
  <2>1. Traces(f, cm)
    BY <1>6, <1>8 DEF Spilling, Traces
  <2>2. Spilling(f, cm)
    BY <1>4, <1>8, <2>1 DEF Spilling, Last, Bad
  <2>3. QED
    BY <1>5, <2>2 DEF Dialogue, Stage
<1>9. QED
  BY <1>7, <1>8 DEF Dialogue, Stage, InBuffer, InHand, Rejected, Answered

(* What write does to the other end. *)
Written(e, f, reply) ==
    IF e.pc = "gone" THEN f = e ELSE f = [e EXCEPT !.inbox = Append(e.inbox, reply)]

LEMMA WrittenIs ==
    ASSUME NEW e \in Ends, NEW reply \in Replies, NEW f, Written(e, f, reply)
    PROVE  /\ f.sent = e.sent /\ f.stream = e.stream /\ f.answers = e.answers
           /\ f.pc = e.pc /\ f.script = e.script
           /\ e.pc # "gone" => /\ f.inbox # << >> /\ Len(f.inbox) = Len(e.inbox) + 1
                               /\ Head(f.inbox) = IF e.inbox = << >> THEN reply ELSE Head(e.inbox)
           /\ e.pc = "gone" => f = e
<1>1. e.inbox \in Seq(Replies) /\ Len(e.inbox) \in Nat
  BY LenProperties DEF Ends
<1> DEFINE inbox == Append(e.inbox, reply)
<1>2. /\ inbox \in Seq(Replies) /\ Len(inbox) = Len(e.inbox) + 1
      /\ \A i \in 1 .. Len(e.inbox) : inbox[i] = e.inbox[i]
      /\ inbox[Len(e.inbox) + 1] = reply
  BY <1>1, AppendProperties
<1> HIDE DEF inbox
<1>3. inbox # << >> /\ Head(inbox) = inbox[1]
  BY <1>1, <1>2, EmptySeq, HeadTailProperties
<1>4. Head(inbox) = IF e.inbox = << >> THEN reply ELSE Head(e.inbox)
  <2>1. CASE e.inbox = << >>
    <3>1. Len(e.inbox) = 0
      BY <2>1, EmptySeq
    <3>2. QED
      BY <1>2, <1>3, <2>1, <3>1
  <2>2. CASE e.inbox # << >>
    <3>1. Head(e.inbox) = e.inbox[1] /\ Len(e.inbox) # 0
      BY <1>1, <2>2, HeadTailProperties, EmptySeq
    <3>2. 1 \in 1 .. Len(e.inbox)
      BY <1>1, <3>1
    <3>3. QED
      BY <1>2, <1>3, <2>2, <3>1, <3>2
  <2>3. QED
    BY <2>1, <2>2
<1>5. e.pc # "gone" => f = [e EXCEPT !.inbox = inbox]
  BY DEF Written, inbox
<1>6. e.pc = "gone" => f = e
  BY DEF Written
<1>7. QED
  BY <1>2, <1>3, <1>4, <1>5, <1>6 DEF Ends

(* The first reply to the last command. *)
LEMMA FirstReply ==
    ASSUME NEW e \in Ends, NEW r, Counts(e), Told(e), Heard(e, r), Asked(e),
           NEW reply \in Replies, Suits(reply, e.sent, e.script[e.sent].kind),
           ~ Bad(e, e.sent) => Got(r, e.sent),
           NEW f, Written(e, f, reply)
    PROVE  Counts(f) /\ Told(f) /\ Heard(f, r) /\ (f.pc = "waiting" => f.inbox # << >>)
<1>1. /\ f.sent = e.sent /\ f.stream = e.stream /\ f.answers = e.answers
      /\ f.pc = e.pc /\ f.script = e.script
      /\ e.pc # "gone" => /\ f.inbox # << >> /\ Len(f.inbox) = Len(e.inbox) + 1
                          /\ Head(f.inbox) = IF e.inbox = << >> THEN reply ELSE Head(e.inbox)
      /\ e.pc = "gone" => f = e
  BY WrittenIs
<1>2. e.pc \in {"waiting", "gone"} /\ e.inbox = << >> /\ Len(e.inbox) = 0
  BY EmptySeq DEF Asked
<1>3. Counts(f)
  <2>1. CASE e.pc = "gone"
    BY <1>1, <2>1
  <2>2. CASE e.pc = "waiting"
    <3>1. Len(f.inbox) = 1
      BY <1>1, <1>2, <2>2
    <3>2. QED
      BY <1>1, <2>2, <3>1 DEF Counts
  <2>3. QED
    BY <1>2, <2>1, <2>2
<1>4. Told(f)
  BY <1>1, <1>2 DEF Told
<1>5. Heard(f, r)
  BY <1>1 DEF Heard, Bad
<1>6. QED
  BY <1>1, <1>3, <1>4, <1>5

(* Replies after the first are to what is left of a rejected command. *)
LEMMA LaterReply ==
    ASSUME NEW e \in Ends, NEW r, Counts(e), Told(e), Heard(e, r), e.sent > 0,
           Last(e), e.pc = "waiting" => e.inbox # << >>,
           NEW reply \in Replies, NEW f, Written(e, f, reply)
    PROVE  Counts(f) /\ Told(f) /\ Heard(f, r) /\ (f.pc = "waiting" => f.inbox # << >>)
<1>1. /\ f.sent = e.sent /\ f.stream = e.stream /\ f.answers = e.answers
      /\ f.pc = e.pc /\ f.script = e.script
      /\ e.pc # "gone" => /\ f.inbox # << >> /\ Len(f.inbox) = Len(e.inbox) + 1
                          /\ Head(f.inbox) = IF e.inbox = << >> THEN reply ELSE Head(e.inbox)
      /\ e.pc = "gone" => f = e
  BY WrittenIs
<1>2. e.pc # "away" /\ ~ (e.sent < Len(e.script))
  <2>1. e.sent \in Nat
    BY DEF Ends
  <2>2. QED
    BY <2>1 DEF Counts, Away, Last
<1>3. Counts(f)
  BY <1>1, <1>2 DEF Counts
<1>4. Told(f)
  BY <1>1 DEF Told
<1>5. Heard(f, r)
  BY <1>1 DEF Heard, Bad
<1>6. QED
  BY <1>1, <1>3, <1>4, <1>5

LEMMA ErrorDialogue ==
    ASSUME NEW c, NEW e \in Ends, NEW cn, NEW r, NEW th,
           Dialogue(c, e, cn, r, th), th.who = c, th.pc = "error",
           NEW f, Written(e, f, [kind |-> "error", to |-> e.sent]),
           NEW th2
    PROVE  Dialogue(c, f, cn, r, th2)
<1> DEFINE reply == [kind |-> "error", to |-> e.sent]
<1>1. reply \in Replies
  BY DEF Replies, Ends
<1>2. /\ f.sent = e.sent /\ f.stream = e.stream /\ f.script = e.script
  BY <1>1, WrittenIs
<1>3. CASE Rejected(c, e, cn, th)
  <2>1. Suits(reply, e.sent, e.script[e.sent].kind)
    BY <1>3 DEF Suits, Rejected, Bad
  <2>2. Counts(f) /\ Told(f) /\ Heard(f, r) /\ (f.pc = "waiting" => f.inbox # << >>)
    BY <1>1, <1>3, <2>1, FirstReply DEF Dialogue, Rejected
  <2>3. Spilling(f, cn)
    BY <1>2, <1>3, <2>2 DEF Spilling, Rejected, Asked, Last, Bad, Traces
  <2>4. QED
    BY <2>2, <2>3 DEF Dialogue, Stage
<1>4. CASE Spilling(e, cn)
  <2>1. Counts(f) /\ Told(f) /\ Heard(f, r) /\ (f.pc = "waiting" => f.inbox # << >>)
    BY <1>1, <1>4, LaterReply DEF Dialogue, Spilling
  <2>2. Spilling(f, cn)
    BY <1>2, <1>4, <2>1 DEF Spilling, Last, Bad, Traces
  <2>3. QED
    BY <2>1, <2>2 DEF Dialogue, Stage
<1>5. QED
  BY <1>3, <1>4 DEF Dialogue, Stage, InStream, InBuffer, InHand, Answered, Busy

(* The command found for the listeners. *)
Found(e, b) ==
    LET found == {k \in 1 .. e.sent : e.script[k].kind # "bad" /\ Pending(b) = Said(e, k)}
    IN  IF found = {} THEN 0 ELSE CHOOSE k \in found : TRUE

LEMMA FoundInBuffer ==
    ASSUME NEW c, NEW e \in Ends, NEW cn, NEW r, NEW th, Counts(e), InBuffer(c, e, cn, r, th)
    PROVE  Found(e, cn.buf) = e.sent
<1> DEFINE found == {k \in 1 .. e.sent : e.script[k].kind # "bad" /\ Pending(cn.buf) = Said(e, k)}
<1>1. e.sent > 0 /\ ~ Bad(e, e.sent) /\ Pending(cn.buf) = Said(e, e.sent)
  BY DEF InBuffer, Asked
<1>2. e.script \in Scripts /\ Len(e.script) \in Nat /\ e.sent \in 1 .. Len(e.script)
  BY <1>1, SentIs
<1>3. e.sent \in found
  BY <1>1, <1>2 DEF Bad
<1>4. ASSUME NEW k \in found PROVE k = e.sent
  <2>1. k \in 1 .. Len(e.script) /\ ~ Bad(e, k) /\ Said(e, k) = Said(e, e.sent)
    BY <1>1, <1>2 DEF Bad
  <2>2. Said(e, k)[1] = k /\ Said(e, e.sent)[1] = e.sent
    BY <1>1, <1>2, <2>1, FirstByte
  <2>3. QED
    BY <2>1, <2>2
<1> HIDE DEF found
<1>5. (CHOOSE k \in found : TRUE) \in found
  BY <1>3
<1>6. QED
  BY <1>3, <1>4, <1>5 DEF Found, found

LEMMA NothingFound ==
    ASSUME NEW e \in Ends, NEW cn \in Connections, Counts(e), Spilling(e, cn)
    PROVE  Found(e, cn.buf) = 0
<1> DEFINE found == {k \in 1 .. e.sent : e.script[k].kind # "bad" /\ Pending(cn.buf) = Said(e, k)}
<1>1. e.sent > 0 /\ Bad(e, e.sent) /\ BytesIn(cn.buf, e.sent) /\ cn.buf \in Buffers
  BY DEF Spilling, Traces, Connections
<1>2. e.script \in Scripts /\ Len(e.script) \in Nat /\ e.sent \in 1 .. Len(e.script)
  BY <1>1, SentIs
<1>3. ASSUME NEW k \in found PROVE FALSE
  <2>1. k \in 1 .. Len(e.script) /\ ~ Bad(e, k) /\ Pending(cn.buf) = Said(e, k) /\ k \in Nat
        /\ k > 0 /\ k # e.sent
    BY <1>1, <1>2 DEF Bad
  <2>2. Len(Said(e, k)) \in Nat /\ Len(Said(e, k)) >= 1 /\ Said(e, k)[1] = k
    BY <1>2, <2>1, FirstByte
  <2>3. /\ Len(Pending(cn.buf)) = cn.buf.read
        /\ \A i \in 1 .. cn.buf.read : Pending(cn.buf)[i] = cn.buf.bytes[i]
    BY <1>1, PendingIs
  <2>4. 1 \in 1 .. cn.buf.read /\ 1 \in 1 .. MaxData
    BY <1>1, <2>1, <2>2, <2>3, SizesAssumption DEF Buffers
  <2>5. cn.buf.bytes[1] = k
    BY <2>1, <2>2, <2>3, <2>4
  <2>6. QED
    BY <1>1, <2>1, <2>4, <2>5 DEF BytesIn
<1>4. QED
  BY <1>3 DEF Found

LEMMA AppendedCall ==
    ASSUME NEW e \in Ends, NEW r \in Seq(Nat), Counts(e), Heard(e, r), NEW k \in 0 .. e.sent,
           k # 0 => ~ Got(r, k)
    PROVE  /\ Heard(e, Append(r, k)) /\ Got(Append(r, k), k)
           /\ \A j : Got(r, j) => Got(Append(r, k), j)
<1> DEFINE q == Append(r, k)
<1>1. e.sent \in Nat /\ k \in Nat /\ k <= e.sent
  BY DEF Ends
<1>2. /\ q \in Seq(Nat) /\ Len(q) = Len(r) + 1 /\ Len(r) \in Nat
      /\ \A i \in 1 .. Len(r) : q[i] = r[i]
      /\ q[Len(r) + 1] = k /\ DOMAIN q = 1 .. Len(r) + 1 /\ DOMAIN r = 1 .. Len(r)
  BY <1>1, AppendProperties, LenProperties
<1> HIDE DEF q
<1>3. \A i \in 1 .. Len(q) : (i \in 1 .. Len(r) /\ q[i] = r[i]) \/ (i = Len(r) + 1 /\ q[i] = k)
  BY <1>2
<1>4. Got(q, k) /\ \A j : Got(r, j) => Got(q, j)
  BY <1>2 DEF Got
<1>5. \A i \in 1 .. Len(q) : q[i] <= e.sent
  BY <1>1, <1>3 DEF Heard
<1>6. \A i, j \in 1 .. Len(q) : q[i] = q[j] /\ q[i] # 0 => i = j
  <2> SUFFICES ASSUME NEW i \in 1 .. Len(q), NEW j \in 1 .. Len(q), q[i] = q[j], q[i] # 0
               PROVE  i = j
    OBVIOUS
  <2>1. CASE i \in 1 .. Len(r) /\ q[i] = r[i] /\ j \in 1 .. Len(r) /\ q[j] = r[j]
    BY <2>1 DEF Heard
  <2>2. CASE i \in 1 .. Len(r) /\ q[i] = r[i] /\ q[j] = k
    BY <1>2, <2>2 DEF Got
  <2>3. CASE j \in 1 .. Len(r) /\ q[j] = r[j] /\ q[i] = k
    BY <1>2, <2>3 DEF Got
  <2>4. QED
    BY <1>3, <2>1, <2>2, <2>3
<1>7. Heard(e, q)
  BY <1>4, <1>5, <1>6 DEF Heard
<1>8. QED
  BY <1>4, <1>7 DEF q

(* What the listeners may add to a connection. *)
Added(cn, adds, k) ==
    IF adds = "data" THEN AddData(cn, k)
    ELSE IF adds = "short" THEN AddShortReply(cn, k) ELSE cn

LEMMA CallDialogue ==
    ASSUME NEW c, NEW e \in Ends, NEW cn \in Connections, NEW r \in Seq(Nat), NEW th,
           Dialogue(c, e, cn, r, th), th.who = c, th.pc = "call",
           NEW k, k = Found(e, cn.buf),
           NEW o \in Outcomes(IF k = 0 THEN "plain" ELSE e.script[k].kind),
           NEW cm, cm = Added(cn, o.adds, k),
           NEW th2, th2.who = c, th2.pc = "reply", th2.parsed = th.parsed,
           th2.result = [kind |-> o.result, to |-> k]
    PROVE  Dialogue(c, e, cm, Append(r, k), th2)
<1>1. CASE InBuffer(c, e, cn, r, th)
  <2>1. Counts(e) /\ Told(e) /\ Heard(e, r) /\ e.sent > 0
    BY <1>1 DEF Dialogue, InBuffer, Asked
  <2>2. k = e.sent
    BY <1>1, <2>1, FoundInBuffer
  <2>3. e.sent \in 1 .. Len(e.script) /\ e.script[k].kind \in Kinds
        /\ (~ Last(e) => e.script[k].kind = "plain") /\ e.sent \in Nat
    BY <2>1, <2>2, SentIs, CommandIs DEF Ends
  <2>4. k # 0 /\ ~ Got(r, k) /\ k \in 0 .. e.sent
    BY <1>1, <2>1, <2>2, <2>3 DEF InBuffer
  <2>5. Heard(e, Append(r, k)) /\ Got(Append(r, k), e.sent)
    BY <2>1, <2>2, <2>4, AppendedCall
  <2>6. o \in Outcomes(e.script[k].kind)
    BY <2>4
  <2>7. Clean(cn) /\ ~ Bad(e, k) /\ cn.stc = << >> /\ cn.short_reply = 0
    BY <1>1, <2>2 DEF InBuffer, Clean
  <2> DEFINE kind == e.script[k].kind
  <2>8. kind # "bad"
    BY <2>7 DEF Bad
  <2>9. cm.buf = cn.buf
    BY DEF Added, AddData, AddShortReply, Connections
  <2>10. CASE o.adds = "nothing"
    <3>1. cm = cn /\ o.result \in {"ok", "nok"}
      BY <2>6, <2>10 DEF Outcomes, Added
    <3>2. Chosen(cm, th2.result) = [kind |-> o.result, to |-> k]
      BY <2>7, <3>1 DEF Chosen
    <3>3. Suits(Chosen(cm, th2.result), k, kind)
      BY <2>8, <3>1, <3>2 DEF Suits
    <3>4. InHand(c, e, cm, Append(r, k), th2)
      BY <1>1, <2>2, <2>5, <3>1, <3>3 DEF InHand, InBuffer, Asked, Emptied, Clean
    <3>5. QED
      BY <2>1, <2>5, <3>4 DEF Dialogue, Stage
  <2>11. CASE o.adds = "data"
    <3>1. kind = "status"
      BY <2>6, <2>8, <2>11 DEF Outcomes
    <3>2. cm.stc = << k >>
      <4>1. cm.stc = Append(cn.stc, k)
        BY <2>11 DEF Added, AddData, Connections
      <4>2. QED
        BY <2>7, <4>1
    <3>3. Chosen(cm, th2.result) = [kind |-> "data", to |-> k]
      <4>1. Len(<< k >>) = 1 /\ << k >>[1] = k /\ << k >> # << >>
        OBVIOUS
      <4>2. QED
        BY <3>2, <4>1 DEF Chosen, Collected
    <3>4. Suits(Chosen(cm, th2.result), k, kind) /\ Last(e)
      BY <2>3, <3>1, <3>3 DEF Suits
    <3>5. InHand(c, e, cm, Append(r, k), th2)
      BY <1>1, <2>2, <2>5, <3>4 DEF InHand, InBuffer, Asked
    <3>6. QED
      BY <2>1, <2>5, <3>5 DEF Dialogue, Stage
  <2>12. CASE o.adds = "short"
    <3>1. kind = "vm"
      BY <2>6, <2>8, <2>12 DEF Outcomes
    <3>2. cm.stc = << >> /\ cm.short_reply = k
      BY <2>7, <2>12 DEF Added, AddShortReply, Connections
    <3>3. Chosen(cm, th2.result) = [kind |-> "short", to |-> k]
      BY <2>4, <3>2 DEF Chosen
    <3>4. Suits(Chosen(cm, th2.result), k, kind) /\ Last(e)
      BY <2>3, <3>1, <3>3 DEF Suits
    <3>5. InHand(c, e, cm, Append(r, k), th2)
      BY <1>1, <2>2, <2>5, <3>4 DEF InHand, InBuffer, Asked
    <3>6. QED
      BY <2>1, <2>5, <3>5 DEF Dialogue, Stage
  <2>13. o.adds \in {"nothing", "data", "short"}
    BY <2>6 DEF Outcomes
  <2>14. QED
    BY <2>10, <2>11, <2>12, <2>13
<1>2. CASE Spilling(e, cn)
  <2>1. Counts(e) /\ Told(e) /\ Heard(e, r) /\ e.sent \in Nat
    BY DEF Dialogue, Ends
  <2>2. k = 0 /\ k \in 0 .. e.sent
    BY <1>2, <2>1, NothingFound
  <2>3. cm = cn
    BY <2>2 DEF Outcomes, Added
  <2>4. Heard(e, Append(r, k))
    BY <2>1, <2>2, AppendedCall
  <2>5. QED
    BY <1>2, <2>1, <2>3, <2>4 DEF Dialogue, Stage
<1>3. QED
  BY <1>1, <1>2 DEF Dialogue, Stage, InStream, InHand, Rejected, Answered, Busy

LEMMA ReplyDialogue ==
    ASSUME NEW c, NEW e \in Ends, NEW cn \in Connections, NEW r, NEW th \in Handlers,
           Dialogue(c, e, cn, r, th), th.who = c, th.pc = "reply",
           Chosen(cn, th.result) \in Replies,
           NEW f, Written(e, f, Chosen(cn, th.result)),
           NEW cm, cm = [cn EXCEPT !.buf =
                           DropBytes(cn.buf, MessageSize(th.parsed.cmdlen, th.parsed.datalen))],
           NEW th2, th2.pc = "wait"
    PROVE  Dialogue(c, f, cm, r, th2)
<1> DEFINE size == MessageSize(th.parsed.cmdlen, th.parsed.datalen)
           reply == Chosen(cn, th.result)
<1>1. /\ f.sent = e.sent /\ f.stream = e.stream /\ f.script = e.script
  BY WrittenIs
<1>2. /\ cm.buf = DropBytes(cn.buf, size) /\ cm.stc = cn.stc /\ cm.short_reply = cn.short_reply
      /\ size \in Nat /\ cn.buf \in Buffers
  BY DEF Connections, MessageSize, Handlers
<1>3. ~ Busy(c, th2)
  BY DEF Busy
<1>4. CASE InHand(c, e, cn, r, th)
  <2>1. Asked(e) /\ Suits(reply, e.sent, e.script[e.sent].kind) /\ Got(r, e.sent)
        /\ Counts(e) /\ Told(e) /\ Heard(e, r) /\ e.stream = << >> /\ e.sent > 0
        /\ (Last(e) \/ (size >= cn.buf.read /\ Clean(cn)))
    BY <1>4 DEF Dialogue, InHand, Asked, Emptied
  <2> HIDE DEF reply, size
  <2>2. Counts(f) /\ Told(f) /\ Heard(f, r) /\ (f.pc = "waiting" => f.inbox # << >>)
    BY <2>1, FirstReply DEF reply
  <2>3. Last(f) \/ (cm.buf = EmptyBuffer /\ Clean(cm))
    BY <1>1, <1>2, <2>1 DEF Last, Clean, DropBytes
  <2>4. Answered(c, f, cm, th2)
    BY <1>1, <1>3, <2>1, <2>2, <2>3 DEF Answered
  <2>5. QED
    BY <2>2, <2>4 DEF Dialogue, Stage
<1>5. CASE Spilling(e, cn)
  <2>1. Counts(f) /\ Told(f) /\ Heard(f, r) /\ (f.pc = "waiting" => f.inbox # << >>)
    BY <1>5, LaterReply DEF Dialogue, Spilling
  <2>2. BytesIn(cm.buf, e.sent)
    BY <1>2, <1>5, DroppingKeepsBytes DEF Spilling, Traces
  <2>3. Spilling(f, cm)
    BY <1>1, <1>5, <2>1, <2>2 DEF Spilling, Last, Bad, Traces
  <2>4. QED
    BY <2>1, <2>3 DEF Dialogue, Stage
<1>6. QED
  BY <1>4, <1>5 DEF Dialogue, Stage, InStream, InBuffer, Rejected, Answered, Busy

(* What the handler saw when the event came is still so. *)
HandlerSound ==
    thread.pc = "handle" =>
        IF thread.eof THEN client[thread.who].pc = "gone"
        ELSE /\ client[thread.who].stream # << >>
             /\ thread.ready = Len(client[thread.who].stream)

Dialogues ==
    \A c \in Clients : Dialogue(c, client[c], conn[c], received[c], thread)

DeliveryInv == TypeInv /\ NotStarted /\ HandlerSound /\ Dialogues

LEMMA InitDelivery == Init => DeliveryInv
<1> SUFFICES ASSUME Init PROVE DeliveryInv
  OBVIOUS
<1>1. TypeInv
  BY InitTypes
<1>2. NotStarted /\ HandlerSound
  BY DEF Init, NotStarted, HandlerSound, Idle
<1>3. ASSUME NEW c \in Clients PROVE Dialogue(c, client[c], conn[c], received[c], thread)
  <2>1. client[c] = Away /\ conn[c] = NoConnection /\ received[c] = << >> /\ thread.pc = "none"
    BY DEF Init, Idle
  <2>2. Len(<< >>) = 0
    BY EmptySeq
  <2>3. Counts(Away) /\ Told(Away) /\ Heard(Away, << >>)
    BY <2>2 DEF Counts, Told, Heard, Away
  <2>4. Answered(c, Away, NoConnection, thread)
    BY <2>1 DEF Answered, Away, NoConnection, Clean, Busy
  <2>5. QED
    BY <2>1, <2>3, <2>4 DEF Dialogue, Stage
<1>4. QED
  BY <1>1, <1>2, <1>3 DEF DeliveryInv, Dialogues

LEMMA Typed ==
    ASSUME TypeInv
    PROVE  /\ thread \in Handlers /\ thread.who \in Clients
           /\ client \in [Clients -> Ends] /\ conn \in [Clients -> Connections]
           /\ received \in [Clients -> Seq(Nat)]
           /\ \A c \in Clients : /\ client[c] \in Ends /\ conn[c] \in Connections
                                 /\ received[c] \in Seq(Nat)
BY DEF TypeInv, TypeOK, Handlers

(* A step of one client. *)
LEMMA ClientStep ==
    ASSUME DeliveryInv, NEW c \in Clients, NEW f, client' = [client EXCEPT ![c] = f],
           UNCHANGED server, client[c].pc # "gone",
           f.stream = client[c].stream \/ client[c].stream = << >>,
           Dialogue(c, f, conn[c], received[c], thread)
    PROVE  HandlerSound' /\ Dialogues'
<1>1. UNCHANGED << conn, received, thread >>
  BY DEF server
<1>2. \A d \in Clients : client'[d] = IF d = c THEN f ELSE client[d]
  BY Typed DEF DeliveryInv
<1>3. Dialogues'
  BY <1>1, <1>2 DEF DeliveryInv, Dialogues
<1>4. HandlerSound'
  BY <1>1, <1>2, Typed DEF DeliveryInv, HandlerSound
<1>5. QED
  BY <1>3, <1>4

LEMMA ClientsDeliver ==
    ASSUME DeliveryInv, NEW c \in Clients, Connect(c) \/ Send(c) \/ Receive(c) \/ Leave(c)
    PROVE  HandlerSound' /\ Dialogues'
<1> DEFINE e == client[c]
<1>1. e \in Ends /\ received[c] \in Seq(Nat)
  BY Typed DEF DeliveryInv
<1>2. Dialogue(c, e, conn[c], received[c], thread)
  BY DEF DeliveryInv, Dialogues
<1>3. CASE Connect(c)
  <2>1. PICK s \in Scripts : client' = [client EXCEPT ![c] = [@ EXCEPT !.pc = "idle", !.script = s]]
    BY <1>3 DEF Connect
  <2> DEFINE f == [e EXCEPT !.pc = "idle", !.script = s]
  <2>2. e.pc = "away" /\ UNCHANGED server
    BY <1>3 DEF Connect
  <2>3. client' = [client EXCEPT ![c] = f] /\ f.stream = e.stream
    BY <1>1, <2>1, Typed DEF DeliveryInv, Ends
  <2>4. Dialogue(c, f, conn[c], received[c], thread)
    BY <1>1, <1>2, <2>2, ConnectDialogue
  <2> HIDE DEF f
  <2>5. QED
    BY <2>2, <2>3, <2>4, ClientStep
<1>4. CASE Send(c)
  <2> DEFINE k == e.sent + 1
             f == [e EXCEPT !.pc = "waiting", !.sent = k, !.stream = e.stream \o Said(e, k)]
  <2>1. e.pc = "idle" /\ k \in DOMAIN e.script /\ UNCHANGED server
    BY <1>4 DEF Send
  <2>2. client' = [client EXCEPT ![c] = f]
    BY <1>4, Typed DEF Send, Message, Said, Numbered, DeliveryInv
  <2>3. Dialogue(c, f, conn[c], received[c], thread)
    BY <1>1, <1>2, <2>1, SendDialogue
  <2>4. e.stream = << >>
    <3>1. ~ Last(e)
      <4>1. e.script \in Scripts
        BY <1>1, <2>1, EmptySeq DEF Ends
      <4>2. Len(e.script) \in Nat /\ DOMAIN e.script = 1 .. Len(e.script) /\ e.sent \in Nat
        BY <1>1, <4>1, ScriptsAssumption, LenProperties DEF Ends
      <4>3. QED
        BY <2>1, <4>2 DEF Last
    <3>2. QED
      BY <1>2, <2>1, <3>1
      DEF Dialogue, Stage, InStream, InBuffer, InHand, Rejected, Answered, Spilling, Asked
  <2> HIDE DEF f
  <2>5. QED
    BY <2>1, <2>2, <2>3, <2>4, ClientStep
<1>5. CASE Receive(c)
  <2> DEFINE f == [e EXCEPT !.pc = "idle", !.inbox = Tail(e.inbox),
                            !.answers = Append(e.answers, Head(e.inbox))]
  <2>1. e.pc = "waiting" /\ e.inbox # << >> /\ UNCHANGED server
    BY <1>5 DEF Receive
  <2>2. client' = [client EXCEPT ![c] = f] /\ f.stream = e.stream
    BY <1>1, <1>5, Typed DEF Receive, DeliveryInv, Ends
  <2>3. Dialogue(c, f, conn[c], received[c], thread)
    BY <1>1, <1>2, <2>1, ReceiveDialogue
  <2> HIDE DEF f
  <2>4. QED
    BY <2>1, <2>2, <2>3, ClientStep
<1>6. CASE Leave(c)
  <2> DEFINE f == [e EXCEPT !.pc = "gone"]
  <2>1. e.pc \in {"idle", "waiting"} /\ UNCHANGED server
    BY <1>6 DEF Leave
  <2>2. client' = [client EXCEPT ![c] = f] /\ f.stream = e.stream
    BY <1>1, <1>6, Typed DEF Leave, DeliveryInv, Ends
  <2>3. Dialogue(c, f, conn[c], received[c], thread)
    BY <1>1, <1>2, <2>1, LeaveDialogue
  <2> HIDE DEF f
  <2>4. QED
    BY <2>1, <2>2, <2>3, ClientStep
<1>7. QED
  BY <1>3, <1>4, <1>5, <1>6

(* Steps that touch no command: connections may open and close. *)
LEMMA IdleStep ==
    ASSUME DeliveryInv, UNCHANGED << client, received >>,
           \A c \in Clients : ~ Busy(c, thread) /\ ~ Busy(c, thread)',
           \A c \in Clients : conn'[c] = conn[c] \/ (conn'[c].buf = EmptyBuffer /\ Clean(conn'[c]))
    PROVE  Dialogues'
<1> SUFFICES ASSUME NEW c \in Clients
             PROVE  Dialogue(c, client[c], conn'[c], received[c], thread')
  BY DEF Dialogues
<1>1. Dialogue(c, client[c], conn[c], received[c], thread)
  BY DEF DeliveryInv, Dialogues
<1>2. ~ Busy(c, thread) /\ ~ Busy(c, thread')
  BY DEF Busy
<1>3. QED
  BY <1>1, <1>2, Undisturbed

LEMMA FreshConnection ==
    ASSUME NEW cn, cn = NoConnection \/ cn = [NoConnection EXCEPT !.open = TRUE]
    PROVE  cn.buf = EmptyBuffer /\ Clean(cn)
BY DEF NoConnection, Clean

LEMMA QuietSteps ==
    ASSUME DeliveryInv,
           Start \/ Begin \/ Stop \/ Free \/ Wake \/ ShutDown \/ Accept \/ Disconnect
    PROVE  HandlerSound' /\ Dialogues'
<1>1. /\ thread \in Handlers /\ thread.who \in Clients /\ conn \in [Clients -> Connections]
      /\ client \in [Clients -> Ends]
  BY Typed DEF DeliveryInv
<1>2. CASE Start
  <2>1. thread.pc = "none" /\ thread'.pc = "begin" /\ UNCHANGED << conn, client, received >>
    BY <1>1, <1>2 DEF Start, DeliveryInv, NotStarted, Handlers
  <2>2. QED
    BY <2>1, IdleStep DEF Busy, HandlerSound
<1>3. CASE Begin
  <2>1. thread.pc = "begin" /\ thread'.pc = "wait" /\ UNCHANGED << conn, client, received >>
    BY <1>1, <1>3 DEF Begin, Handlers
  <2>2. QED
    BY <2>1, IdleStep DEF Busy, HandlerSound
<1>4. CASE Stop
  BY <1>4 DEF Stop, DeliveryInv, HandlerSound, Dialogues
<1>5. CASE Free
  <2>1. thread.pc = "done" /\ thread' = thread /\ UNCHANGED << client, received >>
        /\ \A c \in Clients : conn'[c] = NoConnection
    BY <1>5 DEF Free
  <2>2. \A c \in Clients : conn'[c].buf = EmptyBuffer /\ Clean(conn'[c])
    BY <2>1, FreshConnection
  <2>3. QED
    BY <2>1, <2>2, IdleStep DEF Busy, HandlerSound
<1>6. CASE Wake
  <2>1. thread.pc = "wait" /\ UNCHANGED << conn, client, received >>
    BY <1>6 DEF Wake, At
  <2>2. CASE thread' = [thread EXCEPT !.pc = "accept", !.used = TRUE]
    <3>1. thread'.pc = "accept"
      BY <1>1, <2>2 DEF Handlers
    <3>2. QED
      BY <2>1, <3>1, IdleStep DEF Busy, HandlerSound
  <2>3. ASSUME NEW c \in Clients, Ready(c),
               thread' = [thread EXCEPT !.pc = "handle", !.used = TRUE, !.who = c,
                                        !.ready = Len(client[c].stream),
                                        !.eof = (client[c].pc = "gone")]
        PROVE  HandlerSound' /\ Dialogues'
    <3>1. thread'.pc = "handle" /\ thread'.who = c /\ thread'.ready = Len(client[c].stream)
      BY <1>1, <2>3 DEF Handlers
    <3>2. thread'.eof <=> client[c].pc = "gone"
      BY <1>1, <2>3 DEF Handlers
    <3>3. HandlerSound'
      BY <2>1, <2>3, <3>1, <3>2 DEF HandlerSound, Ready
    <3>4. Dialogues'
      BY <2>1, <3>1, IdleStep DEF Busy
    <3>5. QED
      BY <3>3, <3>4
  <2>4. QED
    BY <1>6, <2>2, <2>3 DEF Wake
<1>7. CASE ShutDown
  <2>1. thread.pc = "wait" /\ thread'.pc = "done" /\ UNCHANGED << conn, client, received >>
    BY <1>1, <1>7 DEF ShutDown, At, Handlers
  <2>2. QED
    BY <2>1, IdleStep DEF Busy, HandlerSound
<1>8. CASE Accept
  <2> DEFINE h == Head(backlog)
             new == [NoConnection EXCEPT !.open = TRUE]
  <2>1. thread.pc = "accept" /\ thread'.pc = "wait" /\ UNCHANGED << client, received >>
        /\ conn' = [conn EXCEPT ![h] = new]
    BY <1>1, <1>8 DEF Accept, At, Handlers
  <2> HIDE DEF h, new
  <2>2. \A c \in Clients : conn'[c] = conn[c] \/ conn'[c] = new
    BY <1>1, <2>1
  <2>3. \A c \in Clients : conn'[c] = conn[c] \/ (conn'[c].buf = EmptyBuffer /\ Clean(conn'[c]))
    BY <2>2, FreshConnection DEF new
  <2>4. QED
    BY <2>1, <2>3, IdleStep DEF Busy, HandlerSound
<1>9. CASE Disconnect
  <2>1. thread.pc = "handle" /\ thread'.pc = "wait" /\ UNCHANGED << client, received >>
        /\ conn' = [conn EXCEPT ![thread.who] = NoConnection]
    BY <1>1, <1>9 DEF Disconnect, At, Handlers
  <2>2. \A c \in Clients : conn'[c] = conn[c] \/ conn'[c] = NoConnection
    BY <1>1, <2>1
  <2>3. \A c \in Clients : conn'[c] = conn[c] \/ (conn'[c].buf = EmptyBuffer /\ Clean(conn'[c]))
    BY <2>2, FreshConnection
  <2>4. QED
    BY <2>1, <2>3, IdleStep DEF Busy, HandlerSound
<1>10. QED
  BY <1>2, <1>3, <1>4, <1>5, <1>6, <1>7, <1>8, <1>9

(* A step of the thread for the client it works on. *)
LEMMA HandlerStep ==
    ASSUME DeliveryInv, thread'.who = thread.who, thread'.pc # "handle",
           \A c \in Clients : c # thread.who => /\ client'[c] = client[c] /\ conn'[c] = conn[c]
                                                /\ received'[c] = received[c],
           Dialogue(thread.who, client'[thread.who], conn'[thread.who], received'[thread.who], thread')
    PROVE  HandlerSound' /\ Dialogues'
<1>1. ASSUME NEW c \in Clients, c # thread.who
      PROVE  Dialogue(c, client'[c], conn'[c], received'[c], thread')
  <2>1. Dialogue(c, client[c], conn[c], received[c], thread)
    BY DEF DeliveryInv, Dialogues
  <2>2. ~ Busy(c, thread) /\ ~ Busy(c, thread')
    BY <1>1 DEF Busy
  <2>3. Dialogue(c, client[c], conn[c], received[c], thread')
    BY <2>1, <2>2, Undisturbed
  <2>4. QED
    BY <1>1, <2>3
<1>2. \A c \in Clients : Dialogue(c, client'[c], conn'[c], received'[c], thread')
  BY <1>1
<1>3. QED
  BY <1>2 DEF HandlerSound, Dialogues

LEMMA ReadAndParseDelivers == ASSUME DeliveryInv, ReadAndParse PROVE HandlerSound' /\ Dialogues'
<1> DEFINE c == thread.who
           e == client[c]
           n == Room(conn[c].buf, thread.ready)
           p == TryParse(ReadData(conn[c].buf, n, e.stream))
           f == [e EXCEPT !.stream = SubSeq(e.stream, n + 1, Len(e.stream))]
           cm == [conn[c] EXCEPT !.buf = p.buf]
           parsed == [err |-> p.err, cmdlen |-> p.cmdlen, datalen |-> p.datalen]
           pc == IF p.err = "keepreading" THEN "wait" ELSE IF p.err = "none" THEN "call" ELSE "error"
<1>1. /\ thread \in Handlers /\ c \in Clients /\ conn \in [Clients -> Connections]
      /\ client \in [Clients -> Ends] /\ e \in Ends /\ conn[c] \in Connections
      /\ received[c] \in Seq(Nat)
  BY Typed DEF DeliveryInv
<1>2. thread.pc = "handle" /\ e.stream # << >> /\ n = Room(conn[c].buf, Len(e.stream))
  BY DEF ReadAndParse, At, DeliveryInv, HandlerSound
<1>3. /\ client' = [client EXCEPT ![c] = f] /\ conn' = [conn EXCEPT ![c] = cm]
      /\ thread' = [thread EXCEPT !.pc = pc, !.parsed = parsed]
      /\ received' = received
  BY DEF ReadAndParse
<1>4. Dialogue(c, e, conn[c], received[c], thread)
  BY <1>1 DEF DeliveryInv, Dialogues
<1>5. parsed.cmdlen = p.cmdlen /\ parsed.datalen = p.datalen
  OBVIOUS
<1> DEFINE th == thread'
<1> HIDE DEF parsed, pc, f, cm, p, n
<1>6. th.pc = pc /\ th.who = c /\ th.parsed = parsed
  BY <1>1, <1>3 DEF Handlers
<1>7. client'[c] = f /\ conn'[c] = cm
      /\ \A d \in Clients : d # c => client'[d] = client[d] /\ conn'[d] = conn[d]
  BY <1>1, <1>3
<1>8. pc # "handle"
  BY DEF pc
<1> HIDE DEF th
<1>9. Dialogue(c, f, cm, received[c], th)
  <2> HIDE DEF e, c
  <2>1. th.who = c /\ th.parsed.cmdlen = p.cmdlen /\ th.parsed.datalen = p.datalen
        /\ th.pc = IF p.err = "keepreading" THEN "wait" ELSE IF p.err = "none" THEN "call" ELSE "error"
    BY <1>5, <1>6 DEF pc
  <2>2. thread.who = c
    BY DEF c
  <2>3. p = TryParse(ReadData(conn[c].buf, n, e.stream))
        /\ f = [e EXCEPT !.stream = SubSeq(e.stream, n + 1, Len(e.stream))]
        /\ cm = [conn[c] EXCEPT !.buf = p.buf]
    BY DEF p, f, cm
  <2>4. /\ n = Room(conn[c].buf, Len(e.stream)) /\ e.stream # << >>
        /\ e \in Ends /\ conn[c] \in Connections /\ received[c] \in Seq(Nat)
        /\ Dialogue(c, e, conn[c], received[c], thread) /\ thread.pc = "handle"
    BY <1>1, <1>2, <1>4
  <2>5. QED
    BY <2>1, <2>2, <2>3, <2>4, ReadDialogue
<1>10. QED
  BY <1>1, <1>3, <1>6, <1>7, <1>8, <1>9, HandlerStep DEF th

LEMMA WriteWrites ==
    ASSUME TypeInv, NEW c \in Clients, NEW reply, Write(c, reply)
    PROVE  Written(client[c], client'[c], reply)
           /\ \A d \in Clients : d # c => client'[d] = client[d]
BY Typed DEF Write, Written

LEMMA ReplyErrorDelivers == ASSUME DeliveryInv, ReplyError PROVE HandlerSound' /\ Dialogues'
<1> DEFINE c == thread.who
           e == client[c]
           reply == [kind |-> "error", to |-> e.sent]
<1>1. thread \in Handlers /\ c \in Clients /\ e \in Ends
  BY Typed DEF DeliveryInv
<1>2. thread.pc = "error" /\ Write(c, reply) /\ UNCHANGED << conn, received >>
  BY DEF ReplyError, At
<1>3. thread'.pc = "call" /\ thread'.who = c
  BY <1>1 DEF ReplyError, Handlers
<1>4. Written(e, client'[c], reply) /\ \A d \in Clients : d # c => client'[d] = client[d]
  BY <1>1, <1>2, WriteWrites DEF DeliveryInv
<1>5. Dialogue(c, e, conn[c], received[c], thread)
  BY <1>1 DEF DeliveryInv, Dialogues
<1>6. Dialogue(c, client'[c], conn[c], received[c], thread')
  BY <1>1, <1>2, <1>4, <1>5, ErrorDialogue
<1>7. QED
  BY <1>2, <1>3, <1>4, <1>6, HandlerStep

LEMMA CallListenersDelivers == ASSUME DeliveryInv, CallListeners PROVE HandlerSound' /\ Dialogues'
<1> DEFINE c == thread.who
           e == client[c]
           k == Command(c)
           kind == IF k = 0 THEN "plain" ELSE e.script[k].kind
<1>1. /\ thread \in Handlers /\ c \in Clients /\ e \in Ends /\ conn[c] \in Connections
      /\ received[c] \in Seq(Nat) /\ conn \in [Clients -> Connections]
      /\ received \in [Clients -> Seq(Nat)]
  BY Typed DEF DeliveryInv
<1>2. k = Found(e, conn[c].buf)
  BY DEF Command, Found, Message, Said, Numbered
<1>3. PICK o \in Outcomes(kind) :
        /\ thread' = [thread EXCEPT !.pc = "reply", !.result = [kind |-> o.result, to |-> k]]
        /\ conn' = [conn EXCEPT ![c] = IF o.adds = "data" THEN AddData(@, k)
                                       ELSE IF o.adds = "short" THEN AddShortReply(@, k)
                                       ELSE @]
  BY DEF CallListeners
<1>4. /\ received' = [received EXCEPT ![c] = Append(received[c], k)] /\ thread.pc = "call"
      /\ client' = client
  BY DEF CallListeners, At
<1> HIDE DEF k
<1> DEFINE cm == Added(conn[c], o.adds, k)
           result == [kind |-> o.result, to |-> k]
<1>5. conn' = [conn EXCEPT ![c] = cm]
  BY <1>3 DEF Added
<1>6. /\ thread'.pc = "reply" /\ thread'.who = c /\ thread'.parsed = thread.parsed
      /\ thread'.result = result
  BY <1>1, <1>3 DEF Handlers
<1>7. Dialogue(c, e, conn[c], received[c], thread)
  BY <1>1 DEF DeliveryInv, Dialogues
<1>8. Dialogue(c, e, cm, Append(received[c], k), thread')
  <2>1. o \in Outcomes(IF k = 0 THEN "plain" ELSE e.script[k].kind)
    BY <1>3
  <2>2. thread.who = c /\ thread.pc = "call" /\ cm = Added(conn[c], o.adds, k)
        /\ thread'.result = [kind |-> o.result, to |-> k]
    BY <1>4, <1>6
  <2> HIDE DEF c, e, cm, result, kind
  <2>3. QED
    BY <1>1, <1>2, <1>6, <1>7, <2>1, <2>2, CallDialogue
<1> HIDE DEF cm
<1>9. /\ conn'[c] = cm /\ received'[c] = Append(received[c], k)
      /\ \A d \in Clients : d # c => conn'[d] = conn[d] /\ received'[d] = received[d]
  BY <1>1, <1>4, <1>5
<1>10. QED
  BY <1>4, <1>6, <1>8, <1>9, HandlerStep

LEMMA AnswerIs ==
    ASSUME TypeInv, NEW c \in Clients
    PROVE  Answer(c) = Chosen(conn[c], thread.result) /\ Answer(c) \in Replies
<1>1. conn[c] \in Connections /\ thread \in Handlers
  BY Typed
<1>2. Collected(conn[c]) \in Replies
  <2>1. conn[c].stc \in Seq(Nat)
    BY <1>1 DEF Connections
  <2>2. Len(conn[c].stc) = 1 => conn[c].stc[1] \in Nat
    BY <2>1, ElementOfSeq
  <2>3. QED
    BY <2>2 DEF Collected, Replies
<1>3. [kind |-> "short", to |-> conn[c].short_reply] \in Replies /\ thread.result \in Replies
  BY <1>1 DEF Connections, Handlers, Replies
<1>4. QED
  BY <1>2, <1>3 DEF Answer, Chosen

LEMMA ReplyDelivers == ASSUME DeliveryInv, Reply PROVE HandlerSound' /\ Dialogues'
<1> DEFINE c == thread.who
           e == client[c]
           reply == Chosen(conn[c], thread.result)
           cm == [conn[c] EXCEPT !.buf = DropBytes(conn[c].buf,
                                    MessageSize(thread.parsed.cmdlen, thread.parsed.datalen))]
<1>1. /\ thread \in Handlers /\ c \in Clients /\ e \in Ends /\ conn[c] \in Connections
      /\ conn \in [Clients -> Connections]
  BY Typed DEF DeliveryInv
<1>2. reply \in Replies /\ Answer(c) = reply
  BY <1>1, AnswerIs DEF DeliveryInv
<1>3. /\ thread.pc = "reply" /\ Write(c, Answer(c)) /\ received' = received
      /\ conn' = [conn EXCEPT ![c] = cm]
  BY DEF Reply, At
<1>4. thread'.pc = "wait" /\ thread'.who = c
  BY <1>1 DEF Reply, Handlers
<1>5. Written(e, client'[c], reply) /\ \A d \in Clients : d # c => client'[d] = client[d]
  BY <1>1, <1>2, <1>3, WriteWrites DEF DeliveryInv
<1>6. Dialogue(c, e, conn[c], received[c], thread)
  BY <1>1 DEF DeliveryInv, Dialogues
<1>7. Dialogue(c, client'[c], cm, received[c], thread')
  BY <1>1, <1>2, <1>3, <1>4, <1>5, <1>6, ReplyDialogue
<1> HIDE DEF cm
<1>8. conn'[c] = cm /\ \A d \in Clients : d # c => conn'[d] = conn[d]
  BY <1>1, <1>3
<1>9. QED
  BY <1>3, <1>4, <1>5, <1>7, <1>8, HandlerStep

LEMMA DeliveryInductive == ASSUME DeliveryInv, [Next]_vars PROVE DeliveryInv'
<1>1. TypeInv' /\ NotStarted'
  BY TypesInductive, NotStartedInductive DEF DeliveryInv
<1>2. CASE Start \/ Begin \/ Stop \/ Free \/ Wake \/ ShutDown \/ Accept \/ Disconnect
  BY <1>1, <1>2, QuietSteps DEF DeliveryInv
<1>3. CASE ReadAndParse
  BY <1>1, <1>3, ReadAndParseDelivers DEF DeliveryInv
<1>4. CASE ReplyError
  BY <1>1, <1>4, ReplyErrorDelivers DEF DeliveryInv
<1>5. CASE CallListeners
  BY <1>1, <1>5, CallListenersDelivers DEF DeliveryInv
<1>6. CASE Reply
  BY <1>1, <1>6, ReplyDelivers DEF DeliveryInv
<1>7. CASE \E c \in Clients : Connect(c) \/ Send(c) \/ Receive(c) \/ Leave(c)
  BY <1>1, <1>7, ClientsDeliver DEF DeliveryInv
<1>8. CASE UNCHANGED vars
  BY <1>1, <1>8 DEF vars, server, DeliveryInv, HandlerSound, Dialogues
<1>9. QED
  BY <1>2, <1>3, <1>4, <1>5, <1>6, <1>7, <1>8 DEF Next, Thread

(* The positions of one element, if it cannot be at two. *)
LEMMA OneCall ==
    ASSUME NEW r \in Seq(Nat), NEW k, \A i, j \in 1 .. Len(r) : r[i] = k /\ r[j] = k => i = j
    PROVE  LET calls == Cardinality({i \in DOMAIN r : r[i] = k})
           IN  calls <= 1 /\ (Got(r, k) => calls = 1)
<1> DEFINE S == {i \in DOMAIN r : r[i] = k}
<1>1. DOMAIN r = 1 .. Len(r)
  BY LenProperties
<1>2. CASE S = {}
  <2>1. Cardinality(S) = 0 /\ ~ Got(r, k)
    BY <1>2, FS_EmptySet DEF Got
  <2>2. QED
    BY <2>1
<1>3. ASSUME NEW i \in S PROVE Cardinality(S) = 1
  <2>1. S = {i}
    BY <1>1, <1>3
  <2>2. QED
    BY <2>1, FS_Singleton
<1>4. QED
  BY <1>2, <1>3

(***************************************************************************)
(* Every command of a client reaches the listeners whole and at most once, *)
(* before its reply is read, however reads, other clients and the shutdown *)
(* interleave: sh_read_data, sh_try_cmdparsing and shc_dropmessage agree   *)
(* on where commands end.                                                  *)
(***************************************************************************)
THEOREM CommandsAreDelivered == Spec => []DeliveredOnce
<1>1. ASSUME DeliveryInv PROVE DeliveredOnce
  <2> SUFFICES ASSUME NEW c \in Clients, NEW k \in DOMAIN client[c].script
               PROVE  LET calls == Cardinality({i \in DOMAIN received[c] : received[c][i] = k})
                      IN  /\ calls <= 1
                          /\ (k \in DOMAIN client[c].answers /\ client[c].script[k].kind # "bad"
                                => calls = 1)
    BY DEF DeliveredOnce
  <2> DEFINE e == client[c]
             r == received[c]
  <2>1. e \in Ends /\ r \in Seq(Nat) /\ Heard(e, r)
    BY <1>1, Typed DEF DeliveryInv, Dialogues, Dialogue
  <2>2. k \in Nat /\ k # 0
    <3>1. e.script \in Scripts
      BY <2>1, EmptySeq DEF Ends
    <3>2. QED
      BY <3>1, ScriptsAssumption, LenProperties
  <2>3. DOMAIN e.answers = 1 .. Len(e.answers)
    BY <2>1, LenProperties DEF Ends
  <2> HIDE DEF e, r
  <2>4. \A i, j \in 1 .. Len(r) : r[i] = k /\ r[j] = k => i = j
    BY <2>1, <2>2 DEF Heard
  <2>5. k \in DOMAIN e.answers /\ e.script[k].kind # "bad" => Got(r, k)
    BY <2>1, <2>3 DEF Heard, Bad
  <2>6. QED
    BY <2>1, <2>4, <2>5, OneCall DEF e, r
<1>2. QED
  BY <1>1, InitDelivery, DeliveryInductive, PTL DEF Spec

(***************************************************************************)
(* The reply a client reads is the reply to the command it has just sent,  *)
(* and of the kind that command can have: what the reply collector holds   *)
(* and what listeners return is never taken for another command's.         *)
(***************************************************************************)
THEOREM RepliesFitTheirCommands == Spec => []AnswersItsOwn
<1>1. ASSUME DeliveryInv PROVE AnswersItsOwn
  <2> SUFFICES ASSUME NEW c \in Clients, NEW k \in DOMAIN client[c].answers
               PROVE  Suits(client[c].answers[k], k, client[c].script[k].kind)
    BY DEF AnswersItsOwn, Suits
  <2>1. client[c] \in Ends /\ Told(client[c])
    BY <1>1, Typed DEF DeliveryInv, Dialogues, Dialogue
  <2>2. DOMAIN client[c].answers = 1 .. Len(client[c].answers)
    BY <2>1, LenProperties DEF Ends
  <2>3. QED
    BY <2>1, <2>2 DEF Told
<1>2. QED
  BY <1>1, InitDelivery, DeliveryInductive, PTL DEF Spec

=============================================================================
