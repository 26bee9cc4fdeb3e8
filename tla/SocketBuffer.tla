---------------------------- MODULE SocketBuffer ----------------------------
(***************************************************************************)
(* libsocket/socket_handle.c, the part that works on one connection's      *)
(* buffer: appending what was read, finding a command at the front and     *)
(* dropping it again.  A command is its name, a zero byte, and data that   *)
(* ends with a zero byte.                                                  *)
(*                                                                         *)
(* A byte is 0 or the number of the message it belongs to: the parser only *)
(* tells zero bytes from others.                                           *)
(***************************************************************************)
EXTENDS Integers, Sequences

CONSTANTS
    MaxData, \* SHC_MAXTRANSPORTDATA, the size of the buffer
    CmdLen   \* SH_CMDLEN, the longest name of a command

ASSUME SizesAssumption == MaxData \in Nat \ {0} /\ CmdLen \in Nat

Buffers == [bytes : [1 .. MaxData -> Nat], read : 0 .. MaxData]

(* bytes_read is zero, and so is every byte of the buffer. *)
EmptyBuffer == [bytes |-> [i \in 1 .. MaxData |-> 0], read |-> 0]

(* What has been read and not been dropped. *)
Pending(b) == [i \in 1 .. b.read |-> b.bytes[i]]

(* How much of what is ready fits. *)
Room(b, ready) == IF ready > MaxData - b.read THEN MaxData - b.read ELSE ready

(* sh_read_data: the first n bytes of the stream go behind what is there. *)
ReadData(b, n, stream) ==
    [bytes |-> [i \in 1 .. MaxData |-> IF i \in b.read + 1 .. b.read + n
                                       THEN stream[i - b.read] ELSE b.bytes[i]],
     read  |-> b.read + n]

\* Faulty variant: assumes that no more is dropped than was read.
FaultyDropBytes(b, count) ==
    [bytes |-> [i \in 1 .. MaxData |-> IF i + count <= MaxData THEN b.bytes[i + count] ELSE 0],
     read  |-> b.read - count]

(* shc_dropbytes: the rest moves to the front.  The cells it came from are *)
(* zero afterwards only if they lie behind the first count.                *)
DropBytes(b, count) ==
    IF count >= b.read THEN EmptyBuffer
    ELSE [bytes |-> [i \in 1 .. MaxData |->
                        IF i + count <= MaxData THEN b.bytes[i + count]
                        ELSE IF i > count THEN 0 ELSE b.bytes[i]],
          read  |-> b.read - count]

\* Faulty variant: counts one of the two zero bytes only.
FaultyMessageSize(cmdlen, datalen) == cmdlen + datalen + 1

(* shc_dropmessage drops this much. *)
MessageSize(cmdlen, datalen) == cmdlen + datalen + 2

(* memchr(.., 0, ..) between two places; 0 if there is none *)
FirstZero(b, from, to) ==
    LET zeros == {i \in from .. to : b.bytes[i] = 0}
    IN  IF zeros = {} THEN 0 ELSE CHOOSE i \in zeros : \A j \in zeros : i <= j

Errors == {"none", "keepreading", "garbage", "invalidcmd", "datatoolong"}

(* What sh_try_cmdparsing leaves in parsedata, and the buffer it leaves. *)
Parsed(err, cmdlen, datalen, b) ==
    [err |-> err, cmdlen |-> cmdlen, datalen |-> datalen, buf |-> b]

\* Faulty variant: a command without a zero behind its data is waited for.
FaultyParseData(b, z) ==
    LET zd == FirstZero(b, z + 1, b.read)
    IN  IF zd # 0 THEN Parsed("none", z - 1, zd - z - 1, b)
        ELSE Parsed("keepreading", z - 1, 0, b)

(* The name ends at z.  The end of the data is searched for in the whole   *)
(* buffer, not only in what was read: a command without data has none.     *)
ParseData(b, z) ==
    LET zd == FirstZero(b, z + 1, MaxData)
    IN  IF zd # 0 THEN Parsed("none", z - 1, zd - z - 1, b)
        ELSE IF b.read = MaxData THEN Parsed("datatoolong", z - 1, 0, EmptyBuffer)
        ELSE Parsed("keepreading", z - 1, 0, b)

(* sh_try_cmdparsing.  A name that has not ended yet is no error, and not  *)
(* "keepreading" either.                                                   *)
TryParse(b) ==
    LET z == FirstZero(b, 1, b.read)
    IN  IF b.read = 0 THEN Parsed("keepreading", 0, 0, b)
        ELSE IF z = 0 /\ b.read = MaxData THEN Parsed("garbage", 0, 0, EmptyBuffer)
        ELSE IF z = 0 THEN Parsed("none", 0, 0, b)
        ELSE IF z - 1 > CmdLen THEN
            Parsed("invalidcmd", z - 1, 0, DropBytes(b, MessageSize(z - 1, 0)))
        ELSE ParseData(b, z)

=============================================================================
