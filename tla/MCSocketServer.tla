--------------------------- MODULE MCSocketServer ---------------------------
(***************************************************************************)
(* Instances of SocketServer with a buffer of eight bytes and names of at  *)
(* most two: commands with text, without data, and with packed data that   *)
(* has zero bytes in it and none at its end, and three that are none.      *)
(***************************************************************************)
EXTENDS SocketServer

Text == [bytes |-> << 1, 1, 0, 1, 1, 0 >>, kind |-> "plain"]
Bare == [bytes |-> << 1, 1, 0 >>, kind |-> "plain"]
StartVM == [bytes |-> << 1, 1, 0, 1, 0, 1, 1 >>, kind |-> "vm"]
Status == [bytes |-> << 1, 1, 0, 1, 0, 1 >>, kind |-> "status"]
LongName == [bytes |-> << 1, 1, 1, 0, 1, 0 >>, kind |-> "bad"]
LongData == [bytes |-> << 1, 1, 0, 1, 1, 1, 1, 1 >>, kind |-> "bad"]
NoName == [bytes |-> << 1, 1, 1, 1, 1, 1, 1, 1, 1 >>, kind |-> "bad"]

(* vmstatedctl sends one command on a connection, the tests several. *)
OneEach == {<< StartVM >>, << Status >>}
Several ==
    {<< Text, Bare, StartVM >>, << Bare, Status >>,
     << Text, LongName >>, << LongData >>, << NoName >>}

=============================================================================
