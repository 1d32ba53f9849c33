--------------------------- MODULE MCPacketStream ---------------------------
(***************************************************************************)
(* Small instances of PacketStream, with bytes below 3.                    *)
(***************************************************************************)
EXTENDS PacketStream

SizeBody(bigEndian) ==
    [kind |-> "SizeBody", sizeLength |-> 2, bigEndian |-> bigEndian]

(* Bodies shorter than, equal to and longer than one digit of the header   *)
(* can count, with bytes that look like headers.                           *)
SizeBodies == {<<1>>, <<0, 1>>, <<1, 0, 1>>}

(* Bodies that are empty, that hold the first byte of the terminator, and  *)
(* that end in it.                                                         *)
CrLf == [kind |-> "Terminate", terminator |-> <<0, 1>>]

LineBodies == {<<>>, <<2>>, <<0, 2>>, <<1, 0>>}

(* Bodies shorter than, as long as and longer than the packet.             *)
Pairs == [kind |-> "FixedLength", fixedSize |-> 2]

FixedBodies == {<<1>>, <<0, 1>>, <<1, 1, 1>>}

Setup(rule, keepsPartial, bodies) ==
    [rule |-> rule, keepsPartial |-> keepsPartial, bodies |-> bodies]

(* The rules with the loops that carry them: Terminate keeps its own       *)
(* left-over bytes and works with both. *)
AllSetups ==
    {Setup(SizeBody(TRUE), TRUE, SizeBodies), Setup(SizeBody(FALSE), TRUE, SizeBodies),
     Setup(CrLf, TRUE, LineBodies), Setup(CrLf, FALSE, LineBodies),
     Setup(Pairs, TRUE, FixedBodies)}

(* The plain TCP socket with the SizeBody rule. *)
TcpSetup == {Setup(SizeBody(TRUE), FALSE, SizeBodies)}

ASSUME InstanceIsCarried == \A st \in AllSetups : Carried(st)
=============================================================================
