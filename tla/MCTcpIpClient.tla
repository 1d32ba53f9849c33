---------------------------- MODULE MCTcpIpClient ----------------------------
(***************************************************************************)
(* A small instance of TcpIpClient: names for three FSockets and for two   *)
(* connect threads.                                                        *)
(***************************************************************************)
EXTENDS TcpIpClient

CONSTANTS s1, s2, s3, k1, k2

ThreeSockets  == {s1, s2, s3}
TwoConnectors == {k1, k2}
AllThreads    == ThreeSockets \cup TwoConnectors
OneClient     == {Client}

BothModes  == BOOLEAN
InlineOnly == {FALSE}

TwoStarts == [gameThread \in BOOLEAN |-> IF gameThread THEN 1 ELSE 2]
=============================================================================
