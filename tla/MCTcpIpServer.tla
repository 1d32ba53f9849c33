---------------------------- MODULE MCTcpIpServer ----------------------------
(***************************************************************************)
(* Small instances of TcpIpServer: one or two clients as model values.     *)
(***************************************************************************)
EXTENDS TcpIpServer

CONSTANTS c1, c2

OneClient  == {c1}
TwoClients == {c1, c2}

OneClientThreads  == {c1, Listener}
TwoClientsThreads == {c1, c2, Listener}

GameThreadOnly == {TRUE}
InlineOnly     == {FALSE}

OneStart  == [gameThread \in BOOLEAN |-> 1]
TwoStarts == [gameThread \in BOOLEAN |-> 2]
=============================================================================
