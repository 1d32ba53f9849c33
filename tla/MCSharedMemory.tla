--------------------------- MODULE MCSharedMemory ---------------------------
(***************************************************************************)
(* A small instance of SharedMemory: two processes, which both send.       *)
(***************************************************************************)
EXTENDS SharedMemory

CONSTANTS p1, p2

TwoPeers == {p1, p2}
=============================================================================
