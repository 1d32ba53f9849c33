--------------------------- MODULE MCTlsConnection ---------------------------
(***************************************************************************)
(* A small instance of TlsConnection: both ends send.                      *)
(***************************************************************************)
EXTENDS TlsConnection

CONSTANTS a, b

TwoEnds   == {a, b}
BothSpeak == {{a, b}}
=============================================================================
