-------------------------- MODULE MCWebSocketClient --------------------------
(***************************************************************************)
(* Small instances of WebSocketClient.                                     *)
(***************************************************************************)
EXTENDS WebSocketClient

CONSTANTS s1, s2, s3

ThreeSockets == {s1, s2, s3}

OneMessage == {"msg"}
=============================================================================
