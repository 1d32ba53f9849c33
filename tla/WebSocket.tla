------------------------------ MODULE WebSocket ------------------------------
(***************************************************************************)
(* The engine's IWebSocket, as its users in this repository rely on it:    *)
(* Connect returns at once; what happens to the socket is told later, by   *)
(* callbacks on the game thread, in order for each socket; a socket that   *)
(* was opened or is being opened ends with exactly one "closed" or "error" *)
(* callback, also when its user closes it and forgets it, because the      *)
(* engine keeps a socket alive, with the user's delegates, until then.     *)
(***************************************************************************)
EXTENDS Naturals, Sequences

CONSTANTS
    Sockets,      \* names of IWebSocket objects, reused when nobody knows them
    Messages,     \* what the server may send
    MaxPending    \* bound: callbacks of one socket that wait when a message arrives

Endings == {"closed", "error"}

Callbacks == {"connected"} \cup Endings \cup Messages

ASSUME SocketAssumption ==
    /\ MaxPending \in Nat
    /\ Messages \cap ({"connected"} \cup Endings) = {}

VARIABLES
    ws,         \* per socket: "unused", "connecting", "open" or "over"
    callbacks   \* per socket, the callbacks that wait for the game thread

wvars == <<ws, callbacks>>

WInit ==
    /\ ws = [s \in Sockets |-> "unused"]
    /\ callbacks = [s \in Sockets |-> <<>>]

-----------------------------------------------------------------------------
Live(s) == ws[s] \in {"connecting", "open"}

IsOpen(s) == ws[s] = "open"

(* Nothing refers to s: it can stand for a new socket. *)
Fresh(s) == ~Live(s) /\ callbacks[s] = <<>>

(* Connect of the sockets in opened, after Close of those in closed.  The  *)
(* last callback of a socket closed while it connects is of either kind.   *)
CloseAndConnect(closed, opened) ==
    /\ ws' = [s \in Sockets |-> IF s \in opened THEN "connecting"
                                ELSE IF s \in closed THEN "over" ELSE ws[s]]
    /\ \E ending \in Endings :
           callbacks' = [s \in Sockets |->
               IF s \in closed /\ Live(s)
               THEN Append(callbacks[s], IF IsOpen(s) THEN "closed" ELSE ending)
               ELSE callbacks[s]]

(* The game thread is in the callback cb of s, the first that waits. *)
CalledBack(s, cb) == callbacks[s] # <<>> /\ Head(callbacks[s]) = cb

Return(s) == callbacks' = [callbacks EXCEPT ![s] = Tail(@)]

-----------------------------------------------------------------------------
(* The network and the server. *)
Happens(s, before, after, cb) ==
    /\ ws[s] = before
    /\ ws' = [ws EXCEPT ![s] = after]
    /\ callbacks' = [callbacks EXCEPT ![s] = Append(@, cb)]

Arrives(s, msg) ==
    /\ Len(callbacks[s]) < MaxPending
    /\ Happens(s, "open", "open", msg)

Network ==
    \E s \in Sockets :
        \/ Happens(s, "connecting", "open", "connected")
        \/ Happens(s, "connecting", "over", "error")
        \/ Happens(s, "open", "over", "closed")
        \/ \E msg \in Messages : Arrives(s, msg)

WTypeOK ==
    /\ ws \in [Sockets -> {"unused", "connecting", "open", "over"}]
    /\ callbacks \in [Sockets -> Seq(Callbacks)]
=============================================================================
