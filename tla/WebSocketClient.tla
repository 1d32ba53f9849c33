--------------------------- MODULE WebSocketClient ---------------------------
(***************************************************************************)
(* UProtocolWebSocketClient.  The game thread calls Start and Close and    *)
(* runs the callbacks of the socket.  With bAutoReconnect a loss or a      *)
(* failed attempt makes a reconnect thread, which replaces the socket and  *)
(* then clears bIsReconnecting; Close waits for that thread.               *)
(***************************************************************************)
EXTENDS WebSocket

CONSTANTS
    bAutoReconnect,
    MaxStarts        \* bound: calls of Start in one behaviour

ASSUME ClientAssumption == bAutoReconnect \in BOOLEAN /\ MaxStarts \in Nat

VARIABLES
    webSocket,        \* WebSocket (a set of at most one)
    bIsManualClose,
    bIsReconnecting,
    reconnect,        \* the thread: "none", "started", "create", "created", "done"
    closing,          \* the game thread is in Close, waiting for the thread
    starts,           \* the number of Starts
    told              \* ghost: the last two things the user was told

cvars == <<webSocket, bIsManualClose, bIsReconnecting, reconnect, closing, starts, told>>
vars  == <<wvars, cvars>>

Init ==
    /\ WInit
    /\ webSocket = {}
    /\ bIsManualClose = FALSE /\ bIsReconnecting = FALSE
    /\ reconnect = "none" /\ closing = FALSE
    /\ starts = 0 /\ told = <<"disconnected">>

-----------------------------------------------------------------------------
(* CreateWebSocket: the pointer is overwritten, whatever it pointed to. *)
CreateWebSocket(s) ==
    /\ Fresh(s) /\ s \notin webSocket
    /\ CloseAndConnect({}, {s})
    /\ webSocket' = {s}

(* The user starts it first, and again only after Close. *)
Start(s) ==
    /\ ~closing /\ (starts = 0 \/ bIsManualClose)
    /\ starts < MaxStarts
    /\ starts' = starts + 1
    /\ bIsManualClose' = FALSE
    /\ CreateWebSocket(s)
    /\ UNCHANGED <<bIsReconnecting, reconnect, closing, told>>

(* Close, up to the wait for the reconnect thread, and from there. *)
BeginClose ==
    /\ ~closing /\ starts > 0 /\ ~bIsManualClose
    /\ bIsManualClose' = TRUE
    /\ bIsReconnecting' = FALSE
    /\ closing' = TRUE
    /\ UNCHANGED <<wvars, webSocket, reconnect, starts, told>>

(* Mutant: the thread is not waited for. *)
FinishCloseAtOnce ==
    /\ closing
    /\ closing' = FALSE
    /\ CloseAndConnect(webSocket, {})
    /\ webSocket' = {}
    /\ UNCHANGED <<bIsManualClose, bIsReconnecting, reconnect, starts, told>>

FinishClose ==
    /\ closing
    /\ reconnect \in {"none", "done"}
    /\ reconnect' = "none"
    /\ closing' = FALSE
    /\ CloseAndConnect(webSocket, {})
    /\ webSocket' = {}
    /\ UNCHANGED <<bIsManualClose, bIsReconnecting, starts, told>>

-----------------------------------------------------------------------------
(* Mutant: an attempt gives up because one is under way, itself. *)
TryReconnectSkips ==
    /\ reconnect = "started"
    /\ IF bIsManualClose \/ bIsReconnecting
       THEN reconnect' = "done" /\ bIsReconnecting' = FALSE
       ELSE reconnect' = "create" /\ UNCHANGED bIsReconnecting
    /\ UNCHANGED <<wvars, webSocket, bIsManualClose, closing, starts, told>>

(* The reconnect thread: TryReconnect, once.  It does not wait first: the  *)
(* worker sleeps for ReconnectDelay only between two calls.                *)
TryReconnect ==
    /\ reconnect = "started"
    /\ IF bIsManualClose
       THEN reconnect' = "done" /\ bIsReconnecting' = FALSE
       ELSE reconnect' = "create" /\ UNCHANGED bIsReconnecting
    /\ UNCHANGED <<wvars, webSocket, bIsManualClose, closing, starts, told>>

(* Mutant: the flag is cleared before the socket connects. *)
RecreateClears(s) ==
    /\ reconnect = "create"
    /\ CreateWebSocket(s)
    /\ bIsReconnecting' = FALSE
    /\ reconnect' = "created"
    /\ UNCHANGED <<bIsManualClose, closing, starts, told>>

Recreate(s) ==
    /\ reconnect = "create"
    /\ CreateWebSocket(s)
    /\ reconnect' = "created"
    /\ UNCHANGED <<bIsManualClose, bIsReconnecting, closing, starts, told>>

ReconnectEnds ==
    /\ reconnect = "created"
    /\ bIsReconnecting' = FALSE
    /\ reconnect' = "done"
    /\ UNCHANGED <<wvars, webSocket, bIsManualClose, closing, starts, told>>

-----------------------------------------------------------------------------
(* The callbacks, on the game thread. *)

Tell(what) == told' = <<told[Len(told)], what>>

ReconnectLater ==
    IF bAutoReconnect /\ ~bIsManualClose /\ ~bIsReconnecting
    THEN bIsReconnecting' = TRUE /\ reconnect' = "started"
    ELSE UNCHANGED <<bIsReconnecting, reconnect>>

OnWebSocketConnected(s) ==
    /\ CalledBack(s, "connected") /\ Return(s)
    /\ Tell("connected")
    /\ UNCHANGED <<ws, webSocket, bIsManualClose, bIsReconnecting, reconnect, closing, starts>>

OnWebSocketConnectionError(s) ==
    /\ CalledBack(s, "error") /\ Return(s)
    /\ ReconnectLater
    /\ UNCHANGED <<ws, webSocket, bIsManualClose, closing, starts, told>>

(* Mutant: the loss is not reported. *)
OnWebSocketClosedUntold(s) ==
    /\ CalledBack(s, "closed") /\ Return(s)
    /\ ReconnectLater
    /\ UNCHANGED <<ws, webSocket, bIsManualClose, closing, starts, told>>

OnWebSocketClosed(s) ==
    /\ CalledBack(s, "closed") /\ Return(s)
    /\ Tell("disconnected")
    /\ ReconnectLater
    /\ UNCHANGED <<ws, webSocket, bIsManualClose, closing, starts>>

OnWebSocketMessage(s) ==
    /\ \E msg \in Messages : CalledBack(s, msg)
    /\ Return(s)
    /\ Tell("data")
    /\ UNCHANGED <<ws, webSocket, bIsManualClose, bIsReconnecting, reconnect, closing, starts>>

Callback(s) ==
    /\ ~closing
    /\ \/ OnWebSocketConnected(s) \/ OnWebSocketConnectionError(s)
       \/ OnWebSocketClosed(s) \/ OnWebSocketMessage(s)

ReconnectThread ==
    \/ TryReconnect \/ ReconnectEnds
    \/ \E s \in Sockets : Recreate(s)

Next ==
    \/ \E s \in Sockets : Start(s) \/ Callback(s)
    \/ BeginClose \/ FinishClose
    \/ ReconnectThread
    \/ Network /\ UNCHANGED cvars

(* The thread runs, the game thread calls back and finishes a Close it has *)
(* begun.  The user and the network owe nothing. *)
Fairness ==
    /\ WF_vars(ReconnectThread) /\ WF_vars(FinishClose)
    /\ \A s \in Sockets : WF_vars(Callback(s))

Spec == Init /\ [][Next]_vars

FairSpec == Spec /\ Fairness

-----------------------------------------------------------------------------
(* The variables are in their domains; WebSocket is one pointer. *)
TypeOK ==
    /\ WTypeOK
    /\ webSocket \subseteq Sockets /\ \A s, r \in webSocket : s = r
    /\ bIsManualClose \in BOOLEAN /\ bIsReconnecting \in BOOLEAN
    /\ reconnect \in {"none", "started", "create", "created", "done"}
    /\ closing \in BOOLEAN
    /\ starts \in 0 .. MaxStarts
    /\ told \in Seq({"connected", "disconnected", "data"})

(* While the game thread is outside Close, bIsReconnecting says whether a  *)
(* reconnect thread may still do something, so that at most one works and  *)
(* none that does is forgotten when the next is created.                   *)
OneReconnect ==
    ~closing => (bIsReconnecting <=> reconnect \in {"started", "create", "created"})

(* At most one socket of the client is connecting or connected.            *)
OneSocket == \A s, r \in Sockets : Live(s) /\ Live(r) => s = r

(* After Close nothing is connected, being connected or about to be. *)
ClosedStaysClosed ==
    ~closing /\ bIsManualClose =>
        webSocket = {} /\ reconnect = "none" /\ \A s \in Sockets : ~Live(s)

(* At any time there is at most one socket to speak of, and none after     *)
(* Close, although callbacks, the reconnect thread and the game thread all *)
(* make and drop sockets.                                                  *)
SocketsAreAccountedFor == OneSocket /\ ClosedStaysClosed

(* The user hears of connections in turn, over any number of reconnects: a *)
(* connect follows a disconnect, and data never does.                      *)
ToldInTurn ==
    Len(told) = 2 =>
        /\ told[2] = "connected" => told[1] = "disconnected"
        /\ told[2] = "data" => told[1] # "disconnected"

(* A reconnect thread that is started gets a socket at least connecting:   *)
(* it waits for nothing, and only Close makes it give up.                  *)
AttemptConnects ==
    reconnect = "started" ~> bIsManualClose \/ \E s \in webSocket : Live(s)

-----------------------------------------------------------------------------
(* What the comments of the code say, and the code does not do.            *)

(* ProtocolWebSocketClient.h, SetAutoReconnect: "If true, will attempt to  *)
(* reconnect after disconnection".  A client that is not closed has a      *)
(* connection, an attempt under way, or a callback that will make one.     *)
NeverStranded ==
    bAutoReconnect /\ starts > 0 /\ ~bIsManualClose =>
        \/ bIsReconnecting
        \/ \E s \in Sockets : Live(s) \/ callbacks[s] # <<>>
=============================================================================
