----------------------------- MODULE TcpIpClient -----------------------------
(***************************************************************************)
(* UProtocolTcpIpClient with the socket it is (UProtocolTcpIpSocket) and   *)
(* the manager it reports to.  Start makes a socket and a connect thread,  *)
(* which calls TryConnect until a connection is made.  It then becomes the *)
(* InnerSocket that a polling thread receives from, and that the polling   *)
(* thread closes when the connection is lost.                              *)
(*                                                                         *)
(* Close, on the game thread, waits for both threads.  With                *)
(* AutoConnectAfterDisconnect the polling thread that reports a loss calls *)
(* Start itself, so that every step of Start and CloseSocket has a caller: *)
(* the game thread or a polling thread.                                    *)
(***************************************************************************)
EXTENDS DelivererManager

CONSTANTS
    Sockets,        \* names for FSockets; the polling thread of s is s
    Connectors,     \* names for connect threads
    Client,         \* the protocol object, which is what is reported
    None,           \* a null pointer
    RetryConnect,
    MaxData         \* bound: pieces of data received

ASSUME ClientAssumption ==
    /\ Threads = Sockets \cup Connectors /\ Sockets \cap Connectors = {}
    /\ Clients = {Client}
    /\ None \notin Sockets \cup Connectors
    /\ RetryConnect \in BOOLEAN
    /\ MaxData \in Nat

Callers == Sockets \cup {Game}

VARIABLES
    autoConnect,    \* AutoConnectAfterDisconnect
    isClosing,      \* IsClosing, of the client
    bIsClosing,     \* bIsClosing of the socket base; IsSelfClose goes with it
    innerSocket,    \* InnerSocket
    connectThread,  \* ConnectThread
    currentThread,  \* CurrentThread, the polling thread
    sock,           \* per name, the FSocket
    conn,           \* per name, the connect thread
    poll,           \* per name, the polling thread
    call,           \* per caller, where it is in Start or Close
    joining,        \* per caller, ThreadToClose
    quota           \* the pieces of data that may still arrive

ptrs  == <<innerSocket, connectThread, currentThread>>
flags == <<isClosing, bIsClosing>>
calls == <<call, joining>>
vars  == <<mvars, autoConnect, flags, ptrs, sock, conn, poll, calls, quota>>

Init ==
    /\ MInit
    /\ autoConnect \in BOOLEAN
    /\ isClosing = FALSE /\ bIsClosing = FALSE
    /\ innerSocket = None /\ connectThread = None /\ currentThread = None
    /\ sock = [s \in Sockets |-> "closed"]
    /\ conn = [k \in Connectors |-> "none"]
    /\ poll = [s \in Sockets |-> "none"]
    /\ call = [t \in Callers |-> "idle"]
    /\ joining = [t \in Callers |-> None]
    /\ quota = MaxData

-----------------------------------------------------------------------------
(* CreateSocket: builds a socket, or leaves InnerSocket as it was.  It gets *)
(* a name that stands for nothing any more; which one does not matter.      *)

Unused(s) ==
    /\ sock[s] = "closed" /\ poll[s] \in {"none", "exited"} /\ Free(s)
    /\ s \notin {innerSocket, currentThread} /\ \A t \in Callers : joining[t] # s

(* closed is the sockets that this step closes. *)
CreateSocket(closed) ==
    \/ /\ \E s \in Sockets : Unused(s)
       /\ innerSocket' = CHOOSE s \in Sockets : Unused(s)
       /\ sock' = [x \in Sockets |-> IF x = innerSocket' THEN "fresh"
                                     ELSE IF x \in closed THEN "closed" ELSE sock[x]]
       /\ poll' = [poll EXCEPT ![innerSocket'] = "none"]
    \/ /\ innerSocket' = innerSocket
       /\ sock' = [x \in Sockets |-> IF x \in closed THEN "closed" ELSE sock[x]]
       /\ poll' = poll

-----------------------------------------------------------------------------
(* The network.  A peer may leave at any time. *)

PeerLeaves(s) ==
    /\ sock[s] = "connected"
    /\ sock' = [sock EXCEPT ![s] = "gone"]
    /\ UNCHANGED <<mvars, autoConnect, flags, ptrs, conn, poll, calls, quota>>

-----------------------------------------------------------------------------
(* Start and Close, by caller.  The user calls Start again only after      *)
(* Close; with autoConnect once (a bound).                                 *)

GoesTo(t, pc) == call' = [call EXCEPT ![t] = pc]

UserStarts ==
    /\ call[Game] = "idle" /\ Game \notin inBroadcast
    /\ MayStart /\ ~hasProtocol /\ (autoConnect => session = 0)
    /\ StartManager
    /\ GoesTo(Game, "start")
    /\ UNCHANGED <<autoConnect, flags, ptrs, sock, conn, poll, joining, quota>>

UserCloses ==
    /\ call[Game] = "idle" /\ Game \notin inBroadcast
    /\ CloseManager
    /\ GoesTo(Game, IF hasProtocol THEN "close" ELSE "idle")
    /\ UNCHANGED <<autoConnect, flags, ptrs, sock, conn, poll, joining, quota>>

BeginStart(t) ==
    /\ call[t] = "start"
    /\ isClosing' = FALSE
    /\ GoesTo(t, "startCloses")
    /\ UNCHANGED <<mvars, autoConnect, bIsClosing, ptrs, sock, conn, poll, joining, quota>>

(* IsClosing is set and the connect thread told to stop. *)
BeginClose ==
    /\ call[Game] = "close"
    /\ isClosing' = TRUE
    /\ GoesTo(Game, "joinConnect")
    /\ UNCHANGED <<mvars, autoConnect, bIsClosing, ptrs, sock, conn, poll, joining, quota>>

(* Mutant: the connect thread is not waited for. *)
JoinConnectAtOnce ==
    /\ call[Game] = "joinConnect"
    /\ connectThread' = None
    /\ GoesTo(Game, "closeCloses")
    /\ UNCHANGED <<mvars, autoConnect, flags, innerSocket, currentThread, sock, conn, poll,
                   joining, quota>>

(* Kill(true) returns when the connect thread has ended. *)
JoinConnect ==
    /\ call[Game] = "joinConnect"
    /\ connectThread # None => conn[connectThread] = "exited" /\ Free(connectThread)
    /\ connectThread' = None
    /\ GoesTo(Game, "closeCloses")
    /\ UNCHANGED <<mvars, autoConnect, flags, innerSocket, currentThread, sock, conn, poll,
                   joining, quota>>

(* CloseSocket.  Where its caller goes on: Start makes a new socket, Close *)
(* returns.                                                                *)
AfterClose(pc) == IF pc \in {"startCloses", "startJoins", "startEnds"} THEN "create" ELSE "idle"

(* Mutant: the caller waits until the one before it has finished. *)
AlreadyClosingWaits(t) ==
    /\ call[t] \in {"startCloses", "closeCloses"} /\ bIsClosing
    /\ \A x \in Callers : joining[x] = None
    /\ GoesTo(t, AfterClose(call[t]))
    /\ UNCHANGED <<mvars, autoConnect, flags, ptrs, sock, conn, poll, joining, quota>>

AlreadyClosing(t) ==
    /\ call[t] \in {"startCloses", "closeCloses"} /\ bIsClosing
    /\ GoesTo(t, AfterClose(call[t]))
    /\ UNCHANGED <<mvars, autoConnect, flags, ptrs, sock, conn, poll, joining, quota>>

(* bIsClosing is exchanged, the polling thread taken over and its socket   *)
(* shut down.                                                              *)
TakeThread(t) ==
    /\ call[t] \in {"startCloses", "closeCloses"} /\ ~bIsClosing
    /\ bIsClosing' = TRUE
    /\ joining' = [joining EXCEPT ![t] = currentThread]
    /\ currentThread' = None
    /\ sock' = [s \in Sockets |->
                  IF s = innerSocket /\ currentThread # None THEN "shutdown" ELSE sock[s]]
    /\ GoesTo(t, IF call[t] = "startCloses" THEN "startJoins" ELSE "closeJoins")
    /\ UNCHANGED <<mvars, autoConnect, isClosing, innerSocket, connectThread, conn, poll, quota>>

(* Mutant: the polling thread is not waited for. *)
JoinPollAtOnce(t) ==
    /\ call[t] \in {"startJoins", "closeJoins"}
    /\ joining' = [joining EXCEPT ![t] = None]
    /\ GoesTo(t, IF call[t] = "startJoins" THEN "startEnds" ELSE "closeEnds")
    /\ UNCHANGED <<mvars, autoConnect, flags, ptrs, sock, conn, poll, quota>>

(* WaitForCompletion returns when the thread has ended: for a thread that  *)
(* waits for itself, never.                                                *)
JoinPoll(t) ==
    /\ call[t] \in {"startJoins", "closeJoins"}
    /\ joining[t] # None => poll[joining[t]] = "exited" /\ Free(joining[t])
    /\ joining' = [joining EXCEPT ![t] = None]
    /\ GoesTo(t, IF call[t] = "startJoins" THEN "startEnds" ELSE "closeEnds")
    /\ UNCHANGED <<mvars, autoConnect, flags, ptrs, sock, conn, poll, quota>>

(* CloseInnerSocket. *)
CloseInner(t) ==
    /\ call[t] \in {"startEnds", "closeEnds"}
    /\ sock' = [s \in Sockets |-> IF s = innerSocket THEN "closed" ELSE sock[s]]
    /\ innerSocket' = None
    /\ GoesTo(t, AfterClose(call[t]))
    /\ UNCHANGED <<mvars, autoConnect, flags, connectThread, currentThread, conn, poll,
                   joining, quota>>

StartCreates(t) ==
    /\ call[t] = "create"
    /\ CreateSocket({})
    /\ GoesTo(t, "spawn")
    /\ UNCHANGED <<mvars, autoConnect, flags, connectThread, currentThread, conn, joining, quota>>

Ended(k) == k # connectThread /\ conn[k] \in {"none", "exited"} /\ Free(k)

(* The connect thread is made, if there is a socket; Start returns. *)
Spawn(t) ==
    /\ call[t] = "spawn"
    /\ IF innerSocket = None THEN UNCHANGED <<conn, connectThread>>
       ELSE /\ \E k \in Connectors : Ended(k)
            /\ connectThread' = CHOOSE k \in Connectors : Ended(k)
            /\ conn' = [conn EXCEPT ![connectThread'] = "loop"]
    /\ GoesTo(t, "idle")
    /\ UNCHANGED <<mvars, autoConnect, flags, innerSocket, currentThread, sock, poll, joining,
                   quota>>

CallStep(t) ==
    \/ BeginStart(t) \/ AlreadyClosing(t) \/ TakeThread(t) \/ JoinPoll(t) \/ CloseInner(t)
    \/ StartCreates(t) \/ Spawn(t)
    \/ t = Game /\ (BeginClose \/ JoinConnect)

-----------------------------------------------------------------------------
(* The connect thread k: TryConnect, again after each failed attempt with  *)
(* RetryConnect.                                                           *)

ConnGoesTo(k, pc) == conn' = [conn EXCEPT ![k] = pc]

TryConnect(k) ==
    /\ conn[k] = "loop"
    /\ ConnGoesTo(k, IF isClosing \/ innerSocket = None THEN "exited" ELSE "state")
    /\ UNCHANGED <<mvars, autoConnect, flags, ptrs, sock, poll, calls, quota>>

(* The socket's state is looked at: of one that has failed, or looks       *)
(* connected already, which depends on the platform, a new one is made.    *)
KeepSocket(k) ==
    /\ conn[k] = "state" /\ innerSocket # None
    /\ ConnGoesTo(k, "connect")
    /\ UNCHANGED <<mvars, autoConnect, flags, ptrs, sock, poll, calls, quota>>

RecreateSocket(k) ==
    /\ conn[k] = "state" /\ innerSocket # None
    /\ CreateSocket({innerSocket})
    /\ ConnGoesTo(k, "connect")
    /\ UNCHANGED <<mvars, autoConnect, flags, connectThread, currentThread, calls, quota>>

(* Connect succeeds; it does so only on a socket that is not in use. *)
ConnectSucceeds(k) ==
    /\ conn[k] = "connect" /\ innerSocket # None
    /\ sock[innerSocket] = "fresh"
    /\ sock' = [sock EXCEPT ![innerSocket] = "connected"]
    /\ ConnGoesTo(k, "connected")
    /\ UNCHANGED <<mvars, autoConnect, flags, ptrs, poll, calls, quota>>

(* Mutant: one failed attempt ends the thread. *)
ConnectFailsForGood(k) ==
    /\ conn[k] = "connect"
    /\ ConnGoesTo(k, "exited")
    /\ UNCHANGED <<mvars, autoConnect, flags, ptrs, sock, poll, calls, quota>>

(* Connect fails, or is not tried because of the state of the socket. *)
ConnectFails(k) ==
    /\ conn[k] = "connect"
    /\ ConnGoesTo(k, IF RetryConnect THEN "loop" ELSE "exited")
    /\ UNCHANGED <<mvars, autoConnect, flags, ptrs, sock, poll, calls, quota>>

CheckClosing(k) ==
    /\ conn[k] = "connected"
    /\ ConnGoesTo(k, IF isClosing THEN "exited" ELSE "adopt")
    /\ UNCHANGED <<mvars, autoConnect, flags, ptrs, sock, poll, calls, quota>>

(* OnConnected and StartPollilng: the polling thread runs from here. *)
OnConnected(k) ==
    /\ conn[k] = "adopt" /\ innerSocket # None
    /\ bIsClosing' = FALSE
    /\ poll' = [poll EXCEPT ![innerSocket] = "loop"]
    /\ currentThread' = innerSocket
    /\ ConnGoesTo(k, "report")
    /\ UNCHANGED <<mvars, autoConnect, isClosing, innerSocket, connectThread, sock, calls, quota>>

ReportConnected(k) ==
    /\ conn[k] = "report"
    /\ Dispatch(k, "connected", Client)
    /\ ConnGoesTo(k, "exited")
    /\ UNCHANGED <<autoConnect, flags, ptrs, sock, poll, calls, quota>>

(* InnerSocket was taken away, which only autoConnect allows: the thread   *)
(* uses a null pointer, and goes no further.                               *)
UsesNull(k) ==
    /\ conn[k] \in {"state", "connect", "adopt"} /\ innerSocket = None
    /\ ConnGoesTo(k, "exited")
    /\ UNCHANGED <<mvars, autoConnect, flags, ptrs, sock, poll, calls, quota>>

Connect(k) ==
    \/ TryConnect(k) \/ KeepSocket(k) \/ RecreateSocket(k) \/ ConnectSucceeds(k)
    \/ ConnectFails(k) \/ CheckClosing(k) \/ OnConnected(k) \/ ReportConnected(k)
    \/ UsesNull(k)

-----------------------------------------------------------------------------
(* The polling thread of socket s: ReceivedData, as in TcpIpServer but for *)
(* the ways in which a lost connection shows, and what follows the report. *)

PollGoesTo(s, pc) == poll' = [poll EXCEPT ![s] = pc]

PollTurn(s) ==
    /\ poll[s] = "loop" /\ Free(s)
    /\ PollGoesTo(s, IF bIsClosing THEN "exited"
                     ELSE IF innerSocket = None THEN "dropped" ELSE "wait")
    /\ UNCHANGED <<mvars, autoConnect, flags, ptrs, sock, conn, calls, quota>>

PollNothing(s) ==
    /\ poll[s] = "wait" /\ sock[s] = "connected"
    /\ PollGoesTo(s, "loop")
    /\ UNCHANGED <<mvars, autoConnect, flags, ptrs, sock, conn, calls, quota>>

PollData(s) ==
    /\ poll[s] = "wait" /\ sock[s] \in {"connected", "gone"} /\ quota > 0
    /\ quota' = quota - 1
    /\ IF bIsClosing THEN PollGoesTo(s, "exited") /\ UNCHANGED mvars
       ELSE PollGoesTo(s, "loop") /\ Dispatch(s, "data", Client)
    /\ UNCHANGED <<autoConnect, flags, ptrs, sock, conn, calls>>

(* Mutant: the polling thread takes every failure for noise. *)
PollFailsGoesOn(s) ==
    /\ poll[s] = "wait"
    /\ PollGoesTo(s, IF bIsClosing THEN "exited" ELSE "loop")
    /\ UNCHANGED <<mvars, autoConnect, flags, ptrs, sock, conn, calls, quota>>

(* An error, or too many empty reads, which a live connection may give too. *)
PollFails(s) ==
    /\ poll[s] = "wait"
    /\ PollGoesTo(s, IF bIsClosing THEN "exited" ELSE "lost")
    /\ UNCHANGED <<mvars, autoConnect, flags, ptrs, sock, conn, calls, quota>>

(* CloseInnerSocket. *)
PollCloses(s) ==
    /\ poll[s] = "lost"
    /\ sock' = [x \in Sockets |-> IF x = innerSocket THEN "closed" ELSE sock[x]]
    /\ innerSocket' = None
    /\ PollGoesTo(s, "dropped")
    /\ UNCHANGED <<mvars, autoConnect, flags, connectThread, currentThread, conn, calls, quota>>

(* DispatchDisconnected of the base, which may run the user's delegates. *)
ReportDisconnected(s) ==
    /\ poll[s] = "dropped"
    /\ Dispatch(s, "disconnected", Client)
    /\ PollGoesTo(s, "reported")
    /\ UNCHANGED <<autoConnect, flags, ptrs, sock, conn, calls, quota>>

(* DispatchDisconnected of the client. *)
DispatchDisconnected(s) ==
    /\ poll[s] = "reported" /\ Free(s)
    /\ IF autoConnect /\ ~isClosing THEN PollGoesTo(s, "restarts") /\ GoesTo(s, "start")
                                    ELSE PollGoesTo(s, "exited") /\ UNCHANGED call
    /\ UNCHANGED <<mvars, autoConnect, flags, ptrs, sock, conn, joining, quota>>

PollEnds(s) ==
    /\ poll[s] = "restarts" /\ call[s] = "idle"
    /\ PollGoesTo(s, "exited")
    /\ UNCHANGED <<mvars, autoConnect, flags, ptrs, sock, conn, calls, quota>>

Poll(s) ==
    \/ PollTurn(s) \/ PollNothing(s) \/ PollData(s) \/ PollFails(s) \/ PollCloses(s)
    \/ ReportDisconnected(s) \/ DispatchDisconnected(s) \/ PollEnds(s)

RunTasks(e) ==
    /\ e = Game => call[Game] = "idle"
    /\ Execute(e)
    /\ UNCHANGED <<autoConnect, flags, ptrs, sock, conn, poll, calls, quota>>

-----------------------------------------------------------------------------
Next ==
    \/ \E s \in Sockets : PeerLeaves(s) \/ Poll(s)
    \/ \E k \in Connectors : Connect(k)
    \/ UserStarts \/ UserCloses
    \/ \E t \in Callers : CallStep(t)
    \/ \E e \in Executors : RunTasks(e)

(* Every thread that can run runs, and the server may be reached again and *)
(* again: a connect thread that goes on trying on new sockets succeeds.    *)
Fairness ==
    /\ \A s \in Sockets : WF_vars(Poll(s))
    /\ \A t \in Callers : WF_vars(CallStep(t))
    /\ \A e \in Executors : WF_vars(RunTasks(e))
    /\ \A k \in Connectors : /\ WF_vars(Connect(k))
                             /\ SF_vars(RecreateSocket(k) /\ innerSocket' # innerSocket)
                             /\ SF_vars(ConnectSucceeds(k))

Spec == Init /\ [][Next]_vars

FairSpec == Spec /\ Fairness

-----------------------------------------------------------------------------
(* Pointers, threads and callers are in one of their states.               *)
ClientTypeOK ==
    /\ autoConnect \in BOOLEAN /\ isClosing \in BOOLEAN /\ bIsClosing \in BOOLEAN
    /\ innerSocket \in Sockets \cup {None}
    /\ connectThread \in Connectors \cup {None}
    /\ currentThread \in Sockets \cup {None}
    /\ sock \in [Sockets -> {"closed", "fresh", "connected", "gone", "shutdown"}]
    /\ conn \in [Connectors -> {"none", "loop", "state", "connect", "connected", "adopt",
                                "report", "exited"}]
    /\ poll \in [Sockets -> {"none", "loop", "wait", "lost", "dropped", "reported",
                             "restarts", "exited"}]
    /\ call \in [Callers -> {"idle", "start", "close", "joinConnect", "startCloses",
                             "closeCloses", "startJoins", "closeJoins", "startEnds",
                             "closeEnds", "create", "spawn"}]
    /\ joining \in [Callers -> Sockets \cup {None}]
    /\ connectThread # None => conn[connectThread] # "none"
    /\ currentThread # None => poll[currentThread] # "none"
    /\ quota \in 0 .. MaxData

(* The client and its manager keep their state in its domains; a thread    *)
(* that is pointed at is one that was started.                             *)
TypeOK == ManagerTypeOK /\ ClientTypeOK

(* Neither thread uses an FSocket that the other, Start or Close has       *)
(* closed: TryConnect reads InnerSocket again and again without the lock,  *)
(* and ReceivedData works on a copy.                                       *)
SocketOutlivesUse ==
    ~autoConnect =>
        /\ \A k \in Connectors :
              conn[k] \in {"state", "connect", "connected", "adopt"} => innerSocket # None
        /\ \A s \in Sockets :
              poll[s] = "wait" => sock[s] \in {"connected", "gone", "shutdown"}

(* When Close has returned no connect thread tries on, no polling thread   *)
(* receives, and every connection that TryConnect had handed to            *)
(* OnConnected is closed.                                                  *)
ClosedIsQuiet ==
    ~autoConnect /\ isDestorying /\ call[Game] = "idle" =>
        /\ \A k \in Connectors : conn[k] \in {"none", "exited"}
        /\ \A s \in Sockets : /\ poll[s] \in {"none", "exited"}
                              /\ poll[s] = "exited" => sock[s] = "closed"

(* Between Close and Start the user hears nothing. *)
SilentOnceClosed ==
    [][~autoConnect /\ isDestorying /\ call[Game] = "idle" => told' = told]_vars

(* Start and Close return, even with the polling thread of a lost          *)
(* connection inside Start at the same time.                               *)
CallsReturn == call[Game] # "idle" ~> call[Game] = "idle"

(* With RetryConnect a connect thread goes on until there is a connection  *)
(* or the client is closed.                                                *)
RetriesUntilConnected ==
    RetryConnect => \A k \in Connectors :
        ~autoConnect /\ conn[k] = "loop" ~> conn[k] = "report" \/ isClosing

(* A lost connection is reported, unless the client is closed first.       *)
LossIsReported ==
    \A s \in Sockets : sock[s] = "gone" /\ poll[s] \in {"loop", "wait"} ~>
        poll[s] = "reported" \/ bIsClosing

-----------------------------------------------------------------------------
(* ProtocolFactory.h says of AutoConnectAfterDisconnect: "true: Automatic  *)
(* connection attempt after disconnection".  A thread that restarts the    *)
(* client makes an attempt or the client is closed.                        *)
AutoConnects ==
    \A s \in Sockets : poll[s] = "restarts" ~>
        (\E k \in Connectors : conn[k] = "state") \/ isDestorying
=============================================================================
