----------------------------- MODULE TcpIpServer -----------------------------
(***************************************************************************)
(* UProtocolTcpIpServer with its client sockets (UProtocolTcpIpSocket) and *)
(* the manager it reports to.  Three kinds of threads run:                 *)
(*                                                                         *)
(*   - the listen thread accepts connections.  For each it creates a       *)
(*     client socket and starts its polling thread, then adds it to        *)
(*     ConnectedSockets, then reports it connected;                        *)
(*   - one polling thread per client receives, notices that the peer is    *)
(*     gone, takes the client out of ConnectedSockets and reports it;      *)
(*   - the game thread calls Start and Close, which stop and join all of   *)
(*     the others, and executes the manager's tasks between such calls.    *)
(*                                                                         *)
(* A critical section that contains no call that can block is one step.    *)
(***************************************************************************)
EXTENDS DelivererManager

CONSTANTS
    Listener,       \* the listen thread; client c's polling thread is c itself
    MaxData,        \* bound: pieces of data the peers send
    DebounceLimit   \* empty reads taken for noise: 3, on mobile platforms 20

ASSUME ServerAssumption ==
    /\ Listener \notin Clients
    /\ Threads = Clients \cup {Listener}
    /\ MaxData \in Nat
    /\ DebounceLimit \in Nat \ {0}

VARIABLES
    isClosing,         \* IsClosing
    listening,         \* ListenerSocket # nullptr
    listen,            \* the listen thread
    accepting,         \* the client OnListen is dealing with (a set of at most one)
    connectedSockets,  \* ConnectedSockets
    gpc,               \* the game thread inside Start or Close, "idle" outside
    reopen,            \* whether this Close was called by Start
    toClose,           \* SocketsToClose, and at its head, being joined:
    joining,           \*   the client whose thread is waited for (at most one)
    socket,            \* per client, its FSocket
    clientClosing,     \* per client, bIsClosing
    noDataCount,       \* per client, ConsecutiveReadableNoDataCount
    poll,              \* per client, its polling thread
    peer,              \* per client, the remote end
    unread,            \* clients with received bytes to be read
    quota              \* the pieces of data the peers may still send

svars == <<isClosing, listening, listen, accepting, connectedSockets>>
cvars == <<socket, clientClosing, noDataCount, poll>>
gvars == <<gpc, reopen, toClose, joining>>
evars == <<peer, unread, quota>>
vars  == <<mvars, svars, cvars, gvars, evars>>

Init ==
    /\ MInit
    /\ isClosing = FALSE /\ listening = FALSE
    /\ listen = "none" /\ accepting = {}
    /\ connectedSockets = {}
    /\ gpc = "idle" /\ reopen = FALSE /\ toClose = {} /\ joining = {}
    /\ socket = [c \in Clients |-> "none"]
    /\ clientClosing = [c \in Clients |-> FALSE]
    /\ noDataCount = [c \in Clients |-> 0]
    /\ poll = [c \in Clients |-> "none"]
    /\ peer = [c \in Clients |-> "absent"]
    /\ unread = {}
    /\ quota = MaxData

-----------------------------------------------------------------------------
(* The remote ends.  "backlog" is a connection the listener has not        *)
(* accepted yet; a peer may leave at any time, without reading or sending. *)

PeerConnects(c) ==
    /\ listening /\ peer[c] = "absent"
    /\ peer' = [peer EXCEPT ![c] = "backlog"]
    /\ UNCHANGED <<mvars, svars, cvars, gvars, unread, quota>>

PeerSends(c) ==
    /\ peer[c] = "up" /\ quota > 0
    /\ unread' = unread \cup {c}
    /\ quota' = quota - 1
    /\ UNCHANGED <<mvars, svars, cvars, gvars, peer>>

PeerLeaves(c) ==
    /\ peer[c] = "up"
    /\ peer' = [peer EXCEPT ![c] = "gone"]
    /\ UNCHANGED <<mvars, svars, cvars, gvars, unread, quota>>

-----------------------------------------------------------------------------
(* The listen thread: OnListen, called again and again.                    *)

ListenTurn ==
    /\ listen = "loop" /\ Free(Listener)
    /\ listen' = IF isClosing THEN "exited" ELSE "turn"
    /\ UNCHANGED <<mvars, cvars, gvars, evars,
                   isClosing, listening, accepting, connectedSockets>>

(* No connection is pending, or Accept fails. *)
NothingAccepted ==
    /\ listen = "turn"
    /\ listen' = "loop"
    /\ UNCHANGED <<mvars, cvars, gvars, evars,
                   isClosing, listening, accepting, connectedSockets>>

(* Accept, OnConnected and StartPollilng: the polling thread runs from here. *)
AcceptClient(c) ==
    /\ listen = "turn" /\ peer[c] = "backlog"
    /\ peer' = [peer EXCEPT ![c] = "up"]
    /\ socket' = [socket EXCEPT ![c] = "open"]
    /\ clientClosing' = [clientClosing EXCEPT ![c] = FALSE]
    /\ noDataCount' = [noDataCount EXCEPT ![c] = 0]
    /\ poll' = [poll EXCEPT ![c] = "loop"]
    /\ accepting' = {c}
    /\ listen' = "accepted"
    /\ UNCHANGED <<mvars, gvars, isClosing, listening, connectedSockets, unread, quota>>

AddClient(c) ==
    /\ listen = "accepted" /\ c \in accepting
    /\ connectedSockets' = connectedSockets \cup {c}
    /\ listen' = "added"
    /\ UNCHANGED <<mvars, cvars, gvars, evars, isClosing, listening, accepting>>

ReportConnected(c) ==
    /\ listen = "added" /\ c \in accepting
    /\ Dispatch(Listener, "connected", c)
    /\ accepting' = {}
    /\ listen' = "loop"
    /\ UNCHANGED <<cvars, gvars, evars, isClosing, listening, connectedSockets>>

-----------------------------------------------------------------------------
(* The polling thread of client c: ReceivedData, called again and again.   *)

PollGoesTo(c, pc) == poll' = [poll EXCEPT ![c] = pc]

(* bIsClosing is looked at, then InnerSocket is copied and used without    *)
(* the lock.  InnerSocket is set before the thread starts and cleared only *)
(* by steps after which the thread does not come back here.                *)
PollTurn(c) ==
    /\ poll[c] = "loop" /\ Free(c)
    /\ PollGoesTo(c, IF clientClosing[c] THEN "exited" ELSE "wait")
    /\ UNCHANGED <<mvars, svars, gvars, evars, socket, clientClosing, noDataCount>>

(* WaitForRead times out; or it returns but there is nothing to read, and  *)
(* the error code says to try again.                                       *)
PollNothing(c) ==
    /\ poll[c] = "wait"
    /\ c \notin unread /\ peer[c] = "up" /\ socket[c] = "open"
    /\ noDataCount' = [noDataCount EXCEPT ![c] = 0]
    /\ PollGoesTo(c, "loop")
    /\ UNCHANGED <<mvars, svars, gvars, evars, socket, clientClosing>>

(* Recv returns data; the server passes it on unless it is closing. *)
PollData(c) ==
    /\ poll[c] = "wait" /\ c \in unread
    /\ unread' = unread \ {c}
    /\ \/ /\ clientClosing[c]
          /\ PollGoesTo(c, "exited")
          /\ UNCHANGED <<mvars, noDataCount>>
       \/ /\ ~clientClosing[c]
          /\ PollGoesTo(c, "loop")
          /\ noDataCount' = [noDataCount EXCEPT ![c] = 0]
          /\ IF isClosing THEN UNCHANGED mvars ELSE Dispatch(c, "data", c)
    /\ UNCHANGED <<svars, gvars, socket, clientClosing, peer, quota>>

(* The connection is given up unless this end is closing it. *)
GiveUp(c) == PollGoesTo(c, IF clientClosing[c] THEN "exited" ELSE "lost")

(* Mutant: every empty read is taken for noise. *)
PollEmptyAlwaysNoise(c) ==
    /\ poll[c] = "wait" /\ c \notin unread
    /\ PollGoesTo(c, "loop")
    /\ UNCHANGED <<mvars, svars, gvars, evars, socket, clientClosing, noDataCount>>

(* Readable, no data, no error: noise, until it has come DebounceLimit     *)
(* times in a row.  A peer that has left, or a socket that has been shut   *)
(* down, looks like this as well.                                          *)
PollEmpty(c) ==
    /\ poll[c] = "wait" /\ c \notin unread
    /\ noDataCount' = [noDataCount EXCEPT ![c] = @ + 1]
    /\ IF noDataCount[c] + 1 < DebounceLimit THEN PollGoesTo(c, "loop") ELSE GiveUp(c)
    /\ UNCHANGED <<mvars, svars, gvars, evars, socket, clientClosing>>

(* Recv or the connection state reports that the connection is gone. *)
PollError(c) ==
    /\ poll[c] = "wait"
    /\ peer[c] = "gone" \/ socket[c] = "shutdown"
    /\ noDataCount' = [noDataCount EXCEPT ![c] = 0]
    /\ GiveUp(c)
    /\ UNCHANGED <<mvars, svars, gvars, evars, socket, clientClosing>>

(* CloseInnerSocket. *)
PollCloses(c) ==
    /\ poll[c] = "lost"
    /\ socket' = [socket EXCEPT ![c] = "destroyed"]
    /\ PollGoesTo(c, "dropped")
    /\ UNCHANGED <<mvars, svars, gvars, evars, clientClosing, noDataCount>>

(* DisconnectedClient, in three steps: IsClosing is looked at, the client  *)
(* is looked up and removed under the lock, its loss is reported.          *)
PollTellsServer(c) ==
    /\ poll[c] = "dropped"
    /\ PollGoesTo(c, IF isClosing THEN "exited" ELSE "erase")
    /\ UNCHANGED <<mvars, svars, gvars, evars, socket, clientClosing, noDataCount>>

RemoveClient(c) ==
    /\ poll[c] = "erase"
    /\ connectedSockets' = connectedSockets \ {c}
    /\ PollGoesTo(c, IF c \in connectedSockets THEN "erased" ELSE "exited")
    /\ UNCHANGED <<mvars, gvars, evars, socket, clientClosing, noDataCount,
                   isClosing, listening, listen, accepting>>

(* Mutant: the polling thread goes on after it has reported the loss. *)
ReportDisconnectedGoesOn(c) ==
    /\ poll[c] = "erased"
    /\ Dispatch(c, "disconnected", c)
    /\ PollGoesTo(c, "loop")
    /\ UNCHANGED <<svars, gvars, evars, socket, clientClosing, noDataCount>>

ReportDisconnected(c) ==
    /\ poll[c] = "erased"
    /\ Dispatch(c, "disconnected", c)
    /\ PollGoesTo(c, "exited")
    /\ UNCHANGED <<svars, gvars, evars, socket, clientClosing, noDataCount>>

Poll(c) ==
    \/ PollTurn(c) \/ PollNothing(c) \/ PollData(c) \/ PollEmpty(c) \/ PollError(c)
    \/ PollCloses(c) \/ PollTellsServer(c) \/ RemoveClient(c) \/ ReportDisconnected(c)

-----------------------------------------------------------------------------
(* The game thread.  Start, and Close with a protocol to close, both run   *)
(* UProtocolTcpIpServer::Close; Start then opens the listener.             *)

UserStarts ==
    /\ gpc = "idle" /\ Game \notin inBroadcast
    /\ MayStart
    /\ StartManager
    /\ gpc' = "close" /\ reopen' = TRUE
    /\ UNCHANGED <<svars, cvars, evars, toClose, joining>>

UserCloses ==
    /\ gpc = "idle" /\ Game \notin inBroadcast
    /\ CloseManager
    /\ gpc' = IF hasProtocol THEN "close" ELSE "idle"
    /\ reopen' = FALSE
    /\ UNCHANGED <<svars, cvars, evars, toClose, joining>>

(* Mutant: the listen thread is not told. *)
BeginCloseUntold ==
    /\ gpc = "close"
    /\ gpc' = "joinListen"
    /\ UNCHANGED <<mvars, svars, cvars, evars, reopen, toClose, joining>>

(* IsClosing is set and the listen thread told to stop. *)
BeginClose ==
    /\ gpc = "close"
    /\ isClosing' = TRUE
    /\ gpc' = "joinListen"
    /\ UNCHANGED <<mvars, cvars, evars, listening, listen, accepting, connectedSockets,
                   reopen, toClose, joining>>

(* Mutant: the listen thread is not waited for. *)
JoinListenAtOnce ==
    /\ gpc = "joinListen"
    /\ gpc' = "takeSockets"
    /\ UNCHANGED <<mvars, svars, cvars, evars, reopen, toClose, joining>>

JoinListen ==
    /\ gpc = "joinListen"
    /\ listen \in {"none", "exited"}
    /\ listen' = "none"
    /\ gpc' = "takeSockets"
    /\ UNCHANGED <<mvars, cvars, evars, isClosing, listening, accepting, connectedSockets,
                   reopen, toClose, joining>>

TakeSockets ==
    /\ gpc = "takeSockets"
    /\ toClose' = connectedSockets
    /\ connectedSockets' = {}
    /\ gpc' = "closeSockets"
    /\ UNCHANGED <<mvars, cvars, evars, isClosing, listening, listen, accepting,
                   reopen, joining>>

(* Mutant: the socket is destroyed before the polling thread is waited for. *)
ShutdownClientDestroys(c) ==
    /\ gpc = "closeSockets" /\ joining = {} /\ c \in toClose
    /\ clientClosing' = [clientClosing EXCEPT ![c] = TRUE]
    /\ socket' = [socket EXCEPT ![c] = "destroyed"]
    /\ joining' = {c}
    /\ UNCHANGED <<mvars, svars, evars, noDataCount, poll, gpc, reopen, toClose>>

(* CloseSocket up to the wait: bIsClosing, Stop, Shutdown under the lock. *)
ShutdownClient(c) ==
    /\ gpc = "closeSockets" /\ joining = {} /\ c \in toClose
    /\ clientClosing' = [clientClosing EXCEPT ![c] = TRUE]
    /\ socket' = [socket EXCEPT ![c] = IF @ = "open" THEN "shutdown" ELSE @]
    /\ joining' = {c}
    /\ UNCHANGED <<mvars, svars, evars, noDataCount, poll, gpc, reopen, toClose>>

(* WaitForCompletion returns; then CloseInnerSocket. *)
JoinClient(c) ==
    /\ c \in joining
    /\ poll[c] = "exited" /\ Free(c)
    /\ socket' = [socket EXCEPT ![c] = "destroyed"]
    /\ joining' = {}
    /\ toClose' = toClose \ {c}
    /\ UNCHANGED <<mvars, svars, evars, clientClosing, noDataCount, poll, gpc, reopen>>

(* The listener goes, and with it the connections it has not accepted. *)
CloseListener ==
    /\ gpc = "closeSockets" /\ toClose = {}
    /\ listening' = FALSE
    /\ peer' = [c \in Clients |-> IF peer[c] = "backlog" THEN "gone" ELSE peer[c]]
    /\ gpc' = IF reopen THEN "open" ELSE "idle"
    /\ UNCHANGED <<mvars, cvars, isClosing, listen, accepting, connectedSockets,
                   reopen, toClose, joining, unread, quota>>

(* Start after its Close; the port may not be available. *)
OpenListener ==
    /\ gpc = "open"
    /\ isClosing' = FALSE
    /\ \/ listening' = TRUE /\ listen' = "loop"
       \/ UNCHANGED <<listening, listen>>
    /\ gpc' = "idle"
    /\ UNCHANGED <<mvars, cvars, evars, accepting, connectedSockets,
                   reopen, toClose, joining>>

CloseStep ==
    \/ BeginClose \/ JoinListen \/ TakeSockets \/ CloseListener \/ OpenListener
    \/ \E c \in Clients : ShutdownClient(c) \/ JoinClient(c)

(* Tasks of the game thread run between the user's calls. *)
RunTasks(e) ==
    /\ e = Game => gpc = "idle"
    /\ Execute(e)
    /\ UNCHANGED <<svars, cvars, gvars, evars>>

-----------------------------------------------------------------------------
Listen ==
    \/ ListenTurn \/ NothingAccepted
    \/ \E c \in Clients : AcceptClient(c) \/ AddClient(c) \/ ReportConnected(c)

Next ==
    \/ \E c \in Clients : PeerConnects(c) \/ PeerSends(c) \/ PeerLeaves(c)
    \/ Listen
    \/ \E c \in Clients : Poll(c)
    \/ UserStarts \/ UserCloses \/ CloseStep
    \/ \E e \in Executors : RunTasks(e)

(* Every thread that can run runs in the end, and the game thread executes *)
(* its tasks and finishes the calls it has begun.  The user and the peers  *)
(* owe nothing.                                                            *)
Fairness ==
    /\ WF_vars(Listen)
    /\ \A c \in Clients : WF_vars(Poll(c))
    /\ WF_vars(CloseStep)
    /\ \A e \in Executors : WF_vars(RunTasks(e))

Spec == Init /\ [][Next]_vars

FairSpec == Spec /\ Fairness

-----------------------------------------------------------------------------
(* The threads, sockets and counters are in one of their states; the       *)
(* debounce counter never passes its limit.                                *)
ServerTypeOK ==
    /\ isClosing \in BOOLEAN /\ listening \in BOOLEAN
    /\ listen \in {"none", "loop", "turn", "accepted", "added", "exited"}
    /\ accepting \subseteq Clients
    /\ connectedSockets \subseteq Clients
    /\ gpc \in {"idle", "close", "joinListen", "takeSockets", "closeSockets", "open"}
    /\ reopen \in BOOLEAN
    /\ toClose \subseteq Clients /\ joining \subseteq Clients
    /\ socket \in [Clients -> {"none", "open", "shutdown", "destroyed"}]
    /\ clientClosing \in [Clients -> BOOLEAN]
    /\ noDataCount \in [Clients -> 0 .. DebounceLimit]
    /\ poll \in [Clients -> {"none", "loop", "wait", "lost", "dropped",
                             "erase", "erased", "exited"}]
    /\ peer \in [Clients -> {"absent", "backlog", "up", "gone"}]
    /\ unread \subseteq Clients
    /\ quota \in 0 .. MaxData

(* The server and its manager keep their state in its domains; what the    *)
(* tasks of HandleConnected and the like carry is well formed.             *)
TypeOK == ManagerTypeOK /\ ServerTypeOK

(* The polling thread uses the FSocket it copied without a lock.  Whoever  *)
(* destroys a socket, its polling thread is not between the copy and the   *)
(* last use: Close waits for the thread first, the thread itself destroys  *)
(* it only when it has finished with it.                                   *)
SocketOutlivesUse ==
    \A c \in Clients : poll[c] = "wait" => socket[c] \in {"open", "shutdown"}

(* When Close has returned the server is gone: no listen thread, no open   *)
(* FSocket, and no polling thread that can still receive or change         *)
(* ConnectedSockets, not even one that noticed a lost connection, or was   *)
(* started by an accept, while Close ran.                                  *)
ClosedIsQuiet ==
    gpc = "idle" /\ isClosing =>
        /\ listen = "none" /\ ~listening
        /\ connectedSockets = {}
        /\ \A c \in Clients : /\ socket[c] \in {"none", "destroyed"}
                              /\ poll[c] \in {"none", "exited", "erased"}

(* No event is on its way from a protocol thread to the user. *)
Settled ==
    /\ gpc = "idle"
    /\ listen \in {"none", "loop", "turn", "exited"}
    /\ \A c \in Clients : poll[c] \in {"none", "loop", "wait", "exited"}
    /\ \A e \in Executors : tasks[e] = <<>>

(* ConnectedList never lacks a client that the server serves: whatever     *)
(* order the threads reported in, once their events have been executed     *)
(* every member of ConnectedSockets is a member of ConnectedList.          *)
ServedIsListed ==
    Settled /\ ~isDestorying => connectedSockets \subseteq connectedList

Heard(c, kind) == {i \in DOMAIN told[c] : told[c][i].kind = kind}

(* With the game thread executing the events, ConnectedList is what the    *)
(* user has been told since the last Start: between two tasks, a client is *)
(* in it exactly if the last of its connects and disconnects that the user *)
(* heard of was a connect.  IsConnected then answers as the user expects.  *)
Changes(c) ==
    {i \in DOMAIN told[c] : told[c][i].toldIn = session /\ told[c][i].kind # "data"}

ListMatchesHeard ==
    isEventWithGameThread /\ inBroadcast = {} =>
        connectedList = {c \in Clients :
            \E i \in Changes(c) : /\ \A j \in Changes(c) : j <= i
                                  /\ told[c][i].kind = "connected"}

(* The loss of a connection is the last the user hears of it: no data of a *)
(* client follows its disconnect.                                          *)
LossIsLast ==
    \A c \in Clients : \A i \in Heard(c, "disconnected") :
        \A j \in Heard(c, "data") : j < i

(* Once Close has returned, and until Start, the user hears nothing more.  *)
(* Without the game thread there is one exception: the loss of a client    *)
(* that its polling thread had taken out of ConnectedSockets before Close  *)
(* looked, so that Close did not wait for that thread.                     *)
SilentOnceClosed ==
    [][isDestorying /\ gpc = "idle" =>
         \A c \in Clients : told'[c] # told[c] =>
             /\ ~isEventWithGameThread
             /\ told'[c][Len(told'[c])].kind = "disconnected"]_vars

(* Close returns: no thread it waits for waits for it, or polls for ever. *)
CloseReturns == gpc # "idle" ~> gpc = "idle"

(* A client that the server serves and polls is not forgotten when its     *)
(* peer leaves: the user is told, unless the server is closed first.       *)
Polled(c) == poll[c] \in {"loop", "wait", "lost", "dropped", "erase"}

LossIsReported ==
    \A c \in Clients :
        c \in connectedSockets /\ Polled(c) /\ peer[c] = "gone"
            ~> Heard(c, "disconnected") # {} \/ isDestorying \/ isClosing

-----------------------------------------------------------------------------
(* What the comments of the code say, and the code does not do.            *)

(* ObjectDelivererManager.h: IsConnected returns "true:connected,          *)
(* false:disconnected".  With all events executed, IsConnected means that  *)
(* some client is connected.                                               *)
ConnectedIsConnected ==
    Settled /\ IsConnected => \E c \in Clients : socket[c] = "open"
=============================================================================
