------------------------------ MODULE TlsServer ------------------------------
(***************************************************************************)
(* UProtocolTcpIpServerTls.  The listen thread takes one connection at a   *)
(* time from the backlog and goes through its handshake before it looks at *)
(* the next; a connection that comes through becomes a client socket with  *)
(* a worker of its own, is put on ConnectedSockets and reported.  Close    *)
(* waits for the listen thread, and then for the worker of every client on *)
(* the list.                                                               *)
(*                                                                         *)
(* The worker is that of TlsConnection, of which only the loss is kept,    *)
(* and the writing, which ends when the client has read or is gone.        *)
(***************************************************************************)
EXTENDS FiniteSets, Naturals

CONSTANTS
    TlsPeers,         \* the clients, each of which connects once
    Readers,          \* those of them that read what they are sent
    Nobody,           \* no client
    MaxServerStarts   \* bound: calls of Start

ASSUME TlsServerAssumption ==
    /\ IsFiniteSet(TlsPeers) /\ Nobody \notin TlsPeers
    /\ Readers \subseteq TlsPeers
    /\ MaxServerStarts \in Nat

VARIABLES
    peerSock,         \* per client, the FSocket the server has for it
    peerWorker,       \* per client, the worker of its FOpenSslConnection
    peerSelfClose,    \* per client, IsSelfClose of its socket
    peerSslClosing,   \* per client, bIsSslClosing of its socket
    tlsList,          \* ConnectedSockets
    listening,        \* the listen thread
    serving,          \* the connection it has taken from the backlog
    serverIsClosing,  \* IsClosing
    serverCall,       \* the user's thread in Start or Close
    toClose,          \* SocketsToClose
    inStart,          \* Close was called by Start
    serverStarts,     \* the number of calls of Start
    peerHeard         \* ghost: per client, what was reported of it last

peerVars      == <<peerSock, peerWorker, peerSelfClose, peerSslClosing>>
listenVars    == <<tlsList, listening, serving>>
serverUser    == <<serverIsClosing, serverCall, toClose, inStart, serverStarts>>
tlsServerVars == <<peerVars, listenVars, serverUser, peerHeard>>

TlsServerInit ==
    /\ peerSock = [p \in TlsPeers |-> "away"]
    /\ peerWorker = [p \in TlsPeers |-> "none"]
    /\ peerSelfClose = [p \in TlsPeers |-> FALSE]
    /\ peerSslClosing = [p \in TlsPeers |-> FALSE]
    /\ tlsList = {} /\ listening = "none" /\ serving = Nobody
    /\ serverIsClosing = FALSE /\ serverCall = "idle" /\ toClose = {}
    /\ inStart = FALSE /\ serverStarts = 0
    /\ peerHeard = [p \in TlsPeers |-> "nothing"]

-----------------------------------------------------------------------------
(* The network.  A client connects while the listener exists, and may      *)
(* leave, before or after it is accepted; a client that stays may or may   *)
(* not answer in the handshake.                                            *)

PeerConnects(p) ==
    /\ peerSock[p] = "away" /\ listening # "none"
    /\ peerSock' = [peerSock EXCEPT ![p] = "backlog"]
    /\ UNCHANGED <<peerWorker, peerSelfClose, peerSslClosing, listenVars, serverUser, peerHeard>>

PeerGoes(p) ==
    /\ peerSock[p] = "open"
    /\ peerSock' = [peerSock EXCEPT ![p] = "left"]
    /\ UNCHANGED <<peerWorker, peerSelfClose, peerSslClosing, listenVars, serverUser, peerHeard>>

-----------------------------------------------------------------------------
(* The listen thread: OnListen.                                            *)

ListensAt(pc, p) == listening' = pc /\ serving' = p

ListenTurn ==
    /\ listening = "loop"
    /\ ListensAt(IF serverIsClosing THEN "exited" ELSE "look", Nobody)
    /\ UNCHANGED <<peerVars, tlsList, serverUser, peerHeard>>

NobodyPending ==
    /\ listening = "look" /\ \A p \in TlsPeers : peerSock[p] # "backlog"
    /\ ListensAt("loop", Nobody)
    /\ UNCHANGED <<peerVars, tlsList, serverUser, peerHeard>>

AcceptPeer(p) ==
    /\ listening = "look" /\ peerSock[p] = "backlog"
    /\ peerSock' = [peerSock EXCEPT ![p] = "open"]
    /\ ListensAt("handshake", p)
    /\ UNCHANGED <<peerWorker, peerSelfClose, peerSslClosing, tlsList, serverUser, peerHeard>>

PeerAnswers ==
    /\ listening = "handshake" /\ peerSock[serving] = "open"
    /\ ListensAt("connected", serving)
    /\ UNCHANGED <<peerVars, tlsList, serverUser, peerHeard>>

(* Mutant: a handshake ends only when the client answers or leaves. *)
HandshakeHasNoTimeout ==
    /\ listening = "handshake" /\ peerSock[serving] = "left"
    /\ peerSock' = [peerSock EXCEPT ![serving] = "destroyed"]
    /\ ListensAt("loop", Nobody)
    /\ UNCHANGED <<peerWorker, peerSelfClose, peerSslClosing, tlsList, serverUser, peerHeard>>

(* Configuration or handshake fails, at the latest by the timeout of the   *)
(* handshake.  There is no client socket yet, only the FSocket to destroy. *)
RefusePeer ==
    /\ listening = "handshake"
    /\ peerSock' = [peerSock EXCEPT ![serving] = "destroyed"]
    /\ ListensAt("loop", Nobody)
    /\ UNCHANGED <<peerWorker, peerSelfClose, peerSslClosing, tlsList, serverUser, peerHeard>>

(* OnConnectedWithSsl: the worker of the client runs from here. *)
StartPeerWorker ==
    /\ listening = "connected"
    /\ peerWorker' = [peerWorker EXCEPT ![serving] = "loop"]
    /\ peerSelfClose' = [peerSelfClose EXCEPT ![serving] = FALSE]
    /\ peerSslClosing' = [peerSslClosing EXCEPT ![serving] = FALSE]
    /\ ListensAt("add", serving)
    /\ UNCHANGED <<peerSock, tlsList, serverUser, peerHeard>>

AddPeer ==
    /\ listening = "add"
    /\ tlsList' = tlsList \cup {serving}
    /\ ListensAt("report", serving)
    /\ UNCHANGED <<peerVars, serverUser, peerHeard>>

ReportPeer ==
    /\ listening = "report"
    /\ peerHeard' = [peerHeard EXCEPT ![serving] = "connected"]
    /\ ListensAt("loop", Nobody)
    /\ UNCHANGED <<peerVars, tlsList, serverUser>>

ListenStep ==
    \/ ListenTurn \/ NobodyPending \/ PeerAnswers \/ RefusePeer
    \/ StartPeerWorker \/ AddPeer \/ ReportPeer
    \/ \E p \in TlsPeers : AcceptPeer(p)

-----------------------------------------------------------------------------
(* The worker of client p.                                                 *)

PeerWorkerGoesTo(p, pc) == peerWorker' = [peerWorker EXCEPT ![p] = pc]

(* A message of the server's user is written to the client.  In the loop   *)
(* around SSL_write the worker does not look at bStopWorker.               *)
PeerWrites(p) ==
    /\ peerWorker[p] = "loop" /\ p \in tlsList \cup toClose /\ ~peerSslClosing[p]
    /\ PeerWorkerGoesTo(p, "write")
    /\ UNCHANGED <<peerSock, peerSelfClose, peerSslClosing, listenVars, serverUser, peerHeard>>

(* The client has read it all, which one that is no reader may never do. *)
PeerReads(p) ==
    /\ peerWorker[p] = "write" /\ peerSock[p] = "open"
    /\ PeerWorkerGoesTo(p, "loop")
    /\ UNCHANGED <<peerSock, peerSelfClose, peerSslClosing, listenVars, serverUser, peerHeard>>

(* The client is gone, and SSL_write fails. *)
PeerWriteFails(p) ==
    /\ peerWorker[p] = "write" /\ peerSock[p] = "left"
    /\ PeerWorkerGoesTo(p, "loop")
    /\ UNCHANGED <<peerSock, peerSelfClose, peerSslClosing, listenVars, serverUser, peerHeard>>

(* Told to stop by the thread in Close that waits for it. *)
PeerWorkerStops(p) ==
    /\ peerWorker[p] = "loop" /\ p \in toClose /\ peerSslClosing[p]
    /\ PeerWorkerGoesTo(p, "exited")
    /\ UNCHANGED <<peerSock, peerSelfClose, peerSslClosing, listenVars, serverUser, peerHeard>>

(* A loss, or what the worker takes for one. *)
PeerIsLost(p) ==
    /\ peerWorker[p] = "loop"
    /\ PeerWorkerGoesTo(p, "notify")
    /\ UNCHANGED <<peerSock, peerSelfClose, peerSslClosing, listenVars, serverUser, peerHeard>>

(* OnSslDisconnected.  OnConnectedWithSsl holds the lock until it returns. *)
PeerClosing(p) ==
    /\ peerWorker[p] = "notify"
    /\ PeerWorkerGoesTo(p, IF peerSslClosing[p] THEN "exited" ELSE "claim")
    /\ UNCHANGED <<peerSock, peerSelfClose, peerSslClosing, listenVars, serverUser, peerHeard>>

PeerClaims(p) ==
    /\ peerWorker[p] = "claim"
    /\ PeerWorkerGoesTo(p, IF peerSelfClose[p] THEN "exited" ELSE "drop")
    /\ peerSelfClose' = [peerSelfClose EXCEPT ![p] = TRUE]
    /\ UNCHANGED <<peerSock, peerSslClosing, listenVars, serverUser, peerHeard>>

PeerDrops(p) ==
    /\ peerWorker[p] = "drop"
    /\ peerSock' = [peerSock EXCEPT ![p] = "destroyed"]
    /\ PeerWorkerGoesTo(p, "disconnected")
    /\ UNCHANGED <<peerSelfClose, peerSslClosing, listenVars, serverUser, peerHeard>>

(* DisconnectedClient: IsClosing, the list, the report. *)
LooksAtServer(p) ==
    /\ peerWorker[p] = "disconnected"
    /\ PeerWorkerGoesTo(p, IF serverIsClosing THEN "exited" ELSE "remove")
    /\ UNCHANGED <<peerSock, peerSelfClose, peerSslClosing, listenVars, serverUser, peerHeard>>

RemovePeer(p) ==
    /\ peerWorker[p] = "remove"
    /\ tlsList' = tlsList \ {p}
    /\ PeerWorkerGoesTo(p, IF p \in tlsList THEN "report" ELSE "exited")
    /\ UNCHANGED <<peerSock, peerSelfClose, peerSslClosing, listening, serving, serverUser,
                   peerHeard>>

ReportPeerLost(p) ==
    /\ peerWorker[p] = "report"
    /\ peerHeard' = [peerHeard EXCEPT ![p] = "disconnected"]
    /\ PeerWorkerGoesTo(p, "exited")
    /\ UNCHANGED <<peerSock, peerSelfClose, peerSslClosing, listenVars, serverUser>>

PeerWorkerStep(p) ==
    \/ PeerWriteFails(p) \/ PeerWorkerStops(p) \/ PeerClosing(p) \/ PeerClaims(p)
    \/ PeerDrops(p) \/ LooksAtServer(p) \/ RemovePeer(p) \/ ReportPeerLost(p)

-----------------------------------------------------------------------------
(* Start and Close, on the user's thread.  Start is Close and then a new   *)
(* listener.                                                               *)

BeginTlsServerClose(starts) ==
    /\ serverCall = "idle"
    /\ starts => serverStarts < MaxServerStarts
    /\ ~starts => listening # "none"
    /\ serverIsClosing' = TRUE
    /\ inStart' = starts
    /\ serverStarts' = IF starts THEN serverStarts + 1 ELSE serverStarts
    /\ serverCall' = "joinListen"
    /\ UNCHANGED <<peerVars, listenVars, toClose, peerHeard>>

(* Mutant: the list is taken while the listen thread may still add to it. *)
JoinListenAtOnce ==
    /\ serverCall = "joinListen"
    /\ serverCall' = "take"
    /\ UNCHANGED <<peerVars, listenVars, serverIsClosing, toClose, inStart, serverStarts,
                   peerHeard>>

JoinListen ==
    /\ serverCall = "joinListen" /\ listening \in {"none", "exited"}
    /\ serverCall' = "take"
    /\ UNCHANGED <<peerVars, listenVars, serverIsClosing, toClose, inStart, serverStarts,
                   peerHeard>>

TakeList ==
    /\ serverCall = "take"
    /\ toClose' = tlsList /\ tlsList' = {}
    /\ serverCall' = "closeClients"
    /\ UNCHANGED <<peerVars, listening, serving, serverIsClosing, inStart, serverStarts,
                   peerHeard>>

(* Close of the client p, in the order of the list: the flags; then its    *)
(* worker has ended, and its FSocket is destroyed.                         *)
BeginCloseClient(p) ==
    /\ serverCall = "closeClients" /\ p \in toClose /\ ~peerSslClosing[p]
    /\ \A x \in toClose : ~peerSslClosing[x]
    /\ peerSslClosing' = [peerSslClosing EXCEPT ![p] = TRUE]
    /\ peerSelfClose' = [peerSelfClose EXCEPT ![p] = TRUE]
    /\ UNCHANGED <<peerSock, peerWorker, listenVars, serverUser, peerHeard>>

EndCloseClient(p) ==
    /\ serverCall = "closeClients" /\ p \in toClose /\ peerSslClosing[p]
    /\ peerWorker[p] = "exited"
    /\ peerSock' = [peerSock EXCEPT ![p] = "destroyed"]
    /\ toClose' = toClose \ {p}
    /\ UNCHANGED <<peerWorker, peerSelfClose, peerSslClosing, listenVars, serverIsClosing,
                   serverCall, inStart, serverStarts, peerHeard>>

(* The listener is destroyed, with what is in its backlog.  Start makes a  *)
(* new one and a listen thread, unless it cannot be made.                  *)
EndTlsServerClose ==
    /\ serverCall = "closeClients" /\ toClose = {}
    /\ peerSock' = [p \in TlsPeers |-> IF peerSock[p] = "backlog" THEN "destroyed"
                                       ELSE peerSock[p]]
    /\ serverCall' = "idle"
    /\ \/ inStart /\ serverIsClosing' = FALSE /\ listening' \in {"loop", "none"}
       \/ ~inStart /\ serverIsClosing' = TRUE /\ listening' = "none"
    /\ UNCHANGED <<peerWorker, peerSelfClose, peerSslClosing, tlsList, serving, toClose, inStart,
                   serverStarts, peerHeard>>

TlsServerCall ==
    \/ JoinListen \/ TakeList \/ EndTlsServerClose
    \/ \E p \in TlsPeers : BeginCloseClient(p) \/ EndCloseClient(p)

-----------------------------------------------------------------------------
TlsServerNext ==
    \/ ListenStep \/ TlsServerCall
    \/ \E starts \in BOOLEAN : BeginTlsServerClose(starts)
    \/ \E p \in TlsPeers :
          \/ PeerConnects(p) \/ PeerGoes(p) \/ PeerReads(p)
          \/ PeerWrites(p) \/ PeerIsLost(p) \/ PeerWorkerStep(p)

(* Every thread that can run runs; a handshake with a client that does not *)
(* answer ends with its timeout.  Nothing makes a client answer, and       *)
(* only the readers are sure to read.                                      *)
TlsServerFairness ==
    /\ WF_tlsServerVars(ListenStep /\ ~(listening = "handshake" /\ listening' = "connected"))
    /\ \A p \in TlsPeers : SF_tlsServerVars(AcceptPeer(p))
    /\ WF_tlsServerVars(TlsServerCall)
    /\ \A p \in TlsPeers : WF_tlsServerVars(PeerWorkerStep(p))
    /\ \A p \in Readers : WF_tlsServerVars(PeerReads(p))

TlsServerSpec == TlsServerInit /\ [][TlsServerNext]_tlsServerVars /\ TlsServerFairness

-----------------------------------------------------------------------------
(* The server keeps its state in its domains. *)
TlsServerTypeOK ==
    /\ peerSock \in [TlsPeers -> {"away", "backlog", "open", "left", "destroyed"}]
    /\ peerWorker \in [TlsPeers -> {"none", "loop", "write", "notify", "claim", "drop",
                                    "disconnected", "remove", "report", "exited"}]
    /\ peerSelfClose \in [TlsPeers -> BOOLEAN] /\ peerSslClosing \in [TlsPeers -> BOOLEAN]
    /\ tlsList \subseteq TlsPeers /\ toClose \subseteq TlsPeers
    /\ listening \in {"none", "loop", "look", "handshake", "connected", "add", "report",
                      "exited"}
    /\ serving \in TlsPeers \cup {Nobody}
    /\ serverIsClosing \in BOOLEAN /\ inStart \in BOOLEAN
    /\ serverCall \in {"idle", "joinListen", "take", "closeClients"}
    /\ serverStarts \in 0 .. MaxServerStarts
    /\ peerHeard \in [TlsPeers -> {"nothing", "connected", "disconnected"}]

(* When Close has returned no worker runs on a connection, and no FSocket  *)
(* that the listen thread ever accepted is left, whether its client was on *)
(* the list, on its way to it or had just been taken off by its worker.    *)
TlsServerClosesAll ==
    serverCall = "idle" /\ listening = "none" =>
        \A p \in TlsPeers : /\ peerWorker[p] \notin {"loop", "write", "notify", "claim", "drop"}
                            /\ peerSock[p] \in {"away", "destroyed"}

(* Close waits for a worker that writes to a client that does not read.    *)
HeldUp == \E p \in toClose \ Readers : peerSslClosing[p] /\ peerWorker[p] = "write"

(* A client in the backlog is accepted or closed, even behind one that     *)
(* never answers in its handshake; and Start and Close return.  One thing  *)
(* alone keeps them: the worker Close waits for does not leave the loop    *)
(* around SSL_write while its client does not read.                        *)
EveryPeerIsAnswered ==
    /\ \A p \in TlsPeers : peerSock[p] = "backlog" ~> peerSock[p] # "backlog" \/ HeldUp
    /\ serverCall # "idle" ~> serverCall = "idle" \/ HeldUp
=============================================================================
