------------------------------ MODULE TlsClient ------------------------------
(***************************************************************************)
(* UProtocolTcpIpClientTls.  Start makes a socket and a connect thread.    *)
(* That thread connects the socket, makes the FOpenSslConnection, goes     *)
(* through the handshake, hands the two over to OnConnectedWithSsl, which  *)
(* starts the connection's worker, and watches the connection for half a   *)
(* second before it reports it.  Close interrupts whatever the thread is   *)
(* waiting for, waits for it and then for the worker.                      *)
(*                                                                         *)
(* An FOpenSslConnection is named by the FSocket it runs on.  Its worker   *)
(* is that of TlsConnection, of which only the loss is kept here.          *)
(* AutoConnectAfterDisconnect is off.                                      *)
(***************************************************************************)
EXTENDS Naturals

CONSTANTS
    FSockets,        \* names for FSockets
    NoSocket,        \* a null pointer
    RetryTls,        \* RetryConnect
    MaxTlsStarts,    \* bound: calls of Start
    MaxTlsLosses     \* bound: connections the server leaves or the worker gives up

ASSUME TlsClientAssumption ==
    /\ NoSocket \notin FSockets
    /\ RetryTls \in BOOLEAN
    /\ MaxTlsStarts \in Nat /\ MaxTlsLosses \in Nat

VARIABLES
    tlsIsClosing,      \* IsClosing of the client
    socketIsClosing,   \* bIsClosing of UProtocolTcpIpSocket
    sslIsClosing,      \* bIsSslClosing of UProtocolTcpIpSocketTls
    selfClosed,        \* IsSelfClose
    tlsInner,          \* InnerSocket
    sslPtr,            \* SslConnection
    fsock,             \* per name, the FSocket
    link,              \* per name, bConnected of its FOpenSslConnection
    sslWorker,         \* per name, the worker of its FOpenSslConnection
    connecting,        \* the connect thread
    tlsUser,           \* the user's thread in Close
    hadSession,        \* bHasActiveTlsSession
    taken,             \* SslConnectionCopy
    tlsStarts,         \* the number of calls of Start
    tlsHeard,          \* ghost: what was reported to the manager last
    tlsLosses          \* the losses that may still happen

closingVars   == <<tlsIsClosing, socketIsClosing, sslIsClosing, selfClosed>>
socketVars    == <<tlsInner, fsock>>
sslVars       == <<sslPtr, link, sslWorker>>
tlsUserVars   == <<tlsUser, hadSession, taken, tlsStarts>>
tlsClientVars == <<closingVars, socketVars, sslVars, connecting, tlsUserVars, tlsHeard, tlsLosses>>

TlsClientInit ==
    /\ tlsIsClosing = FALSE /\ socketIsClosing = FALSE
    /\ sslIsClosing = FALSE /\ selfClosed = FALSE
    /\ tlsInner = NoSocket /\ sslPtr = NoSocket
    /\ fsock = [s \in FSockets |-> "destroyed"]
    /\ link = [s \in FSockets |-> FALSE]
    /\ sslWorker = [s \in FSockets |-> "exited"]
    /\ connecting = "exited"
    /\ tlsUser = "closed" /\ hadSession = FALSE /\ taken = NoSocket
    /\ tlsStarts = 0 /\ tlsHeard = "nothing"
    /\ tlsLosses = MaxTlsLosses

-----------------------------------------------------------------------------
(* Sockets.                                                                *)

(* CloseInnerSocket. *)
Destroyed(s) == [x \in FSockets |-> IF x = s THEN "destroyed" ELSE fsock[x]]

Unnamed(s) ==
    /\ fsock[s] = "destroyed" /\ sslWorker[s] = "exited"
    /\ s \notin {sslPtr, taken, tlsInner}

(* CreateSocket, after the sockets of closed are destroyed.  It may fail,  *)
(* and then leaves InnerSocket as it was.                                  *)
CreateTlsSocket(inner, sockets) ==
    \/ \E s \in FSockets :
          /\ Unnamed(s)
          /\ tlsInner' = s /\ fsock' = [sockets EXCEPT ![s] = "fresh"]
    \/ tlsInner' = inner /\ fsock' = sockets

(* The server closes the connection, or the network does. *)
ServerLeaves(s) ==
    /\ fsock[s] = "connected" /\ tlsLosses > 0
    /\ tlsLosses' = tlsLosses - 1
    /\ fsock' = [fsock EXCEPT ![s] = "broken"]
    /\ UNCHANGED <<closingVars, tlsInner, sslVars, connecting, tlsUserVars, tlsHeard>>

-----------------------------------------------------------------------------
(* Start, when neither thread runs: CloseSocket, CreateSocket and the      *)
(* connect thread, if there is a socket.                                   *)
StartTlsClient ==
    /\ tlsUser = "closed" /\ tlsStarts < MaxTlsStarts
    /\ tlsStarts' = tlsStarts + 1
    /\ tlsIsClosing' = FALSE
    /\ socketIsClosing' = TRUE /\ selfClosed' = (~socketIsClosing \/ selfClosed)
    /\ IF socketIsClosing THEN CreateTlsSocket(tlsInner, fsock)
                          ELSE CreateTlsSocket(NoSocket, Destroyed(tlsInner))
    /\ connecting' = IF tlsInner' = NoSocket THEN connecting ELSE "loop"
    /\ tlsUser' = "open"
    /\ UNCHANGED <<sslIsClosing, sslVars, hadSession, taken, tlsHeard, tlsLosses>>

-----------------------------------------------------------------------------
(* The connect thread: TryConnect.                                         *)

Proceeds(pc) ==
    /\ connecting' = pc
    /\ UNCHANGED <<tlsUserVars, tlsLosses>>

(* What a failed attempt returns. *)
TryAgain == IF RetryTls THEN "loop" ELSE "exited"

(* With IsClosing set the thread ends.  A missing socket is made again.    *)
BeginTry ==
    /\ connecting = "loop"
    /\ Proceeds(IF tlsIsClosing THEN "exited"
                ELSE IF tlsInner = NoSocket THEN "create" ELSE "state")
    /\ UNCHANGED <<closingVars, socketVars, sslVars, tlsHeard>>

MakeSocket ==
    /\ connecting \in {"create", "recreate"}
    /\ CreateTlsSocket(NoSocket, fsock)
    /\ Proceeds(IF connecting = "create" THEN "state" ELSE "remade")
    /\ UNCHANGED <<closingVars, sslVars, tlsHeard>>

(* Is there a socket?  One with an error is closed, and another one made.  *)
SocketIsMissing ==
    /\ connecting \in {"state", "remade"} /\ tlsInner = NoSocket
    /\ Proceeds(TryAgain)
    /\ UNCHANGED <<closingVars, socketVars, sslVars, tlsHeard>>

SocketIsBroken ==
    /\ connecting = "state" /\ tlsInner # NoSocket /\ fsock[tlsInner] = "broken"
    /\ tlsInner' = NoSocket /\ fsock' = Destroyed(tlsInner)
    /\ Proceeds("recreate")
    /\ UNCHANGED <<closingVars, sslVars, tlsHeard>>

SocketIsGood ==
    /\ connecting \in {"state", "remade"} /\ tlsInner # NoSocket
    /\ connecting = "state" => fsock[tlsInner] # "broken"
    /\ Proceeds("connect")
    /\ UNCHANGED <<closingVars, socketVars, sslVars, tlsHeard>>

TcpConnects ==
    /\ connecting = "connect" /\ fsock[tlsInner] = "fresh"
    /\ fsock' = [fsock EXCEPT ![tlsInner] = "connected"]
    /\ Proceeds("connected")
    /\ UNCHANGED <<closingVars, tlsInner, sslVars, tlsHeard>>

(* Refused, timed out, or cancelled; the socket may show it. *)
TcpFails ==
    /\ connecting = "connect"
    /\ \/ UNCHANGED fsock
       \/ fsock[tlsInner] = "fresh" /\ fsock' = [fsock EXCEPT ![tlsInner] = "broken"]
    /\ Proceeds(IF tlsIsClosing THEN "exited" ELSE TryAgain)
    /\ UNCHANGED <<closingVars, tlsInner, sslVars, tlsHeard>>

LookAtClosing ==
    /\ connecting = "connected"
    /\ Proceeds(IF tlsIsClosing THEN "exited" ELSE "configure")
    /\ UNCHANGED <<closingVars, socketVars, sslVars, tlsHeard>>

(* A new FOpenSslConnection.  Its configuration is that of TlsPolicy.      *)
MakeConnection ==
    /\ connecting = "configure"
    /\ sslPtr' = tlsInner
    /\ link' = [link EXCEPT ![tlsInner] = FALSE]
    /\ Proceeds("handshake")
    /\ UNCHANGED <<closingVars, socketVars, sslWorker, tlsHeard>>

HandshakeSucceeds ==
    /\ connecting = "handshake" /\ fsock[sslPtr] = "connected"
    /\ link' = [link EXCEPT ![sslPtr] = TRUE]
    /\ Proceeds("adopt")
    /\ UNCHANGED <<closingVars, socketVars, sslPtr, sslWorker, tlsHeard>>

(* Mutant: a failed handshake ends the connect thread. *)
HandshakeFailsForGood ==
    /\ connecting = "handshake"
    /\ sslPtr' = NoSocket /\ tlsInner' = NoSocket
    /\ fsock' = Destroyed(tlsInner)
    /\ Proceeds("exited")
    /\ UNCHANGED <<closingVars, link, sslWorker, tlsHeard>>

(* Configuration, handshake or verification fails, the handshake at the    *)
(* latest by its timeout: the connection is dropped, and its socket.       *)
HandshakeFails ==
    /\ connecting = "handshake"
    /\ sslPtr' = NoSocket /\ tlsInner' = NoSocket
    /\ fsock' = Destroyed(tlsInner)
    /\ Proceeds(TryAgain)
    /\ UNCHANGED <<closingVars, link, sslWorker, tlsHeard>>

(* Mutant: bIsClosing, which Start has set, stays set. *)
AdoptKeepsClosing ==
    /\ connecting = "adopt"
    /\ sslIsClosing' = FALSE /\ selfClosed' = FALSE
    /\ sslWorker' = [sslWorker EXCEPT ![sslPtr] = "loop"]
    /\ Proceeds("watch")
    /\ UNCHANGED <<tlsIsClosing, socketIsClosing, socketVars, sslPtr, link, tlsHeard>>

(* OnConnectedWithSsl: the worker runs from here. *)
AdoptConnection ==
    /\ connecting = "adopt"
    /\ socketIsClosing' = FALSE /\ sslIsClosing' = FALSE /\ selfClosed' = FALSE
    /\ sslWorker' = [sslWorker EXCEPT ![sslPtr] = "loop"]
    /\ Proceeds("watch")
    /\ UNCHANGED <<tlsIsClosing, socketVars, sslPtr, link, tlsHeard>>

(* The stability window.  A round of it looks at IsClosing, at the         *)
(* connection, whether there still is an InnerSocket, and then asks that   *)
(* FSocket for its state, without a lock.                                  *)
WatchClosing ==
    /\ connecting = "watch"
    /\ Proceeds(IF tlsIsClosing THEN "exited" ELSE "judge")
    /\ UNCHANGED <<closingVars, socketVars, sslVars, tlsHeard>>

LinkIsUp ==
    /\ connecting = "judge" /\ link[sslPtr]
    /\ Proceeds("inspect")
    /\ UNCHANGED <<closingVars, socketVars, sslVars, tlsHeard>>

SocketIsThere ==
    /\ connecting = "inspect" /\ tlsInner # NoSocket
    /\ Proceeds("ask")
    /\ UNCHANGED <<closingVars, socketVars, sslVars, tlsHeard>>

(* The FSocket asked is the one InnerSocket pointed at, that of sslPtr.    *)
(* Closed or destroyed in the meantime, it may give either answer.         *)
RoundIsGood ==
    \/ connecting = "inspect" /\ tlsInner = NoSocket
    \/ connecting = "ask" /\ fsock[sslPtr] # "broken"

RoundIsBad ==
    \/ connecting = "judge" /\ ~link[sslPtr]
    \/ connecting = "ask" /\ fsock[sslPtr] # "connected"

WatchGoesOn ==
    /\ RoundIsGood
    /\ Proceeds("watch")
    /\ UNCHANGED <<closingVars, socketVars, sslVars, tlsHeard>>

WindowPasses ==
    /\ RoundIsGood
    /\ Proceeds("dispatch")
    /\ UNCHANGED <<closingVars, socketVars, sslVars, tlsHeard>>

(* The connection is dropped, whose worker is waited for, and the socket.  *)
RejectConnection ==
    /\ RoundIsBad
    /\ connecting' = "reject" /\ taken' = sslPtr
    /\ UNCHANGED <<closingVars, socketVars, sslVars, tlsUser, hadSession, tlsStarts, tlsHeard,
                   tlsLosses>>

FinishReject ==
    /\ connecting = "reject" /\ sslWorker[sslPtr] = "exited"
    /\ sslPtr' = NoSocket /\ taken' = NoSocket
    /\ link' = [link EXCEPT ![sslPtr] = FALSE]
    /\ tlsInner' = NoSocket /\ fsock' = Destroyed(tlsInner)
    /\ connecting' = TryAgain
    /\ UNCHANGED <<closingVars, sslWorker, tlsUser, hadSession, tlsStarts, tlsHeard,
                   tlsLosses>>

ReportTlsConnected ==
    /\ connecting = "dispatch"
    /\ tlsHeard' = "connected"
    /\ Proceeds("exited")
    /\ UNCHANGED <<closingVars, socketVars, sslVars>>

ConnectStep ==
    \/ BeginTry \/ MakeSocket \/ SocketIsMissing \/ SocketIsBroken \/ SocketIsGood
    \/ TcpConnects \/ TcpFails \/ LookAtClosing
    \/ MakeConnection \/ HandshakeSucceeds \/ HandshakeFails \/ AdoptConnection
    \/ WatchClosing \/ LinkIsUp \/ SocketIsThere \/ WatchGoesOn \/ WindowPasses
    \/ RejectConnection \/ FinishReject \/ ReportTlsConnected

-----------------------------------------------------------------------------
(* The worker of the connection on s.                                      *)

SslWorkerGoesTo(s, pc) ==
    /\ sslWorker' = [sslWorker EXCEPT ![s] = pc]
    /\ UNCHANGED <<sslPtr, connecting, tlsUserVars>>

(* bStopWorker is set by whoever waits for the worker. *)
WorkerStops(s) ==
    /\ sslWorker[s] = "loop" /\ taken = s
    /\ SslWorkerGoesTo(s, "exited")
    /\ UNCHANGED <<closingVars, socketVars, link, tlsHeard, tlsLosses>>

(* A loss, or what the worker takes for one. *)
WorkerSeesLoss(s) ==
    /\ sslWorker[s] = "loop"
    /\ IF fsock[s] = "connected" THEN tlsLosses > 0 /\ tlsLosses' = tlsLosses - 1
                                 ELSE UNCHANGED tlsLosses
    /\ link' = [link EXCEPT ![s] = FALSE]
    /\ SslWorkerGoesTo(s, "notify")
    /\ UNCHANGED <<closingVars, socketVars, tlsHeard>>

(* OnSslDisconnected. *)
WorkerSeesClosing(s) ==
    /\ sslWorker[s] = "notify"
    /\ SslWorkerGoesTo(s, IF sslIsClosing THEN "exited" ELSE "claim")
    /\ UNCHANGED <<closingVars, socketVars, link, tlsHeard, tlsLosses>>

WorkerClaims(s) ==
    /\ sslWorker[s] = "claim"
    /\ selfClosed' = TRUE
    /\ SslWorkerGoesTo(s, IF selfClosed THEN "exited" ELSE "drop")
    /\ UNCHANGED <<tlsIsClosing, socketIsClosing, sslIsClosing, socketVars, link, tlsHeard, tlsLosses>>

WorkerDrops(s) ==
    /\ sslWorker[s] = "drop"
    /\ tlsInner' = NoSocket /\ fsock' = Destroyed(tlsInner)
    /\ SslWorkerGoesTo(s, "report")
    /\ UNCHANGED <<closingVars, link, tlsHeard, tlsLosses>>

WorkerReports(s) ==
    /\ sslWorker[s] = "report"
    /\ tlsHeard' = "disconnected"
    /\ SslWorkerGoesTo(s, "exited")
    /\ UNCHANGED <<closingVars, socketVars, link, tlsLosses>>

SslWorkerStep(s) ==
    \/ WorkerStops(s) \/ WorkerSeesClosing(s) \/ WorkerClaims(s)
    \/ WorkerDrops(s) \/ WorkerReports(s)

-----------------------------------------------------------------------------
(* Close, on the user's thread.                                            *)

CloseGoesTo(pc) ==
    /\ tlsUser' = pc
    /\ UNCHANGED <<connecting, tlsStarts, tlsHeard, tlsLosses>>

BeginTlsClose ==
    /\ tlsUser = "open"
    /\ tlsIsClosing' = TRUE
    /\ CloseGoesTo("look")
    /\ UNCHANGED <<socketIsClosing, sslIsClosing, selfClosed, socketVars, sslVars, hadSession,
                   taken>>

(* StopConnectThread: is there a session?  If not, what the connect thread *)
(* waits for is interrupted by closing the socket.                         *)
LookForSession ==
    /\ tlsUser = "look"
    /\ hadSession' = (sslPtr # NoSocket /\ link[sslPtr])
    /\ CloseGoesTo("interrupt")
    /\ UNCHANGED <<closingVars, socketVars, sslVars, taken>>

(* Mutant: the socket is destroyed before the connect thread has ended. *)
InterruptDestroys ==
    /\ tlsUser = "interrupt"
    /\ IF hadSession THEN UNCHANGED socketVars
                     ELSE tlsInner' = NoSocket /\ fsock' = Destroyed(tlsInner)
    /\ CloseGoesTo("joinConnect")
    /\ UNCHANGED <<closingVars, sslVars, hadSession, taken>>

InterruptConnect ==
    /\ tlsUser = "interrupt"
    /\ fsock' = [s \in FSockets |-> IF s = tlsInner /\ ~hadSession THEN "closed" ELSE fsock[s]]
    /\ CloseGoesTo("joinConnect")
    /\ UNCHANGED <<closingVars, tlsInner, sslVars, hadSession, taken>>

JoinConnectThread ==
    /\ tlsUser = "joinConnect" /\ connecting = "exited"
    /\ IF hadSession THEN UNCHANGED socketVars
                     ELSE tlsInner' = NoSocket /\ fsock' = Destroyed(tlsInner)
    /\ CloseGoesTo("flags")
    /\ UNCHANGED <<closingVars, sslVars, hadSession, taken>>

(* Close of the base class: the flags, then SslConnection is taken over. *)
SetSslClosing ==
    /\ tlsUser = "flags"
    /\ sslIsClosing' = TRUE /\ selfClosed' = TRUE
    /\ CloseGoesTo("take")
    /\ UNCHANGED <<tlsIsClosing, socketIsClosing, socketVars, sslVars, hadSession, taken>>

TakeConnection ==
    /\ tlsUser = "take"
    /\ taken' = sslPtr /\ sslPtr' = NoSocket
    /\ CloseGoesTo("joinWorker")
    /\ UNCHANGED <<closingVars, socketVars, link, sslWorker, hadSession>>

JoinSslWorker ==
    /\ tlsUser = "joinWorker"
    /\ taken # NoSocket => sslWorker[taken] = "exited"
    /\ link' = [s \in FSockets |-> s # taken /\ link[s]]
    /\ taken' = NoSocket
    /\ CloseGoesTo("base")
    /\ UNCHANGED <<closingVars, socketVars, sslPtr, sslWorker, hadSession>>

(* CloseSocket, which does nothing when bIsClosing is set. *)
CloseBase ==
    /\ tlsUser = "base"
    /\ socketIsClosing' = TRUE /\ selfClosed' = TRUE
    /\ IF socketIsClosing THEN UNCHANGED socketVars
                          ELSE tlsInner' = NoSocket /\ fsock' = Destroyed(tlsInner)
    /\ CloseGoesTo("closed")
    /\ UNCHANGED <<tlsIsClosing, sslIsClosing, sslVars, hadSession, taken>>

TlsCloses ==
    \/ LookForSession \/ InterruptConnect \/ JoinConnectThread \/ SetSslClosing
    \/ TakeConnection \/ JoinSslWorker \/ CloseBase

-----------------------------------------------------------------------------
TlsClientNext ==
    \/ StartTlsClient \/ ConnectStep \/ BeginTlsClose \/ TlsCloses
    \/ \E s \in FSockets : ServerLeaves(s) \/ SslWorkerStep(s) \/ WorkerSeesLoss(s)

(* Every thread that can run runs, but a worker in its loop may be writing *)
(* to a server that does not read, and leaves it for certain only when the *)
(* connection is gone.  Connects and handshakes that are tried again and   *)
(* again succeed, and the stability window passes.                         *)
TlsClientFairness ==
    /\ WF_tlsClientVars(ConnectStep) /\ WF_tlsClientVars(TlsCloses)
    /\ \A s \in FSockets : WF_tlsClientVars((sslWorker[s] = "loop" => fsock[s] # "connected")
                                             /\ SslWorkerStep(s))
    /\ SF_tlsClientVars(MakeSocket /\ tlsInner' # NoSocket)
    /\ SF_tlsClientVars(TcpConnects) /\ SF_tlsClientVars(HandshakeSucceeds)
    /\ SF_tlsClientVars(WindowPasses)

TlsClientSpec == TlsClientInit /\ [][TlsClientNext]_tlsClientVars /\ TlsClientFairness

-----------------------------------------------------------------------------
(* The client keeps its state in its domains. *)
TlsClientTypeOK ==
    /\ {tlsIsClosing, socketIsClosing, sslIsClosing, selfClosed, hadSession} \subseteq BOOLEAN
    /\ {tlsInner, sslPtr, taken} \subseteq FSockets \cup {NoSocket}
    /\ fsock \in [FSockets -> {"fresh", "connected", "broken", "closed", "destroyed"}]
    /\ link \in [FSockets -> BOOLEAN]
    /\ sslWorker \in [FSockets -> {"loop", "notify", "claim", "drop", "report", "exited"}]
    /\ connecting \in {"loop", "create", "state", "recreate", "remade", "connect", "connected",
                       "configure", "handshake", "adopt", "watch", "judge", "inspect", "ask",
                       "reject", "dispatch", "exited"}
    /\ tlsUser \in {"open", "look", "interrupt", "joinConnect", "flags", "take",
                    "joinWorker", "base", "closed"}
    /\ tlsStarts \in 0 .. MaxTlsStarts
    /\ tlsLosses \in 0 .. MaxTlsLosses
    /\ tlsHeard \in {"nothing", "connected", "disconnected"}

(* Close interrupts a connect or a handshake by closing the FSocket under  *)
(* it, but the FSocket itself outlives both: it is destroyed by the        *)
(* connect thread, or when that thread has ended.  In the stability window *)
(* it need not outlive the connect thread's use of it (the GetConnection-  *)
(* State of a round may meet a destroyed FSocket), but then its own worker *)
(* has destroyed it, after a loss; Close never does.                       *)
SocketOutlivesHandshake ==
    /\ connecting \in {"connect", "connected", "configure", "handshake", "adopt"} =>
          tlsInner # NoSocket /\ fsock[tlsInner] # "destroyed"
    /\ connecting \in {"watch", "judge", "inspect", "ask"} /\ fsock[sslPtr] = "destroyed" =>
          ~link[sslPtr] /\ sslWorker[sslPtr] \in {"report", "exited"}

(* When Close has returned, whatever it met, no thread of the client is    *)
(* left and no FSocket it ever made.                                       *)
TlsClosedIsQuiet ==
    tlsUser = "closed" =>
        /\ connecting = "exited" /\ sslPtr = NoSocket
        /\ \A s \in FSockets : sslWorker[s] = "exited" /\ fsock[s] = "destroyed"

(* With RetryConnect the connect thread goes on, through connects that     *)
(* fail, handshakes that fail and connections that are lost at once, until *)
(* it reports a connection or the client is closed.                        *)
RetriesUntilSecure ==
    RetryTls => (connecting = "loop" ~> connecting = "dispatch" \/ tlsIsClosing)
=============================================================================
