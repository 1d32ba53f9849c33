----------------------------- MODULE TlsProofs -----------------------------
(***************************************************************************)
(* Proofs about the two ends of a TLS connection, for any number of        *)
(* sockets, clients, losses and calls of Start: when Close has returned    *)
(* nothing is left, no thread destroys an FSocket in a connect or a        *)
(* handshake of another, and the threads Close waits for are on their way  *)
(* out, as far as the other end lets them.                                 *)
(***************************************************************************)
EXTENDS TlsClient, TlsServer, TLAPS

-----------------------------------------------------------------------------
(* UProtocolTcpIpClientTls.  An FSocket is left exactly while InnerSocket  *)
(* points at it, so the properties are about who may clear InnerSocket and *)
(* when: a worker, which runs only on a connection that was adopted and is *)
(* waited for before the connect thread makes another, and Close, which    *)
(* first waits for the connect thread.                                     *)

Trying == {"loop", "create", "state", "recreate", "remade", "connect", "connected", "configure"}

Window == {"watch", "judge", "inspect", "ask"}

OneFSocket == \A s \in FSockets : fsock[s] # "destroyed" <=> s = tlsInner

(* What the connect thread relies on. *)
ConnectInv ==
    /\ connecting \in {"connect", "connected", "configure", "handshake", "adopt"} =>
          tlsInner # NoSocket
    /\ connecting \in {"create", "recreate"} => tlsInner = NoSocket
    /\ connecting \in Trying => sslPtr = NoSocket
    /\ connecting \in {"handshake", "adopt"} => sslPtr = tlsInner
    /\ connecting \in Window \cup {"reject", "dispatch"} => sslPtr # NoSocket
    /\ connecting = "handshake" => ~link[sslPtr]
    /\ sslPtr # NoSocket /\ connecting \notin {"handshake", "adopt"} => ~socketIsClosing

(* A worker runs on the connection in use or on one that is waited for,    *)
(* and never while the connect thread makes a connection.                  *)
SslWorkerInv ==
    /\ \A s \in FSockets : sslWorker[s] # "exited" => s \in {sslPtr, taken}
    /\ connecting \in Trying \cup {"handshake", "adopt"} => \A s \in FSockets : sslWorker[s] = "exited"
    /\ IF connecting = "reject" THEN taken = sslPtr
                                ELSE taken # NoSocket => tlsUser = "joinWorker"

(* In the stability window it is the worker alone that takes the FSocket   *)
(* away, and it has seen the loss before.                                  *)
WindowInv ==
    connecting \in Window =>
        /\ sslWorker[sslPtr] \in {"notify", "claim", "drop", "report"} => ~link[sslPtr]
        /\ \/ tlsInner = sslPtr
           \/ ~link[sslPtr] /\ sslWorker[sslPtr] \in {"report", "exited"}

(* What the steps of Close leave behind for the following ones: the socket *)
(* is gone, or there was a session and the last step still sees to it.     *)
TlsCloseInv ==
    /\ tlsUser \in {"flags", "take", "joinWorker", "base", "closed"} => connecting = "exited"
    /\ tlsUser \in {"joinWorker", "base", "closed"} => sslPtr = NoSocket
    /\ tlsUser \in {"interrupt", "joinConnect"} /\ hadSession =>
          connecting = "adopt" \/ ~socketIsClosing
    /\ tlsUser \in {"flags", "take", "joinWorker", "base"} =>
          tlsInner = NoSocket \/ ~socketIsClosing
    /\ tlsUser = "closed" => tlsInner = NoSocket

TlsClientInv ==
    TlsClientTypeOK /\ OneFSocket /\ ConnectInv /\ SslWorkerInv /\ WindowInv /\ TlsCloseInv

FSocketStates == {"fresh", "connected", "broken", "closed", "destroyed"}

(* CreateSocket, with no other FSocket left, leaves one that InnerSocket   *)
(* points at, or none. *)
LEMMA Created ==
    ASSUME NEW sockets \in [FSockets -> FSocketStates],
           \A s \in FSockets : sockets[s] = "destroyed",
           CreateTlsSocket(NoSocket, sockets)
    PROVE  /\ OneFSocket' /\ tlsInner' \in FSockets \cup {NoSocket}
           /\ fsock' \in [FSockets -> FSocketStates]
  BY TlsClientAssumption DEF CreateTlsSocket, OneFSocket, FSocketStates

(* What CloseInnerSocket leaves of the FSockets: none. *)
LEMMA AllDestroyed ==
    ASSUME TlsClientInv
    PROVE  /\ fsock \in [FSockets -> FSocketStates]
           /\ Destroyed(tlsInner) \in [FSockets -> FSocketStates]
           /\ \A s \in FSockets : Destroyed(tlsInner)[s] = "destroyed"
  BY DEF TlsClientInv, TlsClientTypeOK, OneFSocket, Destroyed, FSocketStates

(* Before the first Start there is no socket. *)
LEMMA TlsClientInvInit == TlsClientInit => TlsClientInv
<1> SUFFICES ASSUME TlsClientInit PROVE TlsClientInv
  OBVIOUS
<1>1. /\ {tlsIsClosing, socketIsClosing, sslIsClosing, selfClosed, hadSession} \subseteq BOOLEAN
      /\ link \in [FSockets -> BOOLEAN]
  BY DEF TlsClientInit
<1>2. TlsClientTypeOK
  BY <1>1, TlsClientAssumption DEF TlsClientInit, TlsClientTypeOK
<1> QED
  BY <1>2, TlsClientAssumption DEF TlsClientInit, TlsClientInv, OneFSocket, ConnectInv,
     SslWorkerInv, WindowInv, Window, TlsCloseInv, Trying

(* The connect thread makes a connection when no worker runs, and does not *)
(* run while Close goes on behind it. *)
LEMMA ConnectKeepsInv == TlsClientInv /\ ConnectStep => TlsClientInv'
<1> SUFFICES ASSUME TlsClientInv, ConnectStep PROVE TlsClientInv'
  OBVIOUS
<1> USE TlsClientAssumption DEF TlsClientInv, TlsClientTypeOK, OneFSocket, ConnectInv, SslWorkerInv,
        WindowInv, Window, TlsCloseInv, Trying, Proceeds, TryAgain, Destroyed, CreateTlsSocket, Unnamed,
        closingVars, socketVars, sslVars, tlsUserVars
<1>1. CASE BeginTry
  BY <1>1 DEF BeginTry
<1>2. CASE MakeSocket
  <2>1. /\ OneFSocket' /\ tlsInner' \in FSockets \cup {NoSocket}
        /\ fsock' \in [FSockets -> FSocketStates]
    <3>1. tlsInner = NoSocket /\ \A s \in FSockets : fsock[s] = "destroyed"
      BY <1>2 DEF MakeSocket
    <3> HIDE DEF OneFSocket, CreateTlsSocket, Destroyed, TlsClientInv
    <3> QED BY <1>2, <3>1, AllDestroyed, Created DEF MakeSocket
  <2> HIDE DEF CreateTlsSocket, Destroyed
  <2> QED BY <1>2, <2>1 DEF MakeSocket, FSocketStates
<1>15. CASE SocketIsMissing \/ SocketIsGood
  BY <1>15 DEF SocketIsMissing, SocketIsGood
<1>16. CASE SocketIsBroken
  BY <1>16 DEF SocketIsBroken
<1>3. CASE TcpConnects
  BY <1>3 DEF TcpConnects
<1>4. CASE TcpFails
  BY <1>4 DEF TcpFails
<1>5. CASE LookAtClosing
  BY <1>5 DEF LookAtClosing
<1>6. CASE MakeConnection
  BY <1>6 DEF MakeConnection
<1>7. CASE HandshakeSucceeds
  BY <1>7 DEF HandshakeSucceeds
<1>8. CASE HandshakeFails
  BY <1>8 DEF HandshakeFails
<1>9. CASE AdoptConnection
  BY <1>9 DEF AdoptConnection
<1>10. CASE WatchClosing
  BY <1>10 DEF WatchClosing
<1>11. CASE LinkIsUp \/ SocketIsThere \/ WatchGoesOn \/ WindowPasses
  BY <1>11 DEF LinkIsUp, SocketIsThere, WatchGoesOn, WindowPasses, RoundIsGood
<1>12. CASE RejectConnection
  BY <1>12 DEF RejectConnection, RoundIsBad
<1>13. CASE FinishReject
  BY <1>13 DEF FinishReject
<1>14. CASE ReportTlsConnected
  BY <1>14 DEF ReportTlsConnected
<1> QED
  BY <1>1, <1>2, <1>3, <1>4, <1>5, <1>6, <1>7, <1>8, <1>9, <1>10, <1>11, <1>12, <1>13, <1>14,
     <1>15, <1>16
  DEF ConnectStep

(* A worker that drops the socket runs on an adopted connection. *)
LEMMA SslWorkerKeepsInv ==
    ASSUME TlsClientInv, NEW s \in FSockets, SslWorkerStep(s) \/ WorkerSeesLoss(s)
    PROVE  TlsClientInv'
<1> USE TlsClientAssumption DEF TlsClientInv, TlsClientTypeOK, OneFSocket, ConnectInv, SslWorkerInv,
        WindowInv, Window, TlsCloseInv, Trying, SslWorkerGoesTo, Destroyed,
        closingVars, socketVars, sslVars, tlsUserVars
<1>1. CASE WorkerStops(s)
  BY <1>1 DEF WorkerStops
<1>2. CASE WorkerSeesLoss(s)
  BY <1>2 DEF WorkerSeesLoss
<1>3. CASE WorkerSeesClosing(s)
  BY <1>3 DEF WorkerSeesClosing
<1>4. CASE WorkerClaims(s)
  BY <1>4 DEF WorkerClaims
<1>5. CASE WorkerDrops(s)
  BY <1>5 DEF WorkerDrops
<1>6. CASE WorkerReports(s)
  BY <1>6 DEF WorkerReports
<1> QED BY <1>1, <1>2, <1>3, <1>4, <1>5, <1>6 DEF SslWorkerStep

(* Close clears InnerSocket only behind the connect thread. *)
LEMMA TlsClosesKeepsInv == TlsClientInv /\ TlsCloses => TlsClientInv'
<1> SUFFICES ASSUME TlsClientInv, TlsCloses PROVE TlsClientInv'
  OBVIOUS
<1> USE TlsClientAssumption DEF TlsClientInv, TlsClientTypeOK, OneFSocket, ConnectInv, SslWorkerInv,
        WindowInv, Window, TlsCloseInv, Trying, CloseGoesTo, Destroyed,
        closingVars, socketVars, sslVars, tlsUserVars
<1>1. CASE LookForSession
  BY <1>1 DEF LookForSession
<1>2. CASE InterruptConnect
  BY <1>2 DEF InterruptConnect
<1>3. CASE JoinConnectThread
  BY <1>3 DEF JoinConnectThread
<1>4. CASE SetSslClosing
  BY <1>4 DEF SetSslClosing
<1>5. CASE TakeConnection
  BY <1>5 DEF TakeConnection
<1>6. CASE JoinSslWorker
  BY <1>6 DEF JoinSslWorker
<1>7. CASE CloseBase
  BY <1>7 DEF CloseBase
<1> QED BY <1>1, <1>2, <1>3, <1>4, <1>5, <1>6, <1>7 DEF TlsCloses

(* No step of the client's threads, its user or the server breaks it. *)
LEMMA TlsClientInvStep == TlsClientInv /\ [TlsClientNext]_tlsClientVars => TlsClientInv'
<1> SUFFICES ASSUME TlsClientInv, [TlsClientNext]_tlsClientVars PROVE TlsClientInv'
  OBVIOUS
<1> USE TlsClientAssumption DEF TlsClientInv, TlsClientTypeOK, OneFSocket, ConnectInv, SslWorkerInv,
        WindowInv, Window, TlsCloseInv, Trying, Destroyed, closingVars, socketVars, sslVars, tlsUserVars
<1>1. CASE StartTlsClient
  <2>1. /\ OneFSocket' /\ tlsInner' \in FSockets \cup {NoSocket}
        /\ fsock' \in [FSockets -> FSocketStates]
    <3>1. tlsInner = NoSocket /\ \A s \in FSockets : fsock[s] = "destroyed"
      BY <1>1 DEF StartTlsClient
    <3> HIDE DEF OneFSocket, CreateTlsSocket, Destroyed, TlsClientInv
    <3>2. CreateTlsSocket(NoSocket, fsock) \/ CreateTlsSocket(NoSocket, Destroyed(tlsInner))
      BY <1>1, <3>1 DEF StartTlsClient
    <3> QED BY <3>1, <3>2, AllDestroyed, Created
  <2>2. /\ tlsStarts' \in 0 .. MaxTlsStarts
        /\ tlsIsClosing' = FALSE /\ socketIsClosing' = TRUE
        /\ selfClosed' = (~socketIsClosing \/ selfClosed)
        /\ connecting' = IF tlsInner' = NoSocket THEN "exited" ELSE "loop"
        /\ tlsUser' = "open" /\ sslPtr = NoSocket /\ taken = NoSocket
        /\ \A s \in FSockets : sslWorker[s] = "exited"
        /\ UNCHANGED <<sslIsClosing, sslPtr, link, sslWorker, hadSession, taken, tlsHeard, tlsLosses>>
    BY <1>1 DEF StartTlsClient
  <2>3. selfClosed' \in BOOLEAN
    BY <2>2
  <2> QED BY <2>1, <2>2, <2>3 DEF FSocketStates
<1>2. CASE BeginTlsClose
  BY <1>2 DEF BeginTlsClose, CloseGoesTo
<1>3. ASSUME NEW s \in FSockets, ServerLeaves(s) PROVE TlsClientInv'
  BY <1>3 DEF ServerLeaves
<1>4. CASE UNCHANGED tlsClientVars
  BY <1>4 DEF tlsClientVars
<1> QED
  BY <1>1, <1>2, <1>3, <1>4, ConnectKeepsInv, SslWorkerKeepsInv, TlsClosesKeepsInv
  DEF TlsClientNext

(* The state of the client keeps to its domains. *)
THEOREM TlsClientTypeCorrect == TlsClientSpec => []TlsClientTypeOK
<1>1. TlsClientInv => TlsClientTypeOK
  BY DEF TlsClientInv
<1> QED BY <1>1, TlsClientInvInit, TlsClientInvStep, PTL DEF TlsClientSpec

(* The FSocket that a connect or a handshake uses is there as long as it   *)
(* is used, whatever Close and the worker of an earlier connection do; and *)
(* in the stability window, where that does not hold, the one that took it *)
(* away is the worker of the connection, after a loss. *)
THEOREM HandshakeSafety == TlsClientSpec => []SocketOutlivesHandshake
<1>1. TlsClientInv => SocketOutlivesHandshake
  BY TlsClientAssumption
  DEF TlsClientInv, TlsClientTypeOK, OneFSocket, ConnectInv, WindowInv, Window,
      SocketOutlivesHandshake
<1> QED BY <1>1, TlsClientInvInit, TlsClientInvStep, PTL DEF TlsClientSpec

(* When Close has returned neither the connect thread nor a worker runs    *)
(* and every FSocket is destroyed, whichever of the three had to do it. *)
THEOREM TlsClientCloseSafety == TlsClientSpec => []TlsClosedIsQuiet
<1>1. TlsClientInv => TlsClosedIsQuiet
  BY TlsClientAssumption
  DEF TlsClientInv, TlsClientTypeOK, OneFSocket, SslWorkerInv, TlsCloseInv, TlsClosedIsQuiet
<1> QED BY <1>1, TlsClientInvInit, TlsClientInvStep, PTL DEF TlsClientSpec

(* The threads that Close waits for.  That Close returns takes fairness;   *)
(* what does not is that a thread it waits for, at whatever point of an    *)
(* attempt or of a loss, only comes nearer to its end. *)

(* How many steps the connect thread has to do, at the most, once          *)
(* IsClosing is set. *)
ConnectLeft(pc) ==
    CASE pc = "create"                                     -> 7
      [] pc = "state"                                      -> 6
      [] pc \in {"recreate", "judge"}                      -> 5
      [] pc \in {"remade", "inspect", "configure"}         -> 4
      [] pc \in {"connect", "handshake", "ask"}            -> 3
      [] pc \in {"connected", "adopt", "reject"}           -> 2
      [] pc \in {"loop", "watch", "dispatch"}              -> 1
      [] pc = "exited"                                     -> 0

(* And a worker that is waited for. *)
WorkerLeft(pc) ==
    CASE pc = "loop"   -> 5
      [] pc = "notify" -> 4
      [] pc = "claim"  -> 3
      [] pc = "drop"   -> 2
      [] pc = "report" -> 1
      [] pc = "exited" -> 0

ConnectEnds == connecting' # connecting => ConnectLeft(connecting') < ConnectLeft(connecting)

SslWorkerEnds(s) == sslWorker'[s] # sslWorker[s] => WorkerLeft(sslWorker'[s]) < WorkerLeft(sslWorker[s])

TlsClientWaitsBriefly ==
    [][/\ tlsUser = "joinConnect" => ConnectEnds
       /\ taken # NoSocket => SslWorkerEnds(taken)]_tlsClientVars

(* IsClosing is set when Close begins to wait. *)
ClosingInv == tlsUser \in {"look", "interrupt", "joinConnect"} => tlsIsClosing

LEMMA ClosingInvStep == ClosingInv /\ [TlsClientNext]_tlsClientVars => ClosingInv'
<1> SUFFICES ASSUME ClosingInv, [TlsClientNext]_tlsClientVars PROVE ClosingInv'
  OBVIOUS
<1> USE DEF ClosingInv, Proceeds, SslWorkerGoesTo, CloseGoesTo, closingVars, tlsUserVars
<1>1. CASE StartTlsClient
  BY <1>1 DEF StartTlsClient
<1>2. CASE ConnectStep
  BY <1>2 DEF ConnectStep, BeginTry, MakeSocket, SocketIsMissing, SocketIsBroken, SocketIsGood,
     TcpConnects, TcpFails, LookAtClosing, MakeConnection, HandshakeSucceeds, HandshakeFails,
     AdoptConnection, WatchClosing, LinkIsUp, SocketIsThere, WatchGoesOn, WindowPasses,
     RejectConnection, FinishReject, ReportTlsConnected
<1>3. CASE BeginTlsClose
  BY <1>3 DEF BeginTlsClose
<1>4. CASE TlsCloses
  BY <1>4 DEF TlsCloses, LookForSession, InterruptConnect, JoinConnectThread, SetSslClosing,
     TakeConnection, JoinSslWorker, CloseBase
<1>5. ASSUME NEW s \in FSockets, ServerLeaves(s) \/ SslWorkerStep(s) \/ WorkerSeesLoss(s)
      PROVE  ClosingInv'
  BY <1>5 DEF ServerLeaves, SslWorkerStep, WorkerSeesLoss, WorkerStops, WorkerSeesClosing,
     WorkerClaims, WorkerDrops, WorkerReports
<1>6. CASE UNCHANGED tlsClientVars
  BY <1>6 DEF tlsClientVars
<1> QED BY <1>1, <1>2, <1>3, <1>4, <1>5, <1>6 DEF TlsClientNext

(* With IsClosing set no attempt follows the one that is under way, and no *)
(* look at the connection the one that has begun. *)
LEMMA ConnectThreadEnds ==
    ASSUME TlsClientInv, ClosingInv, [TlsClientNext]_tlsClientVars, tlsUser = "joinConnect"
    PROVE  ConnectEnds
<1> USE DEF ConnectEnds, closingVars, tlsUserVars
<1>0. tlsIsClosing
  BY DEF ClosingInv
<1>1. CASE ConnectStep
  <2> USE <1>0 DEF Proceeds, TryAgain
  <2>4. CASE BeginTry \/ MakeSocket \/ SocketIsMissing \/ SocketIsBroken \/ SocketIsGood
    <3>1. \/ connecting = "loop" /\ connecting' = "exited"
          \/ connecting = "create" /\ connecting' = "state"
          \/ connecting = "state" /\ connecting' \in {"loop", "exited", "recreate", "connect"}
          \/ connecting = "recreate" /\ connecting' = "remade"
          \/ connecting = "remade" /\ connecting' \in {"loop", "exited", "connect"}
      BY <2>4 DEF BeginTry, MakeSocket, SocketIsMissing, SocketIsBroken, SocketIsGood
    <3> QED BY <3>1 DEF ConnectLeft
  <2>1. CASE TcpConnects \/ TcpFails \/ LookAtClosing
    <3>1. \/ connecting = "connect" /\ connecting' \in {"connected", "exited"}
          \/ connecting = "connected" /\ connecting' = "exited"
      BY <2>1 DEF TcpConnects, TcpFails, LookAtClosing
    <3> QED BY <3>1 DEF ConnectLeft
  <2>2. CASE MakeConnection \/ HandshakeSucceeds \/ HandshakeFails \/ AdoptConnection
    <3>1. \/ connecting = "configure" /\ connecting' = "handshake"
          \/ connecting = "handshake" /\ connecting' \in {"loop", "exited", "adopt"}
          \/ connecting = "adopt" /\ connecting' = "watch"
      BY <2>2 DEF MakeConnection, HandshakeSucceeds, HandshakeFails, AdoptConnection
    <3> QED BY <3>1 DEF ConnectLeft
  <2>3. CASE \/ WatchClosing \/ LinkIsUp \/ SocketIsThere \/ WatchGoesOn \/ WindowPasses
             \/ RejectConnection \/ FinishReject \/ ReportTlsConnected
    <3>1. \/ connecting = "watch" /\ connecting' = "exited"
          \/ connecting = "judge" /\ connecting' \in {"inspect", "reject"}
          \/ connecting = "inspect" /\ connecting' \in {"ask", "watch", "dispatch"}
          \/ connecting = "ask" /\ connecting' \in {"watch", "dispatch", "reject"}
          \/ connecting = "reject" /\ connecting' \in {"loop", "exited"}
          \/ connecting = "dispatch" /\ connecting' = "exited"
      BY <2>3 DEF WatchClosing, LinkIsUp, SocketIsThere, WatchGoesOn, WindowPasses, RoundIsGood,
                  RejectConnection, RoundIsBad, FinishReject, ReportTlsConnected
    <3> QED BY <3>1 DEF ConnectLeft
  <2> QED BY <1>1, <2>1, <2>2, <2>3, <2>4 DEF ConnectStep
<1>2. CASE StartTlsClient \/ BeginTlsClose
  BY <1>2 DEF StartTlsClient, BeginTlsClose
<1>3. CASE TlsCloses
  BY <1>3 DEF TlsCloses, LookForSession, InterruptConnect, JoinConnectThread, SetSslClosing,
     TakeConnection, JoinSslWorker, CloseBase, CloseGoesTo
<1>4. ASSUME NEW s \in FSockets, ServerLeaves(s) \/ SslWorkerStep(s) \/ WorkerSeesLoss(s)
      PROVE  connecting' = connecting
  BY <1>4 DEF ServerLeaves, SslWorkerStep, WorkerSeesLoss, WorkerStops, WorkerSeesClosing,
     WorkerClaims, WorkerDrops, WorkerReports, SslWorkerGoesTo
<1>5. CASE UNCHANGED tlsClientVars
  BY <1>5 DEF tlsClientVars
<1> QED BY <1>1, <1>2, <1>3, <1>4, <1>5 DEF TlsClientNext

(* The worker of a connection that was taken over is not started again,    *)
(* and of what a worker does after a loss nothing leads back. *)
LEMMA TakenWorkerEnds ==
    ASSUME TlsClientInv, [TlsClientNext]_tlsClientVars, taken # NoSocket
    PROVE  SslWorkerEnds(taken)
<1> USE DEF SslWorkerEnds, sslVars
<1>0. /\ taken \in FSockets
      /\ sslWorker \in [FSockets -> {"loop", "notify", "claim", "drop", "report", "exited"}]
  BY DEF TlsClientInv, TlsClientTypeOK
<1>1. CASE ConnectStep
  <2>1. connecting # "adopt"
    BY DEF TlsClientInv, SslWorkerInv, TlsCloseInv
  <2> QED BY <1>1, <2>1 DEF ConnectStep, BeginTry, MakeSocket, SocketIsMissing, SocketIsBroken,
     SocketIsGood, TcpConnects, TcpFails, LookAtClosing, MakeConnection, HandshakeSucceeds,
     HandshakeFails, AdoptConnection, WatchClosing, LinkIsUp, SocketIsThere, WatchGoesOn,
     WindowPasses, RejectConnection, FinishReject, ReportTlsConnected
<1>2. CASE StartTlsClient \/ BeginTlsClose
  BY <1>2 DEF StartTlsClient, BeginTlsClose
<1>3. CASE TlsCloses
  BY <1>3 DEF TlsCloses, LookForSession, InterruptConnect, JoinConnectThread, SetSslClosing,
     TakeConnection, JoinSslWorker, CloseBase
<1>4. ASSUME NEW s \in FSockets, SslWorkerStep(s) \/ WorkerSeesLoss(s)
      PROVE  SslWorkerEnds(taken)
  <2>1. \/ sslWorker[s] = "loop" /\ \E pc \in {"notify", "exited"} : SslWorkerGoesTo(s, pc)
        \/ sslWorker[s] = "notify" /\ \E pc \in {"claim", "exited"} : SslWorkerGoesTo(s, pc)
        \/ sslWorker[s] = "claim" /\ \E pc \in {"drop", "exited"} : SslWorkerGoesTo(s, pc)
        \/ sslWorker[s] = "drop" /\ SslWorkerGoesTo(s, "report")
        \/ sslWorker[s] = "report" /\ SslWorkerGoesTo(s, "exited")
    BY <1>4 DEF SslWorkerStep, WorkerSeesLoss, WorkerStops, WorkerSeesClosing, WorkerClaims,
                WorkerDrops, WorkerReports
  <2>2. \/ sslWorker[s] = "loop" /\ sslWorker'[s] \in {"notify", "exited"}
        \/ sslWorker[s] = "notify" /\ sslWorker'[s] \in {"claim", "exited"}
        \/ sslWorker[s] = "claim" /\ sslWorker'[s] \in {"drop", "exited"}
        \/ sslWorker[s] = "drop" /\ sslWorker'[s] = "report"
        \/ sslWorker[s] = "report" /\ sslWorker'[s] = "exited"
    BY <1>0, <2>1 DEF SslWorkerGoesTo
  <2>3. s # taken => sslWorker'[taken] = sslWorker[taken]
    BY <1>0, <2>1 DEF SslWorkerGoesTo
  <2>4. WorkerLeft(sslWorker'[s]) < WorkerLeft(sslWorker[s])
    BY <2>2 DEF WorkerLeft
  <2> QED BY <2>3, <2>4
<1>5. ASSUME NEW s \in FSockets, ServerLeaves(s) PROVE sslWorker' = sslWorker
  BY <1>5 DEF ServerLeaves
<1>6. CASE UNCHANGED tlsClientVars
  BY <1>6 DEF tlsClientVars
<1> QED BY <1>1, <1>2, <1>3, <1>4, <1>5, <1>6 DEF TlsClientNext

(* Close never waits for a thread that goes on as before: the connect      *)
(* thread, whether in a connect, in a handshake or in the stability        *)
(* window, makes no further attempt, and the worker that Close, or the     *)
(* connect thread, waits for only runs to its end.  That it ends is not    *)
(* said: a worker may be writing to a server that does not read. *)
THEOREM TlsCloseWaitsBriefly == TlsClientSpec => TlsClientWaitsBriefly
<1> DEFINE All == TlsClientInv /\ ClosingInv
<1>1. TlsClientInit => All
  BY TlsClientInvInit DEF TlsClientInit, ClosingInv
<1>2. All /\ [TlsClientNext]_tlsClientVars => All'
  BY TlsClientInvStep, ClosingInvStep
<1>3. ASSUME All, [TlsClientNext]_tlsClientVars
      PROVE  [/\ tlsUser = "joinConnect" => ConnectEnds
              /\ taken # NoSocket => SslWorkerEnds(taken)]_tlsClientVars
  BY <1>3, ConnectThreadEnds, TakenWorkerEnds
<1> QED BY <1>1, <1>2, <1>3, PTL DEF TlsClientSpec, TlsClientWaitsBriefly

-----------------------------------------------------------------------------
(* The TLS server.  TlsServerClosesAll speaks of the end of Close only.    *)
(* It follows from Held: as long as a client's socket is open or its       *)
(* worker may still use it, the client is in the hands of the listen       *)
(* thread, on the list ConnectedSockets or among the clients Close has     *)
(* taken over; and Close first waits until the listen thread has its hands *)
(* empty, then empties the other two.                                      *)

(* The listen thread serves a client from its accept to its report. *)
ServerTypes ==
    /\ TlsServerTypeOK
    /\ listening \in {"handshake", "connected", "add", "report"} => serving \in TlsPeers

InUse(p) ==
    \/ peerSock[p] \in {"open", "left"}
    \/ peerWorker[p] \in {"loop", "write", "notify", "claim", "drop"}

InHand(p) == listening \in {"handshake", "connected", "add"} /\ serving = p

Held == \A p \in TlsPeers : InUse(p) => InHand(p) \/ p \in tlsList \cup toClose

(* A worker begins when its client has come through the handshake, and has *)
(* destroyed the FSocket before it looks for its client on the list.       *)
WorkerInv ==
    /\ \A p \in TlsPeers :
          /\ peerSock[p] \in {"away", "backlog"} => peerWorker[p] = "none"
          /\ peerWorker[p] \in {"disconnected", "remove", "report"} => peerSock[p] = "destroyed"
    /\ listening \in {"handshake", "connected"} =>
          peerSock[serving] \in {"open", "left"} /\ peerWorker[serving] = "none"

(* What the steps of Close leave behind for the following ones.            *)
PhaseInv ==
    /\ serverCall \in {"take", "closeClients"} => listening \in {"none", "exited"}
    /\ serverCall = "closeClients" => tlsList = {}
    /\ serverCall # "closeClients" => toClose = {}
    /\ listening = "none" =>
          tlsList = {} /\ \A p \in TlsPeers : peerSock[p] # "backlog"

TlsServerInv == ServerTypes /\ Held /\ WorkerInv /\ PhaseInv

(* Before the first Start there are no clients. *)
LEMMA TlsServerInvInit == TlsServerInit => TlsServerInv
<1> SUFFICES ASSUME TlsServerInit PROVE TlsServerInv
  OBVIOUS
<1>1. /\ peerSelfClose \in [TlsPeers -> BOOLEAN] /\ peerSslClosing \in [TlsPeers -> BOOLEAN]
      /\ serverIsClosing \in BOOLEAN /\ inStart \in BOOLEAN
  BY DEF TlsServerInit
<1>2. TlsServerTypeOK
  BY <1>1, TlsServerAssumption DEF TlsServerInit, TlsServerTypeOK
<1> QED
  BY <1>2 DEF TlsServerInit, TlsServerInv, ServerTypes, Held, WorkerInv, PhaseInv, InUse, InHand

(* The listen thread hands a client on before it takes the next. *)
LEMMA ListenKeepsInv == TlsServerInv /\ ListenStep => TlsServerInv'
<1> SUFFICES ASSUME TlsServerInv, ListenStep PROVE TlsServerInv'
  OBVIOUS
<1> USE TlsServerAssumption DEF TlsServerInv, ServerTypes, TlsServerTypeOK, Held, WorkerInv, PhaseInv, InUse, InHand,
            ListensAt, peerVars, listenVars, serverUser
<1>1. CASE ListenTurn
  BY <1>1 DEF ListenTurn
<1>2. CASE NobodyPending
  BY <1>2 DEF NobodyPending
<1>3. CASE PeerAnswers
  BY <1>3 DEF PeerAnswers
<1>4. CASE RefusePeer
  BY <1>4 DEF RefusePeer
<1>5. CASE StartPeerWorker
  BY <1>5 DEF StartPeerWorker
<1>6. CASE AddPeer
  BY <1>6 DEF AddPeer
<1>7. CASE ReportPeer
  BY <1>7 DEF ReportPeer
<1>8. ASSUME NEW p \in TlsPeers, AcceptPeer(p) PROVE TlsServerInv'
  BY <1>8 DEF AcceptPeer
<1> QED BY <1>1, <1>2, <1>3, <1>4, <1>5, <1>6, <1>7, <1>8 DEF ListenStep

(* A worker gives its client up only when it has destroyed the FSocket. *)
LEMMA WorkerKeepsInv ==
    ASSUME TlsServerInv, NEW p \in TlsPeers,
           PeerReads(p) \/ PeerWrites(p) \/ PeerIsLost(p) \/ PeerWorkerStep(p)
    PROVE  TlsServerInv'
<1> USE TlsServerAssumption DEF TlsServerInv, ServerTypes, TlsServerTypeOK, Held, WorkerInv, PhaseInv, InUse, InHand,
            PeerWorkerGoesTo, peerVars, listenVars, serverUser
<1>1. CASE PeerIsLost(p)
  BY <1>1 DEF PeerIsLost
<1>2. CASE PeerWorkerStops(p)
  BY <1>2 DEF PeerWorkerStops
<1>3. CASE PeerClosing(p)
  BY <1>3 DEF PeerClosing
<1>4. CASE PeerClaims(p)
  BY <1>4 DEF PeerClaims
<1>5. CASE PeerDrops(p)
  BY <1>5 DEF PeerDrops
<1>6. CASE LooksAtServer(p)
  BY <1>6 DEF LooksAtServer
<1>7. CASE RemovePeer(p)
  BY <1>7 DEF RemovePeer
<1>8. CASE ReportPeerLost(p)
  BY <1>8 DEF ReportPeerLost
<1>9. CASE PeerWrites(p) \/ PeerReads(p) \/ PeerWriteFails(p)
  BY <1>9 DEF PeerWrites, PeerReads, PeerWriteFails
<1> QED BY <1>1, <1>2, <1>3, <1>4, <1>5, <1>6, <1>7, <1>8, <1>9 DEF PeerWorkerStep

(* Close lets go of a client only when its worker has ended. *)
LEMMA CallKeepsInv == TlsServerInv /\ TlsServerCall => TlsServerInv'
<1> SUFFICES ASSUME TlsServerInv, TlsServerCall PROVE TlsServerInv'
  OBVIOUS
<1> USE TlsServerAssumption DEF TlsServerInv, ServerTypes, TlsServerTypeOK, Held, WorkerInv, PhaseInv, InUse, InHand,
            peerVars, listenVars, serverUser
<1>1. CASE JoinListen
  BY <1>1 DEF JoinListen
<1>2. CASE TakeList
  BY <1>2 DEF TakeList
<1>3. CASE EndTlsServerClose
  BY <1>3 DEF EndTlsServerClose
<1>4. ASSUME NEW p \in TlsPeers, BeginCloseClient(p) PROVE TlsServerInv'
  BY <1>4 DEF BeginCloseClient
<1>5. ASSUME NEW p \in TlsPeers, EndCloseClient(p) PROVE TlsServerInv'
  BY <1>5 DEF EndCloseClient
<1> QED BY <1>1, <1>2, <1>3, <1>4, <1>5 DEF TlsServerCall

(* No step of the server, its workers, its user or its clients breaks it. *)
LEMMA TlsServerInvStep == TlsServerInv /\ [TlsServerNext]_tlsServerVars => TlsServerInv'
<1> SUFFICES ASSUME TlsServerInv, [TlsServerNext]_tlsServerVars PROVE TlsServerInv'
  OBVIOUS
<1> USE TlsServerAssumption DEF TlsServerInv, ServerTypes, TlsServerTypeOK, Held, WorkerInv, PhaseInv, InUse, InHand,
            peerVars, listenVars, serverUser
<1>1. ASSUME NEW starts \in BOOLEAN, BeginTlsServerClose(starts) PROVE TlsServerInv'
  BY <1>1 DEF BeginTlsServerClose
<1>2. ASSUME NEW p \in TlsPeers, PeerConnects(p) \/ PeerGoes(p) PROVE TlsServerInv'
  BY <1>2 DEF PeerConnects, PeerGoes
<1>3. CASE UNCHANGED tlsServerVars
  BY <1>3 DEF tlsServerVars
<1> QED
  BY <1>1, <1>2, <1>3, ListenKeepsInv, WorkerKeepsInv, CallKeepsInv DEF TlsServerNext

(* The state of the server keeps to its domains. *)
THEOREM TlsServerTypeCorrect == TlsServerSpec => []TlsServerTypeOK
<1>1. TlsServerInv => TlsServerTypeOK
  BY DEF TlsServerInv, ServerTypes
<1> QED BY <1>1, TlsServerInvInit, TlsServerInvStep, PTL DEF TlsServerSpec

(* When Close has returned, every connection that was ever accepted is     *)
(* closed and its worker has ended, though listen thread, workers and      *)
(* Close each move clients about under locks of their own. *)
THEOREM TlsCloseSafety == TlsServerSpec => []TlsServerClosesAll
<1>1. TlsServerInv => TlsServerClosesAll
  BY DEF TlsServerInv, ServerTypes, TlsServerTypeOK, Held, WorkerInv, PhaseInv, InUse, InHand, TlsServerClosesAll
<1> QED BY <1>1, TlsServerInvInit, TlsServerInvStep, PTL DEF TlsServerSpec

(* The threads that Close of the server waits for, as for the client.      *)

(* How many steps the listen thread has to do, at the most, once IsClosing *)
(* is set; a handshake is one of them. *)
ListenLeft(pc) ==
    CASE pc = "look"                -> 6
      [] pc = "handshake"           -> 5
      [] pc = "connected"           -> 4
      [] pc = "add"                 -> 3
      [] pc = "report"              -> 2
      [] pc = "loop"                -> 1
      [] pc \in {"none", "exited"}  -> 0

(* And the worker of a client that is being closed. *)
PeerWorkerLeft(pc) ==
    CASE pc = "write"               -> 8
      [] pc = "loop"                -> 7
      [] pc = "notify"              -> 6
      [] pc = "claim"               -> 5
      [] pc = "drop"                -> 4
      [] pc = "disconnected"        -> 3
      [] pc = "remove"              -> 2
      [] pc = "report"              -> 1
      [] pc \in {"none", "exited"}  -> 0

ListenEnds == listening' # listening => ListenLeft(listening') < ListenLeft(listening)

PeerWorkerEnds(p) ==
    peerWorker'[p] # peerWorker[p] => PeerWorkerLeft(peerWorker'[p]) < PeerWorkerLeft(peerWorker[p])

TlsServerWaitsBriefly ==
    [][/\ serverCall = "joinListen" => ListenEnds
       /\ \A p \in toClose : peerSslClosing[p] => PeerWorkerEnds(p)]_tlsServerVars

(* IsClosing is set when Close begins to wait. *)
ServerClosingInv == serverCall # "idle" => serverIsClosing

LEMMA ServerClosingStep ==
    ServerClosingInv /\ [TlsServerNext]_tlsServerVars => ServerClosingInv'
<1> SUFFICES ASSUME ServerClosingInv, [TlsServerNext]_tlsServerVars PROVE ServerClosingInv'
  OBVIOUS
<1> USE DEF ServerClosingInv, serverUser, listenVars
<1>1. CASE ListenStep
  BY <1>1 DEF ListenStep, ListenTurn, NobodyPending, PeerAnswers, RefusePeer, StartPeerWorker,
              AddPeer, ReportPeer, AcceptPeer
<1>2. CASE TlsServerCall
  BY <1>2 DEF TlsServerCall, JoinListen, TakeList, EndTlsServerClose, BeginCloseClient,
              EndCloseClient
<1>3. ASSUME NEW starts \in BOOLEAN, BeginTlsServerClose(starts) PROVE ServerClosingInv'
  BY <1>3 DEF BeginTlsServerClose
<1>4. ASSUME NEW p \in TlsPeers,
             \/ PeerConnects(p) \/ PeerGoes(p) \/ PeerReads(p)
             \/ PeerWrites(p) \/ PeerIsLost(p) \/ PeerWorkerStep(p)
      PROVE  ServerClosingInv'
  BY <1>4 DEF PeerConnects, PeerGoes, PeerReads, PeerWrites, PeerIsLost, PeerWorkerStep,
              PeerWriteFails, PeerWorkerStops, PeerClosing, PeerClaims, PeerDrops,
              LooksAtServer, RemovePeer, ReportPeerLost
<1>5. CASE UNCHANGED tlsServerVars
  BY <1>5 DEF tlsServerVars
<1> QED BY <1>1, <1>2, <1>3, <1>4, <1>5 DEF TlsServerNext

(* With IsClosing set the listen thread accepts at most the client it is   *)
(* looking for. *)
LEMMA ListenThreadEnds ==
    ASSUME ServerClosingInv, [TlsServerNext]_tlsServerVars, serverCall = "joinListen"
    PROVE  ListenEnds
<1> USE DEF ListenEnds, listenVars
<1>0. serverIsClosing
  BY DEF ServerClosingInv
<1>1. CASE ListenStep
  <2>1. \/ listening = "loop" /\ listening' = "exited"
        \/ listening = "look" /\ listening' \in {"loop", "handshake"}
        \/ listening = "handshake" /\ listening' \in {"loop", "connected"}
        \/ listening = "connected" /\ listening' = "add"
        \/ listening = "add" /\ listening' = "report"
        \/ listening = "report" /\ listening' = "loop"
    BY <1>0, <1>1 DEF ListenStep, ListenTurn, NobodyPending, PeerAnswers, RefusePeer,
                      StartPeerWorker, AddPeer, ReportPeer, AcceptPeer, ListensAt
  <2> QED BY <2>1 DEF ListenLeft
<1>2. CASE TlsServerCall
  BY <1>2 DEF TlsServerCall, JoinListen, TakeList, EndTlsServerClose, BeginCloseClient,
              EndCloseClient
<1>3. ASSUME NEW starts \in BOOLEAN, BeginTlsServerClose(starts) PROVE listening' = listening
  BY <1>3 DEF BeginTlsServerClose
<1>4. ASSUME NEW p \in TlsPeers,
             \/ PeerConnects(p) \/ PeerGoes(p) \/ PeerReads(p)
             \/ PeerWrites(p) \/ PeerIsLost(p) \/ PeerWorkerStep(p)
      PROVE  listening' = listening
  BY <1>4 DEF PeerConnects, PeerGoes, PeerReads, PeerWrites, PeerIsLost, PeerWorkerStep,
              PeerWriteFails, PeerWorkerStops, PeerClosing, PeerClaims, PeerDrops,
              LooksAtServer, RemovePeer, ReportPeerLost
<1>5. CASE UNCHANGED tlsServerVars
  BY <1>5 DEF tlsServerVars
<1> QED BY <1>1, <1>2, <1>3, <1>4, <1>5 DEF TlsServerNext

(* No worker is started while Close has clients in its hands, and one that *)
(* is told to stop begins no other write. *)
LEMMA ClosedPeerEnds ==
    ASSUME TlsServerInv, [TlsServerNext]_tlsServerVars, NEW p \in toClose, peerSslClosing[p]
    PROVE  PeerWorkerEnds(p)
<1> USE DEF PeerWorkerEnds, peerVars
<1>0. /\ p \in TlsPeers /\ listening \in {"none", "exited"}
      /\ peerWorker \in [TlsPeers -> {"none", "loop", "write", "notify", "claim", "drop",
                                      "disconnected", "remove", "report", "exited"}]
  BY DEF TlsServerInv, ServerTypes, TlsServerTypeOK, PhaseInv
<1>1. ~ListenStep
  BY <1>0 DEF ListenStep, ListenTurn, NobodyPending, PeerAnswers, RefusePeer, StartPeerWorker,
              AddPeer, ReportPeer, AcceptPeer
<1>2. CASE TlsServerCall
  BY <1>2 DEF TlsServerCall, JoinListen, TakeList, EndTlsServerClose, BeginCloseClient,
              EndCloseClient
<1>3. ASSUME NEW starts \in BOOLEAN, BeginTlsServerClose(starts) PROVE peerWorker' = peerWorker
  BY <1>3 DEF BeginTlsServerClose
<1>4. ASSUME NEW q \in TlsPeers, PeerReads(q) \/ PeerIsLost(q) \/ PeerWorkerStep(q)
      PROVE  PeerWorkerEnds(p)
  <2>1. \/ peerWorker[q] = "write" /\ PeerWorkerGoesTo(q, "loop")
        \/ peerWorker[q] = "loop" /\ \E pc \in {"notify", "exited"} : PeerWorkerGoesTo(q, pc)
        \/ peerWorker[q] = "notify" /\ \E pc \in {"claim", "exited"} : PeerWorkerGoesTo(q, pc)
        \/ peerWorker[q] = "claim" /\ \E pc \in {"drop", "exited"} : PeerWorkerGoesTo(q, pc)
        \/ peerWorker[q] = "drop" /\ PeerWorkerGoesTo(q, "disconnected")
        \/ peerWorker[q] = "disconnected" /\ \E pc \in {"remove", "exited"} : PeerWorkerGoesTo(q, pc)
        \/ peerWorker[q] = "remove" /\ \E pc \in {"report", "exited"} : PeerWorkerGoesTo(q, pc)
        \/ peerWorker[q] = "report" /\ PeerWorkerGoesTo(q, "exited")
    BY <1>4 DEF PeerReads, PeerIsLost, PeerWorkerStep, PeerWriteFails, PeerWorkerStops,
                PeerClosing, PeerClaims, PeerDrops, LooksAtServer, RemovePeer, ReportPeerLost
  <2>2. \/ peerWorker[q] = "write" /\ peerWorker'[q] = "loop"
        \/ peerWorker[q] = "loop" /\ peerWorker'[q] \in {"notify", "exited"}
        \/ peerWorker[q] = "notify" /\ peerWorker'[q] \in {"claim", "exited"}
        \/ peerWorker[q] = "claim" /\ peerWorker'[q] \in {"drop", "exited"}
        \/ peerWorker[q] = "drop" /\ peerWorker'[q] = "disconnected"
        \/ peerWorker[q] = "disconnected" /\ peerWorker'[q] \in {"remove", "exited"}
        \/ peerWorker[q] = "remove" /\ peerWorker'[q] \in {"report", "exited"}
        \/ peerWorker[q] = "report" /\ peerWorker'[q] = "exited"
    BY <1>0, <2>1 DEF PeerWorkerGoesTo
  <2>3. q # p => peerWorker'[p] = peerWorker[p]
    BY <1>0, <2>1 DEF PeerWorkerGoesTo
  <2>4. PeerWorkerLeft(peerWorker'[q]) < PeerWorkerLeft(peerWorker[q])
    BY <2>2 DEF PeerWorkerLeft
  <2> QED BY <2>3, <2>4
<1>5. ASSUME NEW q \in TlsPeers, PeerConnects(q) \/ PeerGoes(q) PROVE peerWorker' = peerWorker
  BY <1>5 DEF PeerConnects, PeerGoes
<1>6. CASE UNCHANGED tlsServerVars
  BY <1>6 DEF tlsServerVars
<1>7. ASSUME NEW q \in TlsPeers, PeerWrites(q) PROVE peerWorker'[p] = peerWorker[p]
  BY <1>0, <1>7 DEF PeerWrites, PeerWorkerGoesTo
<1> QED BY <1>1, <1>2, <1>3, <1>4, <1>5, <1>6, <1>7 DEF TlsServerNext

(* Close of the server waits for threads on their way out: a listen thread *)
(* that goes to the end of the accept, handshake included, in which Close  *)
(* met it, and workers that end the write they are in and their loop, and  *)
(* run through what a loss takes and no further.  How long that write      *)
(* takes is the client's affair: one that does not read keeps it, and      *)
(* Close, waiting. *)
THEOREM TlsServerCloseWaitsBriefly == TlsServerSpec => TlsServerWaitsBriefly
<1> DEFINE All == TlsServerInv /\ ServerClosingInv
<1>1. TlsServerInit => All
  BY TlsServerInvInit DEF TlsServerInit, ServerClosingInv
<1>2. All /\ [TlsServerNext]_tlsServerVars => All'
  BY TlsServerInvStep, ServerClosingStep
<1>3. ASSUME All, [TlsServerNext]_tlsServerVars
      PROVE  [/\ serverCall = "joinListen" => ListenEnds
              /\ \A p \in toClose : peerSslClosing[p] => PeerWorkerEnds(p)]_tlsServerVars
  BY <1>3, ListenThreadEnds, ClosedPeerEnds
<1> QED BY <1>1, <1>2, <1>3, PTL DEF TlsServerSpec, TlsServerWaitsBriefly
=============================================================================
