-------------------------- MODULE TcpIpClientProofs --------------------------
(***************************************************************************)
(* Proofs about TcpIpClient, for any number of sockets, connect threads,   *)
(* sessions and losses: that its state keeps to its domains, and, without  *)
(* AutoConnectAfterDisconnect, that no thread uses a socket that another   *)
(* has closed, that Close leaves nothing behind and that the threads which *)
(* Start and Close wait for are on their way out.                          *)
(*                                                                         *)
(* ClientInv says who may be at work at each step of Start and Close, and  *)
(* whose InnerSocket is: the connect thread's while the client counts as   *)
(* closing, the polling thread's from OnConnected until it closes it, and  *)
(* that of the one who called CloseSocket once the polling thread is over. *)
(***************************************************************************)
EXTENDS TcpIpClient, TLAPS

-----------------------------------------------------------------------------
(* Only the game thread calls Start and Close, one after the other.        *)

StartPcs == {"start", "startCloses", "startJoins", "startEnds", "create", "spawn"}
ClosePcs == {"close", "joinConnect", "closeCloses", "closeJoins", "closeEnds"}
Joins    == {"startJoins", "closeJoins"}
Ends     == {"startEnds", "closeEnds"}

CallInv ==
    /\ \A s \in Sockets : call[s] = "idle" /\ joining[s] = None /\ poll[s] # "restarts"
    /\ joining[Game] # None => call[Game] \in Joins
    /\ call[Game] \in StartPcs => hasProtocol
    /\ call[Game] \in ClosePcs \/ isDestorying => ~hasProtocol
    /\ call[Game] \in Joins \cup Ends \cup {"create", "spawn"} => bIsClosing

(* A connect thread is at work only if it is the one that is pointed at,   *)
(* between Spawn and the wait in Close; until it has a connection, the     *)
(* client counts as closing, and has the socket it made.                   *)
ConnInv ==
    \A k \in Connectors :
        /\ conn[k] \notin {"none", "exited"} =>
              /\ k = connectThread
              /\ call[Game] \in {"close", "joinConnect"} \/ (call[Game] = "idle" /\ hasProtocol)
        /\ conn[k] \in {"loop", "state", "connect", "connected", "adopt"} => bIsClosing
        /\ conn[k] \in {"state", "connect", "connected", "adopt"} => innerSocket # None
        /\ conn[k] \in {"connected", "adopt"} => sock[innerSocket] \in {"connected", "gone"}

(* A polling thread is at work only if it is pointed at or waited for.     *)
(* InnerSocket is its socket until it closes it; if it has not, because it *)
(* was told to stop, Start or Close will.                                  *)
PollInv ==
    \A s \in Sockets :
        /\ poll[s] \notin {"none", "exited"} => s \in {currentThread, joining[Game]}
        /\ poll[s] \in {"loop", "wait", "lost"} =>
              innerSocket = s /\ sock[s] \in {"connected", "gone", "shutdown"}
        /\ poll[s] \in {"dropped", "reported"} => sock[s] = "closed"
        /\ poll[s] = "exited" =>
              sock[s] = "closed" \/ (s = innerSocket /\ call[Game] \in Joins \cup Ends)

ThreadInv ==
    /\ bIsClosing \/ (call[Game] = "idle" /\ ~hasProtocol) => currentThread = None
    /\ currentThread # None /\ innerSocket # None =>
          innerSocket = currentThread /\ poll[currentThread] \in {"loop", "wait", "lost"}

ClientInv == CallInv /\ ConnInv /\ PollInv /\ ThreadInv

IInv == ~autoConnect /\ ClientTypeOK /\ ClientInv

(* Before the first Start there are no threads. *)
LEMMA IInvInit == Init /\ ~autoConnect => IInv
<1> SUFFICES ASSUME Init, ~autoConnect PROVE IInv
  OBVIOUS
<1>1. autoConnect \in BOOLEAN /\ isClosing \in BOOLEAN /\ bIsClosing \in BOOLEAN
  BY DEF Init
<1>2. ClientTypeOK
  BY <1>1, ClientAssumption DEF Init, ClientTypeOK, Callers
<1>3. ClientInv
  BY ClientAssumption, ManagerAssumption
  DEF Init, MInit, ClientInv, CallInv, ConnInv, PollInv, ThreadInv, Callers, StartPcs, ClosePcs,
      Joins, Ends
<1> QED BY <1>2, <1>3 DEF IInv

(* CreateSocket leaves InnerSocket as it was or makes it a new socket, the *)
(* polling thread of which does not run. *)
LEMMA Created ==
    ASSUME NEW closed, CreateSocket(closed)
    PROVE  \/ \E s \in Sockets :
                 /\ Unused(s) /\ innerSocket' = s
                 /\ sock' = [x \in Sockets |-> IF x = s THEN "fresh"
                                               ELSE IF x \in closed THEN "closed" ELSE sock[x]]
                 /\ poll' = [poll EXCEPT ![s] = "none"]
           \/ /\ innerSocket' = innerSocket /\ poll' = poll
              /\ sock' = [x \in Sockets |-> IF x \in closed THEN "closed" ELSE sock[x]]
<1> DEFINE s == CHOOSE x \in Sockets : Unused(x)
<1> HIDE DEF s
<1>1. ASSUME \E x \in Sockets : Unused(x), innerSocket' = s
      PROVE  s \in Sockets /\ Unused(s)
  BY <1>1 DEF s
<1> QED BY <1>1 DEF CreateSocket, s

(* The steps of Start and Close. *)
LEMMA CallKeepsInv ==
    ASSUME IInv, NEW t \in Callers, CallStep(t)
    PROVE  IInv'
<1> USE ClientAssumption, ManagerAssumption
    DEF IInv, ClientInv, ClientTypeOK, CallInv, ConnInv, PollInv, ThreadInv, Callers, StartPcs,
        ClosePcs, Joins, Ends, GoesTo, AfterClose, mvars, flags, ptrs, calls
<1>0. t = Game /\ Game \notin Sockets
  BY DEF CallStep, BeginStart, AlreadyClosing, TakeThread, JoinPoll, CloseInner, StartCreates, Spawn
<1>1. CASE BeginStart(t)
  BY <1>0, <1>1 DEF BeginStart
<1>2. CASE AlreadyClosing(t)
  BY <1>0, <1>2 DEF AlreadyClosing
<1>3. CASE TakeThread(t)
  BY <1>0, <1>3 DEF TakeThread
<1>4. CASE JoinPoll(t)
  BY <1>0, <1>4 DEF JoinPoll
<1>5. CASE CloseInner(t)
  BY <1>0, <1>5 DEF CloseInner
<1>6. CASE StartCreates(t)
  <2>1. CreateSocket({}) /\ bIsClosing /\ currentThread = None
    BY <1>0, <1>6 DEF StartCreates
  <2>2. CASE innerSocket' = innerSocket /\ poll' = poll /\ sock' = sock
    BY <1>0, <1>6, <2>1, <2>2 DEF StartCreates
  <2>3. ASSUME NEW s \in Sockets, Unused(s), innerSocket' = s,
               sock' = [x \in Sockets |-> IF x = s THEN "fresh" ELSE sock[x]],
               poll' = [poll EXCEPT ![s] = "none"]
        PROVE  IInv'
    BY <1>0, <1>6, <2>1, <2>3 DEF StartCreates, Unused
  <2>4. [x \in Sockets |-> IF x \in {} THEN "closed" ELSE sock[x]] = sock
    OBVIOUS
  <2> QED BY <2>1, <2>2, <2>3, <2>4, Created
<1>7. CASE Spawn(t)
  <2>1. CASE innerSocket = None
    BY <1>0, <1>7, <2>1 DEF Spawn
  <2>2. CASE innerSocket # None
    <3>1. connectThread' \in Connectors
      BY <1>7, <2>2 DEF Spawn
    <3>2. conn' = [conn EXCEPT ![connectThread'] = "loop"]
      BY <1>7, <2>2 DEF Spawn
    <3>3. PICK k \in Connectors : k = connectThread'
      BY <3>1
    <3>4. conn' = [conn EXCEPT ![k] = "loop"] /\ connectThread' = k
      BY <3>2, <3>3
    <3> QED BY <1>0, <1>7, <3>4 DEF Spawn
  <2> QED BY <2>1, <2>2
<1>8. CASE BeginClose
  BY <1>0, <1>8 DEF BeginClose
<1>9. CASE JoinConnect
  BY <1>0, <1>9 DEF JoinConnect
<1> QED BY <1>1, <1>2, <1>3, <1>4, <1>5, <1>6, <1>7, <1>8, <1>9 DEF CallStep

(* The steps of the connect thread. *)
LEMMA ConnectKeepsInv ==
    ASSUME IInv, NEW k \in Connectors, Connect(k)
    PROVE  IInv'
<1> USE ClientAssumption, ManagerAssumption
    DEF IInv, ClientInv, ClientTypeOK, CallInv, ConnInv, PollInv, ThreadInv, Callers, StartPcs,
        ClosePcs, Joins, Ends, ConnGoesTo, mvars, flags, ptrs, calls
<1>1. CASE TryConnect(k)
  BY <1>1 DEF TryConnect
<1>2. CASE KeepSocket(k)
  BY <1>2 DEF KeepSocket
<1>3. CASE RecreateSocket(k)
  <2>1. /\ CreateSocket({innerSocket}) /\ bIsClosing /\ currentThread = None
        /\ joining[Game] = None /\ innerSocket \in Sockets
        /\ \A s \in Sockets : poll[s] \in {"none", "exited"}
        /\ call[Game] \in {"close", "joinConnect", "idle"}
    BY <1>3 DEF RecreateSocket
  <2>2. CASE /\ innerSocket' = innerSocket /\ poll' = poll
             /\ sock' = [x \in Sockets |-> IF x \in {innerSocket} THEN "closed" ELSE sock[x]]
    BY <1>3, <2>1, <2>2 DEF RecreateSocket
  <2>3. ASSUME NEW s \in Sockets, Unused(s), innerSocket' = s,
               sock' = [x \in Sockets |-> IF x = s THEN "fresh"
                                          ELSE IF x \in {innerSocket} THEN "closed" ELSE sock[x]],
               poll' = [poll EXCEPT ![s] = "none"]
        PROVE  IInv'
    BY <1>3, <2>1, <2>3 DEF RecreateSocket, Unused
  <2> QED BY <2>1, <2>2, <2>3, Created
<1>4. CASE ConnectSucceeds(k)
  BY <1>4 DEF ConnectSucceeds
<1>5. CASE ConnectFails(k)
  BY <1>5 DEF ConnectFails
<1>6. CASE CheckClosing(k)
  BY <1>6 DEF CheckClosing
<1>7. CASE OnConnected(k)
  <2>1. /\ innerSocket \in Sockets /\ sock[innerSocket] \in {"connected", "gone"}
        /\ connectThread = k /\ joining[Game] = None /\ currentThread = None
        /\ \A s \in Sockets : poll[s] \in {"none", "exited"}
        /\ call[Game] \in {"close", "joinConnect"} \/ (call[Game] = "idle" /\ hasProtocol)
    BY <1>7 DEF OnConnected
  <2>2. /\ conn' = [conn EXCEPT ![k] = "report"] /\ bIsClosing' = FALSE
        /\ poll' = [poll EXCEPT ![innerSocket] = "loop"] /\ currentThread' = innerSocket
        /\ UNCHANGED <<mvars, autoConnect, isClosing, innerSocket, connectThread, sock, calls,
                       quota>>
    BY <1>7 DEF OnConnected
  <2>3. ClientTypeOK'
    BY <2>1, <2>2
  <2>4. CallInv' /\ ConnInv'
    BY <2>1, <2>2
  <2>5. PollInv' /\ ThreadInv'
    BY <2>1, <2>2
  <2> QED BY <2>2, <2>3, <2>4, <2>5
<1>8. CASE ReportConnected(k)
  BY <1>8 DEF ReportConnected, Dispatch
<1>9. CASE UsesNull(k)
  BY <1>9 DEF UsesNull
<1> QED BY <1>1, <1>2, <1>3, <1>4, <1>5, <1>6, <1>7, <1>8, <1>9 DEF Connect

(* The steps of a polling thread. *)
LEMMA PollKeepsInv ==
    ASSUME IInv, NEW s \in Sockets, Poll(s)
    PROVE  IInv'
<1> USE ClientAssumption, ManagerAssumption
    DEF IInv, ClientInv, ClientTypeOK, CallInv, ConnInv, PollInv, ThreadInv, Callers, StartPcs,
        ClosePcs, Joins, Ends, PollGoesTo, mvars, flags, ptrs, calls
<1>1. CASE PollTurn(s)
  BY <1>1 DEF PollTurn
<1>2. CASE PollNothing(s)
  BY <1>2 DEF PollNothing
<1>3. CASE PollData(s)
  BY <1>3 DEF PollData, Dispatch
<1>4. CASE PollFails(s)
  BY <1>4 DEF PollFails
<1>5. CASE PollCloses(s)
  BY <1>5 DEF PollCloses
<1>6. CASE ReportDisconnected(s)
  BY <1>6 DEF ReportDisconnected, Dispatch
<1>7. CASE DispatchDisconnected(s)
  BY <1>7 DEF DispatchDisconnected
<1>8. CASE PollEnds(s)
  BY <1>8 DEF PollEnds
<1> QED BY <1>1, <1>2, <1>3, <1>4, <1>5, <1>6, <1>7, <1>8 DEF Poll

(* Every step of a client that does not reconnect keeps the invariant. *)
LEMMA IInvStep == IInv /\ [Next]_vars => IInv'
<1> SUFFICES ASSUME IInv, [Next]_vars PROVE IInv'
  OBVIOUS
<1> USE ClientAssumption, ManagerAssumption
    DEF IInv, ClientInv, ClientTypeOK, CallInv, ConnInv, PollInv, ThreadInv, Callers, StartPcs,
        ClosePcs, Joins, Ends, mvars, flags, ptrs, calls
<1>1. ASSUME NEW s \in Sockets, PeerLeaves(s) PROVE IInv'
  BY <1>1 DEF PeerLeaves
<1>2. CASE UserStarts
  BY <1>2 DEF UserStarts, StartManager, GoesTo
<1>3. CASE UserCloses
  BY <1>3 DEF UserCloses, CloseManager, GoesTo
<1>4. ASSUME NEW e \in Executors, RunTasks(e) PROVE IInv'
  <2>1. UNCHANGED <<isDestorying, hasProtocol>>
    BY <1>4 DEF RunTasks, Execute, DropTask, ApplyTask, Broadcast
  <2> QED BY <1>4, <2>1 DEF RunTasks
<1>5. CASE UNCHANGED vars
  BY <1>5 DEF vars
<1> QED
  BY <1>1, <1>2, <1>3, <1>4, <1>5, CallKeepsInv, ConnectKeepsInv, PollKeepsInv DEF Next

(* AutoConnectAfterDisconnect is set before the first Start. *)
LEMMA AutoConnectStays == [Next]_vars => autoConnect' = autoConnect
<1> SUFFICES ASSUME [Next]_vars PROVE autoConnect' = autoConnect
  OBVIOUS
<1>1. ASSUME NEW t \in Callers, CallStep(t) PROVE autoConnect' = autoConnect
  BY <1>1 DEF CallStep, BeginStart, AlreadyClosing, TakeThread, JoinPoll, CloseInner, StartCreates,
              Spawn, BeginClose, JoinConnect
<1>2. ASSUME NEW k \in Connectors, Connect(k) PROVE autoConnect' = autoConnect
  BY <1>2 DEF Connect, TryConnect, KeepSocket, RecreateSocket, ConnectSucceeds, ConnectFails,
              CheckClosing, OnConnected, ReportConnected, UsesNull
<1>3. ASSUME NEW s \in Sockets, Poll(s) \/ PeerLeaves(s) PROVE autoConnect' = autoConnect
  BY <1>3 DEF Poll, PollTurn, PollNothing, PollData, PollFails, PollCloses, ReportDisconnected,
              DispatchDisconnected, PollEnds, PeerLeaves
<1> QED
  BY <1>1, <1>2, <1>3 DEF Next, UserStarts, UserCloses, RunTasks, vars

(* The domains of the client's state, with AutoConnectAfterDisconnect as   *)
(* well: an induction by itself, since with it threads may meet that       *)
(* ClientInv keeps apart. *)
LEMMA ClientTypeStep == ClientTypeOK /\ [Next]_vars => ClientTypeOK'
<1> SUFFICES ASSUME ClientTypeOK, [Next]_vars PROVE ClientTypeOK'
  OBVIOUS
<1> USE ClientAssumption DEF ClientTypeOK, Callers, GoesTo, AfterClose, flags, ptrs, calls
<1>1. ASSUME NEW t \in Callers, CallStep(t) PROVE ClientTypeOK'
  <2>1. CASE BeginStart(t)
    BY <2>1 DEF BeginStart
  <2>2. CASE AlreadyClosing(t)
    BY <2>2 DEF AlreadyClosing
  <2>3. CASE TakeThread(t)
    <3>1. joining' \in [Callers -> Sockets \cup {None}]
      BY <2>3 DEF TakeThread
    <3> QED BY <2>3, <3>1 DEF TakeThread
  <2>4. CASE JoinPoll(t)
    BY <2>4 DEF JoinPoll
  <2>5. CASE CloseInner(t)
    BY <2>5 DEF CloseInner
  <2>6. CASE StartCreates(t)
    <3>1. CreateSocket({})
      BY <2>6 DEF StartCreates
    <3>2. [x \in Sockets |-> IF x \in {} THEN "closed" ELSE sock[x]] = sock
      OBVIOUS
    <3>3. CASE UNCHANGED <<innerSocket, poll, sock>>
      BY <2>6, <3>3 DEF StartCreates
    <3>4. ASSUME NEW s \in Sockets, Unused(s), innerSocket' = s,
                 sock' = [x \in Sockets |-> IF x = s THEN "fresh" ELSE sock[x]],
                 poll' = [poll EXCEPT ![s] = "none"]
          PROVE  ClientTypeOK'
      BY <2>6, <3>4 DEF StartCreates, Unused
    <3> QED BY <3>1, <3>2, <3>3, <3>4, Created
  <2>7. CASE Spawn(t)
    <3>1. CASE innerSocket = None
      BY <2>7, <3>1 DEF Spawn
    <3>2. CASE innerSocket # None
      <4>1. PICK k \in Connectors : connectThread' = k /\ conn' = [conn EXCEPT ![k] = "loop"]
        BY <2>7, <3>2 DEF Spawn
      <4> QED BY <2>7, <4>1 DEF Spawn
    <3> QED BY <3>1, <3>2
  <2>8. CASE BeginClose \/ JoinConnect
    BY <2>8, ManagerAssumption DEF BeginClose, JoinConnect
  <2> QED BY <1>1, <2>1, <2>2, <2>3, <2>4, <2>5, <2>6, <2>7, <2>8 DEF CallStep
<1>2. ASSUME NEW k \in Connectors, Connect(k) PROVE ClientTypeOK'
  <2> USE DEF ConnGoesTo
  <2>1. CASE TryConnect(k) \/ KeepSocket(k) \/ ConnectFails(k) \/ CheckClosing(k) \/ UsesNull(k)
    BY <2>1 DEF TryConnect, KeepSocket, ConnectFails, CheckClosing, UsesNull
  <2>2. CASE ConnectSucceeds(k) \/ OnConnected(k)
    BY <2>2 DEF ConnectSucceeds, OnConnected
  <2>3. CASE ReportConnected(k)
    BY <2>3 DEF ReportConnected
  <2>4. CASE RecreateSocket(k)
    <3>1. CreateSocket({innerSocket})
      BY <2>4 DEF RecreateSocket
    <3>2. CASE /\ innerSocket' = innerSocket /\ poll' = poll
               /\ sock' = [x \in Sockets |-> IF x \in {innerSocket} THEN "closed" ELSE sock[x]]
      BY <2>4, <3>2 DEF RecreateSocket
    <3>3. ASSUME NEW s \in Sockets, Unused(s), innerSocket' = s,
                 sock' = [x \in Sockets |-> IF x = s THEN "fresh"
                                            ELSE IF x \in {innerSocket} THEN "closed" ELSE sock[x]],
                 poll' = [poll EXCEPT ![s] = "none"]
          PROVE  ClientTypeOK'
      BY <2>4, <3>3 DEF RecreateSocket, Unused
    <3> QED BY <3>1, <3>2, <3>3, Created
  <2> QED BY <1>2, <2>1, <2>2, <2>3, <2>4 DEF Connect
<1>3. ASSUME NEW s \in Sockets, Poll(s) \/ PeerLeaves(s) PROVE ClientTypeOK'
  <2> USE DEF PollGoesTo
  <2>1. CASE PollTurn(s) \/ PollNothing(s) \/ PollFails(s) \/ PollCloses(s) \/ PeerLeaves(s)
    BY <2>1 DEF PollTurn, PollNothing, PollFails, PollCloses, PeerLeaves
  <2>2. CASE PollData(s) \/ ReportDisconnected(s)
    BY <2>2 DEF PollData, ReportDisconnected
  <2>3. CASE DispatchDisconnected(s) \/ PollEnds(s)
    BY <2>3 DEF DispatchDisconnected, PollEnds
  <2> QED BY <1>3, <2>1, <2>2, <2>3 DEF Poll
<1>4. CASE UserStarts \/ UserCloses
  BY <1>4, ManagerAssumption DEF UserStarts, UserCloses
<1>5. ASSUME NEW e \in Executors, RunTasks(e) PROVE ClientTypeOK'
  BY <1>5 DEF RunTasks
<1>6. CASE UNCHANGED vars
  BY <1>6 DEF vars
<1> QED BY <1>1, <1>2, <1>3, <1>4, <1>5, <1>6 DEF Next

(* The client keeps its state in its domains, and points only at threads   *)
(* that were started, whether it reconnects by itself or not. *)
THEOREM ClientTypeCorrect == Spec => []ClientTypeOK
<1>1. Init => ClientTypeOK
  <2> SUFFICES ASSUME Init PROVE ClientTypeOK
    OBVIOUS
  <2>1. autoConnect \in BOOLEAN /\ isClosing \in BOOLEAN /\ bIsClosing \in BOOLEAN
    BY DEF Init
  <2> QED BY <2>1, ClientAssumption DEF Init, ClientTypeOK, Callers
<1> QED BY <1>1, ClientTypeStep, PTL DEF Spec

(* The connect thread and the polling thread never use an FSocket that the *)
(* other, Start or Close has closed, though each reads InnerSocket without *)
(* the lock. *)
THEOREM ClientSocketSafety == Spec => []SocketOutlivesUse
<1>1. Init => autoConnect \/ IInv
  BY IInvInit
<1>2. (autoConnect \/ IInv) /\ [Next]_vars => (autoConnect \/ IInv)'
  BY IInvStep, AutoConnectStays
<1>3. autoConnect \/ IInv => SocketOutlivesUse
  BY DEF IInv, ClientInv, ConnInv, PollInv, SocketOutlivesUse
<1> QED BY <1>1, <1>2, <1>3, PTL DEF Spec

(* When Close has returned both threads have ended and every connection    *)
(* that was handed over is closed, whether Close came before the connect,  *)
(* during it, or after a loss. *)
THEOREM ClientCloseSafety == Spec => []ClosedIsQuiet
<1>1. Init => autoConnect \/ IInv
  BY IInvInit
<1>2. (autoConnect \/ IInv) /\ [Next]_vars => (autoConnect \/ IInv)'
  BY IInvStep, AutoConnectStays
<1>3. autoConnect \/ IInv => ClosedIsQuiet
  BY ClientAssumption, ManagerAssumption
  DEF IInv, ClientInv, ClientTypeOK, CallInv, ConnInv, PollInv, ThreadInv, ClosedIsQuiet, Joins,
      Ends, ClosePcs, Callers
<1> QED BY <1>1, <1>2, <1>3, PTL DEF Spec

-----------------------------------------------------------------------------
(* What Close waits for, as in TcpIpServerProofs: the thread it waits for  *)
(* is on its way out.  Start waits for a polling thread in the same way.   *)

(* How many steps the connect thread has to do, at the most, once          *)
(* IsClosing is set. *)
ConnectLeft(pc) ==
    CASE pc = "state"                           -> 3
      [] pc \in {"connect", "adopt"}            -> 2
      [] pc \in {"loop", "connected", "report"} -> 1
      [] pc \in {"none", "exited"}              -> 0

(* And the polling thread, once bIsClosing is set. *)
PollLeft(pc) ==
    CASE pc = "lost"                             -> 3
      [] pc \in {"wait", "dropped"}              -> 2
      [] pc \in {"loop", "reported"}             -> 1
      [] pc \in {"none", "exited", "restarts"}   -> 0

ConnectEnds(k) == conn'[k] # conn[k] => ConnectLeft(conn'[k]) < ConnectLeft(conn[k])

PollEndsSoon(s) == poll'[s] # poll[s] => PollLeft(poll'[s]) < PollLeft(poll[s])

WaitsBriefly ==
    [][~autoConnect =>
         /\ call[Game] = "joinConnect" => \A k \in Connectors : ConnectEnds(k)
         /\ joining[Game] # None => PollEndsSoon(joining[Game])]_vars

(* While Close waits for the connect thread, IsClosing is set. *)
JoinInv == call[Game] = "joinConnect" => isClosing

LEMMA JoinInvStep == IInv /\ JoinInv /\ [Next]_vars => JoinInv'
<1> SUFFICES ASSUME IInv, JoinInv, [Next]_vars PROVE JoinInv'
  OBVIOUS
<1> USE ClientAssumption DEF JoinInv, IInv, ClientTypeOK, ClientInv, CallInv, Callers, flags, calls
<1>1. ASSUME NEW t \in Callers, CallStep(t) PROVE JoinInv'
  <2>1. t = Game
    BY <1>1 DEF CallStep, BeginStart, AlreadyClosing, TakeThread, JoinPoll, CloseInner,
                StartCreates, Spawn
  <2> QED BY <1>1, <2>1 DEF CallStep, BeginStart, AlreadyClosing, TakeThread, JoinPoll, CloseInner,
                StartCreates, Spawn, BeginClose, JoinConnect, GoesTo, AfterClose
<1>2. ASSUME NEW k \in Connectors, Connect(k) PROVE JoinInv'
  BY <1>2 DEF Connect, TryConnect, KeepSocket, RecreateSocket, ConnectSucceeds, ConnectFails,
              CheckClosing, OnConnected, ReportConnected, UsesNull
<1>3. ASSUME NEW s \in Sockets, Poll(s) \/ PeerLeaves(s) PROVE JoinInv'
  BY <1>3 DEF Poll, PollTurn, PollNothing, PollData, PollFails, PollCloses, ReportDisconnected,
              DispatchDisconnected, PollEnds, PeerLeaves
<1>4. CASE UserStarts \/ UserCloses
  BY <1>4 DEF UserStarts, UserCloses, GoesTo
<1>5. ASSUME NEW e \in Executors, RunTasks(e) PROVE JoinInv'
  BY <1>5 DEF RunTasks
<1>6. CASE UNCHANGED vars
  BY <1>6 DEF vars
<1> QED BY <1>1, <1>2, <1>3, <1>4, <1>5, <1>6 DEF Next

(* Each step of the connect thread brings it nearer to its end; no other   *)
(* step moves it. *)
LEMMA ConnectThreadEnds ==
    ASSUME IInv, JoinInv, [Next]_vars, call[Game] = "joinConnect", NEW k \in Connectors
    PROVE  ConnectEnds(k)
<1> USE ClientAssumption DEF IInv, ClientTypeOK, ConnectEnds, ConnGoesTo, flags, calls, ptrs
<1>0. isClosing
  BY DEF JoinInv
<1>1. ASSUME NEW t \in Callers, CallStep(t) PROVE conn' = conn
  <2>1. ~Spawn(t)
    BY DEF Spawn, ClientInv, CallInv, Callers
  <2> QED BY <1>1, <2>1 DEF CallStep, BeginStart, AlreadyClosing, TakeThread, JoinPoll, CloseInner,
                StartCreates, BeginClose, JoinConnect
<1>2. ASSUME NEW x \in Connectors, Connect(x) PROVE ConnectEnds(k)
  <2>1. \/ conn[x] = "loop" /\ conn' = [conn EXCEPT ![x] = "exited"]
        \/ conn[x] = "state" /\ conn' = [conn EXCEPT ![x] = "connect"]
        \/ conn[x] = "connect" /\ \E pc \in {"connected", "loop"} : conn' = [conn EXCEPT ![x] = pc]
        \/ conn[x] = "adopt" /\ conn' = [conn EXCEPT ![x] = "report"]
        \/ conn[x] \notin {"none", "exited"} /\ conn' = [conn EXCEPT ![x] = "exited"]
    BY <1>0, <1>2 DEF Connect, TryConnect, KeepSocket, RecreateSocket, ConnectSucceeds,
              ConnectFails, CheckClosing, OnConnected, ReportConnected, UsesNull
  <2>2. x # k => conn'[k] = conn[k]
    BY <2>1
  <2>3. \/ conn[x] = "loop" /\ conn'[x] = "exited"
        \/ conn[x] = "state" /\ conn'[x] = "connect"
        \/ conn[x] = "connect" /\ conn'[x] \in {"connected", "loop"}
        \/ conn[x] = "adopt" /\ conn'[x] = "report"
        \/ conn[x] \notin {"none", "exited"} /\ conn'[x] = "exited"
    BY <2>1
  <2>4. conn[x] \in {"none", "loop", "state", "connect", "connected", "adopt", "report", "exited"}
    OBVIOUS
  <2>5. ConnectLeft(conn'[x]) < ConnectLeft(conn[x])
    BY <2>3, <2>4 DEF ConnectLeft
  <2> QED BY <2>2, <2>5
<1>3. ASSUME NEW s \in Sockets, Poll(s) \/ PeerLeaves(s) PROVE conn' = conn
  BY <1>3 DEF Poll, PollTurn, PollNothing, PollData, PollFails, PollCloses, ReportDisconnected,
              DispatchDisconnected, PollEnds, PeerLeaves
<1>4. CASE UserStarts \/ UserCloses
  BY <1>4 DEF UserStarts, UserCloses
<1>5. ASSUME NEW e \in Executors, RunTasks(e) PROVE conn' = conn
  BY <1>5 DEF RunTasks
<1>6. CASE UNCHANGED vars
  BY <1>6 DEF vars
<1> QED BY <1>1, <1>2, <1>3, <1>4, <1>5, <1>6 DEF Next

(* So does each step of the polling thread that was taken over. *)
LEMMA PollThreadEnds ==
    ASSUME IInv, [Next]_vars, joining[Game] # None
    PROVE  PollEndsSoon(joining[Game])
<1> DEFINE j == joining[Game]
<1> USE ClientAssumption DEF IInv, ClientTypeOK, PollEndsSoon, PollGoesTo, flags, calls, ptrs
<1>0. j \in Sockets /\ bIsClosing /\ call[Game] \in Joins /\ ~autoConnect
  BY DEF ClientInv, CallInv, Callers
<1>1. ASSUME NEW t \in Callers, CallStep(t) PROVE poll' = poll
  <2>1. ~StartCreates(t)
    BY <1>0 DEF StartCreates, ClientInv, CallInv, Callers, Joins
  <2> QED BY <1>1, <2>1 DEF CallStep, BeginStart, AlreadyClosing, TakeThread, JoinPoll, CloseInner,
                Spawn, BeginClose, JoinConnect
<1>2. ASSUME NEW k \in Connectors, Connect(k) PROVE poll' = poll
  <2>1. conn[k] \in {"none", "exited"}
    BY <1>0 DEF ClientInv, ConnInv, Joins
  <2> QED BY <1>2, <2>1 DEF Connect, TryConnect, KeepSocket, RecreateSocket, ConnectSucceeds,
              ConnectFails, CheckClosing, OnConnected, ReportConnected, UsesNull
<1>3. ASSUME NEW s \in Sockets, Poll(s) PROVE PollEndsSoon(j)
  <2>1. \/ poll[s] = "wait" /\ \E pc \in {"loop", "exited"} : poll' = [poll EXCEPT ![s] = pc]
        \/ poll[s] = "lost" /\ poll' = [poll EXCEPT ![s] = "dropped"]
        \/ poll[s] = "dropped" /\ poll' = [poll EXCEPT ![s] = "reported"]
        \/ poll[s] \in {"loop", "reported"} /\ poll' = [poll EXCEPT ![s] = "exited"]
    <3>1. poll[s] # "restarts"
      BY DEF ClientInv, CallInv
    <3> QED BY <1>0, <1>3, <3>1 DEF Poll, PollTurn, PollNothing, PollData, PollFails, PollCloses,
                ReportDisconnected, DispatchDisconnected, PollEnds
  <2>2. s # j => poll'[j] = poll[j]
    BY <1>0, <2>1
  <2>3. \/ poll[s] = "wait" /\ poll'[s] \in {"loop", "exited"}
        \/ poll[s] = "lost" /\ poll'[s] = "dropped"
        \/ poll[s] = "dropped" /\ poll'[s] = "reported"
        \/ poll[s] \in {"loop", "reported"} /\ poll'[s] = "exited"
    BY <2>1
  <2>4. PollLeft(poll'[s]) < PollLeft(poll[s])
    BY <2>3 DEF PollLeft
  <2> QED BY <2>2, <2>4
<1>4. ASSUME NEW s \in Sockets, PeerLeaves(s) PROVE poll' = poll
  BY <1>4 DEF PeerLeaves
<1>5. CASE UserStarts \/ UserCloses
  BY <1>5 DEF UserStarts, UserCloses
<1>6. ASSUME NEW e \in Executors, RunTasks(e) PROVE poll' = poll
  BY <1>6 DEF RunTasks
<1>7. CASE UNCHANGED vars
  BY <1>7 DEF vars
<1> QED BY <1>1, <1>2, <1>3, <1>4, <1>5, <1>6, <1>7 DEF Next

(* The thread that Start or Close waits for does not turn round: a connect *)
(* thread in the middle of an attempt makes no other, RetryConnect or not, *)
(* and a polling thread in the middle of a receive or of the report of a   *)
(* loss makes no other turn. *)
THEOREM ClientWaitsBriefly == Spec => WaitsBriefly
<1> DEFINE All == autoConnect \/ (IInv /\ JoinInv)
<1>1. Init => All
  <2>1. Init => JoinInv
    BY ClientAssumption DEF Init, JoinInv, Callers
  <2> QED BY <2>1, IInvInit
<1>2. All /\ [Next]_vars => All'
  BY IInvStep, JoinInvStep, AutoConnectStays
<1>3. ASSUME All, [Next]_vars
      PROVE  [~autoConnect =>
                /\ call[Game] = "joinConnect" => \A k \in Connectors : ConnectEnds(k)
                /\ joining[Game] # None => PollEndsSoon(joining[Game])]_vars
  BY <1>3, ConnectThreadEnds, PollThreadEnds
<1> QED BY <1>1, <1>2, <1>3, PTL DEF Spec, WaitsBriefly
=============================================================================
