-------------------------- MODULE TcpIpServerProofs --------------------------
(***************************************************************************)
(* Proofs about TcpIpServer, for any set of clients, any number of         *)
(* sessions and both values of IsEventWithGameThread: every safety         *)
(* property that the runs check, and that the threads which Close waits    *)
(* for are on their way out.                                               *)
(*                                                                         *)
(* Two inductive invariants.  IInv is about the threads and sockets:       *)
(* TypeOK needs to know that an executor calling the delegates still has   *)
(* its task (TaskInHand) and that a thread that goes on polling has not    *)
(* reached the debounce limit; the state of a socket follows its polling   *)
(* thread (PollInv); what Close has already done stays done until Start    *)
(* (CloseInv); and whoever still needs to be stopped is in a place where   *)
(* Close will look (HeldInv).                                              *)
(*                                                                         *)
(* The second is about the events between the threads and the user: a peer *)
(* is new until it is accepted (NewPeerInv); the flags of the manager      *)
(* follow the game thread's calls (CallInv); where a thread is tells what  *)
(* may wait in its queue (QueueInv); a loss is the last event its thread   *)
(* raises (LossInv); ConnectedList runs ahead of what the user heard by    *)
(* the event in hand (ListInv); and whoever is served is listed, or its    *)
(* connect is on its way (ServedInv).                                      *)
(***************************************************************************)
EXTENDS TcpIpServer, TLAPS

TaskInHand == \A e \in inBroadcast : tasks[e] # <<>>

ManagerInv == ManagerTypeOK /\ TaskInHand

BelowLimit ==
    \A c \in Clients : poll[c] \in {"loop", "wait"} => noDataCount[c] < DebounceLimit

ServerInv == ServerTypeOK /\ BelowLimit

TypeInv == ManagerInv /\ ServerInv

PollInv ==
    \A c \in Clients :
        /\ poll[c] \in {"loop", "wait"} => socket[c] \in {"open", "shutdown"}
        /\ poll[c] \in {"dropped", "erase", "erased"} => socket[c] = "destroyed"

(* The game thread is not between Start or Close and its end, and the last *)
(* of them was a Close. *)
Closed == gpc \in {"idle", "close"} /\ isClosing

CloseInv ==
    /\ gpc \in {"joinListen", "takeSockets", "closeSockets", "open"} => isClosing
    /\ gpc \in {"takeSockets", "closeSockets", "open"} \/ Closed => listen = "none"
    /\ gpc \in {"closeSockets", "open"} \/ Closed => connectedSockets = {}
    /\ gpc = "open" \/ Closed => ~listening
    /\ gpc # "closeSockets" => toClose = {}
    /\ joining \subseteq toClose
    /\ \A c, d \in accepting : c = d

Active == {"loop", "wait", "lost", "dropped", "erase"}

Held(c) ==
    \/ c \in connectedSockets
    \/ c \in toClose
    \/ listen = "accepted" /\ c \in accepting

HeldInv ==
    \A c \in Clients :
        poll[c] \in Active \/ socket[c] \in {"open", "shutdown"} => Held(c)

IInv == TypeInv /\ PollInv /\ CloseInv /\ HeldInv

-----------------------------------------------------------------------------
(* The manager's steps keep the manager's part of the invariant.           *)

(* Raising an event from any thread of the protocol appends a task. *)
LEMMA DispatchKeepsManagerInv ==
    ASSUME ManagerInv, NEW t \in Threads, NEW kind \in Kind, NEW c \in Clients,
           Dispatch(t, kind, c)
    PROVE  ManagerInv'
<1>1. Executor(t) \in Executors
  BY DEF Executor, Executors
<1>2. [kind |-> kind, client |-> c] \in Task
  BY DEF ManagerInv, ManagerTypeOK, Task
<1>3. CASE isDestorying
  BY <1>3 DEF ManagerInv, ManagerTypeOK, TaskInHand, Dispatch
<1>4. CASE ~isDestorying
  <2> DEFINE task == [kind |-> kind, client |-> c]
  <2>1. tasks' = [tasks EXCEPT ![Executor(t)] = Append(@, task)]
    BY <1>4 DEF Dispatch
  <2>2. /\ tasks' \in [Executors -> Seq(Task)]
        /\ \A e \in Executors : tasks[e] # <<>> => tasks'[e] # <<>>
    <3>1. task \in Task
      BY <1>2
    <3> HIDE DEF task
    <3> QED BY <1>1, <2>1, <3>1 DEF ManagerInv, ManagerTypeOK
  <2> QED BY <2>2 DEF ManagerInv, ManagerTypeOK, TaskInHand, Dispatch
<1> QED BY <1>3, <1>4

(* Executing a task: only the executor that calls the delegates removes    *)
(* its first task, and it then calls them no longer.                       *)
LEMMA ExecuteKeepsManagerInv ==
    ASSUME ManagerInv, NEW e \in Executors, Execute(e)
    PROVE  ManagerInv'
<1> USE DEF ManagerInv, ManagerTypeOK, TaskInHand
<1>1. CASE DropTask(e)
  BY <1>1 DEF DropTask, Due
<1>2. CASE ApplyTask(e)
  <2>1. Head(tasks[e]) \in Task
    BY <1>2 DEF ApplyTask, Due
  <2>2. connectedList' \subseteq Clients
    BY <1>2, <2>1 DEF ApplyTask, Task, Kind
  <2> QED BY <1>2, <2>2 DEF ApplyTask, Due
<1>3. CASE Broadcast(e)
  <2>1. Head(tasks[e]) \in Task
    BY <1>3 DEF Broadcast
  <2>2. told' \in [Clients -> Seq(Notification)]
    <3> DEFINE n == [kind |-> Head(tasks[e]).kind, toldIn |-> session]
               c == Head(tasks[e]).client
    <3>1. n \in Notification /\ c \in Clients
      BY <2>1 DEF Task, Notification
    <3>2. told' = [told EXCEPT ![c] = Append(@, n)]
      BY <1>3 DEF Broadcast
    <3> HIDE DEF n, c
    <3> QED BY <3>1, <3>2
  <2>3. tasks' \in [Executors -> Seq(Task)]
    BY <1>3 DEF Broadcast
  <2>4. TaskInHand'
    BY <1>3 DEF Broadcast
  <2> QED BY <1>3, <2>2, <2>3, <2>4 DEF Broadcast
<1> QED BY <1>1, <1>2, <1>3 DEF Execute

-----------------------------------------------------------------------------
(* Type correctness.                                                       *)

(* The steps of the manager that the server's steps contain, and the steps *)
(* that leave the manager alone, keep the manager's part. *)
LEMMA ManagerStep ==
    ASSUME TypeInv, [Next]_vars
    PROVE  ManagerInv'
<1> USE DEF TypeInv
<1>0. Listener \in Threads /\ Clients \subseteq Threads /\ Kind = {"connected", "disconnected", "data"}
  BY ServerAssumption DEF Kind
<1>1. CASE UNCHANGED mvars
  BY <1>1 DEF mvars, ManagerInv, ManagerTypeOK, TaskInHand
<1>2. ASSUME NEW c \in Clients, ReportConnected(c) PROVE ManagerInv'
  BY <1>0, <1>2, DispatchKeepsManagerInv DEF ReportConnected
<1>3. ASSUME NEW c \in Clients, ReportDisconnected(c) PROVE ManagerInv'
  BY <1>0, <1>3, DispatchKeepsManagerInv DEF ReportDisconnected
<1>4. ASSUME NEW c \in Clients, PollData(c) PROVE ManagerInv'
  <2>1. UNCHANGED mvars \/ Dispatch(c, "data", c)
    BY <1>4 DEF PollData
  <2> QED BY <1>0, <1>1, <2>1, DispatchKeepsManagerInv
<1>5. CASE UserStarts
  <2>1. StartManager
    BY <1>5 DEF UserStarts
  <2>2. UNCHANGED <<tasks, inBroadcast, told>> /\ hasProtocol' = TRUE
    BY <2>1 DEF StartManager
  <2>3. isDestorying' = FALSE /\ connectedList' = {} /\ session' \in Nat
    BY <2>1 DEF StartManager, ManagerInv, ManagerTypeOK
  <2>4. isEventWithGameThread' \in BOOLEAN
    BY <2>1, Zenon DEF StartManager, ManagerInv, ManagerTypeOK
  <2> QED BY <2>2, <2>3, <2>4 DEF ManagerInv, ManagerTypeOK, TaskInHand
<1>6. CASE UserCloses
  BY <1>6 DEF UserCloses, CloseManager, ManagerInv, ManagerTypeOK, TaskInHand
<1>7. ASSUME NEW e \in Executors, RunTasks(e) PROVE ManagerInv'
  BY <1>7, ExecuteKeepsManagerInv DEF RunTasks
<1>8. ASSUME NEW c \in Clients, PeerConnects(c) \/ PeerSends(c) \/ PeerLeaves(c)
      PROVE  UNCHANGED mvars
  BY <1>8 DEF PeerConnects, PeerSends, PeerLeaves
<1>9. ASSUME Listen PROVE ManagerInv'
  <2>1. CASE ListenTurn \/ NothingAccepted
    BY <2>1, <1>1 DEF ListenTurn, NothingAccepted
  <2>2. ASSUME NEW c \in Clients, AcceptClient(c) \/ AddClient(c) PROVE ManagerInv'
    BY <2>2, <1>1 DEF AcceptClient, AddClient
  <2> QED BY <1>9, <1>2, <2>1, <2>2 DEF Listen
<1>10. ASSUME NEW c \in Clients, Poll(c) PROVE ManagerInv'
  <2>1. PollTurn(c) \/ PollNothing(c) \/ PollEmpty(c) \/ PollError(c) \/ PollCloses(c)
           \/ PollTellsServer(c) \/ RemoveClient(c) => UNCHANGED mvars
    BY DEF PollTurn, PollNothing, PollEmpty, PollError, PollCloses, PollTellsServer, RemoveClient
  <2> QED BY <1>1, <1>3, <1>4, <1>10, <2>1 DEF Poll
<1>11. CASE CloseStep
  <2>1. UNCHANGED mvars
    BY <1>11 DEF CloseStep, BeginClose, JoinListen, TakeSockets, CloseListener, OpenListener,
                 ShutdownClient, JoinClient
  <2> QED BY <1>1, <2>1
<1>12. CASE UNCHANGED vars
  BY <1>1, <1>12 DEF vars
<1> QED BY <1>1, <1>5, <1>6, <1>7, <1>8, <1>9, <1>10, <1>11, <1>12 DEF Next

(* The server's part: a thread that is told to go on has counted at most   *)
(* up to the limit, and any other count is a reset. *)
LEMMA ServerStep ==
    ASSUME TypeInv, [Next]_vars
    PROVE  ServerInv'
<1> USE ServerAssumption DEF TypeInv, ServerInv, ServerTypeOK, BelowLimit,
                             svars, cvars, gvars, evars, PollGoesTo
<1>1. ASSUME NEW c \in Clients, PeerConnects(c) \/ PeerSends(c) \/ PeerLeaves(c)
      PROVE  ServerInv'
  BY <1>1 DEF PeerConnects, PeerSends, PeerLeaves
<1>2. CASE Listen
  <2>1. CASE ListenTurn \/ NothingAccepted
    BY <2>1 DEF ListenTurn, NothingAccepted
  <2>2. ASSUME NEW c \in Clients, AcceptClient(c) PROVE ServerInv'
    BY <2>2 DEF AcceptClient
  <2>3. ASSUME NEW c \in Clients, AddClient(c) \/ ReportConnected(c) PROVE ServerInv'
    BY <2>3 DEF AddClient, ReportConnected
  <2> QED BY <1>2, <2>1, <2>2, <2>3 DEF Listen
<1>3. ASSUME NEW c \in Clients, Poll(c) PROVE ServerInv'
  <2>1. CASE PollTurn(c) \/ PollCloses(c) \/ PollTellsServer(c)
    BY <2>1 DEF PollTurn, PollCloses, PollTellsServer
  <2>2. CASE PollNothing(c) \/ PollError(c)
    BY <2>2 DEF PollNothing, PollError, GiveUp
  <2>3. CASE PollData(c)
    BY <2>3 DEF PollData
  <2>4. CASE PollEmpty(c)
    BY <2>4 DEF PollEmpty, GiveUp
  <2>5. CASE RemoveClient(c) \/ ReportDisconnected(c)
    BY <2>5 DEF RemoveClient, ReportDisconnected
  <2> QED BY <1>3, <2>1, <2>2, <2>3, <2>4, <2>5 DEF Poll
<1>4. CASE UserStarts \/ UserCloses
  BY <1>4 DEF UserStarts, UserCloses
<1>5. CASE CloseStep
  <2>1. CASE BeginClose \/ JoinListen \/ TakeSockets \/ OpenListener
    BY <2>1 DEF BeginClose, JoinListen, TakeSockets, OpenListener
  <2>2. CASE CloseListener
    BY <2>2 DEF CloseListener
  <2>3. ASSUME NEW c \in Clients, ShutdownClient(c) \/ JoinClient(c) PROVE ServerInv'
    BY <2>3 DEF ShutdownClient, JoinClient
  <2> QED BY <1>5, <2>1, <2>2, <2>3 DEF CloseStep
<1>6. ASSUME NEW e \in Executors, RunTasks(e) PROVE ServerInv'
  BY <1>6 DEF RunTasks
<1>7. CASE UNCHANGED vars
  BY <1>7 DEF vars
<1> QED BY <1>1, <1>2, <1>3, <1>4, <1>5, <1>6, <1>7 DEF Next

(* Before the first Start every variable is in its domain. *)
LEMMA TypeInit == Init => TypeInv
<1> SUFFICES ASSUME Init PROVE TypeInv
  OBVIOUS
<1>1. ManagerInv
  <2>1. tasks \in [Executors -> Seq(Task)] /\ told \in [Clients -> Seq(Notification)]
    BY DEF Init, MInit
  <2>2. isDestorying \in BOOLEAN /\ hasProtocol \in BOOLEAN
    BY DEF Init, MInit
  <2>3. isEventWithGameThread \in BOOLEAN
    BY ManagerAssumption, Zenon DEF Init, MInit
  <2> QED BY <2>1, <2>2, <2>3 DEF Init, MInit, ManagerInv, ManagerTypeOK, TaskInHand
<1>2. ServerInv
  <2>1. isClosing \in BOOLEAN /\ listening \in BOOLEAN /\ reopen \in BOOLEAN
    BY DEF Init
  <2> QED BY <2>1, ServerAssumption DEF Init, ServerInv, ServerTypeOK, BelowLimit
<1> QED BY <1>1, <1>2 DEF TypeInv

(* No step of any thread takes a variable out of its domain. *)
LEMMA TypeStep == TypeInv /\ [Next]_vars => TypeInv'
  BY ManagerStep, ServerStep DEF TypeInv

(* Every variable stays in its domain, for any set of clients, any number  *)
(* of sessions and any debounce limit; in particular the debounce counter  *)
(* of ReceivedData never exceeds its limit. *)
THEOREM TypeCorrect == Spec => []TypeOK
<1>1. TypeInv => TypeOK
  BY DEF TypeInv, ManagerInv, ServerInv, TypeOK
<1> QED BY <1>1, TypeInit, TypeStep, PTL DEF Spec

-----------------------------------------------------------------------------
(* Sockets and their polling threads.                                      *)

(* The state of a socket changes only in step with its polling thread. *)
LEMMA PollInvStep ==
    ASSUME TypeInv, PollInv, [Next]_vars
    PROVE  PollInv'
<1> USE DEF TypeInv, ServerInv, ServerTypeOK, PollInv, svars, cvars, gvars, evars, PollGoesTo
<1>1. ASSUME NEW c \in Clients, PeerConnects(c) \/ PeerSends(c) \/ PeerLeaves(c)
      PROVE  PollInv'
  BY <1>1 DEF PeerConnects, PeerSends, PeerLeaves
<1>2. CASE Listen
  <2>1. CASE ListenTurn \/ NothingAccepted
    BY <2>1 DEF ListenTurn, NothingAccepted
  <2>2. ASSUME NEW c \in Clients, AcceptClient(c) PROVE PollInv'
    BY <2>2 DEF AcceptClient
  <2>3. ASSUME NEW c \in Clients, AddClient(c) \/ ReportConnected(c) PROVE PollInv'
    BY <2>3 DEF AddClient, ReportConnected
  <2> QED BY <1>2, <2>1, <2>2, <2>3 DEF Listen
<1>3. ASSUME NEW c \in Clients, Poll(c) PROVE PollInv'
  <2>1. CASE PollTurn(c) \/ PollCloses(c) \/ PollTellsServer(c)
    BY <2>1 DEF PollTurn, PollCloses, PollTellsServer
  <2>2. CASE PollNothing(c) \/ PollError(c) \/ PollEmpty(c)
    BY <2>2 DEF PollNothing, PollError, PollEmpty, GiveUp
  <2>3. CASE PollData(c)
    BY <2>3 DEF PollData
  <2>4. CASE RemoveClient(c) \/ ReportDisconnected(c)
    BY <2>4 DEF RemoveClient, ReportDisconnected
  <2> QED BY <1>3, <2>1, <2>2, <2>3, <2>4 DEF Poll
<1>4. CASE UserStarts \/ UserCloses
  BY <1>4 DEF UserStarts, UserCloses
<1>5. CASE CloseStep
  <2>1. CASE BeginClose \/ JoinListen \/ TakeSockets \/ OpenListener \/ CloseListener
    BY <2>1 DEF BeginClose, JoinListen, TakeSockets, OpenListener, CloseListener
  <2>2. ASSUME NEW c \in Clients, ShutdownClient(c) PROVE PollInv'
    BY <2>2 DEF ShutdownClient
  <2>3. ASSUME NEW c \in Clients, JoinClient(c) PROVE PollInv'
    BY <2>3 DEF JoinClient
  <2> QED BY <1>5, <2>1, <2>2, <2>3 DEF CloseStep
<1>6. ASSUME NEW e \in Executors, RunTasks(e) PROVE PollInv'
  BY <1>6 DEF RunTasks
<1>7. CASE UNCHANGED vars
  BY <1>7 DEF vars
<1> QED BY <1>1, <1>2, <1>3, <1>4, <1>5, <1>6, <1>7 DEF Next

(* No polling thread exists before the first accept. *)
LEMMA PollInit == Init => PollInv
  BY DEF Init, PollInv

(* No thread destroys the FSocket that a polling thread is using: Close    *)
(* waits for the thread before CloseInnerSocket, and the thread destroys   *)
(* its socket only after the last use. *)
THEOREM SocketSafety == Spec => []SocketOutlivesUse
<1>1. PollInv => SocketOutlivesUse
  BY DEF PollInv, SocketOutlivesUse
<1>2. TypeInv /\ PollInv /\ [Next]_vars => PollInv'
  BY PollInvStep
<1> QED BY <1>1, <1>2, TypeInit, TypeStep, PollInit, PTL DEF Spec

-----------------------------------------------------------------------------
(* What Close has achieved.                                                *)

(* Each step of Close leaves what the earlier ones achieved: no other      *)
(* thread opens the listener, adds a client once the listen thread has     *)
(* been joined, or starts a listen thread. *)
LEMMA CloseInvStep ==
    ASSUME CloseInv, [Next]_vars
    PROVE  CloseInv'
<1> USE DEF CloseInv, Closed, svars, cvars, gvars, evars
<1>1. ASSUME NEW c \in Clients, PeerConnects(c) \/ PeerSends(c) \/ PeerLeaves(c)
      PROVE  CloseInv'
  BY <1>1 DEF PeerConnects, PeerSends, PeerLeaves
<1>2. CASE Listen
  <2>1. CASE ListenTurn \/ NothingAccepted
    BY <2>1 DEF ListenTurn, NothingAccepted
  <2>2. ASSUME NEW c \in Clients, AcceptClient(c) PROVE CloseInv'
    BY <2>2 DEF AcceptClient
  <2>3. ASSUME NEW c \in Clients, AddClient(c) \/ ReportConnected(c) PROVE CloseInv'
    BY <2>3 DEF AddClient, ReportConnected
  <2> QED BY <1>2, <2>1, <2>2, <2>3 DEF Listen
<1>3. ASSUME NEW c \in Clients, Poll(c) PROVE CloseInv'
  <2>1. CASE PollTurn(c) \/ PollNothing(c) \/ PollData(c) \/ PollEmpty(c) \/ PollError(c)
    BY <2>1 DEF PollTurn, PollNothing, PollData, PollEmpty, PollError
  <2>2. CASE PollCloses(c) \/ PollTellsServer(c) \/ ReportDisconnected(c)
    BY <2>2 DEF PollCloses, PollTellsServer, ReportDisconnected
  <2>3. CASE RemoveClient(c)
    BY <2>3 DEF RemoveClient
  <2> QED BY <1>3, <2>1, <2>2, <2>3 DEF Poll
<1>4. CASE UserStarts \/ UserCloses
  BY <1>4 DEF UserStarts, UserCloses
<1>5. CASE CloseStep
  <2>1. CASE BeginClose \/ JoinListen
    BY <2>1 DEF BeginClose, JoinListen
  <2>2. CASE TakeSockets
    BY <2>2 DEF TakeSockets
  <2>3. CASE CloseListener \/ OpenListener
    BY <2>3 DEF CloseListener, OpenListener
  <2>4. ASSUME NEW c \in Clients, ShutdownClient(c) \/ JoinClient(c) PROVE CloseInv'
    BY <2>4 DEF ShutdownClient, JoinClient
  <2> QED BY <1>5, <2>1, <2>2, <2>3, <2>4 DEF CloseStep
<1>6. ASSUME NEW e \in Executors, RunTasks(e) PROVE CloseInv'
  BY <1>6 DEF RunTasks
<1>7. CASE UNCHANGED vars
  BY <1>7 DEF vars
<1> QED BY <1>1, <1>2, <1>3, <1>4, <1>5, <1>6, <1>7 DEF Next

(* A client whose thread still runs, or whose socket is open, is handed    *)
(* from the listen thread to ConnectedSockets and from there to Close      *)
(* without a gap. *)
LEMMA HeldInvStep ==
    ASSUME TypeInv, PollInv, CloseInv, HeldInv, [Next]_vars
    PROVE  HeldInv'
<1> USE DEF TypeInv, ServerInv, ServerTypeOK, HeldInv, Held, Active,
            svars, cvars, gvars, evars, PollGoesTo
<1>1. ASSUME NEW c \in Clients, PeerConnects(c) \/ PeerSends(c) \/ PeerLeaves(c)
      PROVE  HeldInv'
  BY <1>1 DEF PeerConnects, PeerSends, PeerLeaves
<1>2. CASE Listen
  <2>1. CASE ListenTurn \/ NothingAccepted
    BY <2>1 DEF ListenTurn, NothingAccepted
  <2>2. ASSUME NEW c \in Clients, AcceptClient(c) PROVE HeldInv'
    BY <2>2 DEF AcceptClient
  <2>3. ASSUME NEW c \in Clients, AddClient(c) PROVE HeldInv'
    BY <2>3 DEF AddClient, CloseInv
  <2>4. ASSUME NEW c \in Clients, ReportConnected(c) PROVE HeldInv'
    BY <2>4 DEF ReportConnected
  <2> QED BY <1>2, <2>1, <2>2, <2>3, <2>4 DEF Listen
<1>3. ASSUME NEW c \in Clients, Poll(c) PROVE HeldInv'
  <2>1. CASE PollTurn(c) \/ PollCloses(c) \/ PollTellsServer(c)
    BY <2>1 DEF PollTurn, PollCloses, PollTellsServer
  <2>2. CASE PollNothing(c) \/ PollError(c) \/ PollEmpty(c)
    BY <2>2 DEF PollNothing, PollError, PollEmpty, GiveUp
  <2>3. CASE PollData(c)
    BY <2>3 DEF PollData
  <2>4. CASE RemoveClient(c)
    BY <2>4 DEF RemoveClient, PollInv
  <2>5. CASE ReportDisconnected(c)
    BY <2>5 DEF ReportDisconnected
  <2> QED BY <1>3, <2>1, <2>2, <2>3, <2>4, <2>5 DEF Poll
<1>4. CASE UserStarts \/ UserCloses
  BY <1>4 DEF UserStarts, UserCloses
<1>5. CASE CloseStep
  <2>1. CASE BeginClose \/ JoinListen \/ OpenListener \/ CloseListener
    BY <2>1 DEF BeginClose, JoinListen, OpenListener, CloseListener, CloseInv
  <2>2. CASE TakeSockets
    BY <2>2 DEF TakeSockets, CloseInv
  <2>3. ASSUME NEW c \in Clients, ShutdownClient(c) PROVE HeldInv'
    BY <2>3 DEF ShutdownClient
  <2>4. ASSUME NEW c \in Clients, JoinClient(c) PROVE HeldInv'
    BY <2>4 DEF JoinClient
  <2> QED BY <1>5, <2>1, <2>2, <2>3, <2>4 DEF CloseStep
<1>6. ASSUME NEW e \in Executors, RunTasks(e) PROVE HeldInv'
  BY <1>6 DEF RunTasks
<1>7. CASE UNCHANGED vars
  BY <1>7 DEF vars
<1> QED BY <1>1, <1>2, <1>3, <1>4, <1>5, <1>6, <1>7 DEF Next

(* Before the first Start there is nothing that Close would have to stop. *)
LEMMA IInvInit == Init => IInv
<1>1. Init => CloseInv
  BY DEF Init, CloseInv, Closed
<1>2. Init => HeldInv
  BY DEF Init, HeldInv, Active
<1> QED BY <1>1, <1>2, TypeInit, PollInit DEF IInv

(* No step of any thread breaks a part of the inductive invariant. *)
LEMMA IInvStep == IInv /\ [Next]_vars => IInv'
  BY TypeStep, PollInvStep, CloseInvStep, HeldInvStep DEF IInv

(* Whoever is not held by the list, by Close or by an accept has ended. *)
LEMMA IInvQuiet == IInv => ClosedIsQuiet
<1> SUFFICES ASSUME IInv, gpc = "idle", isClosing
             PROVE  /\ listen = "none" /\ ~listening
                    /\ connectedSockets = {}
                    /\ \A c \in Clients : /\ socket[c] \in {"none", "destroyed"}
                                          /\ poll[c] \in {"none", "exited", "erased"}
  BY DEF ClosedIsQuiet
<1>1. listen = "none" /\ ~listening /\ connectedSockets = {} /\ toClose = {}
  BY DEF IInv, CloseInv, Closed
<1>2. \A c \in Clients : ~Held(c)
  BY <1>1 DEF Held
<1>3. \A c \in Clients : socket[c] \notin {"open", "shutdown"} /\ poll[c] \notin Active
  BY <1>2 DEF IInv, HeldInv
<1> QED BY <1>1, <1>3 DEF IInv, TypeInv, ServerInv, ServerTypeOK, Active

(* When UProtocolTcpIpServer::Close has returned, and until the next       *)
(* Start, nothing of the server is left that could accept, receive or      *)
(* change its list of clients, whatever the threads were doing when it was *)
(* called and however many clients there were. *)
THEOREM CloseSafety == Spec => []ClosedIsQuiet
  BY IInvQuiet, IInvInit, IInvStep, PTL DEF Spec

-----------------------------------------------------------------------------
(* What Close waits for.  That Close returns is a matter of fairness; here *)
(* is the part that is not: a thread that Close waits for does not turn    *)
(* round.  Whatever was going on when Close looked, each of its steps      *)
(* leaves it fewer to do, and none of them waits for another thread.       *)

(* How many steps, at the most, until the listen thread has been waited    *)
(* for. *)
ListenLeft(pc) ==
    CASE pc = "turn"     -> 5
      [] pc = "accepted" -> 4
      [] pc = "added"    -> 3
      [] pc = "loop"     -> 2
      [] pc = "exited"   -> 1
      [] pc = "none"     -> 0

(* How many steps the polling thread of a client has to do, at the most,   *)
(* once Close has shut its socket down. *)
PollLeft(pc) ==
    CASE pc = "lost"                -> 4
      [] pc = "dropped"             -> 3
      [] pc \in {"wait", "erase"}   -> 2
      [] pc \in {"loop", "erased"}  -> 1
      [] pc \in {"none", "exited"}  -> 0

WaitsBriefly ==
    [][/\ gpc = "joinListen" /\ listen' # listen => ListenLeft(listen') < ListenLeft(listen)
       /\ \A c \in joining :
             poll'[c] # poll[c] => PollLeft(poll'[c]) < PollLeft(poll[c])]_vars

(* A client that Close waits for has been told, and its socket shut down. *)
JoinInv == \A c \in joining : clientClosing[c] /\ socket[c] # "open" /\ gpc = "closeSockets"

LEMMA JoinInvStep ==
    ASSUME TypeInv, CloseInv, JoinInv, [Next]_vars
    PROVE  JoinInv'
<1> USE DEF JoinInv, svars, cvars, gvars, evars, mvars
<1>0. /\ joining \subseteq Clients
      /\ socket \in [Clients -> {"none", "open", "shutdown", "destroyed"}]
      /\ clientClosing \in [Clients -> BOOLEAN]
  BY DEF TypeInv, ServerInv, ServerTypeOK
<1>1. ASSUME NEW c \in Clients, PeerConnects(c) \/ PeerSends(c) \/ PeerLeaves(c)
      PROVE  JoinInv'
  BY <1>1 DEF PeerConnects, PeerSends, PeerLeaves
<1>2. CASE Listen
  <2>1. CASE ListenTurn \/ NothingAccepted
    BY <2>1 DEF ListenTurn, NothingAccepted
  <2>2. ASSUME NEW c \in Clients, AcceptClient(c) PROVE JoinInv'
    BY <2>2 DEF AcceptClient, CloseInv
  <2>3. ASSUME NEW c \in Clients, AddClient(c) \/ ReportConnected(c) PROVE JoinInv'
    BY <2>3 DEF AddClient, ReportConnected
  <2> QED BY <1>2, <2>1, <2>2, <2>3 DEF Listen
<1>3. ASSUME NEW c \in Clients, Poll(c) PROVE JoinInv'
  <2>1. CASE PollCloses(c)
    BY <1>0, <2>1 DEF PollCloses
  <2>2. CASE ~PollCloses(c)
    BY <1>3, <2>2 DEF Poll, PollTurn, PollTellsServer, PollNothing, PollError, PollEmpty,
                      PollData, RemoveClient, ReportDisconnected
  <2> QED BY <2>1, <2>2
<1>4. CASE UserStarts \/ UserCloses
  BY <1>4 DEF UserStarts, UserCloses
<1>5. CASE CloseStep
  <2>1. CASE BeginClose \/ JoinListen \/ TakeSockets \/ OpenListener
    BY <2>1 DEF BeginClose, JoinListen, TakeSockets, OpenListener
  <2>2. CASE CloseListener
    BY <2>2 DEF CloseListener, CloseInv
  <2>3. ASSUME NEW c \in Clients, ShutdownClient(c) \/ JoinClient(c) PROVE JoinInv'
    BY <1>0, <2>3 DEF ShutdownClient, JoinClient
  <2> QED BY <1>5, <2>1, <2>2, <2>3 DEF CloseStep
<1>6. ASSUME NEW e \in Executors, RunTasks(e) PROVE JoinInv'
  BY <1>6 DEF RunTasks
<1>7. CASE UNCHANGED vars
  BY <1>7 DEF vars
<1> QED BY <1>1, <1>2, <1>3, <1>4, <1>5, <1>6, <1>7 DEF Next

(* Only the listen thread, and Close when it has waited for it, move it. *)
LEMMA OthersLeaveListen ==
    ASSUME [Next]_vars, ~Listen, ~JoinListen, gpc = "joinListen"
    PROVE  listen' = listen
<1> USE DEF svars, cvars, gvars, evars, mvars
<1>1. ASSUME NEW c \in Clients, PeerConnects(c) \/ PeerSends(c) \/ PeerLeaves(c)
      PROVE  listen' = listen
  BY <1>1 DEF PeerConnects, PeerSends, PeerLeaves
<1>2. ASSUME NEW c \in Clients, Poll(c) PROVE listen' = listen
  BY <1>2 DEF Poll, PollTurn, PollTellsServer, PollNothing, PollError, PollEmpty, PollData,
              PollCloses, RemoveClient, ReportDisconnected
<1>3. CASE UserStarts \/ UserCloses
  BY <1>3 DEF UserStarts, UserCloses
<1>4. CASE CloseStep
  BY <1>4 DEF CloseStep, BeginClose, TakeSockets, CloseListener, OpenListener, ShutdownClient,
              JoinClient
<1>5. ASSUME NEW e \in Executors, RunTasks(e) PROVE listen' = listen
  BY <1>5 DEF RunTasks
<1>6. CASE UNCHANGED vars
  BY <1>6 DEF vars
<1> QED BY <1>1, <1>2, <1>3, <1>4, <1>5, <1>6 DEF Next

(* With no listen thread, only a polling thread itself moves it. *)
LEMMA OthersLeavePoll ==
    ASSUME [Next]_vars, listen = "none", NEW c \in Clients, ~Poll(c),
           poll \in [Clients -> {"none", "loop", "wait", "lost", "dropped",
                                "erase", "erased", "exited"}]
    PROVE  poll'[c] = poll[c]
<1> USE DEF svars, cvars, gvars, evars, mvars
<1>1. ASSUME NEW d \in Clients, PeerConnects(d) \/ PeerSends(d) \/ PeerLeaves(d)
      PROVE  poll' = poll
  BY <1>1 DEF PeerConnects, PeerSends, PeerLeaves
<1>2. ~Listen
  BY DEF Listen, ListenTurn, NothingAccepted, AcceptClient, AddClient, ReportConnected
<1>3. ASSUME NEW d \in Clients \ {c}, Poll(d) PROVE poll'[c] = poll[c]
  BY <1>3 DEF Poll, PollTurn, PollTellsServer, PollNothing, PollError, PollEmpty, PollData,
              PollCloses, RemoveClient, ReportDisconnected, GiveUp, PollGoesTo
<1>4. CASE UserStarts \/ UserCloses
  BY <1>4 DEF UserStarts, UserCloses
<1>5. CASE CloseStep
  BY <1>5 DEF CloseStep, BeginClose, JoinListen, TakeSockets, CloseListener, OpenListener,
              ShutdownClient, JoinClient
<1>6. ASSUME NEW e \in Executors, RunTasks(e) PROVE poll' = poll
  BY <1>6 DEF RunTasks
<1>7. CASE UNCHANGED vars
  BY <1>7 DEF vars
<1> QED BY <1>1, <1>2, <1>3, <1>4, <1>5, <1>6, <1>7 DEF Next

(* The listen thread, and every polling thread that Close waits for, is on *)
(* its way out and stays on it: in the middle of an accept, of a receive   *)
(* or of the report of a loss, it does not begin another.  Close then      *)
(* waits for a bounded number of steps of that thread, however many        *)
(* clients there are and however the peers behave. *)
THEOREM CloseWaitsBriefly == Spec => WaitsBriefly
<1> DEFINE All == IInv /\ JoinInv
<1>1. Init => All
  BY IInvInit DEF Init, JoinInv
<1>2. All /\ [Next]_vars => All'
  BY IInvStep, JoinInvStep DEF IInv
<1>3. ASSUME All, [Next]_vars, gpc = "joinListen", listen' # listen
      PROVE  ListenLeft(listen') < ListenLeft(listen)
  <2>1. isClosing
    BY <1>3 DEF IInv, CloseInv
  <2>2. CASE Listen
    <3>1. \/ listen = "turn" /\ listen' \in {"loop", "accepted"}
          \/ listen = "accepted" /\ listen' = "added"
          \/ listen = "added" /\ listen' = "loop"
          \/ listen = "loop" /\ listen' = "exited"
      BY <2>1, <2>2 DEF Listen, ListenTurn, NothingAccepted, AcceptClient, AddClient,
                        ReportConnected
    <3> QED BY <3>1 DEF ListenLeft
  <2>3. CASE JoinListen
    <3>1. listen = "exited" /\ listen' = "none"
      BY <1>3, <2>3 DEF JoinListen
    <3> QED BY <3>1 DEF ListenLeft
  <2>4. ~Listen /\ ~JoinListen => listen' = listen
    BY <1>3, OthersLeaveListen
  <2> QED BY <1>3, <2>2, <2>3, <2>4
<1>4. ASSUME All, [Next]_vars, NEW c \in joining, poll'[c] # poll[c]
      PROVE  PollLeft(poll'[c]) < PollLeft(poll[c])
  <2>1. /\ isClosing /\ clientClosing[c] /\ socket[c] # "open" /\ listen = "none"
        /\ c \in Clients
        /\ poll \in [Clients -> {"none", "loop", "wait", "lost", "dropped",
                                 "erase", "erased", "exited"}]
    BY <1>4 DEF JoinInv, IInv, CloseInv, TypeInv, ServerInv, ServerTypeOK
  <2>2. Poll(c)
    BY <1>4, <2>1, OthersLeavePoll
  <2>3. \/ poll[c] = "loop" /\ poll'[c] = "exited"
        \/ poll[c] = "wait" /\ poll'[c] \in {"loop", "exited"}
        \/ poll[c] = "lost" /\ poll'[c] = "dropped"
        \/ poll[c] = "dropped" /\ poll'[c] = "exited"
        \/ poll[c] = "erase" /\ poll'[c] \in {"erased", "exited"}
        \/ poll[c] = "erased" /\ poll'[c] = "exited"
    <3> USE <2>1 DEF PollGoesTo, GiveUp
    <3>1. CASE PollTurn(c)
      BY <3>1 DEF PollTurn
    <3>2. CASE PollNothing(c) \/ PollData(c) \/ PollEmpty(c) \/ PollError(c)
      BY <3>2 DEF PollNothing, PollData, PollEmpty, PollError
    <3>3. CASE PollCloses(c) \/ PollTellsServer(c)
      BY <3>3 DEF PollCloses, PollTellsServer
    <3>4. CASE RemoveClient(c) \/ ReportDisconnected(c)
      BY <3>4 DEF RemoveClient, ReportDisconnected
    <3> QED BY <2>2, <3>1, <3>2, <3>3, <3>4 DEF Poll
  <2> QED BY <2>3 DEF PollLeft
<1>5. ASSUME All, [Next]_vars
      PROVE  [/\ gpc = "joinListen" /\ listen' # listen => ListenLeft(listen') < ListenLeft(listen)
              /\ \A c \in joining :
                    poll'[c] # poll[c] => PollLeft(poll'[c]) < PollLeft(poll[c])]_vars
  BY <1>3, <1>4, <1>5
<1> QED BY <1>1, <1>2, <1>5, PTL DEF Spec, WaitsBriefly

-----------------------------------------------------------------------------
(* The events on their way from the threads to the user.                   *)

(* A peer that has not been accepted is known to nobody. *)
NewPeerInv ==
    \A c \in Clients :
        peer[c] \in {"absent", "backlog"} =>
            poll[c] = "none" /\ c \notin connectedSockets /\ c \notin accepting

(* The events of client c that its executor still has to execute. *)
Waiting(c, kind) ==
    {i \in DOMAIN tasks[Executor(c)] :
        tasks[Executor(c)][i].kind = kind /\ tasks[Executor(c)][i].client = c}

(* Data and losses of a client are executed by one executor; its thread    *)
(* raises the loss last, and then has ended.                               *)
LossInv ==
    /\ \A e \in Executors : \A i \in DOMAIN tasks[e] :
          tasks[e][i].kind # "connected" => Executor(tasks[e][i].client) = e
    /\ \A c \in Clients :
          /\ poll[c] # "exited" => Waiting(c, "disconnected") = {} /\ Heard(c, "disconnected") = {}
          /\ \A i \in Waiting(c, "disconnected") : \A j \in Waiting(c, "data") : j < i
          /\ Heard(c, "disconnected") # {} => Waiting(c, "data") = {}
    /\ LossIsLast

(* Appending keeps the elements and their order. *)
LEMMA Appended ==
    ASSUME NEW S, NEW s \in Seq(S), NEW x \in S
    PROVE  /\ DOMAIN Append(s, x) = 1 .. Len(s) + 1
           /\ DOMAIN s = 1 .. Len(s) /\ Len(s) \in Nat
           /\ \A i \in DOMAIN s : Append(s, x)[i] = s[i]
           /\ Append(s, x)[Len(s) + 1] = x
           /\ Len(Append(s, x)) = Len(s) + 1
  OBVIOUS

(* Dropping the first element keeps the rest in its order. *)
LEMMA Dropped ==
    ASSUME NEW S, NEW s \in Seq(S), s # <<>>
    PROVE  /\ DOMAIN Tail(s) = 1 .. Len(s) - 1
           /\ DOMAIN s = 1 .. Len(s) /\ Len(s) \in Nat /\ Len(s) > 0
           /\ \A i \in DOMAIN Tail(s) : i + 1 \in DOMAIN s /\ Tail(s)[i] = s[i + 1]
           /\ Head(s) = s[1] /\ 1 \in DOMAIN s
  OBVIOUS

(* Which steps change the manager's state. *)
LEMMA StepKinds ==
    ASSUME [Next]_vars
    PROVE  \/ UNCHANGED mvars
           \/ UserStarts \/ UserCloses
           \/ \E e \in Executors : RunTasks(e)
           \/ \E c \in Clients : \/ ReportConnected(c) \/ ReportDisconnected(c)
                                 \/ (PollData(c) /\ Dispatch(c, "data", c))
<1>1. ASSUME NEW c \in Clients, PeerConnects(c) \/ PeerSends(c) \/ PeerLeaves(c)
      PROVE  UNCHANGED mvars
  BY <1>1 DEF PeerConnects, PeerSends, PeerLeaves
<1>2. CASE Listen
  <2>1. ListenTurn \/ NothingAccepted => UNCHANGED mvars
    BY DEF ListenTurn, NothingAccepted
  <2>2. \A c \in Clients : AcceptClient(c) \/ AddClient(c) => UNCHANGED mvars
    BY DEF AcceptClient, AddClient
  <2> QED BY <1>2, <2>1, <2>2 DEF Listen
<1>3. ASSUME NEW c \in Clients, Poll(c)
      PROVE  UNCHANGED mvars \/ ReportDisconnected(c) \/ (PollData(c) /\ Dispatch(c, "data", c))
  <2>1. PollTurn(c) \/ PollNothing(c) \/ PollEmpty(c) \/ PollError(c) \/ PollCloses(c)
           \/ PollTellsServer(c) \/ RemoveClient(c) => UNCHANGED mvars
    BY DEF PollTurn, PollNothing, PollEmpty, PollError, PollCloses, PollTellsServer, RemoveClient
  <2>2. PollData(c) => UNCHANGED mvars \/ Dispatch(c, "data", c)
    BY DEF PollData
  <2> QED BY <1>3, <2>1, <2>2 DEF Poll
<1>4. CloseStep => UNCHANGED mvars
  BY DEF CloseStep, BeginClose, JoinListen, TakeSockets, CloseListener, OpenListener,
         ShutdownClient, JoinClient
<1>5. CASE UNCHANGED vars
  BY <1>5 DEF vars
<1> QED BY <1>1, <1>2, <1>3, <1>4, <1>5 DEF Next

(* A client is polled, served or dealt with only after its accept. *)
LEMMA NewPeerStep ==
    ASSUME TypeInv, NewPeerInv, [Next]_vars
    PROVE  /\ NewPeerInv'
           /\ \A c \in Clients : poll[c] = "exited" => poll'[c] = "exited"
<1> USE DEF TypeInv, ServerInv, ServerTypeOK, NewPeerInv, svars, cvars, gvars, evars, PollGoesTo
<1> DEFINE Goal == NewPeerInv' /\ \A c \in Clients : poll[c] = "exited" => poll'[c] = "exited"
<1>1. ASSUME NEW c \in Clients, PeerConnects(c) \/ PeerSends(c) \/ PeerLeaves(c)
      PROVE  Goal
  BY <1>1 DEF PeerConnects, PeerSends, PeerLeaves
<1>2. CASE Listen
  <2>1. CASE ListenTurn \/ NothingAccepted
    BY <2>1 DEF ListenTurn, NothingAccepted
  <2>2. ASSUME NEW c \in Clients, AcceptClient(c) PROVE Goal
    BY <2>2 DEF AcceptClient
  <2>3. ASSUME NEW c \in Clients, AddClient(c) \/ ReportConnected(c) PROVE Goal
    BY <2>3 DEF AddClient, ReportConnected
  <2> QED BY <1>2, <2>1, <2>2, <2>3 DEF Listen
<1>3. ASSUME NEW c \in Clients, Poll(c) PROVE Goal
  <2>0. peer' = peer /\ poll[c] \notin {"none", "exited"}
    BY <1>3 DEF Poll, PollTurn, PollCloses, PollTellsServer, PollNothing, PollError,
       PollEmpty, PollData, RemoveClient, ReportDisconnected
  <2>1. \E pc : PollGoesTo(c, pc)
    BY <1>3 DEF Poll, PollTurn, PollCloses, PollTellsServer, PollNothing, PollError,
       PollEmpty, PollData, RemoveClient, ReportDisconnected, GiveUp
  <2>2. connectedSockets' \subseteq connectedSockets /\ accepting' = accepting
    BY <1>3 DEF Poll, PollTurn, PollCloses, PollTellsServer, PollNothing, PollError,
       PollEmpty, PollData, RemoveClient, ReportDisconnected
  <2> QED BY <2>0, <2>1, <2>2
<1>4. CASE UserStarts \/ UserCloses
  BY <1>4 DEF UserStarts, UserCloses
<1>5. CASE CloseStep
  <2>1. CASE BeginClose \/ JoinListen \/ TakeSockets \/ OpenListener
    BY <2>1 DEF BeginClose, JoinListen, TakeSockets, OpenListener
  <2>2. CASE CloseListener
    BY <2>2 DEF CloseListener
  <2>3. ASSUME NEW c \in Clients, ShutdownClient(c) \/ JoinClient(c) PROVE Goal
    BY <2>3 DEF ShutdownClient, JoinClient
  <2> QED BY <1>5, <2>1, <2>2, <2>3 DEF CloseStep
<1>6. ASSUME NEW e \in Executors, RunTasks(e) PROVE Goal
  BY <1>6 DEF RunTasks
<1>7. CASE UNCHANGED vars
  BY <1>7 DEF vars
<1> QED BY <1>1, <1>2, <1>3, <1>4, <1>5, <1>6, <1>7 DEF Next

(* Raising an event: the tasks of one executor grow by one at the end. *)
LEMMA DispatchAppends ==
    ASSUME TypeInv, NEW t \in Threads, NEW kind \in Kind, NEW c \in Clients,
           Dispatch(t, kind, c)
    PROVE  /\ UNCHANGED <<isEventWithGameThread, isDestorying, hasProtocol, connectedList,
                          inBroadcast, session, told>>
           /\ \A e \in Executors :
                 \/ tasks'[e] = tasks[e]
                 \/ /\ ~isDestorying /\ e = Executor(t)
                    /\ Len(tasks[e]) \in Nat /\ DOMAIN tasks[e] = 1 .. Len(tasks[e])
                    /\ DOMAIN tasks'[e] = 1 .. Len(tasks[e]) + 1
                    /\ \A i \in DOMAIN tasks[e] : tasks'[e][i] = tasks[e][i]
                    /\ tasks'[e][Len(tasks[e]) + 1] = [kind |-> kind, client |-> c]
<1> DEFINE task == [kind |-> kind, client |-> c]
<1>1. task \in Task
  BY DEF Task
<1>2. tasks \in [Executors -> Seq(Task)]
  BY DEF TypeInv, ManagerInv, ManagerTypeOK
<1>3. ASSUME NEW e \in Executors, tasks'[e] # tasks[e]
      PROVE  /\ ~isDestorying /\ e = Executor(t)
             /\ tasks'[e] = Append(tasks[e], task)
  BY <1>2, <1>3 DEF Dispatch
<1> HIDE DEF task
<1>4. ASSUME NEW e \in Executors, tasks'[e] # tasks[e]
      PROVE  /\ Len(tasks[e]) \in Nat /\ DOMAIN tasks[e] = 1 .. Len(tasks[e])
             /\ DOMAIN tasks'[e] = 1 .. Len(tasks[e]) + 1
             /\ \A i \in DOMAIN tasks[e] : tasks'[e][i] = tasks[e][i]
             /\ tasks'[e][Len(tasks[e]) + 1] = task
  <2>1. tasks[e] \in Seq(Task)
    BY <1>2
  <2> QED BY <1>1, <1>3, <1>4, <2>1, Appended
<1> QED BY <1>3, <1>4 DEF Dispatch, task

(* Executing an event: a task leaves its queue at the head. *)
LEMMA ExecuteDrops ==
    ASSUME TypeInv, NEW e \in Executors, DropTask(e) \/ Broadcast(e)
    PROVE  /\ UNCHANGED <<isEventWithGameThread, isDestorying, hasProtocol, connectedList, session>>
           /\ \A d \in Executors \ {e} : tasks'[d] = tasks[d]
           /\ Len(tasks[e]) \in Nat /\ DOMAIN tasks[e] = 1 .. Len(tasks[e])
           /\ 1 \in DOMAIN tasks[e] /\ Head(tasks[e]) = tasks[e][1]
           /\ DOMAIN tasks'[e] = 1 .. Len(tasks[e]) - 1
           /\ \A i \in DOMAIN tasks'[e] : /\ i + 1 \in DOMAIN tasks[e]
                                          /\ tasks'[e][i] = tasks[e][i + 1]
           /\ Head(tasks[e]) \in Task
<1>1. tasks \in [Executors -> Seq(Task)] /\ TaskInHand
  BY DEF TypeInv, ManagerInv, ManagerTypeOK
<1>2. tasks[e] # <<>> /\ tasks[e] \in Seq(Task)
  BY <1>1 DEF DropTask, Broadcast, Due, TaskInHand
<1>3. tasks' = [tasks EXCEPT ![e] = Tail(@)]
  BY DEF DropTask, Broadcast
<1>4. tasks'[e] = Tail(tasks[e]) /\ \A d \in Executors \ {e} : tasks'[d] = tasks[d]
  BY <1>1, <1>3
<1>5. Head(tasks[e]) \in Task
  BY <1>2
<1>6. UNCHANGED <<isEventWithGameThread, isDestorying, hasProtocol, connectedList, session>>
  BY DEF DropTask, Broadcast
<1> QED BY <1>2, <1>4, <1>5, <1>6, Dropped

(* The user's delegates get the task at the head. *)
LEMMA BroadcastTells ==
    ASSUME TypeInv, NEW e \in Executors, Broadcast(e)
    PROVE  \E c \in Clients, kind \in Kind, n \in Nat :
              /\ c = tasks[e][1].client /\ kind = tasks[e][1].kind
              /\ \A b \in Clients \ {c} : told'[b] = told[b]
              /\ DOMAIN told[c] = 1 .. n /\ DOMAIN told'[c] = 1 .. n + 1
              /\ Len(told'[c]) = n + 1
              /\ \A i \in DOMAIN told[c] : told'[c][i] = told[c][i]
              /\ told'[c][n + 1].kind = kind /\ told'[c][n + 1].toldIn = session
<1>1. tasks[e][1] \in Task /\ Head(tasks[e]) = tasks[e][1]
  BY ExecuteDrops
<1>2. PICK c \in Clients, kind \in Kind : c = tasks[e][1].client /\ kind = tasks[e][1].kind
  BY <1>1 DEF Task
<1> DEFINE m == [kind |-> kind, toldIn |-> session]
<1>3. m \in Notification /\ m.kind = kind /\ m.toldIn = session
  BY DEF Notification, TypeInv, ManagerInv, ManagerTypeOK
<1>4. told \in [Clients -> Seq(Notification)]
  BY DEF TypeInv, ManagerInv, ManagerTypeOK
<1>5. told' = [told EXCEPT ![c] = Append(@, m)]
  BY <1>1, <1>2 DEF Broadcast
<1> HIDE DEF m
<1>6. told'[c] = Append(told[c], m) /\ told[c] \in Seq(Notification)
  BY <1>4, <1>5
<1>7. \A b \in Clients \ {c} : told'[b] = told[b]
  BY <1>4, <1>5
<1>8. PICK n \in Nat : /\ DOMAIN told[c] = 1 .. n /\ DOMAIN told'[c] = 1 .. n + 1
                       /\ Len(told'[c]) = n + 1
                       /\ \A i \in DOMAIN told[c] : told'[c][i] = told[c][i]
                       /\ told'[c][n + 1] = m
  <2>1. /\ Len(told[c]) \in Nat /\ DOMAIN told[c] = 1 .. Len(told[c])
        /\ DOMAIN told'[c] = 1 .. Len(told[c]) + 1 /\ Len(told'[c]) = Len(told[c]) + 1
        /\ \A i \in DOMAIN told[c] : told'[c][i] = told[c][i]
        /\ told'[c][Len(told[c]) + 1] = m
    BY <1>3, <1>6, Appended
  <2> QED BY <2>1
<1>9. told'[c][n + 1].kind = kind /\ told'[c][n + 1].toldIn = session
  BY <1>3, <1>8
<1> QED BY <1>2, <1>7, <1>8, <1>9

(* An event that is raised comes after all that wait for the same executor. *)
LEMMA WaitingGrows ==
    ASSUME TypeInv, NEW t \in Threads, NEW kind \in Kind, NEW c \in Clients,
           Dispatch(t, kind, c), NEW d \in Clients, NEW k \in Kind, NEW i \in Waiting(d, k)'
    PROVE  \/ i \in Waiting(d, k)
           \/ /\ k = kind /\ d = c /\ ~isDestorying
              /\ \A l \in Kind : \A j \in Waiting(d, l) : j < i
<1> DEFINE f == Executor(d)
           n == Len(tasks[f])
<1>0. isEventWithGameThread' = isEventWithGameThread
  BY DEF Dispatch
<1>1. f \in Executors /\ Executor(d)' = f
  BY <1>0, ServerAssumption DEF Executor, Executors
<1>2. i \in DOMAIN tasks'[f] /\ tasks'[f][i].kind = k /\ tasks'[f][i].client = d
  BY <1>1 DEF Waiting
<1>3. CASE tasks'[f] = tasks[f]
  BY <1>1, <1>2, <1>3 DEF Waiting
<1>4. CASE tasks'[f] # tasks[f]
  <2> HIDE DEF f
  <2>1. /\ ~isDestorying /\ n \in Nat /\ DOMAIN tasks[f] = 1 .. n
        /\ DOMAIN tasks'[f] = 1 .. n + 1
        /\ \A j \in DOMAIN tasks[f] : tasks'[f][j] = tasks[f][j]
        /\ tasks'[f][n + 1] = [kind |-> kind, client |-> c]
    BY <1>1, <1>4, DispatchAppends
  <2>2. CASE i = n + 1
    BY <1>2, <2>1, <2>2 DEF Waiting, f
  <2>3. CASE i # n + 1
    <3>1. i \in DOMAIN tasks[f]
      BY <1>2, <2>1, <2>3
    <3> QED BY <1>2, <2>1, <3>1 DEF Waiting, f
  <2> QED BY <2>2, <2>3
<1> QED BY <1>3, <1>4

(* Executing an event leaves the others waiting, in the same order. *)
LEMMA WaitingShrinks ==
    ASSUME TypeInv, NEW e \in Executors, DropTask(e) \/ Broadcast(e), NEW d \in Clients
    PROVE  \/ \A k \in Kind : Waiting(d, k)' = Waiting(d, k)
           \/ /\ e = Executor(d)
              /\ \A k \in Kind : \A i \in Waiting(d, k)' : i \in Nat \ {0} /\ i + 1 \in Waiting(d, k)
<1> DEFINE f == Executor(d)
<1>1. f \in Executors /\ Executor(d)' = f
  BY ServerAssumption, ExecuteDrops DEF Executor, Executors
<1>2. CASE f # e
  <2>1. tasks'[f] = tasks[f]
    BY <1>1, <1>2, ExecuteDrops
  <2> QED BY <1>1, <2>1 DEF Waiting
<1>3. CASE f = e
  <2> SUFFICES ASSUME NEW k \in Kind, NEW i \in Waiting(d, k)'
               PROVE  i \in Nat \ {0} /\ i + 1 \in Waiting(d, k)
    BY <1>3
  <2>1. i \in DOMAIN tasks'[e] /\ tasks'[e][i].kind = k /\ tasks'[e][i].client = d
    BY <1>1, <1>3 DEF Waiting
  <2>2. /\ Len(tasks[e]) \in Nat /\ DOMAIN tasks'[e] = 1 .. Len(tasks[e]) - 1
        /\ i + 1 \in DOMAIN tasks[e] /\ tasks'[e][i] = tasks[e][i + 1]
    BY <2>1, ExecuteDrops
  <2> QED BY <1>3, <2>1, <2>2 DEF Waiting
<1> QED BY <1>2, <1>3

(* What the user has heard of a client grows by the event that is told. *)
LEMMA HeardGrows ==
    ASSUME TypeInv, NEW e \in Executors, Broadcast(e), NEW d \in Clients, NEW k \in Kind
    PROVE  \/ Heard(d, k)' = Heard(d, k)
           \/ /\ d = tasks[e][1].client /\ k = tasks[e][1].kind
              /\ \E m \in Nat : /\ Heard(d, k)' = Heard(d, k) \cup {m}
                                /\ \A l \in Kind : \A j \in Heard(d, l) : j < m
<1>1. PICK c \in Clients, kind \in Kind, n \in Nat :
        /\ c = tasks[e][1].client /\ kind = tasks[e][1].kind
        /\ \A b \in Clients \ {c} : told'[b] = told[b]
        /\ DOMAIN told[c] = 1 .. n /\ DOMAIN told'[c] = 1 .. n + 1
        /\ \A i \in DOMAIN told[c] : told'[c][i] = told[c][i]
        /\ told'[c][n + 1].kind = kind
  BY BroadcastTells
<1>2. CASE d # c
  BY <1>1, <1>2 DEF Heard
<1>3. CASE d = c
  <2>1. \A i \in 1 .. n : i \in Heard(d, k)' <=> i \in Heard(d, k)
    BY <1>1, <1>3 DEF Heard
  <2>2. n + 1 \in Heard(d, k)' <=> k = kind
    BY <1>1, <1>3 DEF Heard
  <2>3. Heard(d, k)' \subseteq 1 .. n + 1 /\ Heard(d, k) \subseteq 1 .. n
    BY <1>1, <1>3 DEF Heard
  <2>4. \A l \in Kind : \A j \in Heard(d, l) : j < n + 1
    BY <1>1, <1>3 DEF Heard
  <2>5. 1 .. n + 1 = (1 .. n) \cup {n + 1} /\ n + 1 \notin 1 .. n
    OBVIOUS
  <2>6. CASE k = kind
    <3>1. Heard(d, k)' = Heard(d, k) \cup {n + 1}
      BY <2>1, <2>2, <2>3, <2>5, <2>6
    <3> QED BY <1>1, <1>3, <2>4, <2>6, <3>1
  <2>7. CASE k # kind
    <3>1. Heard(d, k)' = Heard(d, k)
      BY <2>1, <2>2, <2>3, <2>5, <2>7
    <3> QED BY <3>1
  <2> QED BY <2>6, <2>7
<1> QED BY <1>2, <1>3

-----------------------------------------------------------------------------
(* Data and losses.                                                        *)

(* No step of any thread lets the user hear data after a loss. *)
LEMMA LossStep ==
    ASSUME TypeInv, NewPeerInv, LossInv, [Next]_vars
    PROVE  LossInv'
<1>0. /\ \A c \in Clients : poll[c] = "exited" => poll'[c] = "exited"
      /\ \A t \in Threads : t \in Executors /\ Executor(t) \in Executors
      /\ Listener \in Threads /\ Clients \subseteq Threads
      /\ Kind = {"connected", "disconnected", "data"}
  BY NewPeerStep, ServerAssumption DEF Executor, Executors, Kind
<1>1. ASSUME UNCHANGED <<isEventWithGameThread, tasks, told>> PROVE LossInv'
  BY <1>0, <1>1 DEF LossInv, LossIsLast, Heard, Executor, Waiting
<1>2. ASSUME NEW t \in Threads, NEW kind \in Kind, NEW c \in Clients, Dispatch(t, kind, c),
             kind # "connected" => t = c,
             kind = "data" => poll[c] # "exited",
             kind = "disconnected" => poll'[c] = "exited"
      PROVE  LossInv'
  <2>1. UNCHANGED <<isEventWithGameThread, told>>
    BY <1>2 DEF Dispatch
  <2>2. \A d \in Clients : \A k \in Kind : Heard(d, k)' = Heard(d, k)
    BY <2>1 DEF Heard
  <2>3. LossIsLast'
    BY <2>2, <1>0 DEF LossInv, LossIsLast
  <2>4. ASSUME NEW e \in Executors, NEW i \in DOMAIN tasks'[e], tasks'[e][i].kind # "connected"
        PROVE  Executor(tasks[e][i].client)' = e
    <3>1. Executor(tasks[e][i].client)' = IF isEventWithGameThread THEN Game ELSE tasks'[e][i].client
      BY <2>1 DEF Executor
    <3>2. CASE i \in DOMAIN tasks[e] /\ tasks'[e][i] = tasks[e][i]
      BY <2>4, <3>1, <3>2 DEF LossInv, Executor
    <3>3. CASE e = Executor(t) /\ tasks'[e][i] = [kind |-> kind, client |-> c]
      BY <1>2, <2>4, <3>1, <3>3 DEF Executor
    <3> QED BY <1>2, <3>2, <3>3, DispatchAppends
  <2>5. ASSUME NEW d \in Clients, NEW k \in Kind, NEW i \in Waiting(d, k)'
        PROVE  \/ i \in Waiting(d, k)
               \/ /\ k = kind /\ d = c
                  /\ \A l \in Kind : \A j \in Waiting(d, l) : j < i
    BY <1>2, <2>5, WaitingGrows
  <2>6. ASSUME NEW d \in Clients, poll'[d] # "exited"
        PROVE  Waiting(d, "disconnected")' = {} /\ Heard(d, "disconnected")' = {}
    BY <1>0, <1>2, <2>2, <2>5, <2>6 DEF LossInv
  <2>7. ASSUME NEW d \in Clients, NEW i \in Waiting(d, "disconnected")', NEW j \in Waiting(d, "data")'
        PROVE  j < i
    <3>1. j \in Waiting(d, "data")
      BY <1>0, <1>2, <2>5, <2>6 DEF LossInv
    <3>2. CASE i \in Waiting(d, "disconnected")
      BY <3>1, <3>2 DEF LossInv
    <3> QED BY <1>0, <2>5, <3>1, <3>2
  <2>8. ASSUME NEW d \in Clients, Heard(d, "disconnected")' # {}
        PROVE  Waiting(d, "data")' = {}
    BY <1>0, <1>2, <2>2, <2>5, <2>8 DEF LossInv
  <2> QED BY <2>3, <2>4, <2>6, <2>7, <2>8 DEF LossInv
<1>3. ASSUME NEW e \in Executors, DropTask(e) \/ Broadcast(e), poll' = poll PROVE LossInv'
  <2>1. isEventWithGameThread' = isEventWithGameThread
    BY <1>3, ExecuteDrops
  <2>2. ASSUME NEW f \in Executors, NEW i \in DOMAIN tasks'[f], tasks'[f][i].kind # "connected"
        PROVE  Executor(tasks[f][i].client)' = f
    <3>1. \E j \in DOMAIN tasks[f] : tasks'[f][i] = tasks[f][j]
      BY <1>3, <2>2, ExecuteDrops
    <3> QED BY <2>1, <2>2, <3>1 DEF LossInv, Executor
  <2>3. ASSUME NEW d \in Clients
        PROVE  \/ \A k \in Kind : Waiting(d, k)' = Waiting(d, k)
               \/ /\ e = Executor(d)
                  /\ \A k \in Kind : \A i \in Waiting(d, k)' :
                        i \in Nat \ {0} /\ i + 1 \in Waiting(d, k)
    BY <1>3, WaitingShrinks
  <2>4. ASSUME NEW d \in Clients, NEW i \in Waiting(d, "disconnected")', NEW j \in Waiting(d, "data")'
        PROVE  j < i
    <3>1. CASE i \in Waiting(d, "disconnected") /\ j \in Waiting(d, "data")
      BY <3>1 DEF LossInv
    <3>2. CASE /\ i \in Nat \ {0} /\ i + 1 \in Waiting(d, "disconnected")
               /\ j \in Nat \ {0} /\ j + 1 \in Waiting(d, "data")
      <4>1. j + 1 < i + 1
        BY <3>2 DEF LossInv
      <4> QED BY <3>2, <4>1
    <3> QED BY <1>0, <2>3, <3>1, <3>2
  <2>5. \A d \in Clients : \A k \in Kind : Waiting(d, k) = {} => Waiting(d, k)' = {}
    BY <2>3
  <2>6. CASE told' = told
    <3>1. \A d \in Clients : \A k \in Kind : Heard(d, k)' = Heard(d, k)
      BY <2>6 DEF Heard
    <3> QED BY <1>0, <1>3, <2>2, <2>4, <2>5, <3>1 DEF LossInv, LossIsLast
  <2>7. CASE Broadcast(e)
    <3>1. PICK c \in Clients, kind \in Kind :
            /\ c = tasks[e][1].client /\ kind = tasks[e][1].kind
            /\ 1 \in DOMAIN tasks[e]
      BY <2>7, BroadcastTells, ExecuteDrops
    <3>2. ASSUME NEW d \in Clients, NEW k \in Kind, Heard(d, k)' # Heard(d, k)
          PROVE  /\ d = c /\ k = kind
                 /\ \E m \in Nat : /\ Heard(d, k)' = Heard(d, k) \cup {m}
                                   /\ \A l \in Kind : \A j \in Heard(d, l) : j < m
      BY <2>7, <3>1, <3>2, HeardGrows
    <3>3. kind # "connected" => e = Executor(c) /\ 1 \in Waiting(c, kind)
      BY <3>1 DEF LossInv, Waiting
    <3>4. ASSUME NEW d \in Clients, poll'[d] # "exited"
          PROVE  Waiting(d, "disconnected")' = {} /\ Heard(d, "disconnected")' = {}
      BY <1>0, <1>3, <2>5, <3>2, <3>3, <3>4 DEF LossInv
    <3>5. ASSUME kind = "disconnected" PROVE Waiting(c, "data")' = {}
      <4>1. \A j \in Waiting(c, "data") : j < 1
        BY <3>3, <3>5 DEF LossInv
      <4>2. \A j \in Waiting(c, "data")' : j \in Nat \ {0} /\ (j < 1 \/ j + 1 < 1)
        <5>1. Waiting(c, "data") \subseteq Nat \ {0}
          <6>1. DOMAIN tasks[e] \subseteq Nat \ {0}
            BY <1>3, ExecuteDrops
          <6> QED BY <3>3, <3>5, <6>1 DEF Waiting
        <5> QED BY <1>0, <2>3, <4>1, <5>1
      <4> QED BY <4>2
    <3>6. ASSUME NEW d \in Clients, Heard(d, "disconnected")' # {}
          PROVE  Waiting(d, "data")' = {}
      BY <1>0, <2>5, <3>2, <3>5, <3>6 DEF LossInv
    <3>7. ASSUME NEW d \in Clients, NEW i \in Heard(d, "disconnected")', NEW j \in Heard(d, "data")'
          PROVE  j < i
      <4>1. CASE Heard(d, "data")' # Heard(d, "data")
        <5>1. Heard(d, "disconnected")' = Heard(d, "disconnected") /\ Waiting(d, "data") # {}
          BY <1>0, <3>2, <3>3, <4>1
        <5> QED BY <3>7, <5>1 DEF LossInv
      <4>2. CASE Heard(d, "data")' = Heard(d, "data")
        <5>1. CASE i \in Heard(d, "disconnected")
          BY <4>2, <5>1 DEF LossInv, LossIsLast
        <5>2. CASE i \notin Heard(d, "disconnected")
          BY <1>0, <3>2, <3>7, <4>2, <5>2
        <5> QED BY <5>1, <5>2
      <4> QED BY <4>1, <4>2
    <3>8. LossIsLast'
      BY <3>7 DEF LossIsLast
    <3> QED BY <2>2, <2>4, <3>4, <3>6, <3>8 DEF LossInv
  <2>8. DropTask(e) => told' = told
    BY DEF DropTask
  <2> QED BY <1>3, <2>6, <2>7, <2>8
<1>4. ASSUME NEW c \in Clients, ReportConnected(c) PROVE LossInv'
  <2>1. Dispatch(Listener, "connected", c)
    BY <1>4 DEF ReportConnected
  <2> QED BY <1>0, <1>2, <2>1
<1>5. ASSUME NEW c \in Clients, ReportDisconnected(c) PROVE LossInv'
  <2>1. Dispatch(c, "disconnected", c) /\ poll'[c] = "exited"
    BY <1>5 DEF ReportDisconnected, PollGoesTo, TypeInv, ServerInv, ServerTypeOK
  <2> QED BY <1>0, <1>2, <2>1
<1>6. ASSUME NEW c \in Clients, PollData(c), Dispatch(c, "data", c) PROVE LossInv'
  <2>1. poll[c] # "exited"
    BY <1>6 DEF PollData
  <2> QED BY <1>0, <1>2, <1>6, <2>1
<1>7. ASSUME NEW e \in Executors, RunTasks(e) PROVE LossInv'
  <2>1. poll' = poll /\ (DropTask(e) \/ ApplyTask(e) \/ Broadcast(e))
    BY <1>7 DEF RunTasks, Execute, cvars
  <2>2. ApplyTask(e) => UNCHANGED <<isEventWithGameThread, tasks, told>>
    BY DEF ApplyTask
  <2> QED BY <1>1, <1>3, <2>1, <2>2
<1>8. CASE UserStarts \/ UserCloses
  BY <1>1, <1>8 DEF UserStarts, UserCloses, StartManager, CloseManager
<1>9. CASE UNCHANGED mvars
  BY <1>1, <1>9 DEF mvars
<1> QED BY <1>4, <1>5, <1>6, <1>7, <1>8, <1>9, StepKinds

(* Nothing has happened yet. *)
LEMMA LossInit == Init => NewPeerInv /\ LossInv
<1> SUFFICES ASSUME Init PROVE NewPeerInv /\ LossInv
  OBVIOUS
<1>1. tasks = [e \in Executors |-> <<>>] /\ told = [c \in Clients |-> <<>>]
  BY DEF Init, MInit
<1>2. \A c \in Clients : Executor(c) \in Executors
  BY ServerAssumption DEF Executor, Executors
<1>3. /\ \A c \in Clients : \A k \in Kind : Waiting(c, k) = {} /\ Heard(c, k) = {}
      /\ \A e \in Executors : DOMAIN tasks[e] = {}
  BY <1>1, <1>2 DEF Waiting, Heard
<1>4. LossInv
  BY <1>3 DEF LossInv, LossIsLast, Kind
<1>5. NewPeerInv
  BY DEF Init, NewPeerInv
<1> QED BY <1>4, <1>5

(* The user never hears data of a client whose disconnect it has heard:    *)
(* the polling thread raises the loss last, and whoever executes its       *)
(* events executes them in that order. *)
THEOREM LossComesLast == Spec => []LossIsLast
<1>1. TypeInv /\ NewPeerInv /\ LossInv /\ [Next]_vars => NewPeerInv' /\ LossInv'
  BY NewPeerStep, LossStep
<1>2. LossInv => LossIsLast
  BY DEF LossInv
<1> QED BY <1>1, <1>2, TypeInit, TypeStep, LossInit, PTL DEF Spec

-----------------------------------------------------------------------------
(* After Close.                                                            *)

(* The calls of the game thread and the flags they set. *)
CallInv ==
    /\ session = 0 => /\ ~hasProtocol /\ gpc = "idle" /\ listen = "none"
                      /\ \A c \in Clients : poll[c] = "none"
    /\ gpc = "open" => reopen
    /\ gpc # "idle" /\ reopen => ~isDestorying
    /\ ~hasProtocol => isDestorying \/ session = 0
    /\ isDestorying => Game \notin inBroadcast
    /\ isDestorying /\ gpc = "idle" => isClosing \/ session = 0

(* A thread that is not at the top of its loop has no event to execute,    *)
(* and one that has ended has nothing left but the loss it reported.       *)
QueueInv ==
    /\ isEventWithGameThread => \A t \in Threads : tasks[t] = <<>>
    /\ listen # "loop" => tasks[Listener] = <<>>
    /\ \A c \in Clients :
          /\ poll[c] \notin {"loop", "exited"} => tasks[c] = <<>>
          /\ poll[c] = "exited" => \A i \in DOMAIN tasks[c] : tasks[c][i].kind = "disconnected"

(* Start and Close set the flags in the order that the rest relies on. *)
LEMMA CallStep ==
    ASSUME TypeInv, CloseInv, CallInv, [Next]_vars
    PROVE  CallInv'
<1> USE DEF CallInv, svars, cvars, gvars, evars, PollGoesTo
<1>0. session \in Nat /\ poll \in [Clients -> {"none", "loop", "wait", "lost", "dropped",
                                              "erase", "erased", "exited"}]
  BY DEF TypeInv, ManagerInv, ManagerTypeOK, ServerInv, ServerTypeOK
<1>1. ASSUME NEW c \in Clients, PeerConnects(c) \/ PeerSends(c) \/ PeerLeaves(c)
      PROVE  CallInv'
  BY <1>1 DEF PeerConnects, PeerSends, PeerLeaves, mvars
<1>2. CASE Listen
  <2>1. CASE ListenTurn \/ NothingAccepted
    BY <2>1 DEF ListenTurn, NothingAccepted, mvars
  <2>2. ASSUME NEW c \in Clients, AcceptClient(c) PROVE CallInv'
    BY <2>2 DEF AcceptClient, mvars
  <2>3. ASSUME NEW c \in Clients, AddClient(c) \/ ReportConnected(c) PROVE CallInv'
    BY <2>3 DEF AddClient, ReportConnected, Dispatch, mvars
  <2> QED BY <1>2, <2>1, <2>2, <2>3 DEF Listen
<1>3. ASSUME NEW c \in Clients, Poll(c) PROVE CallInv'
  <2>1. /\ UNCHANGED <<isDestorying, hasProtocol, inBroadcast, session, gpc, reopen, isClosing, listen>>
        /\ poll[c] # "none"
    BY <1>3 DEF Poll, PollTurn, PollCloses, PollTellsServer, PollNothing, PollError, PollEmpty,
                PollData, RemoveClient, ReportDisconnected, Dispatch, mvars
  <2> QED BY <2>1
<1>4. CASE UserStarts
  BY <1>0, <1>4 DEF UserStarts, StartManager
<1>5. CASE UserCloses
  BY <1>0, <1>5 DEF UserCloses, CloseManager
<1>6. CASE CloseStep
  <2>1. CASE BeginClose \/ JoinListen \/ TakeSockets \/ OpenListener
    BY <2>1 DEF BeginClose, JoinListen, TakeSockets, OpenListener, mvars
  <2>2. CASE CloseListener
    BY <2>2 DEF CloseListener, CloseInv, mvars
  <2>3. ASSUME NEW c \in Clients, ShutdownClient(c) \/ JoinClient(c) PROVE CallInv'
    BY <2>3 DEF ShutdownClient, JoinClient, mvars
  <2> QED BY <1>6, <2>1, <2>2, <2>3 DEF CloseStep
<1>7. ASSUME NEW e \in Executors, RunTasks(e) PROVE CallInv'
  BY <1>7 DEF RunTasks, Execute, DropTask, ApplyTask, Broadcast, Due, Refused
<1>8. CASE UNCHANGED vars
  BY <1>8 DEF vars, mvars
<1> QED BY <1>1, <1>2, <1>3, <1>4, <1>5, <1>6, <1>7, <1>8 DEF Next

(* Where a thread is tells what may wait in its queue. *)
LEMMA QueueStep ==
    ASSUME TypeInv, NewPeerInv, QueueInv, [Next]_vars
    PROVE  QueueInv'
<1>0. /\ Listener \in Threads \ Clients /\ Threads = Clients \cup {Listener}
      /\ Threads \subseteq Executors /\ Game \notin Threads
      /\ Kind = {"connected", "disconnected", "data"}
      /\ poll \in [Clients -> {"none", "loop", "wait", "lost", "dropped",
                               "erase", "erased", "exited"}]
  BY ManagerAssumption, ServerAssumption DEF Executors, Kind, TypeInv, ServerInv, ServerTypeOK
<1>1. ASSUME UNCHANGED <<isEventWithGameThread, tasks>>,
             listen' = "loop" \/ listen' = listen \/ tasks[Listener] = <<>>,
             \A c \in Clients : poll'[c] = "loop" \/ poll'[c] = poll[c] \/ tasks[c] = <<>>
      PROVE  QueueInv'
  BY <1>1 DEF QueueInv
<1>2. ASSUME NEW t \in Threads, NEW kind \in Kind, NEW c \in Clients, Dispatch(t, kind, c),
             tasks[t] = <<>>,
             t = Listener => listen' = "loop" /\ poll' = poll,
             t = c => /\ listen' = listen
                      /\ poll'[c] = "loop" \/ (poll'[c] = "exited" /\ kind = "disconnected")
                      /\ \A d \in Clients \ {c} : poll'[d] = poll[d],
             t = Listener \/ t = c
      PROVE  QueueInv'
  <2>1. /\ UNCHANGED isEventWithGameThread
        /\ \A f \in Executors : \/ tasks'[f] = tasks[f]
                                \/ /\ f = Executor(t) /\ DOMAIN tasks'[f] = 1 .. Len(tasks[f]) + 1
                                   /\ tasks'[f][Len(tasks[f]) + 1] = [kind |-> kind, client |-> c]
    BY <1>2, DispatchAppends
  <2>2. CASE isEventWithGameThread
    <3>1. \A f \in Threads : tasks'[f] = <<>>
      BY <1>0, <2>1, <2>2 DEF QueueInv, Executor
    <3> QED BY <1>0, <2>1, <3>1 DEF QueueInv
  <2>3. CASE ~isEventWithGameThread
    <3>1. \A f \in Threads \ {t} : tasks'[f] = tasks[f]
      BY <1>0, <2>1, <2>3 DEF Executor
    <3>2. \A i \in DOMAIN tasks'[t] : tasks'[t][i].kind = kind
      <4>1. tasks'[t] = tasks[t] => DOMAIN tasks'[t] = {}
        BY <1>2
      <4>2. Len(tasks[t]) = 0
        BY <1>2
      <4>3. tasks'[t] # tasks[t] => DOMAIN tasks'[t] = {1} /\ tasks'[t][1].kind = kind
        BY <1>0, <2>1, <4>2
      <4> QED BY <4>1, <4>3
    <3>3. CASE t = Listener
      BY <1>0, <1>2, <2>1, <2>3, <3>1, <3>3 DEF QueueInv
    <3>4. CASE t = c
      BY <1>0, <1>2, <2>1, <2>3, <3>1, <3>2, <3>4 DEF QueueInv
    <3> QED BY <1>2, <3>3, <3>4
  <2> QED BY <2>2, <2>3
<1>3. ASSUME NEW e \in Executors, DropTask(e) \/ Broadcast(e), UNCHANGED <<poll, listen>>
      PROVE  QueueInv'
  <2>1. UNCHANGED isEventWithGameThread
    BY <1>3, ExecuteDrops
  <2>2. \A f \in Executors : \A i \in DOMAIN tasks'[f] :
           \E j \in DOMAIN tasks[f] : tasks'[f][i] = tasks[f][j]
    BY <1>3, ExecuteDrops
  <2>3. \A f \in Executors : tasks[f] = <<>> => tasks'[f] = <<>>
    BY <1>3, ExecuteDrops
  <2> QED BY <1>0, <1>3, <2>1, <2>2, <2>3 DEF QueueInv
<1>4. CASE UNCHANGED mvars
  <2>1. listen' = "loop" \/ listen' = listen \/ tasks[Listener] = <<>>
    <3>1. CASE UNCHANGED vars
      BY <3>1 DEF vars, svars
    <3>2. CASE Listen
      BY <3>2 DEF Listen, ListenTurn, NothingAccepted, AcceptClient, AddClient, ReportConnected,
                  Free, QueueInv
    <3>3. ASSUME NEW c \in Clients, Poll(c) PROVE listen' = listen
      BY <3>3 DEF Poll, PollTurn, PollNothing, PollData, PollEmpty, PollError, PollCloses,
                  PollTellsServer, RemoveClient, ReportDisconnected, svars
    <3>4. CASE CloseStep
      BY <3>4 DEF CloseStep, BeginClose, JoinListen, TakeSockets, CloseListener, OpenListener,
                  ShutdownClient, JoinClient, svars, QueueInv
    <3>5. CASE \/ UserStarts \/ UserCloses \/ \E e \in Executors : RunTasks(e)
               \/ \E c \in Clients : PeerConnects(c) \/ PeerSends(c) \/ PeerLeaves(c)
      BY <3>5 DEF UserStarts, UserCloses, RunTasks, PeerConnects, PeerSends, PeerLeaves, svars
    <3> QED BY <3>1, <3>2, <3>3, <3>4, <3>5 DEF Next
  <2>2. ASSUME NEW d \in Clients
        PROVE  poll'[d] = "loop" \/ poll'[d] = poll[d] \/ tasks[d] = <<>>
    <3>1. CASE UNCHANGED vars
      BY <3>1 DEF vars, cvars
    <3>2. CASE Listen
      BY <1>0, <3>2 DEF Listen, ListenTurn, NothingAccepted, AcceptClient, AddClient,
                        ReportConnected, cvars
    <3>3. ASSUME NEW c \in Clients, Poll(c) PROVE poll'[d] = poll[d] \/ tasks[d] = <<>>
      <4>1. \E pc : PollGoesTo(c, pc)
        BY <3>3 DEF Poll, PollTurn, PollNothing, PollData, PollEmpty, PollError, PollCloses,
                    PollTellsServer, RemoveClient, ReportDisconnected, GiveUp
      <4>2. tasks[c] = <<>>
        BY <3>3 DEF Poll, PollTurn, PollNothing, PollData, PollEmpty, PollError, PollCloses,
                    PollTellsServer, RemoveClient, ReportDisconnected, Free, QueueInv
      <4> QED BY <1>0, <4>1, <4>2 DEF PollGoesTo
    <3>4. CASE CloseStep
      BY <3>4 DEF CloseStep, BeginClose, JoinListen, TakeSockets, CloseListener, OpenListener,
                  ShutdownClient, JoinClient, cvars
    <3>5. CASE \/ UserStarts \/ UserCloses \/ \E e \in Executors : RunTasks(e)
               \/ \E c \in Clients : PeerConnects(c) \/ PeerSends(c) \/ PeerLeaves(c)
      BY <3>5 DEF UserStarts, UserCloses, RunTasks, PeerConnects, PeerSends, PeerLeaves, cvars
    <3> QED BY <3>1, <3>2, <3>3, <3>4, <3>5 DEF Next
  <2> QED BY <1>1, <1>4, <2>1, <2>2 DEF mvars
<1>5. ASSUME NEW c \in Clients, ReportConnected(c) PROVE QueueInv'
  <2>1. /\ Dispatch(Listener, "connected", c) /\ tasks[Listener] = <<>>
        /\ listen' = "loop" /\ poll' = poll
    BY <1>5 DEF ReportConnected, QueueInv, cvars
  <2> QED BY <1>0, <1>2, <2>1
<1>6. ASSUME NEW c \in Clients, ReportDisconnected(c) PROVE QueueInv'
  <2>1. /\ Dispatch(c, "disconnected", c) /\ tasks[c] = <<>>
        /\ listen' = listen /\ poll'[c] = "exited"
        /\ \A d \in Clients \ {c} : poll'[d] = poll[d]
    BY <1>0, <1>6 DEF ReportDisconnected, PollGoesTo, QueueInv, svars
  <2> QED BY <1>0, <1>2, <2>1
<1>7. ASSUME NEW c \in Clients, PollData(c), Dispatch(c, "data", c) PROVE QueueInv'
  <2>1. CASE UNCHANGED mvars
    BY <1>4, <2>1
  <2>2. CASE ~UNCHANGED mvars
    <3>1. /\ tasks[c] = <<>> /\ listen' = listen /\ poll'[c] = "loop"
          /\ \A d \in Clients \ {c} : poll'[d] = poll[d]
      BY <1>0, <1>7, <2>2 DEF PollData, PollGoesTo, QueueInv, svars
    <3> QED BY <1>0, <1>2, <1>7, <3>1
  <2> QED BY <2>1, <2>2
<1>8. ASSUME NEW e \in Executors, RunTasks(e) PROVE QueueInv'
  <2>1. UNCHANGED <<poll, listen>> /\ (DropTask(e) \/ ApplyTask(e) \/ Broadcast(e))
    BY <1>8 DEF RunTasks, Execute, svars, cvars
  <2>2. ApplyTask(e) => UNCHANGED <<isEventWithGameThread, tasks>>
    BY DEF ApplyTask
  <2> QED BY <1>1, <1>3, <2>1, <2>2
<1>9. CASE UserStarts \/ UserCloses
  <2>1. UNCHANGED <<isEventWithGameThread, tasks, poll, listen>>
    BY <1>9 DEF UserStarts, UserCloses, StartManager, CloseManager, svars, cvars
  <2> QED BY <1>1, <2>1
<1> QED BY <1>4, <1>5, <1>6, <1>7, <1>8, <1>9, StepKinds

(* Before the first Start no thread has anything to do. *)
LEMMA QueueInit == Init => CallInv /\ QueueInv
<1> SUFFICES ASSUME Init PROVE CallInv /\ QueueInv
  OBVIOUS
<1>1. tasks = [e \in Executors |-> <<>>] /\ Listener \in Executors /\ Clients \subseteq Executors
      /\ Threads \subseteq Executors
  BY ServerAssumption DEF Init, MInit, Executors
<1>2. QueueInv
  BY <1>1 DEF Init, QueueInv
<1>3. CallInv
  BY DEF Init, MInit, CallInv
<1> QED BY <1>2, <1>3

(* Between the end of Close and the next Start the user hears nothing, but *)
(* for the loss of a client whose polling thread had taken it out of       *)
(* ConnectedSockets before Close looked, and that only when the threads    *)
(* execute their own events. *)
THEOREM CloseSilences == Spec => SilentOnceClosed
<1> DEFINE All == IInv /\ NewPeerInv /\ CallInv /\ QueueInv
<1>1. Init => All
  BY IInvInit, LossInit, QueueInit
<1>2. All /\ [Next]_vars => All'
  BY IInvStep, NewPeerStep, CallStep, QueueStep DEF IInv
<1>3. ASSUME All, [Next]_vars
      PROVE  [isDestorying /\ gpc = "idle" =>
                \A c \in Clients : told'[c] # told[c] =>
                    /\ ~isEventWithGameThread
                    /\ told'[c][Len(told'[c])].kind = "disconnected"]_vars
  <2> SUFFICES ASSUME isDestorying, gpc = "idle", NEW c \in Clients, told'[c] # told[c]
               PROVE  /\ ~isEventWithGameThread
                      /\ told'[c][Len(told'[c])].kind = "disconnected"
    OBVIOUS
  <2>1. PICK e \in Executors : Broadcast(e)
    <3>1. \/ \E e \in Executors : RunTasks(e)
          \/ told' = told
      BY <1>3, StepKinds DEF mvars, UserStarts, UserCloses, StartManager, CloseManager,
                             ReportConnected, ReportDisconnected, Dispatch
    <3> QED BY <3>1 DEF RunTasks, Execute, DropTask, ApplyTask
  <2>2. e \in Threads /\ tasks[e] # <<>> /\ TypeInv
    BY <1>3, <2>1 DEF CallInv, Broadcast, Executors, IInv, TypeInv, ManagerInv, TaskInHand
  <2>3. ~isEventWithGameThread
    BY <1>3, <2>2 DEF QueueInv
  <2>4. isClosing \/ session = 0
    BY <1>3 DEF CallInv
  <2>5. listen = "none" /\ \A d \in Clients : poll[d] \in {"none", "exited", "erased"}
    BY <1>3, <2>4, IInvQuiet DEF CallInv, ClosedIsQuiet
  <2>6. e \in Clients /\ poll[e] = "exited"
    BY <1>3, <2>2, <2>5, ServerAssumption DEF QueueInv
  <2>7. tasks[e][1].kind = "disconnected"
    BY <1>3, <2>1, <2>2, <2>6, ExecuteDrops DEF QueueInv
  <2>8. told'[c][Len(told'[c])].kind = tasks[e][1].kind
    <3>1. c = tasks[e][1].client
      BY <2>1, <2>2, BroadcastTells
    <3> QED BY <2>1, <2>2, <3>1, BroadcastTells
  <2> QED BY <2>3, <2>7, <2>8
<1> QED BY <1>1, <1>2, <1>3, PTL DEF Spec, SilentOnceClosed

-----------------------------------------------------------------------------
(* ConnectedList and what the user heard.                                  *)

(* The clients whose last change the user heard of was a connect. *)
HeardList ==
    {c \in Clients : \E i \in Changes(c) : /\ \A j \in Changes(c) : j <= i
                                           /\ told[c][i].kind = "connected"}

Applied(task) ==
    IF task.kind = "connected" THEN HeardList \cup {task.client}
    ELSE IF task.kind = "disconnected" THEN HeardList \ {task.client}
    ELSE HeardList

(* ConnectedList runs ahead of what the user heard by the event in hand.   *)
ListInv ==
    /\ \A c \in Clients : \A i \in DOMAIN told[c] : told[c][i].toldIn <= session
    /\ isEventWithGameThread =>
          connectedList = IF Game \in inBroadcast THEN Applied(tasks[Game][1]) ELSE HeardList

(* A change of a client that the user hears of decides whether it is       *)
(* listed; data decides nothing. *)
LEMMA TellingApplies ==
    ASSUME TypeInv, ListInv, NEW e \in Executors, Broadcast(e)
    PROVE  /\ HeardList' = Applied(tasks[e][1])
           /\ \A c \in Clients : \A i \in DOMAIN told'[c] : told'[c][i].toldIn <= session
<1>1. PICK c \in Clients, kind \in Kind, n \in Nat :
        /\ c = tasks[e][1].client /\ kind = tasks[e][1].kind
        /\ \A b \in Clients \ {c} : told'[b] = told[b]
        /\ DOMAIN told[c] = 1 .. n /\ DOMAIN told'[c] = 1 .. n + 1
        /\ \A i \in DOMAIN told[c] : told'[c][i] = told[c][i]
        /\ told'[c][n + 1].kind = kind /\ told'[c][n + 1].toldIn = session
  BY BroadcastTells
<1>2. told'[c][n + 1].kind = kind /\ told'[c][n + 1].toldIn = session
  BY <1>1
<1>3. session' = session /\ session \in Nat
  BY DEF Broadcast, TypeInv, ManagerInv, ManagerTypeOK
<1>4. \A b \in Clients : \A i \in DOMAIN told'[b] : told'[b][i].toldIn <= session
  <2>1. \A i \in 1 .. n + 1 : i = n + 1 \/ i \in 1 .. n
    OBVIOUS
  <2>2. \A i \in DOMAIN told'[c] : told'[c][i].toldIn <= session
    BY <1>1, <1>2, <1>3, <2>1 DEF ListInv
  <2> QED BY <1>1, <2>2 DEF ListInv
<1>5. \A b \in Clients \ {c} : b \in HeardList' <=> b \in HeardList
  <2>1. \A b \in Clients \ {c} : Changes(b)' = Changes(b)
    BY <1>1, <1>3 DEF Changes
  <2> QED BY <1>1, <2>1 DEF HeardList
<1>6. Changes(c) \subseteq 1 .. n /\ Changes(c)' \subseteq 1 .. n + 1
  BY <1>1 DEF Changes
<1>7. \A i \in 1 .. n : i \in Changes(c)' <=> i \in Changes(c)
  BY <1>1, <1>3 DEF Changes
<1>8. n + 1 \in Changes(c)' <=> kind # "data"
  BY <1>1, <1>2, <1>3 DEF Changes
<1>9. CASE kind = "data"
  <2>1. Changes(c)' = Changes(c)
    <3>1. \A i \in 1 .. n + 1 : i = n + 1 \/ i \in 1 .. n
      OBVIOUS
    <3>2. n + 1 \notin 1 .. n
      OBVIOUS
    <3>3. Changes(c)' \subseteq 1 .. n
      BY <1>6, <1>8, <1>9, <3>1
    <3> QED BY <1>6, <1>7, <3>3
  <2>2. c \in HeardList' <=> c \in HeardList
    BY <1>1, <1>6, <2>1 DEF HeardList
  <2>3. HeardList' = HeardList
    BY <1>5, <2>2 DEF HeardList
  <2> QED BY <1>1, <1>4, <1>9, <2>3 DEF Applied
<1>10. CASE kind # "data"
  <2>1. \A i \in Changes(c)' : i <= n + 1
    BY <1>6
  <2>2. \A i \in Changes(c)' : (\A j \in Changes(c)' : j <= i) => i = n + 1
    BY <1>6, <1>8, <1>10
  <2>3. c \in HeardList' <=> kind = "connected"
    BY <1>2, <1>8, <1>10, <2>1, <2>2 DEF HeardList
  <2>4. HeardList' \subseteq Clients /\ HeardList \subseteq Clients
    BY DEF HeardList
  <2>5. HeardList' = IF kind = "connected" THEN HeardList \cup {c} ELSE HeardList \ {c}
    BY <1>5, <2>3, <2>4
  <2>6. kind = "connected" \/ kind = "disconnected"
    BY <1>1, <1>10 DEF Kind
  <2>7. Applied(tasks[e][1]) = IF kind = "connected" THEN HeardList \cup {c} ELSE HeardList \ {c}
    BY <1>1, <2>6 DEF Applied
  <2> QED BY <1>4, <2>5, <2>7
<1> QED BY <1>9, <1>10

(* No step lets ConnectedList and the user's events part. *)
LEMMA ListStep ==
    ASSUME TypeInv, QueueInv, ListInv, [Next]_vars
    PROVE  ListInv'
<1>0. /\ session \in Nat /\ Game \in Executors /\ Executors = Threads \cup {Game}
      /\ TaskInHand /\ inBroadcast \subseteq Executors
  BY DEF TypeInv, ManagerInv, ManagerTypeOK, Executors
<1>1. ASSUME UNCHANGED <<isEventWithGameThread, connectedList, inBroadcast, session, told>>,
             Game \in inBroadcast => tasks'[Game][1] = tasks[Game][1]
      PROVE  ListInv'
  <2>1. HeardList' = HeardList
    BY <1>1 DEF HeardList, Changes
  <2>2. Game \in inBroadcast => Applied(tasks[Game][1])' = Applied(tasks[Game][1])
    BY <1>1, <2>1 DEF Applied
  <2> QED BY <1>1, <2>1, <2>2 DEF ListInv
<1>2. ASSUME NEW t \in Threads, NEW kind \in Kind, NEW c \in Clients, Dispatch(t, kind, c)
      PROVE  ListInv'
  <2>1. UNCHANGED <<isEventWithGameThread, connectedList, inBroadcast, session, told>>
    BY <1>2 DEF Dispatch
  <2>2. Game \in inBroadcast => tasks'[Game][1] = tasks[Game][1]
    <3> SUFFICES ASSUME Game \in inBroadcast PROVE tasks'[Game][1] = tasks[Game][1]
      OBVIOUS
    <3>1. tasks[Game] # <<>> /\ tasks[Game] \in Seq(Task)
      BY <1>0 DEF TaskInHand, TypeInv, ManagerInv, ManagerTypeOK
    <3>2. 1 \in DOMAIN tasks[Game]
      BY <3>1
    <3> QED BY <1>0, <1>2, <3>2, DispatchAppends
  <2> QED BY <1>1, <2>1, <2>2
<1>3. ASSUME NEW e \in Executors, RunTasks(e) PROVE ListInv'
  <2>1. CASE DropTask(e)
    <3>1. e = Game => Game \notin inBroadcast
      BY <2>1 DEF DropTask, Due
    <3>2. UNCHANGED <<isEventWithGameThread, connectedList, inBroadcast, session, told>>
      BY <2>1 DEF DropTask
    <3>3. e # Game => tasks'[Game] = tasks[Game]
      BY <1>0, <2>1, ExecuteDrops
    <3> QED BY <1>1, <3>1, <3>2, <3>3
  <2>2. CASE ApplyTask(e)
    <3>1. UNCHANGED <<isEventWithGameThread, session, told, tasks>> /\ Game \in inBroadcast' <=>
             (Game \in inBroadcast \/ e = Game)
      BY <2>2 DEF ApplyTask
    <3>2. HeardList' = HeardList /\ Applied(tasks[e][1])' = Applied(tasks[e][1])
      BY <2>2 DEF HeardList, Changes, Applied, ApplyTask
    <3>3. CASE ~isEventWithGameThread
      BY <2>2, <3>3 DEF ListInv, ApplyTask
    <3>4. CASE isEventWithGameThread
      <4>1. tasks[e] # <<>> /\ e \notin inBroadcast
        BY <2>2 DEF ApplyTask, Due
      <4>2. e = Game
        BY <1>0, <3>4, <4>1 DEF QueueInv
      <4>3. connectedList = HeardList
        BY <3>4, <4>1, <4>2 DEF ListInv
      <4>4. tasks[e] \in Seq(Task) /\ Head(tasks[e]) = tasks[e][1]
        BY <4>1 DEF TypeInv, ManagerInv, ManagerTypeOK
      <4>5. connectedList' = Applied(tasks[e][1])
        BY <2>2, <4>3, <4>4 DEF ApplyTask, Applied
      <4>6. Game \in inBroadcast'
        BY <2>2, <4>2 DEF ApplyTask
      <4>7. \A c \in Clients : \A i \in DOMAIN told'[c] : told'[c][i].toldIn <= session'
        BY <2>2 DEF ListInv, ApplyTask
      <4> QED BY <3>2, <4>2, <4>5, <4>6, <4>7 DEF ListInv
    <3> QED BY <3>3, <3>4
  <2>3. CASE Broadcast(e)
    <3>1. /\ UNCHANGED <<isEventWithGameThread, connectedList, session>>
          /\ inBroadcast' = inBroadcast \ {e} /\ e \in inBroadcast
      BY <2>3 DEF Broadcast
    <3>2. /\ HeardList' = Applied(tasks[e][1])
          /\ \A c \in Clients : \A i \in DOMAIN told'[c] : told'[c][i].toldIn <= session
      BY <2>3, TellingApplies
    <3>3. isEventWithGameThread => e = Game
      BY <1>0, <3>1 DEF QueueInv, TaskInHand
    <3>4. isEventWithGameThread => connectedList' = HeardList' /\ Game \notin inBroadcast'
      BY <3>1, <3>2, <3>3 DEF ListInv
    <3> QED BY <3>1, <3>2, <3>4 DEF ListInv
  <2> QED BY <1>3, <2>1, <2>2, <2>3 DEF RunTasks, Execute
<1>4. CASE UserStarts
  <2>1. /\ UNCHANGED <<isEventWithGameThread, told, inBroadcast>> /\ Game \notin inBroadcast
        /\ session' = session + 1 /\ connectedList' = {}
    BY <1>4 DEF UserStarts, StartManager
  <2>2. told \in [Clients -> Seq(Notification)]
    BY DEF TypeInv, ManagerInv, ManagerTypeOK
  <2>3. \A c \in Clients : \A i \in DOMAIN told[c] :
           told[c][i].toldIn \in Nat /\ told[c][i].toldIn <= session
    <3>1. \A c \in Clients : \A i \in DOMAIN told[c] : told[c][i] \in Notification
      BY <2>2
    <3>2. \A n \in Notification : n.toldIn \in Nat
      BY DEF Notification
    <3> QED BY <3>1, <3>2 DEF ListInv
  <2>4. \A c \in Clients : Changes(c)' = {}
    BY <1>0, <2>1, <2>3 DEF Changes
  <2>5. HeardList' = {}
    BY <2>4 DEF HeardList
  <2>6. \A c \in Clients : \A i \in DOMAIN told'[c] : told'[c][i].toldIn <= session'
    BY <1>0, <2>1, <2>3
  <2> QED BY <2>1, <2>5, <2>6 DEF ListInv
<1>5. CASE UserCloses
  BY <1>1, <1>5 DEF UserCloses, CloseManager
<1>6. Listener \in Threads /\ Clients \subseteq Threads /\ Kind = {"connected", "disconnected", "data"}
  BY ServerAssumption DEF Kind
<1>7. ASSUME NEW c \in Clients, ReportConnected(c) \/ ReportDisconnected(c) \/ Dispatch(c, "data", c)
      PROVE  ListInv'
  BY <1>2, <1>6, <1>7 DEF ReportConnected, ReportDisconnected
<1>8. CASE UNCHANGED mvars
  BY <1>1, <1>8 DEF mvars
<1> QED BY <1>3, <1>4, <1>5, <1>7, <1>8, StepKinds

(* An empty sequence has no index. *)
LEMMA EmptyDomain == DOMAIN <<>> = {}
  OBVIOUS

(* The manager starts with an empty list and a user who heard nothing. *)
LEMMA ListInit == Init => ListInv
<1> SUFFICES ASSUME Init PROVE ListInv
  OBVIOUS
<1>1. \A c \in Clients : DOMAIN told[c] = {}
  <2>1. told = [c \in Clients |-> <<>>]
    BY DEF Init, MInit
  <2> QED BY <2>1, Zenon, EmptyDomain
<1>2. connectedList = {} /\ inBroadcast = {}
  BY DEF Init, MInit
<1>3. HeardList = {}
  BY <1>1 DEF HeardList, Changes
<1> QED BY <1>1, <1>2, <1>3 DEF ListInv

(* With the game thread executing the events, ConnectedList holds between  *)
(* two tasks exactly the clients whose last change since the last Start    *)
(* the user heard of was a connect. *)
THEOREM ListIsWhatWasHeard == Spec => []ListMatchesHeard
<1> DEFINE All == TypeInv /\ NewPeerInv /\ QueueInv /\ ListInv
<1>1. Init => All
  BY TypeInit, LossInit, QueueInit, ListInit
<1>2. All /\ [Next]_vars => All'
  BY TypeStep, NewPeerStep, QueueStep, ListStep
<1>3. All => ListMatchesHeard
  BY DEF ListInv, ListMatchesHeard, HeardList
<1> QED BY <1>1, <1>2, <1>3, PTL DEF Spec

-----------------------------------------------------------------------------
(* ConnectedList and ConnectedSockets.                                     *)

(* The connect of c has not been applied to ConnectedList yet. *)
ToBeAdded(c) == listen = "accepted" /\ c \in accepting

ToBeListed(c) ==
    \/ listen = "added" /\ c \in accepting
    \/ \E e \in Executors : \E i \in DOMAIN tasks[e] :
          /\ tasks[e][i].kind = "connected" /\ tasks[e][i].client = c
          /\ e \in inBroadcast => i # 1

ServedInv ==
    \A c \in Clients :
        /\ ToBeAdded(c) => c \notin connectedSockets
        /\ poll[c] = "erased" \/ Waiting(c, "disconnected") # {} =>
              c \notin connectedSockets /\ ~ToBeAdded(c)
        /\ gpc = "idle" /\ ~isDestorying /\ c \in connectedSockets =>
              ToBeListed(c) \/ c \in connectedList

(* An event that is raised moves none that waits. *)
LEMMA DispatchKeeps ==
    ASSUME TypeInv, NEW t \in Threads, NEW kind \in Kind, NEW c \in Clients,
           Dispatch(t, kind, c), NEW f \in Executors, NEW i \in DOMAIN tasks[f]
    PROVE  i \in DOMAIN tasks'[f] /\ tasks'[f][i] = tasks[f][i]
<1>1. CASE tasks'[f] = tasks[f]
  BY <1>1
<1>2. CASE tasks'[f] # tasks[f]
  <2>1. /\ Len(tasks[f]) \in Nat /\ DOMAIN tasks[f] = 1 .. Len(tasks[f])
        /\ DOMAIN tasks'[f] = 1 .. Len(tasks[f]) + 1
        /\ \A j \in DOMAIN tasks[f] : tasks'[f][j] = tasks[f][j]
    BY <1>2, DispatchAppends
  <2> QED BY <2>1
<1> QED BY <1>1, <1>2

(* Executing a task keeps what is still to be listed in the queue or puts  *)
(* it into ConnectedList, and takes out only clients that are not served.  *)
LEMMA ServedExecute ==
    ASSUME TypeInv, LossInv, ServedInv, NEW e \in Executors, Execute(e),
           UNCHANGED <<listen, accepting, connectedSockets, poll, gpc>>
    PROVE  ServedInv'
<1>0. /\ UNCHANGED <<isEventWithGameThread, isDestorying>>
      /\ \A c \in Clients : ToBeAdded(c)' = ToBeAdded(c)
      /\ Kind = {"connected", "disconnected", "data"}
  BY DEF Execute, DropTask, ApplyTask, Broadcast, ToBeAdded, Kind
<1>1. \A c \in Clients : Waiting(c, "disconnected") = {} => Waiting(c, "disconnected")' = {}
  <2>1. ApplyTask(e) => \A c \in Clients : Waiting(c, "disconnected")' = Waiting(c, "disconnected")
    BY DEF ApplyTask, Waiting, Executor
  <2>2. DropTask(e) \/ Broadcast(e) =>
           \A c \in Clients : Waiting(c, "disconnected") = {} => Waiting(c, "disconnected")' = {}
    BY <1>0, WaitingShrinks
  <2> QED BY <2>1, <2>2 DEF Execute
<1>2. ASSUME NEW c \in Clients, gpc = "idle", ~isDestorying, c \in connectedSockets
      PROVE  ToBeListed(c)' \/ c \in connectedList'
  <2>1. ToBeListed(c) \/ c \in connectedList
    BY <1>2 DEF ServedInv
  <2>2. CASE listen = "added" /\ c \in accepting
    BY <2>2 DEF ToBeListed
  <2>3. CASE ApplyTask(e)
    <3>1. tasks[e] # <<>> /\ tasks[e] \in Seq(Task) /\ tasks' = tasks
      BY <2>3 DEF ApplyTask, Due, TypeInv, ManagerInv, ManagerTypeOK
    <3>2. PICK task \in Task : task = tasks[e][1] /\ task = Head(tasks[e]) /\ 1 \in DOMAIN tasks[e]
      BY <3>1
    <3>3. /\ connectedList' = IF task.kind = "connected" THEN connectedList \cup {task.client}
                              ELSE IF task.kind = "disconnected" THEN connectedList \ {task.client}
                              ELSE connectedList
          /\ inBroadcast' = inBroadcast \cup {e}
      BY <2>3, <3>2 DEF ApplyTask
    <3>4. task.kind = "disconnected" => task.client # c
      <4> SUFFICES ASSUME task.kind = "disconnected", task.client = c PROVE FALSE
        OBVIOUS
      <4>1. Executor(c) = e
        BY <3>2 DEF LossInv
      <4>2. 1 \in Waiting(c, "disconnected")
        BY <3>2, <4>1 DEF Waiting
      <4> QED BY <1>2, <4>2 DEF ServedInv
    <3>5. CASE c \in connectedList
      BY <3>3, <3>4, <3>5
    <3>6. ASSUME NEW f \in Executors, NEW i \in DOMAIN tasks[f],
                 tasks[f][i].kind = "connected", tasks[f][i].client = c,
                 f \in inBroadcast => i # 1
          PROVE  ToBeListed(c)' \/ c \in connectedList'
      <4>1. CASE f = e /\ i = 1
        BY <3>2, <3>3, <3>6, <4>1
      <4>2. CASE ~(f = e /\ i = 1)
        <5>1. f \in inBroadcast' => i # 1
          BY <3>3, <3>6, <4>2
        <5>2. i \in DOMAIN tasks'[f] /\ tasks'[f][i].kind = "connected" /\ tasks'[f][i].client = c
          BY <3>1, <3>6
        <5> QED BY <5>1, <5>2 DEF ToBeListed
      <4> QED BY <4>1, <4>2
    <3> QED BY <2>1, <2>2, <3>5, <3>6 DEF ToBeListed
  <2>4. CASE Broadcast(e)
    <3>1. connectedList' = connectedList /\ inBroadcast' = inBroadcast \ {e} /\ e \in inBroadcast
      BY <2>4 DEF Broadcast
    <3>2. ASSUME NEW f \in Executors, NEW i \in DOMAIN tasks[f],
                 tasks[f][i].kind = "connected", tasks[f][i].client = c,
                 f \in inBroadcast => i # 1
          PROVE  ToBeListed(c)'
      <4>1. CASE f # e
        <5>1. tasks'[f] = tasks[f]
          BY <2>4, <4>1, ExecuteDrops
        <5> QED BY <3>1, <3>2, <5>1 DEF ToBeListed
      <4>2. CASE f = e
        <5>1. i # 1 /\ e \notin inBroadcast'
          BY <3>1, <3>2, <4>2
        <5>2. /\ Len(tasks[e]) \in Nat /\ DOMAIN tasks[e] = 1 .. Len(tasks[e])
              /\ DOMAIN tasks'[e] = 1 .. Len(tasks[e]) - 1
              /\ \A j \in DOMAIN tasks'[e] : tasks'[e][j] = tasks[e][j + 1]
          BY <2>4, ExecuteDrops
        <5>3. i - 1 \in DOMAIN tasks'[e] /\ (i - 1) + 1 = i
          BY <3>2, <4>2, <5>1, <5>2
        <5>4. tasks'[e][i - 1] = tasks[e][i]
          BY <5>2, <5>3
        <5> QED BY <3>2, <4>2, <5>1, <5>3, <5>4 DEF ToBeListed
      <4> QED BY <4>1, <4>2
    <3> QED BY <2>1, <2>2, <3>1, <3>2 DEF ToBeListed
  <2>5. ~DropTask(e)
    BY <1>2, <2>1 DEF DropTask, Refused
  <2> QED BY <2>3, <2>4, <2>5 DEF Execute
<1> QED BY <1>0, <1>1, <1>2 DEF ServedInv

(* No step of any thread makes the manager forget a client that is served. *)
LEMMA ServedStep ==
    ASSUME TypeInv, NewPeerInv, CloseInv, LossInv, ServedInv, [Next]_vars
    PROVE  ServedInv'
<1>0. /\ Listener \in Threads /\ Clients \subseteq Threads
      /\ Kind = {"connected", "disconnected", "data"}
      /\ poll \in [Clients -> {"none", "loop", "wait", "lost", "dropped",
                               "erase", "erased", "exited"}]
      /\ \A t \in Threads : Executor(t) \in Executors
  BY ServerAssumption DEF Kind, TypeInv, ServerInv, ServerTypeOK, Executor, Executors
<1>1. ASSUME UNCHANGED <<isEventWithGameThread, tasks, inBroadcast, connectedList>>
      PROVE  \A c \in Clients : /\ Waiting(c, "disconnected")' = Waiting(c, "disconnected")
                                /\ listen' = listen /\ accepting' = accepting =>
                                      ToBeListed(c)' = ToBeListed(c) /\ ToBeAdded(c)' = ToBeAdded(c)
  BY <1>1 DEF Waiting, Executor, ToBeListed, ToBeAdded
<1>2. ASSUME UNCHANGED <<mvars, listen, accepting, gpc>>,
             connectedSockets' \subseteq connectedSockets,
             \A c \in Clients : poll'[c] = "erased" /\ poll[c] # "erased" =>
                c \in connectedSockets /\ c \notin connectedSockets'
      PROVE  ServedInv'
  <2>1. UNCHANGED <<isEventWithGameThread, tasks, inBroadcast, connectedList, isDestorying>>
    BY <1>2 DEF mvars
  <2> QED BY <1>1, <1>2, <2>1 DEF ServedInv
<1>3. ASSUME NEW c \in Clients, PeerConnects(c) \/ PeerSends(c) \/ PeerLeaves(c)
      PROVE  ServedInv'
  BY <1>2, <1>3 DEF PeerConnects, PeerSends, PeerLeaves, svars, cvars, gvars
<1>4. CASE Listen
  <2>1. CASE ListenTurn \/ NothingAccepted
    <3>1. /\ UNCHANGED <<connectedSockets, accepting, poll, gpc>> /\ UNCHANGED mvars
          /\ listen \in {"loop", "turn"} /\ listen' \in {"loop", "turn", "exited"}
      BY <2>1 DEF ListenTurn, NothingAccepted, cvars, gvars
    <3>2. UNCHANGED <<isEventWithGameThread, tasks, inBroadcast, connectedList, isDestorying>>
      BY <3>1 DEF mvars
    <3>3. \A c \in Clients : ToBeListed(c)' = ToBeListed(c) /\ ~ToBeAdded(c)'
      BY <3>1, <3>2 DEF ToBeListed, ToBeAdded
    <3> QED BY <1>1, <3>1, <3>2, <3>3 DEF ServedInv
  <2>2. ASSUME NEW c \in Clients, AcceptClient(c) PROVE ServedInv'
    <3>1. /\ UNCHANGED <<connectedSockets, gpc>> /\ UNCHANGED mvars
          /\ listen = "turn" /\ listen' = "accepted" /\ accepting' = {c}
          /\ peer[c] = "backlog" /\ poll' = [poll EXCEPT ![c] = "loop"]
      BY <2>2 DEF AcceptClient, gvars
    <3>2. UNCHANGED <<isEventWithGameThread, tasks, inBroadcast, connectedList, isDestorying>>
      BY <3>1 DEF mvars
    <3>3. poll[c] = "none" /\ c \notin connectedSockets /\ Waiting(c, "disconnected") = {}
      BY <3>1 DEF NewPeerInv, LossInv
    <3>4. \A d \in Clients : /\ ToBeListed(d)' = ToBeListed(d)
                             /\ ToBeAdded(d)' <=> d = c
      BY <3>1, <3>2 DEF ToBeListed, ToBeAdded
    <3> QED BY <1>0, <1>1, <3>1, <3>2, <3>3, <3>4 DEF ServedInv
  <2>3. ASSUME NEW c \in Clients, AddClient(c) PROVE ServedInv'
    <3>1. /\ UNCHANGED <<accepting, poll, gpc>> /\ UNCHANGED mvars
          /\ listen = "accepted" /\ listen' = "added" /\ c \in accepting
          /\ connectedSockets' = connectedSockets \cup {c}
      BY <2>3 DEF AddClient, gvars, cvars
    <3>2. UNCHANGED <<isEventWithGameThread, tasks, inBroadcast, connectedList, isDestorying>>
      BY <3>1 DEF mvars
    <3>3. ToBeAdded(c) /\ ToBeListed(c)'
      BY <3>1 DEF ToBeAdded, ToBeListed
    <3>4. \A d \in Clients : ~ToBeAdded(d)' /\ (ToBeListed(d) => ToBeListed(d)')
      BY <3>1, <3>2 DEF ToBeListed, ToBeAdded
    <3> QED BY <1>1, <3>1, <3>2, <3>3, <3>4 DEF ServedInv
  <2>4. ASSUME NEW c \in Clients, ReportConnected(c) PROVE ServedInv'
    <3>1. /\ UNCHANGED <<connectedSockets, poll, gpc>> /\ Dispatch(Listener, "connected", c)
          /\ listen = "added" /\ listen' = "loop" /\ c \in accepting /\ accepting' = {}
      BY <2>4 DEF ReportConnected, gvars, cvars
    <3>2. UNCHANGED <<isEventWithGameThread, isDestorying, connectedList, inBroadcast>>
      BY <3>1 DEF Dispatch
    <3>3. \A d \in Clients : Waiting(d, "disconnected") = {} => Waiting(d, "disconnected")' = {}
      BY <1>0, <3>1, WaitingGrows
    <3>4. ASSUME NEW d \in Clients, ~isDestorying, ToBeListed(d) PROVE ToBeListed(d)'
      <4>1. CASE d = c
        <5> DEFINE f == Executor(Listener)
        <5>1. f \in Executors /\ tasks \in [Executors -> Seq(Task)]
          BY <1>0 DEF TypeInv, ManagerInv, ManagerTypeOK
        <5>2. tasks'[f] = Append(tasks[f], [kind |-> "connected", client |-> c])
          BY <3>1, <3>4, <5>1 DEF Dispatch
        <5> HIDE DEF f
        <5>3. PICK n \in Nat :
                /\ DOMAIN tasks[f] = 1 .. n /\ n + 1 \in DOMAIN tasks'[f]
                /\ tasks'[f][n + 1] = [kind |-> "connected", client |-> c]
          <6>1. [kind |-> "connected", client |-> c] \in Task
            BY <1>0 DEF Task
          <6>2. tasks[f] \in Seq(Task)
            BY <5>1
          <6> QED BY <5>2, <6>1, <6>2, Appended
        <5>4. f \in inBroadcast' => n + 1 # 1
          <6>1. f \in inBroadcast => tasks[f] # <<>> /\ tasks[f] \in Seq(Task)
            BY <5>1 DEF TypeInv, ManagerInv, TaskInHand
          <6> QED BY <3>2, <5>3, <6>1
        <5>5. tasks'[f][n + 1].kind = "connected" /\ tasks'[f][n + 1].client = c
          BY <5>3
        <5>6. PICK g \in Executors : g = f
          BY <5>1
        <5> QED BY <4>1, <5>3, <5>4, <5>5, <5>6 DEF ToBeListed
      <4>2. CASE d # c
        <5>1. ~(listen = "added" /\ d \in accepting)
          BY <3>1, <4>2 DEF CloseInv
        <5>2. PICK f \in Executors : \E i \in DOMAIN tasks[f] :
                 /\ tasks[f][i].kind = "connected" /\ tasks[f][i].client = d
                 /\ f \in inBroadcast => i # 1
          BY <3>4, <5>1 DEF ToBeListed
        <5>3. \A i \in DOMAIN tasks[f] : i \in DOMAIN tasks'[f] /\ tasks'[f][i] = tasks[f][i]
          BY <1>0, <3>1, DispatchKeeps
        <5> QED BY <3>2, <5>2, <5>3 DEF ToBeListed
      <4> QED BY <4>1, <4>2
    <3>5. \A d \in Clients : ~ToBeAdded(d)'
      BY <3>1 DEF ToBeAdded
    <3> QED BY <3>1, <3>2, <3>3, <3>4, <3>5 DEF ServedInv
  <2> QED BY <1>4, <2>1, <2>2, <2>3, <2>4 DEF Listen
<1>5. ASSUME NEW t \in Threads, NEW kind \in Kind, NEW c \in Clients, Dispatch(t, kind, c),
             UNCHANGED <<listen, accepting, connectedSockets, gpc>>,
             kind = "disconnected" => poll[c] = "erased",
             \A d \in Clients : poll'[d] = "erased" => poll[d] = "erased"
      PROVE  ServedInv'
  <2>1. UNCHANGED <<isEventWithGameThread, isDestorying, connectedList, inBroadcast>>
    BY <1>5 DEF Dispatch
  <2>2. \A d \in Clients : /\ Waiting(d, "disconnected")' # {} =>
                                 Waiting(d, "disconnected") # {} \/ poll[d] = "erased"
                           /\ ToBeAdded(d)' = ToBeAdded(d)
    BY <1>0, <1>5, WaitingGrows DEF ToBeAdded
  <2>3. ASSUME NEW d \in Clients, ToBeListed(d) PROVE ToBeListed(d)'
    <3>1. CASE listen = "added" /\ d \in accepting
      BY <1>5, <3>1 DEF ToBeListed
    <3>2. ASSUME NEW f \in Executors, NEW i \in DOMAIN tasks[f],
                 tasks[f][i].kind = "connected", tasks[f][i].client = d,
                 f \in inBroadcast => i # 1
          PROVE  ToBeListed(d)'
      <4>1. i \in DOMAIN tasks'[f] /\ tasks'[f][i] = tasks[f][i]
        BY <1>5, <3>2, DispatchKeeps
      <4> QED BY <2>1, <3>2, <4>1 DEF ToBeListed
    <3> QED BY <2>3, <3>1, <3>2 DEF ToBeListed
  <2> QED BY <1>5, <2>1, <2>2, <2>3 DEF ServedInv
<1>6. ASSUME NEW c \in Clients, Poll(c) PROVE ServedInv'
  <2>1. CASE PollTurn(c) \/ PollCloses(c) \/ PollTellsServer(c)
    BY <1>0, <1>2, <2>1 DEF PollTurn, PollCloses, PollTellsServer, PollGoesTo, svars, gvars
  <2>2. CASE PollNothing(c) \/ PollEmpty(c) \/ PollError(c)
    BY <1>0, <1>2, <2>2 DEF PollNothing, PollEmpty, PollError, GiveUp, PollGoesTo, svars, gvars
  <2>3. CASE RemoveClient(c)
    <3>1. /\ UNCHANGED <<mvars, listen, accepting, gpc>>
          /\ connectedSockets' = connectedSockets \ {c}
          /\ poll' = [poll EXCEPT ![c] = IF c \in connectedSockets THEN "erased" ELSE "exited"]
      BY <2>3 DEF RemoveClient, PollGoesTo, gvars
    <3> QED BY <1>0, <1>2, <3>1
  <2>4. CASE ReportDisconnected(c)
    <3>1. /\ Dispatch(c, "disconnected", c) /\ poll[c] = "erased"
          /\ poll' = [poll EXCEPT ![c] = "exited"]
          /\ UNCHANGED <<listen, accepting, connectedSockets, gpc>>
      BY <2>4 DEF ReportDisconnected, PollGoesTo, svars, gvars
    <3> QED BY <1>0, <1>5, <3>1
  <2>5. CASE PollData(c)
    <3>1. /\ UNCHANGED <<listen, accepting, connectedSockets, gpc>>
          /\ \A d \in Clients : poll'[d] = "erased" => poll[d] = "erased"
          /\ UNCHANGED mvars \/ Dispatch(c, "data", c)
      BY <1>0, <2>5 DEF PollData, PollGoesTo, svars, gvars
    <3> QED BY <1>0, <1>2, <1>5, <3>1
  <2> QED BY <1>6, <2>1, <2>2, <2>3, <2>4, <2>5 DEF Poll
<1>7. CASE UserStarts \/ UserCloses
  <2>1. /\ UNCHANGED <<isEventWithGameThread, tasks, inBroadcast>>
        /\ UNCHANGED <<listen, accepting, connectedSockets, poll>>
        /\ gpc' # "idle" \/ isDestorying'
    BY <1>7 DEF UserStarts, UserCloses, StartManager, CloseManager, svars, cvars
  <2>2. \A c \in Clients : /\ Waiting(c, "disconnected")' = Waiting(c, "disconnected")
                           /\ ToBeAdded(c)' = ToBeAdded(c)
    BY <2>1 DEF Waiting, Executor, ToBeAdded
  <2> QED BY <2>1, <2>2 DEF ServedInv
<1>8. CASE CloseStep
  <2>1. /\ UNCHANGED mvars /\ accepting' = accepting /\ gpc # "idle"
        /\ connectedSockets' \subseteq connectedSockets /\ poll' = poll
        /\ listen' = "accepted" => listen = "accepted"
        /\ gpc' = "idle" => connectedSockets' = {}
    <3>1. CASE BeginClose \/ JoinListen \/ TakeSockets
      BY <3>1 DEF BeginClose, JoinListen, TakeSockets, cvars
    <3>2. CASE CloseListener \/ OpenListener
      BY <3>2 DEF CloseListener, OpenListener, cvars, CloseInv
    <3>3. ASSUME NEW c \in Clients, ShutdownClient(c) \/ JoinClient(c)
          PROVE  /\ UNCHANGED <<mvars, svars, poll, gpc>> /\ gpc = "closeSockets"
      BY <3>3 DEF ShutdownClient, JoinClient, CloseInv
    <3> QED BY <1>8, <3>1, <3>2, <3>3 DEF CloseStep, svars
  <2>2. \A c \in Clients : /\ Waiting(c, "disconnected")' = Waiting(c, "disconnected")
                           /\ ToBeAdded(c)' => ToBeAdded(c)
    BY <2>1 DEF Waiting, Executor, ToBeAdded, mvars
  <2> QED BY <2>1, <2>2 DEF ServedInv
<1>9. ASSUME NEW e \in Executors, RunTasks(e) PROVE ServedInv'
  BY <1>9, ServedExecute DEF RunTasks, svars, cvars, gvars
<1>10. CASE UNCHANGED vars
  BY <1>2, <1>10 DEF vars, svars, cvars, gvars
<1> QED BY <1>3, <1>4, <1>6, <1>7, <1>8, <1>9, <1>10 DEF Next

(* Once the events on their way have been executed, every member of        *)
(* ConnectedSockets is a member of ConnectedList, although the listen      *)
(* thread and the polling threads report in any order: a connect that is   *)
(* reported after its loss adds a client that is not served, but never is  *)
(* one that is served left out. *)
THEOREM ServedClientsAreListed == Spec => []ServedIsListed
<1> DEFINE All == TypeInv /\ NewPeerInv /\ CloseInv /\ LossInv /\ ServedInv
<1>1. ASSUME Init PROVE ServedInv
  <2>1. poll = [c \in Clients |-> "none"] /\ listen = "none" /\ connectedSockets = {}
    BY <1>1 DEF Init
  <2>2. LossInv
    BY <1>1, LossInit
  <2>3. \A c \in Clients : Waiting(c, "disconnected") = {}
    BY <2>1, <2>2 DEF LossInv
  <2> QED BY <2>1, <2>3 DEF ServedInv, ToBeAdded
<1>2. Init => All
  BY <1>1, IInvInit, LossInit DEF IInv
<1>3. All /\ [Next]_vars => All'
  BY TypeStep, NewPeerStep, CloseInvStep, LossStep, ServedStep
<1>4. ASSUME All PROVE ServedIsListed
  <2> SUFFICES ASSUME Settled, ~isDestorying, NEW c \in connectedSockets PROVE c \in connectedList
    BY DEF ServedIsListed
  <2>1. c \in Clients
    BY <1>4 DEF TypeInv, ServerInv, ServerTypeOK
  <2>2. ~ToBeListed(c)
    BY EmptyDomain DEF Settled, ToBeListed
  <2> QED BY <1>4, <2>1, <2>2 DEF ServedInv, Settled
<1> QED BY <1>2, <1>3, <1>4, PTL DEF Spec
=============================================================================
