-------------------------- MODULE DelivererManager --------------------------
(***************************************************************************)
(* UObjectDelivererManager: the object a game talks to.  It passes the     *)
(* events that the threads of a protocol raise on to the user's delegates, *)
(* and keeps ConnectedList, the connections it has reported.               *)
(*                                                                         *)
(* With IsEventWithGameThread an event becomes a task of the game thread;  *)
(* otherwise the thread that raised it executes it.  Either way a task is  *)
(* executed in two steps: ConnectedList is changed under the lock, then    *)
(* the user's delegates are called without it.                             *)
(*                                                                         *)
(* The protocol is any set of threads raising any events.  TcpIpServer     *)
(* extends this module and says which events its threads raise.            *)
(***************************************************************************)
EXTENDS Naturals, Sequences

CONSTANTS
    Clients,              \* the connection objects a protocol may report
    Threads,              \* the threads of the protocol
    Game,                 \* the game thread
    EventModes,           \* the values IsEventWithGameThread may be created with
    MaxStarts             \* bound, per value of it: calls of Start in one behaviour

ASSUME ManagerAssumption ==
    /\ Game \notin Threads
    /\ EventModes \subseteq BOOLEAN
    /\ MaxStarts \in [BOOLEAN -> Nat]

Executors == Threads \cup {Game}

Kind == {"connected", "disconnected", "data"}

Task == [kind : Kind, client : Clients]

(* toldIn is a ghost: the Start (its number) after which the user heard.   *)
Notification == [kind : Kind, toldIn : Nat]

VARIABLES
    isEventWithGameThread,  \* IsEventWithGameThread: set when it is created
    isDestorying,   \* IsDestorying: set by Close, cleared by Start
    hasProtocol,    \* CurrentProtocolAtomic # nullptr
    connectedList,  \* ConnectedList
    tasks,          \* per executor, the events it still has to execute
    inBroadcast,    \* executors between the lock and the user's delegates
    session,        \* ghost: the number of Starts
    told            \* ghost: per client, the notifications the user got

mvars == <<isEventWithGameThread, isDestorying, hasProtocol, connectedList, tasks,
           inBroadcast, session, told>>

MInit ==
    /\ isEventWithGameThread \in EventModes
    /\ isDestorying = FALSE
    /\ hasProtocol = FALSE
    /\ connectedList = {}
    /\ tasks = [e \in Executors |-> <<>>]
    /\ inBroadcast = {}
    /\ session = 0
    /\ told = [c \in Clients |-> <<>>]

-----------------------------------------------------------------------------
(* Mutant: ConnectedList survives into the next session. *)
StartManagerKeepsList ==
    /\ isDestorying' = FALSE
    /\ hasProtocol' = TRUE
    /\ session' = session + 1
    /\ UNCHANGED <<isEventWithGameThread, connectedList, tasks, inBroadcast, told>>

MayStart == session < MaxStarts[isEventWithGameThread]

(* The state changes of Start before Protocol->Start(): a null protocol or *)
(* rule, which makes Start return at once, changes nothing.                *)
StartManager ==
    /\ isDestorying' = FALSE
    /\ hasProtocol' = TRUE
    /\ connectedList' = {}
    /\ session' = session + 1
    /\ UNCHANGED <<isEventWithGameThread, tasks, inBroadcast, told>>

(* The state changes of Close before ProtocolToClose->Close(). *)
CloseManager ==
    /\ ~isDestorying
    /\ isDestorying' = TRUE
    /\ hasProtocol' = FALSE
    /\ UNCHANGED <<isEventWithGameThread, connectedList, tasks, inBroadcast, session, told>>

(* HandleConnected, HandleDisconnected and HandleReceiveData, up to and    *)
(* including DispatchEvent: thread t raises an event of client c.          *)
Executor(t) == IF isEventWithGameThread THEN Game ELSE t

Dispatch(t, kind, c) ==
    /\ tasks' = IF isDestorying THEN tasks
                ELSE [tasks EXCEPT ![Executor(t)] =
                        Append(@, [kind |-> kind, client |-> c])]
    /\ UNCHANGED <<isEventWithGameThread, isDestorying, hasProtocol, connectedList, inBroadcast,
                   session, told>>

(* A thread that executes its own events is busy with them until the last  *)
(* delegate has returned.                                                  *)
Free(t) == tasks[t] = <<>>

-----------------------------------------------------------------------------
(* Execution of the first task of e.  The game thread's wrapper looks at   *)
(* IsDestorying for every task, the connect and disconnect events look at  *)
(* it themselves as well.                                                  *)
Due(e) == tasks[e] # <<>> /\ e \notin inBroadcast

Refused(e) == isDestorying /\ (e = Game \/ Head(tasks[e]).kind # "data")

DropTask(e) ==
    /\ Due(e) /\ Refused(e)
    /\ tasks' = [tasks EXCEPT ![e] = Tail(@)]
    /\ UNCHANGED <<isEventWithGameThread, isDestorying, hasProtocol, connectedList, inBroadcast,
                   session, told>>

(* Mutant: the loss of one client empties the list. *)
ApplyTaskEmpties(e) ==
    /\ Due(e) /\ ~Refused(e)
    /\ connectedList' = IF Head(tasks[e]).kind = "connected"
                        THEN connectedList \cup {Head(tasks[e]).client} ELSE {}
    /\ inBroadcast' = inBroadcast \cup {e}
    /\ UNCHANGED <<isEventWithGameThread, isDestorying, hasProtocol, tasks, session, told>>

ApplyTask(e) ==
    /\ Due(e) /\ ~Refused(e)
    /\ LET task == Head(tasks[e])
       IN  connectedList' =
              IF task.kind = "connected" THEN connectedList \cup {task.client}
              ELSE IF task.kind = "disconnected" THEN connectedList \ {task.client}
              ELSE connectedList
    /\ inBroadcast' = inBroadcast \cup {e}
    /\ UNCHANGED <<isEventWithGameThread, isDestorying, hasProtocol, tasks, session, told>>

Broadcast(e) ==
    /\ e \in inBroadcast
    /\ LET task == Head(tasks[e])
       IN  told' = [told EXCEPT ![task.client] = Append(@,
              [kind |-> task.kind, toldIn |-> session])]
    /\ inBroadcast' = inBroadcast \ {e}
    /\ tasks' = [tasks EXCEPT ![e] = Tail(@)]
    /\ UNCHANGED <<isEventWithGameThread, isDestorying, hasProtocol, connectedList, session>>

Execute(e) == DropTask(e) \/ ApplyTask(e) \/ Broadcast(e)

-----------------------------------------------------------------------------
IsConnected == ~isDestorying /\ hasProtocol /\ connectedList # {}

ManagerTypeOK ==
    /\ isEventWithGameThread \in BOOLEAN
    /\ isDestorying \in BOOLEAN /\ hasProtocol \in BOOLEAN
    /\ connectedList \subseteq Clients
    /\ tasks \in [Executors -> Seq(Task)]
    /\ inBroadcast \subseteq Executors
    /\ session \in Nat
    /\ told \in [Clients -> Seq(Notification)]

=============================================================================
