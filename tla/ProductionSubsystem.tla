------------------------- MODULE ProductionSubsystem -------------------------
(***************************************************************************)
(* UProductionSubsystem: the dashboard's connection to the production      *)
(* backend.  It connects half a second after the game instance started;    *)
(* whenever a connection fails or is lost it tells the widgets and sets a  *)
(* timer to connect again.  Everything runs on the game thread: one        *)
(* callback or one timer is one step.                                      *)
(***************************************************************************)
EXTENDS WebSocket, FiniteSets

VARIABLES
    phase,         \* "created", "running", "ended"
    firstTimer,    \* the timer of Initialize is pending
    retryTimers,   \* the number of pending timers of OnClosed and OnError
    connection,    \* WebSocket (a set of at most one)
    shown          \* the bConnected of the last OnConnectionChanged

ownVars == <<phase, firstTimer, retryTimers, connection, shown>>
productionVars == <<wvars, ownVars>>

(* The event names OnMessage knows, and everything it ignores. *)
Updates == {"oee_update", "body_completed", "vision_summary"}

ASSUME MessagesAssumption == Messages \subseteq Updates \cup {"other"}

ProductionInit ==
    /\ WInit
    /\ phase = "created" /\ firstTimer = FALSE /\ retryTimers = 0
    /\ connection = {} /\ shown = FALSE

-----------------------------------------------------------------------------
InitializeSubsystem ==
    /\ phase = "created"
    /\ phase' = "running" /\ firstTimer' = TRUE
    /\ UNCHANGED <<wvars, retryTimers, connection, shown>>

(* The game instance ends: its timers go, and the delegates bound to the   *)
(* subsystem are not called any more. *)
Deinitialize ==
    /\ phase = "running"
    /\ phase' = "ended" /\ firstTimer' = FALSE /\ retryTimers' = 0
    /\ CloseAndConnect({s \in connection : IsOpen(s)}, {})
    /\ UNCHANGED <<connection, shown>>

Connect(s) ==
    /\ Fresh(s) /\ s \notin connection
    /\ CloseAndConnect(connection, {s})
    /\ connection' = {s}

FirstTimer(s) ==
    /\ firstTimer
    /\ firstTimer' = FALSE
    /\ Connect(s)
    /\ UNCHANGED <<phase, retryTimers, shown>>

RetryTimer(s) ==
    /\ retryTimers > 0
    /\ retryTimers' = retryTimers - 1
    /\ IF \E open \in connection : IsOpen(open)
       THEN UNCHANGED <<wvars, connection>> ELSE Connect(s)
    /\ UNCHANGED <<phase, firstTimer, shown>>

-----------------------------------------------------------------------------
(* Mutant: the widgets are not told of a connection. *)
OnConnectedUntold(s) ==
    /\ CalledBack(s, "connected") /\ Return(s)
    /\ UNCHANGED <<ws, ownVars>>

OnConnected(s) ==
    /\ CalledBack(s, "connected") /\ Return(s)
    /\ shown' = TRUE
    /\ UNCHANGED <<ws, phase, firstTimer, retryTimers, connection>>

(* An update is handed to the widgets; nothing is kept. *)
OnMessage(s) ==
    /\ \E msg \in Messages : CalledBack(s, msg)
    /\ Return(s)
    /\ UNCHANGED <<ws, ownVars>>

(* Mutants: the widgets are not told of a loss; no timer is set. *)
OnEndedUntold(s) ==
    /\ \E ending \in Endings : CalledBack(s, ending)
    /\ Return(s)
    /\ retryTimers' = retryTimers + 1
    /\ UNCHANGED <<ws, phase, firstTimer, connection, shown>>

OnEndedNoTimer(s) ==
    /\ \E ending \in Endings : CalledBack(s, ending)
    /\ Return(s)
    /\ shown' = FALSE
    /\ UNCHANGED <<ws, phase, firstTimer, retryTimers, connection>>

(* OnClosed and OnError do the same. *)
OnEnded(s) ==
    /\ \E ending \in Endings : CalledBack(s, ending)
    /\ Return(s)
    /\ shown' = FALSE
    /\ retryTimers' = retryTimers + 1
    /\ UNCHANGED <<ws, phase, firstTimer, connection>>

ProductionCallback(s) ==
    phase = "running" /\ (OnConnected(s) \/ OnMessage(s) \/ OnEnded(s))

Timer == \E s \in Sockets : FirstTimer(s) \/ RetryTimer(s)

ProductionNext ==
    \/ InitializeSubsystem \/ Deinitialize
    \/ Timer
    \/ \E s \in Sockets : ProductionCallback(s)
    \/ Network /\ UNCHANGED ownVars

(* The engine calls back and runs due timers on every tick of the game     *)
(* thread.  The network owes nothing. *)
ProductionFairness == WF_productionVars(Timer) /\ \A s \in Sockets : WF_productionVars(ProductionCallback(s))

ProductionSpec == ProductionInit /\ [][ProductionNext]_productionVars

FairProductionSpec == ProductionSpec /\ ProductionFairness

-----------------------------------------------------------------------------
(* The variables are in their domains. *)
ProductionTypeOK ==
    /\ WTypeOK
    /\ phase \in {"created", "running", "ended"}
    /\ firstTimer \in BOOLEAN /\ retryTimers \in Nat
    /\ connection \subseteq Sockets
    /\ shown \in BOOLEAN

(* Connections that still have to end: they will set a timer. *)
Unended == {s \in Sockets : Live(s) \/ \E i \in DOMAIN callbacks[s] : callbacks[s][i] \in Endings}

(* While the subsystem runs there is exactly one thing on the way to the   *)
(* next connection: a timer, or a connection that has not been reported    *)
(* over.  So no timer ever closes a connection that is being opened, and   *)
(* timers do not multiply, although every callback sets one.               *)
OneAttempt ==
    phase = "running" =>
        Cardinality(Unended) + retryTimers + (IF firstTimer THEN 1 ELSE 0) = 1

(* When no callback waits, the widgets show the connection as it is. *)
ShownIsTrue ==
    phase = "running" /\ (\A s \in Sockets : callbacks[s] = <<>>) =>
        (shown <=> \E s \in connection : IsOpen(s))

(* Through any number of failures, losses and retries the dashboard keeps  *)
(* exactly one way to its next connection, and tells the truth about it.   *)
DashboardKeepsUp == OneAttempt /\ ShownIsTrue

(* An update reaches the widgets only while they show a connection, and    *)
(* only from the socket in use.                                            *)
UpdatesAreCurrent ==
    [][\A s \in Sockets :
          OnMessage(s) /\ phase = "running" => shown /\ connection = {s}]_productionVars

(* A lost or failed connection is tried again, for as long as the          *)
(* subsystem runs.                                                         *)
Reconnects ==
    phase = "running" /\ (\A s \in Sockets : ~Live(s))
        ~> phase = "ended" \/ \E s \in Sockets : Live(s)
=============================================================================
