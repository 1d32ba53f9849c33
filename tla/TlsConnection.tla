---------------------------- MODULE TlsConnection ----------------------------
(***************************************************************************)
(* Two ends of one TLS connection after the handshake.  Each end is a      *)
(* UProtocolTcpIpSocketTls with its FOpenSslConnection, and three threads: *)
(*                                                                         *)
(*   - the worker (FSSLWorkerThread) writes what is queued, holding        *)
(*     SendQueueMutex until all of it is written, then reads once, and     *)
(*     reports the connection lost;                                        *)
(*   - the user's thread in Send;                                          *)
(*   - the thread in Close, which stops and joins the worker.              *)
(*                                                                         *)
(* What the ends have written and not read is on the wire, which holds no  *)
(* more than the buffers of the two sockets.  A message is written in      *)
(* units; the units of an end are numbered in the order of writing.        *)
(***************************************************************************)
EXTENDS Naturals, Sequences, FiniteSets

CONSTANTS
    Ends,
    SpeakerSets,      \* the sets of ends whose users may send
    UnitsPerMessage,
    MessagesPerEnd,   \* bound: messages an end sends
    WireSize,         \* units the socket buffers hold in one direction
    StartupGrace,     \* turns before the worker reports a loss: 100
    ReadableLimit     \* empty reads taken for noise: 3, on mobile platforms 20

ASSUME ConnectionAssumption ==
    /\ IsFiniteSet(Ends) /\ Cardinality(Ends) = 2
    /\ SpeakerSets \subseteq SUBSET Ends
    /\ UnitsPerMessage \in Nat \ {0} /\ MessagesPerEnd \in Nat
    /\ WireSize \in Nat \ {0}
    /\ StartupGrace \in Nat /\ ReadableLimit \in Nat \ {0}

Other(e) == CHOOSE x \in Ends : x # e

(* close_notify on the wire; units are numbered from 1. *)
Bye == 0

VARIABLES
    speakers,      \* the ends whose users send
    cut,           \* the network between the sockets is gone
    onWire,        \* per end, what it has written and the other has not read
    tcp,           \* per end, its FSocket: "open", "destroyed"
    hasSsl,        \* SslConnection # nullptr
    sslClosing,    \* bIsSslClosing
    isSelfClose,   \* IsSelfClose
    bConnected,    \* bConnected
    bStopWorker,   \* bStopWorker
    sendQueue,     \* SendQueue, of message numbers
    dataToSend,    \* the units of DataToSend that are not written yet
    worker,        \* the worker thread
    loopCount,     \* LoopCount, up to the first that exceeds StartupGrace
    noDataCount_,  \* ConsecutiveReadableNoDataCount
    sender,        \* the user's thread in Send
    closer,        \* the thread in Close
    queued,        \* ghost: the number of messages queued
    received_,     \* the units handed to OnSSLDataReceived
    losses         \* ghost: the losses reported to the owner

wireVars   == <<speakers, cut, onWire, tcp>>
flagVars   == <<hasSsl, sslClosing, isSelfClose, bConnected, bStopWorker>>
workerVars == <<worker, loopCount, noDataCount_>>
queueVars  == <<sendQueue, dataToSend, queued>>
heardVars  == <<received_, losses>>
connectionVars == <<wireVars, flagVars, workerVars, queueVars, heardVars, sender, closer>>

(* OnConnectedWithSsl has registered the callbacks and started the worker. *)
Connected ==
    /\ speakers \in SpeakerSets /\ cut = FALSE
    /\ onWire = [e \in Ends |-> <<>>]
    /\ tcp = [e \in Ends |-> "open"]
    /\ hasSsl = [e \in Ends |-> TRUE]
    /\ sslClosing = [e \in Ends |-> FALSE] /\ isSelfClose = [e \in Ends |-> FALSE]
    /\ bConnected = [e \in Ends |-> TRUE] /\ bStopWorker = [e \in Ends |-> FALSE]
    /\ sendQueue = [e \in Ends |-> <<>>] /\ dataToSend = [e \in Ends |-> <<>>]
    /\ loopCount = [e \in Ends |-> 0] /\ noDataCount_ = [e \in Ends |-> 0]
    /\ sender = [e \in Ends |-> "idle"] /\ closer = [e \in Ends |-> "none"]
    /\ queued = [e \in Ends |-> 0]
    /\ received_ = [e \in Ends |-> <<>>] /\ losses = [e \in Ends |-> 0]

ConnectionInit == Connected /\ worker = [e \in Ends |-> "loop"]

-----------------------------------------------------------------------------
(* The network.  It may fail, and the end of what a destroyed socket had   *)
(* written may be lost on the way.                                         *)

Reachable(e) == ~cut /\ tcp[Other(e)] = "open"

NetworkFails ==
    /\ ~cut
    /\ cut' = TRUE /\ onWire' = [e \in Ends |-> <<>>]
    /\ UNCHANGED <<speakers, tcp, flagVars, workerVars, queueVars, heardVars, sender, closer>>

(* What may become of what a socket had written, when it is destroyed. *)
Kept(e) == {SubSeq(onWire[e], 1, n) : n \in 0 .. Len(onWire[e])}

DestroySocket(e) ==
    /\ tcp' = [tcp EXCEPT ![e] = "destroyed"]
    /\ \E w \in IF tcp[e] = "open" THEN Kept(e) ELSE {onWire[e]} : onWire' = [onWire EXCEPT ![e] = w]

-----------------------------------------------------------------------------
(* Send, on the user's thread.                                             *)

HoldsQueue(e) == worker[e] = "write"

(* UProtocolTcpIpSocketTls::Send finds a connection.  The lock it looked   *)
(* under is released before the packet rule calls RequestSend.             *)
UserSends(e) ==
    /\ e \in speakers /\ sender[e] = "idle" /\ queued[e] < MessagesPerEnd
    /\ hasSsl[e] /\ bConnected[e]
    /\ sender' = [sender EXCEPT ![e] = "packed"]
    /\ UNCHANGED <<wireVars, flagVars, workerVars, queueVars, heardVars, closer>>

(* RequestSend takes SslConnectionCriticalSection; FOpenSslConnection::Send *)
(* looks whether there still is a connection.                               *)
RequestSend(e) ==
    /\ sender[e] = "packed"
    /\ sender' = [sender EXCEPT ![e] = IF hasSsl[e] /\ bConnected[e] THEN "locks" ELSE "idle"]
    /\ UNCHANGED <<wireVars, flagVars, workerVars, queueVars, heardVars, closer>>

(* It waits for SendQueueMutex, with SslConnectionCriticalSection held. *)
Enqueue(e) ==
    /\ sender[e] = "locks" /\ ~HoldsQueue(e)
    /\ queued' = [queued EXCEPT ![e] = @ + 1]
    /\ sendQueue' = [sendQueue EXCEPT ![e] = Append(@, queued'[e])]
    /\ sender' = [sender EXCEPT ![e] = "idle"]
    /\ UNCHANGED <<wireVars, flagVars, workerVars, dataToSend, heardVars, closer>>

SendStep(e) == RequestSend(e) \/ Enqueue(e)

-----------------------------------------------------------------------------
(* The worker: FSSLWorkerThread::Run.                                      *)

WorkerGoesTo(e, pc) == worker' = [worker EXCEPT ![e] = pc]

(* The top of the loop, up to and including the lock of SendQueueMutex. *)
WorkerTurn(e) ==
    /\ worker[e] = "loop"
    /\ IF bStopWorker[e]
       THEN WorkerGoesTo(e, "exited") /\ UNCHANGED loopCount
       ELSE /\ WorkerGoesTo(e, "write")
            /\ loopCount' = [loopCount EXCEPT ![e] = IF @ > StartupGrace THEN @ ELSE @ + 1]
    /\ UNCHANGED <<wireVars, flagVars, noDataCount_, queueVars, heardVars, sender, closer>>

Units(i) == [j \in 1 .. UnitsPerMessage |-> (i - 1) * UnitsPerMessage + j]

Dequeue(e) ==
    /\ worker[e] = "write" /\ dataToSend[e] = <<>> /\ sendQueue[e] # <<>>
    /\ dataToSend' = [dataToSend EXCEPT ![e] =
                        IF bConnected[e] THEN Units(Head(sendQueue[e])) ELSE <<>>]
    /\ sendQueue' = [sendQueue EXCEPT ![e] = Tail(@)]
    /\ UNCHANGED <<wireVars, flagVars, workerVars, queued, heardVars, sender, closer>>

(* Mutant: each call starts again from the first byte of the buffer. *)
SslWriteFromStart(e) ==
    /\ worker[e] = "write" /\ dataToSend[e] # <<>>
    /\ ~cut /\ Len(onWire[e]) < WireSize
    /\ onWire' = [onWire EXCEPT ![e] = Append(@, Head(dataToSend[e]))]
    /\ dataToSend' = [dataToSend EXCEPT ![e] = SubSeq(@, 1, Len(@) - 1)]
    /\ UNCHANGED <<speakers, cut, tcp, flagVars, workerVars, sendQueue, queued, heardVars,
                   sender, closer>>

(* SSL_write.  With the wire full it says WANT_WRITE, and is called again  *)
(* with the same data, again and again.                                    *)
SslWrite(e) ==
    /\ worker[e] = "write" /\ dataToSend[e] # <<>>
    /\ ~cut /\ Len(onWire[e]) < WireSize
    /\ onWire' = [onWire EXCEPT ![e] = Append(@, Head(dataToSend[e]))]
    /\ dataToSend' = [dataToSend EXCEPT ![e] = Tail(@)]
    /\ UNCHANGED <<speakers, cut, tcp, flagVars, workerVars, sendQueue, queued, heardVars,
                   sender, closer>>

(* Mutant: a broken connection is waited for like a full wire. *)
SslWriteNeverFails(e) == FALSE

(* Any other error drops the rest of this buffer. *)
SslWriteFails(e) ==
    /\ worker[e] = "write" /\ dataToSend[e] # <<>>
    /\ ~Reachable(e)
    /\ dataToSend' = [dataToSend EXCEPT ![e] = <<>>]
    /\ UNCHANGED <<wireVars, flagVars, workerVars, sendQueue, queued, heardVars, sender, closer>>

WriteDone(e) ==
    /\ worker[e] = "write" /\ dataToSend[e] = <<>> /\ sendQueue[e] = <<>>
    /\ WorkerGoesTo(e, "read")
    /\ UNCHANGED <<wireVars, flagVars, loopCount, noDataCount_, queueVars, heardVars,
                   sender, closer>>

Incoming(e) == onWire[Other(e)]

(* SSL_read returns data, which the callback takes. *)
SslRead(e) ==
    /\ worker[e] = "read" /\ Incoming(e) # <<>> /\ Head(Incoming(e)) # Bye
    /\ received_' = [received_ EXCEPT ![e] = Append(@, Head(Incoming(e)))]
    /\ onWire' = [onWire EXCEPT ![Other(e)] = Tail(@)]
    /\ noDataCount_' = [noDataCount_ EXCEPT ![e] = 0]
    /\ WorkerGoesTo(e, "loop")
    /\ UNCHANGED <<speakers, cut, tcp, flagVars, loopCount, queueVars, losses, sender, closer>>

Lost(e, isLost) ==
    /\ WorkerGoesTo(e, IF isLost THEN "notify" ELSE "loop")
    /\ bConnected' = [bConnected EXCEPT ![e] = ~isLost /\ @]

PastGrace(e) == loopCount[e] > StartupGrace

(* WANT_READ, and the socket is not readable. *)
ReadNothing(e) ==
    /\ worker[e] = "read" /\ Incoming(e) = <<>> /\ Reachable(e)
    /\ noDataCount_' = [noDataCount_ EXCEPT ![e] = 0]
    /\ WorkerGoesTo(e, "loop")
    /\ UNCHANGED <<wireVars, flagVars, loopCount, queueVars, heardVars, sender, closer>>

(* WANT_READ on a socket that is readable without data or error: noise,    *)
(* until it has come ReadableLimit times in a row.  During the startup     *)
(* grace it is counted but not acted on.                                   *)
ReadEmpty(e) ==
    /\ worker[e] = "read" /\ Incoming(e) = <<>>
    /\ noDataCount_' = [noDataCount_ EXCEPT ![e] = IF @ < ReadableLimit THEN @ + 1 ELSE @]
    /\ Lost(e, noDataCount_'[e] >= ReadableLimit /\ PastGrace(e))
    /\ UNCHANGED <<wireVars, hasSsl, sslClosing, isSelfClose, bStopWorker, loopCount,
                   queueVars, heardVars, sender, closer>>

(* The peer's close_notify, an end of file or an error: the connection is  *)
(* lost, but not during the startup grace.                                 *)
ReadEnd(e) ==
    /\ worker[e] = "read"
    /\ IF Incoming(e) = <<>> THEN ~Reachable(e) ELSE Head(Incoming(e)) = Bye
    /\ noDataCount_' = [noDataCount_ EXCEPT ![e] = 0]
    /\ Lost(e, PastGrace(e))
    /\ UNCHANGED <<wireVars, hasSsl, sslClosing, isSelfClose, bStopWorker, loopCount,
                   queueVars, heardVars, sender, closer>>

(* OnSslDisconnected, in four steps. *)
SeesClosing(e) ==
    /\ worker[e] = "notify"
    /\ WorkerGoesTo(e, IF sslClosing[e] THEN "exited" ELSE "claim")
    /\ UNCHANGED <<wireVars, flagVars, loopCount, noDataCount_, queueVars, heardVars,
                   sender, closer>>

(* Under SslConnectionCriticalSection, which a thread in Send may hold. *)
ClaimSelfClose(e) ==
    /\ worker[e] = "claim" /\ sender[e] # "locks"
    /\ WorkerGoesTo(e, IF isSelfClose[e] THEN "exited" ELSE "drop")
    /\ isSelfClose' = [isSelfClose EXCEPT ![e] = TRUE]
    /\ UNCHANGED <<wireVars, hasSsl, sslClosing, bConnected, bStopWorker, loopCount,
                   noDataCount_, queueVars, heardVars, sender, closer>>

WorkerClosesSocket(e) ==
    /\ worker[e] = "drop"
    /\ DestroySocket(e)
    /\ WorkerGoesTo(e, "report")
    /\ UNCHANGED <<speakers, cut, flagVars, loopCount, noDataCount_, queueVars, heardVars,
                   sender, closer>>

ReportLoss(e) ==
    /\ worker[e] = "report"
    /\ losses' = [losses EXCEPT ![e] = @ + 1]
    /\ WorkerGoesTo(e, "exited")
    /\ UNCHANGED <<wireVars, flagVars, loopCount, noDataCount_, queueVars, received_,
                   sender, closer>>

WorkerStep(e) ==
    \/ WorkerTurn(e) \/ Dequeue(e) \/ SslWrite(e) \/ SslWriteFails(e) \/ WriteDone(e)
    \/ SslRead(e) \/ ReadNothing(e) \/ ReadEmpty(e) \/ ReadEnd(e)
    \/ SeesClosing(e) \/ ClaimSelfClose(e) \/ WorkerClosesSocket(e) \/ ReportLoss(e)

-----------------------------------------------------------------------------
(* Close of UProtocolTcpIpSocketTls, and in it that of FOpenSslConnection. *)

CloserGoesTo(e, pc) == closer' = [closer EXCEPT ![e] = pc]

UserClosesTls(e) ==
    /\ closer[e] = "none"
    /\ sslClosing' = [sslClosing EXCEPT ![e] = TRUE]
    /\ isSelfClose' = [isSelfClose EXCEPT ![e] = TRUE]
    /\ CloserGoesTo(e, "take")
    /\ UNCHANGED <<wireVars, hasSsl, bConnected, bStopWorker, workerVars, queueVars, heardVars,
                   sender>>

(* SslConnection is taken over under its lock, and its worker told to stop. *)
TakeSslConnection(e) ==
    /\ closer[e] = "take" /\ sender[e] # "locks"
    /\ hasSsl' = [hasSsl EXCEPT ![e] = FALSE]
    /\ bStopWorker' = [bStopWorker EXCEPT ![e] = TRUE]
    /\ CloserGoesTo(e, "join")
    /\ UNCHANGED <<wireVars, sslClosing, isSelfClose, bConnected, workerVars, queueVars,
                   heardVars, sender>>

(* Mutant: the worker is told to stop, but not waited for. *)
JoinWorkerAtOnce(e) ==
    /\ closer[e] = "join"
    /\ CloserGoesTo(e, "shutdown")
    /\ UNCHANGED <<wireVars, flagVars, workerVars, queueVars, heardVars, sender>>

JoinWorker(e) ==
    /\ closer[e] = "join" /\ worker[e] = "exited"
    /\ CloserGoesTo(e, "shutdown")
    /\ UNCHANGED <<wireVars, flagVars, workerVars, queueVars, heardVars, sender>>

(* SSL_shutdown writes close_notify, if there is room for it. *)
ShutdownSsl(e) ==
    /\ closer[e] = "shutdown"
    /\ onWire' = IF bConnected[e] /\ ~cut /\ Len(onWire[e]) < WireSize
               THEN [onWire EXCEPT ![e] = Append(@, Bye)] ELSE onWire
    /\ bConnected' = [bConnected EXCEPT ![e] = FALSE]
    /\ CloserGoesTo(e, "socket")
    /\ UNCHANGED <<speakers, cut, tcp, hasSsl, sslClosing, isSelfClose, bStopWorker, workerVars,
                   queueVars, heardVars, sender>>

(* Close of the base class. *)
CloseTcpSocket(e) ==
    /\ closer[e] = "socket"
    /\ DestroySocket(e)
    /\ CloserGoesTo(e, "closed")
    /\ UNCHANGED <<speakers, cut, flagVars, workerVars, queueVars, heardVars, sender>>

TlsCloseStep(e) ==
    TakeSslConnection(e) \/ JoinWorker(e) \/ ShutdownSsl(e) \/ CloseTcpSocket(e)

-----------------------------------------------------------------------------
ConnectionNext ==
    \/ NetworkFails
    \/ \E e \in Ends : \/ UserSends(e) \/ UserClosesTls(e)
                       \/ SendStep(e) \/ WorkerStep(e) \/ TlsCloseStep(e)

(* Every thread that can run runs in the end; and a thread that waits for  *)
(* SendQueueMutex gets it, as the worker sleeps without it in every turn.  *)
ConnectionFairness ==
    \A e \in Ends : /\ WF_connectionVars(RequestSend(e))
                    /\ SF_connectionVars(Enqueue(e))
                    /\ WF_connectionVars(WorkerStep(e))
                    /\ WF_connectionVars(TlsCloseStep(e))

ConnectionSpec == ConnectionInit /\ [][ConnectionNext]_connectionVars

FairConnectionSpec == ConnectionSpec /\ ConnectionFairness

-----------------------------------------------------------------------------
(* Every variable of the two ends keeps to its domain. *)
ConnectionTypeOK ==
    /\ speakers \subseteq Ends /\ cut \in BOOLEAN
    /\ onWire \in [Ends -> Seq(Nat)]
    /\ tcp \in [Ends -> {"open", "destroyed"}]
    /\ hasSsl \in [Ends -> BOOLEAN] /\ sslClosing \in [Ends -> BOOLEAN]
    /\ isSelfClose \in [Ends -> BOOLEAN] /\ bConnected \in [Ends -> BOOLEAN]
    /\ bStopWorker \in [Ends -> BOOLEAN]
    /\ sendQueue \in [Ends -> Seq(Nat)] /\ dataToSend \in [Ends -> Seq(Nat)]
    /\ worker \in [Ends -> {"loop", "write", "read", "notify", "claim", "drop", "report",
                            "exited"}]
    /\ loopCount \in [Ends -> 0 .. StartupGrace + 1]
    /\ noDataCount_ \in [Ends -> 0 .. ReadableLimit]
    /\ sender \in [Ends -> {"idle", "packed", "locks"}]
    /\ closer \in [Ends -> {"none", "take", "join", "shutdown", "socket", "closed"}]
    /\ queued \in [Ends -> 0 .. MessagesPerEnd]
    /\ received_ \in [Ends -> Seq(Nat)] /\ losses \in [Ends -> Nat]

(* What an end has received is what the other has sent, from the first     *)
(* unit on and without a gap, however often either worker had to wait for  *)
(* the wire and whoever closes when: a packet rule above it never loses    *)
(* its place in the stream.                                                *)
StreamIntact ==
    \A e \in Ends : received_[e] = [i \in 1 .. Len(received_[e]) |-> i]

(* No end uses a destroyed FSocket: the worker reads and writes without    *)
(* the lock under which CloseInnerSocket takes the socket away, and only   *)
(* Close, which waits for it, and the worker itself do so.                 *)
TlsSocketOutlivesUse ==
    \A e \in Ends : worker[e] \in {"write", "read"} => tcp[e] = "open"

(* The loss of the connection is reported once, and not when Close began   *)
(* before the worker claimed it; and when Close has returned nothing is    *)
(* received or reported any more.                                          *)
ClosedEndIsQuiet ==
    [][\A e \in Ends :
         /\ losses'[e] # losses[e] => losses[e] = 0
         /\ closer[e] = "closed" =>
                received_'[e] = received_[e] /\ losses'[e] = losses[e]]_connectionVars

(* When the other end or the network has gone, the user is told or has     *)
(* begun to close, even if the worker was waiting to write.                *)
LossIsNoticed ==
    \A e \in Ends : ~Reachable(e) ~> losses[e] > 0 \/ sslClosing[e]

-----------------------------------------------------------------------------
(* What the comments of the code say, and the code does not do.            *)

(* OpenSslConnection.cpp, at the end of Send: "Return immediately - actual *)
(* send happens asynchronously".                                           *)
SendReturns == \A e \in Ends : sender[e] # "idle" ~> sender[e] = "idle"
=============================================================================
