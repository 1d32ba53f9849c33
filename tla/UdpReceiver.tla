----------------------------- MODULE UdpReceiver -----------------------------
(***************************************************************************)
(* UProtocolUdpSocketSender and UProtocolUdpSocketReceiver.  A sender puts *)
(* every packet into a datagram of its own; the network loses, duplicates  *)
(* and reorders datagrams.  The receiver's thread takes them one by one,   *)
(* and keeps a UProtocolUdpSocket, with a buffer and a clone of the packet *)
(* rule, for every end point it has heard of.                              *)
(*                                                                         *)
(* The rule is a SizeBody rule, and a packet a header and a body.          *)
(***************************************************************************)
EXTENDS Naturals, Sequences

CONSTANTS
    Senders,         \* the end points that send
    MaxDatagrams,    \* bound: datagrams of one sender
    MaxUdpStarts     \* bound: calls of Start of the receiver

ASSUME UdpAssumption == MaxDatagrams \in Nat /\ MaxUdpStarts \in Nat

VARIABLES
    datagrams,       \* the number of datagrams each sender has sent
    flight,          \* the datagrams under way, with their duplicates
    udpSocket,       \* InnerSocket of the receiver
    udpClosing,      \* bIsClosing
    udpSelfClose,    \* IsSelfClose
    reader,          \* the receive thread
    copied,          \* Socket, the thread's copy of InnerSocket
    from,            \* ip, the end point whose data the thread handles
    clients,         \* ConnectedSockets: per known end point buffer and rule
    udpUser,         \* the user's thread in Start or Close
    udpStarts,       \* the number of calls of Start
    udpSessions,     \* per session, whether its FSocket exists
    received,        \* history: the datagrams taken since Start
    reports          \* history: what was handed to MadeReceiveBuffer since Start

networkVars == <<datagrams, flight>>
readerVars  == <<reader, copied, from, clients, received, reports>>
udpUserVars == <<udpClosing, udpSelfClose, udpUser, udpStarts>>
udpSockets  == <<udpSocket, udpSessions>>
udpVars     == <<networkVars, readerVars, udpUserVars, udpSockets>>

Datagrams == [sender : Senders, number : 1 .. MaxDatagrams]
NoFSocket == 0

UdpInit ==
    /\ datagrams = [e \in Senders |-> 0] /\ flight = {}
    /\ udpSocket = NoFSocket /\ udpClosing = FALSE /\ udpSelfClose = FALSE
    /\ reader = "none" /\ copied = NoFSocket /\ from \in Senders /\ clients = <<>>
    /\ udpUser = "idle" /\ udpStarts = 0
    /\ udpSessions = {} /\ received = {} /\ reports = {}

-----------------------------------------------------------------------------
(* Senders and network.                                                    *)

(* RequestSend: SendTo the destination. *)
UdpSends(e) ==
    /\ datagrams[e] < MaxDatagrams
    /\ datagrams' = [datagrams EXCEPT ![e] = @ + 1]
    /\ flight' = flight \cup {<<[sender |-> e, number |-> datagrams[e] + 1], 1>>}
    /\ UNCHANGED <<readerVars, udpUserVars, udpSockets>>

UdpDuplicates(d) ==
    /\ <<d, 1>> \in flight
    /\ flight' = flight \cup {<<d, 2>>}
    /\ UNCHANGED <<datagrams, readerVars, udpUserVars, udpSockets>>

UdpLoses(d) ==
    /\ d \in flight
    /\ flight' = flight \ {d}
    /\ UNCHANGED <<datagrams, readerVars, udpUserVars, udpSockets>>

-----------------------------------------------------------------------------
(* The receive thread: ReceivedData.                                       *)

ReaderAt(pc) == reader' = pc /\ UNCHANGED <<networkVars, udpUserVars>>

ReadTurn ==
    /\ reader = "turn"
    /\ copied' = udpSocket
    /\ ReaderAt(IF udpClosing \/ udpSocket = NoFSocket THEN "exited" ELSE "wait")
    /\ UNCHANGED <<from, clients, received, reports, udpSockets>>

(* Wait and HasPendingData find nothing, at the latest after 10 ms. *)
ReadNone ==
    /\ reader = "wait"
    /\ ReaderAt("turn")
    /\ UNCHANGED <<copied, from, clients, received, reports, udpSockets>>

(* RecvFrom returns a datagram; an end point not heard of before gets a    *)
(* buffer and a rule.                                                      *)
ReadDatagram(d, copy) ==
    LET e == d.sender
        known == IF e \in DOMAIN clients THEN clients[e] ELSE [buffer |-> <<>>, mode |-> "Size"]
        packet == <<[part |-> "header", of |-> d], [part |-> "body", of |-> d]>>
    IN  /\ reader = "wait" /\ <<d, copy>> \in flight
        /\ flight' = flight \ {<<d, copy>>}
        /\ from' = e
        /\ clients' = [x \in DOMAIN clients \cup {e} |->
                          IF x = e THEN [known EXCEPT !.buffer = @ \o packet] ELSE clients[x]]
        /\ received' = received \cup {d}
        /\ reader' = "notify"
        /\ UNCHANGED <<datagrams, copied, reports, udpUserVars, udpSockets>>

(* NotifyReceived, one turn of its loop: a header, then a body.            *)
NotifyReceived ==
    LET c == clients[from]
    IN  /\ reader = "notify" /\ c.buffer # <<>>
        /\ clients' = [clients EXCEPT ![from] =
                          [buffer |-> Tail(c.buffer),
                           mode |-> IF c.mode = "Size" THEN "Body" ELSE "Size"]]
        /\ reports' = IF c.mode = "Body"
                      THEN reports \cup {[client |-> from, data |-> Head(c.buffer)]}
                      ELSE reports
        /\ ReaderAt("notify")
        /\ UNCHANGED <<copied, from, received, udpSockets>>

ReadNext ==
    /\ reader = "notify" /\ clients[from].buffer = <<>>
    /\ ReaderAt("wait")
    /\ UNCHANGED <<copied, from, clients, received, reports, udpSockets>>

(* RecvFrom fails: the thread closes the socket, reports the loss, and     *)
(* ends, or only ends if Close is at work.                                 *)
ReadFails ==
    /\ reader = "wait"
    /\ IF udpSelfClose \/ udpClosing THEN UNCHANGED udpSockets
       ELSE udpSocket' = NoFSocket /\ udpSessions' = udpSessions \ {udpSocket}
    /\ ReaderAt("exited")
    /\ UNCHANGED <<copied, from, clients, received, reports>>

ReaderStep ==
    \/ ReadTurn \/ ReadNone \/ NotifyReceived \/ ReadNext \/ ReadFails
    \/ \E d \in Datagrams, copy \in 1 .. 2 : ReadDatagram(d, copy)

-----------------------------------------------------------------------------
(* Start and Close, on the user's thread.                                  *)

(* Building the socket may fail. *)
StartUdp ==
    /\ udpUser = "idle" /\ udpStarts < MaxUdpStarts
    /\ udpClosing \/ udpStarts = 0
    /\ udpStarts' = udpStarts + 1
    /\ udpClosing' = FALSE /\ udpSelfClose' = FALSE
    /\ clients' = <<>> /\ received' = {} /\ reports' = {}
    /\ \/ /\ udpSocket' = udpStarts + 1 /\ udpSessions' = udpSessions \cup {udpStarts + 1}
          /\ reader' = "turn"
       \/ udpSocket' = NoFSocket /\ UNCHANGED <<udpSessions, reader>>
    /\ UNCHANGED <<networkVars, copied, from, udpUser>>

BeginUdpClose ==
    /\ udpUser = "idle" /\ udpStarts > 0 /\ ~udpClosing
    /\ udpClosing' = TRUE /\ udpSelfClose' = TRUE
    /\ udpUser' = "join"
    /\ UNCHANGED <<networkVars, readerVars, udpStarts, udpSockets>>

(* Mutant: the socket is destroyed, not only shut down, to wake the thread. *)
UdpDestroysAtOnce ==
    /\ udpUser = "join"
    /\ udpSessions' = udpSessions \ {udpSocket} /\ udpSocket' = NoFSocket
    /\ clients' = <<>>
    /\ udpUser' = "idle"
    /\ UNCHANGED <<networkVars, reader, copied, from, received, reports, udpClosing, udpSelfClose,
                   udpStarts>>

(* The thread, which a shut down socket does not hold up, has ended.       *)
EndUdpClose ==
    /\ udpUser = "join" /\ reader \in {"none", "exited"}
    /\ udpSessions' = udpSessions \ {udpSocket} /\ udpSocket' = NoFSocket
    /\ clients' = <<>>
    /\ udpUser' = "idle"
    /\ UNCHANGED <<networkVars, reader, copied, from, received, reports, udpClosing, udpSelfClose,
                   udpStarts>>

-----------------------------------------------------------------------------
UdpNext ==
    \/ ReaderStep \/ StartUdp \/ BeginUdpClose \/ EndUdpClose
    \/ \E e \in Senders : UdpSends(e)
    \/ \E d \in Datagrams : UdpDuplicates(d)
    \/ \E d \in flight : UdpLoses(d)

UdpSpec == UdpInit /\ [][UdpNext]_udpVars

-----------------------------------------------------------------------------
(* The body of a packet, under the name of its sender.                     *)
Report(d) == [client |-> d.sender, data |-> [part |-> "body", of |-> d]]

(* Reported since Start are the packets of the datagrams that the thread   *)
(* took since Start, whole and under the right name: none of them is       *)
(* missing but that of the one it is at, and none is left from before      *)
(* Start, whatever was lost, doubled or overtaken, and whoever sent in     *)
(* between.  (A datagram that the network still has when Close comes may   *)
(* be taken, and reported, after the next Start.)                          *)
ReportsAreWhole ==
    /\ reports \subseteq {Report(d) : d \in received}
    /\ reader # "notify" => {Report(d) : d \in received} \subseteq reports

(* The thread does not wait on, or receive from, a destroyed FSocket: it   *)
(* uses a copy of the pointer that it made under a lock it has given up.   *)
ReadSocketExists == reader = "wait" => copied \in udpSessions

(* When Close has returned the thread has ended and no FSocket is left.    *)
UdpClosedIsQuiet ==
    udpUser = "idle" /\ udpClosing => reader \in {"none", "exited"} /\ udpSessions = {}

(* The receiver: every packet taken, whole and under the right name, none  *)
(* out of an earlier session's buffers, no use of a destroyed socket,      *)
(* nothing left after Close, while Close and Start run between any two     *)
(* steps of the thread.                                                    *)
UdpReceiverIsSound == ReportsAreWhole /\ ReadSocketExists /\ UdpClosedIsQuiet
=============================================================================
