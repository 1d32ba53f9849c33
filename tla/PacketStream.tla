---------------------------- MODULE PacketStream ----------------------------
(***************************************************************************)
(* A sender and a receiver that exchange framed messages over a byte       *)
(* stream.  The stream keeps order and loses nothing, but hands the bytes  *)
(* over in pieces of any size: what one receive returns has nothing to do  *)
(* with what one send wrote.                                               *)
(*                                                                         *)
(* The receive loop exists in two forms in the code.  The TLS socket and   *)
(* the UDP socket append what arrived to the bytes left over from the last *)
(* receive (keepsPartial); the plain TCP socket gives its buffer the size  *)
(* of what is pending and receives over it.  A setup is a rule, the form   *)
(* of the loop, and the messages that are sent.                            *)
(***************************************************************************)
EXTENDS PacketRule, SequencesExt

CONSTANTS
    Setups,       \* the setups to look at
    MaxMessages   \* bound: messages sent in one behaviour

ASSUME StreamAssumption ==
    /\ MaxMessages \in Nat
    /\ \A st \in Setups :
          /\ st.rule \in Rule
          /\ st.bodies \subseteq Seq(Byte)
          /\ st.keepsPartial \in BOOLEAN

VARIABLES
    setup,     \* the setup of this behaviour
    sent,      \* history: the bodies sent
    wire,      \* bytes sent and not yet received
    buf,       \* ReceiveBuffer
    rs,        \* the state of the receiver's packet rule
    pc,        \* the receive thread: "poll", "drain" or "scan"
    received   \* history: the bodies handed to MadeReceiveBuffer

streamVars == <<setup, sent, wire, buf, rs, pc, received>>

(* The rule at both ends: SetPacketRule gives each connection a clone. *)
r == setup.rule

StreamInit ==
    /\ setup \in Setups
    /\ sent = <<>> /\ wire = <<>> /\ buf = <<>> /\ received = <<>>
    /\ rs = Initialize
    /\ pc = "poll"

-----------------------------------------------------------------------------
Send(body) ==
    /\ Len(sent) < MaxMessages
    /\ sent' = Append(sent, body)
    /\ wire' = wire \o MakeSendPacket(r, body)
    /\ UNCHANGED <<setup, buf, rs, pc, received>>

(* Mutant: bytes left over from the last receive are overwritten. *)
ReceiveOverwrites(n) ==
    /\ pc = "poll"
    /\ buf' = SubSeq(wire, 1, n)
    /\ wire' = SubSeq(wire, n + 1, Len(wire))
    /\ pc' = "drain"
    /\ UNCHANGED <<setup, sent, rs, received>>

(* One Recv: n bytes are pending and all of them are read. *)
Receive(n) ==
    /\ pc = "poll"
    /\ buf' = (IF setup.keepsPartial THEN buf ELSE <<>>) \o SubSeq(wire, 1, n)
    /\ wire' = SubSeq(wire, n + 1, Len(wire))
    /\ pc' = "drain"
    /\ UNCHANGED <<setup, sent, rs, received>>

-----------------------------------------------------------------------------
(* One turn of the loop that feeds the buffer to the rule.                 *)

Want == GetWantSize(r, rs)

(* The loop returns: nothing is left, or less than the rule asks for. *)
Drained ==
    /\ pc = "drain"
    /\ buf = <<>> \/ (Want > 0 /\ Len(buf) < Want)
    /\ pc' = "poll"
    /\ UNCHANGED <<setup, sent, wire, buf, rs, received>>

(* The bytes given to NotifyReceiveData, and those that stay behind. *)
Portion   == SubSeq(buf, 1, IF Want = 0 THEN Len(buf) ELSE Want)
Remainder == SubSeq(buf, Len(Portion) + 1, Len(buf))

Notify ==
    /\ pc = "drain"
    /\ buf # <<>> /\ ~(Want > 0 /\ Len(buf) < Want)
    /\ buf' = Remainder
    /\ UNCHANGED <<setup, sent, wire>>

NotifySize ==
    /\ r.kind = "SizeBody" /\ rs.mode = "Size"
    /\ Notify
    /\ rs' = OnReceivedSize(r, rs, Portion)
    /\ UNCHANGED <<setup, pc, received>>

NotifyBody ==
    /\ r.kind = "SizeBody" /\ rs.mode = "Body"
    /\ Notify
    /\ received' = Append(received, Portion)
    /\ rs' = OnReceivedBody(rs)
    /\ UNCHANGED <<setup, pc>>

NotifyWhole ==
    /\ r.kind \in {"FixedLength", "Nodivision"}
    /\ Notify
    /\ received' = Append(received, Portion)
    /\ UNCHANGED <<setup, rs, pc>>

NotifyTerminate ==
    /\ r.kind = "Terminate"
    /\ Notify
    /\ rs' = [rs EXCEPT !.temp = @ \o Portion]
    /\ pc' = "scan"
    /\ UNCHANGED <<setup, received>>

(* One turn of the loop of UPacketRuleTerminate::NotifyReceiveData. *)
ScanFound ==
    /\ pc = "scan"
    /\ TerminatorAt(r.terminator, rs.temp) # {}
    /\ LET at == Min(TerminatorAt(r.terminator, rs.temp))
       IN  /\ received' = Append(received, SubSeq(rs.temp, 1, at - 1))
           /\ rs' = [rs EXCEPT !.temp = SubSeq(@, at + Len(r.terminator), Len(@))]
    /\ UNCHANGED <<setup, sent, wire, buf, pc>>

ScanDone ==
    /\ pc = "scan"
    /\ TerminatorAt(r.terminator, rs.temp) = {}
    /\ pc' = "drain"
    /\ UNCHANGED <<setup, sent, wire, buf, rs, received>>

ReceiveLoop ==
    \/ Drained \/ NotifySize \/ NotifyBody \/ NotifyWhole
    \/ NotifyTerminate \/ ScanFound \/ ScanDone

StreamNext ==
    \/ \E body \in setup.bodies : Send(body)
    \/ \E n \in 1 .. Len(wire) : Receive(n)
    \/ ReceiveLoop

(* The polling thread sleeps for a fixed time and polls again for as long  *)
(* as the connection lives, so arrived bytes are read and fed to the rule. *)
StreamFairness ==
    /\ WF_streamVars(\E n \in 1 .. Len(wire) : Receive(n))
    /\ WF_streamVars(ReceiveLoop)

StreamSpec == StreamInit /\ [][StreamNext]_streamVars /\ StreamFairness

-----------------------------------------------------------------------------
(* The buffers hold bytes and the rule is in one of its modes.             *)
StreamTypeOK ==
    /\ setup \in Setups
    /\ sent \in Seq(setup.bodies)
    /\ wire \in Seq(Byte) /\ buf \in Seq(Byte)
    /\ rs \in RuleState
    /\ pc \in {"poll", "drain", "scan"}
    /\ received \in Seq(Seq(Byte))

(* The header that the SizeBody rule has taken out of the stream and keeps *)
(* only as a number.                                                       *)
HeaderInHand ==
    IF r.kind = "SizeBody" /\ rs.mode = "Body" THEN SizeHeader(r, rs.bodySize) ELSE <<>>

(* The setups the code is made for.  A rule that waits for a number of     *)
(* bytes needs a loop that keeps what is left over, and the bodies are     *)
(* ones its packets can tell apart.                                        *)
Carried(st) ==
    /\ \/ st.rule.kind = "Terminate"
       \/ st.rule.kind \in {"SizeBody", "FixedLength"} /\ st.keepsPartial
    /\ \A body \in st.bodies : Framable(st.rule, body)

Packets(bodies) ==
    FlattenSeq([i \in DOMAIN bodies |-> MakeSendPacket(r, bodies[i])])

(* No byte of a packet is lost, duplicated or moved, wherever the stream   *)
(* was cut: the packets of the messages delivered so far, the header in    *)
(* hand, the rule's and the socket's left-over bytes and the bytes still   *)
(* on the wire are, in this order, exactly what the sender wrote.          *)
BytesConserved ==
    Packets(received) \o HeaderInHand \o rs.temp \o buf \o wire = Packets(sent)

(* The receiver is handed the sent messages in order, nothing between them. *)
DeliveredInOrder ==
    IsPrefix(received, [i \in DOMAIN sent |-> Delivered(r, sent[i])])

(* The stream with its rule is a channel of whole messages: each step is a *)
(* Send, a Deliver or invisible, and every message is delivered.           *)
Channel == INSTANCE MessageChannel WITH
               Message <- UNION {{Delivered(st.rule, body) : body \in st.bodies} : st \in Setups},
               sent    <- [i \in DOMAIN sent |-> Delivered(r, sent[i])]

ImplementsChannel == Channel!FairSpec
=============================================================================
