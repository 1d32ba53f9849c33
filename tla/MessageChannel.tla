--------------------------- MODULE MessageChannel ---------------------------
(***************************************************************************)
(* What a transport with a packet rule promises its user: the receiver is  *)
(* handed the messages that were sent, whole, in the order of sending,     *)
(* each once, and every one of them in the end.                            *)
(***************************************************************************)
EXTENDS Naturals, Sequences

CONSTANT Message

VARIABLES
    sent,      \* the messages handed to Send, oldest first
    received   \* the messages handed to the receiver, oldest first

vars == <<sent, received>>

Init == sent = <<>> /\ received = <<>>

Send(m) == sent' = Append(sent, m) /\ UNCHANGED received

Deliver ==
    /\ Len(received) < Len(sent)
    /\ received' = Append(received, sent[Len(received) + 1])
    /\ UNCHANGED sent

Next == (\E m \in Message : Send(m)) \/ Deliver

Spec == Init /\ [][Next]_vars

FairSpec == Spec /\ WF_vars(Deliver)
=============================================================================
