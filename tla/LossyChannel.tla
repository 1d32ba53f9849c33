----------------------------- MODULE LossyChannel -----------------------------
(***************************************************************************)
(* What shared memory promises its users: each is handed messages that     *)
(* others sent, never its own, in the order of sending and none twice.     *)
(* Any of them may be lost.  A message is its place in the order.          *)
(***************************************************************************)
EXTENDS Naturals, Sequences

CONSTANT Peers

VARIABLES
    sent,       \* the senders of the messages, oldest first
    received    \* per peer, the messages it was handed

vars == <<sent, received>>

Init == sent = <<>> /\ received = [p \in Peers |-> <<>>]

Send(p) == sent' = Append(sent, p) /\ UNCHANGED received

Deliver(p) ==
    \E i \in DOMAIN sent :
        /\ sent[i] # p
        /\ \A j \in DOMAIN received[p] : received[p][j] < i
        /\ received' = [received EXCEPT ![p] = Append(@, i)]
        /\ UNCHANGED sent

Next == \E p \in Peers : Send(p) \/ Deliver(p)

Spec == Init /\ [][Next]_vars
=============================================================================
