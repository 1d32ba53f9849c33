---------------------------- MODULE SharedMemory ----------------------------
(***************************************************************************)
(* UProtocolSharedMemory: processes that exchange messages through one     *)
(* slot of named shared memory, under a named mutex.  Whoever sends        *)
(* overwrites the slot and counts its first byte up; every process polls,  *)
(* and takes the slot for new when the counter is not the one it saw or    *)
(* wrote last (NowCounter).  Start wipes the slot, also that of others.    *)
(*                                                                         *)
(* What is done under the mutex is one step.  A message is one packet; a   *)
(* packet that is larger than the slot is not sent and not modelled.       *)
(***************************************************************************)
EXTENDS Integers, Sequences

CONSTANTS
    Peers,
    CounterBase,   \* number of values of the counter: 256 in the code
    MaxMessages,   \* bound: messages sent in one behaviour
    MaxStarts      \* bound: Starts of one peer

ASSUME SlotAssumption ==
    /\ CounterBase \in Nat /\ CounterBase > 2
    /\ MaxMessages \in Nat /\ MaxStarts \in Nat

VARIABLES
    counter,    \* the first byte of the slot
    message,    \* the message in the slot, 0 if its size is 0
    now,        \* per peer, NowCounter
    mapped,     \* peers with SharedMemoryData
    closing,    \* peers with bIsClosing
    thread,     \* per peer, the polling thread
    temp,       \* per peer, TempBuffer: the message being handed on
    gpc,        \* per peer, its game thread in Start or Close
    starts,     \* per peer, the Starts so far
    sent,       \* history: the senders, oldest first; a message is an index
    received,   \* history: per peer, the messages it was handed
    lag         \* ghost: per peer, see Lag below

slot  == <<counter, message>>
own   == <<now, mapped, closing, thread, temp, gpc, starts>>
ghost == <<sent, received, lag>>
vars  == <<slot, own, ghost>>

Init ==
    /\ counter = 0 /\ message = 0
    /\ now = [p \in Peers |-> 0]
    /\ mapped = {} /\ closing = {}
    /\ thread = [p \in Peers |-> "none"]
    /\ temp = [p \in Peers |-> 0]
    /\ gpc = [p \in Peers |-> "idle"]
    /\ starts = [p \in Peers |-> 0]
    /\ sent = <<>>
    /\ received = [p \in Peers |-> <<>>]
    /\ lag = [p \in Peers |-> -1]

-----------------------------------------------------------------------------
(* Lag: how many messages were written since p last looked at the slot or  *)
(* wrote it, each by a peer that had seen the one before; -1 once another  *)
(* peer has wiped the slot, or written it without having looked.           *)

GoesTo(p, pc) == gpc' = [gpc EXCEPT ![p] = pc]

(* Start maps the memory, or returns early. *)
Start(p) ==
    /\ gpc[p] = "idle" /\ p \notin mapped /\ starts[p] < MaxStarts
    /\ starts' = [starts EXCEPT ![p] = @ + 1]
    /\ \/ mapped' = mapped \cup {p} /\ GoesTo(p, "wipe")
       \/ UNCHANGED <<mapped, gpc>>
    /\ UNCHANGED <<slot, ghost, now, closing, thread, temp>>

Wipe(p) ==
    /\ gpc[p] = "wipe"
    /\ counter' = 0 /\ message' = 0
    /\ lag' = [q \in Peers |-> IF q = p THEN 0 ELSE -1]
    /\ GoesTo(p, "spawn")
    /\ UNCHANGED <<now, mapped, closing, thread, temp, starts, sent, received>>

Spawn(p) ==
    /\ gpc[p] = "spawn"
    /\ now' = [now EXCEPT ![p] = 0]
    /\ closing' = closing \ {p}
    /\ thread' = [thread EXCEPT ![p] = "loop"]
    /\ GoesTo(p, "idle")
    /\ UNCHANGED <<slot, ghost, mapped, temp, starts>>

Close(p) ==
    /\ gpc[p] = "idle" /\ p \notin closing
    /\ closing' = closing \cup {p}
    /\ GoesTo(p, "join")
    /\ UNCHANGED <<slot, ghost, now, mapped, thread, temp, starts>>

(* Mutant: the polling thread is not waited for. *)
FinishCloseAtOnce(p) ==
    /\ gpc[p] = "join"
    /\ mapped' = mapped \ {p}
    /\ GoesTo(p, "idle")
    /\ UNCHANGED <<slot, ghost, now, closing, thread, temp, starts>>

(* Kill(true) returns, and the memory is unmapped. *)
FinishClose(p) ==
    /\ gpc[p] = "join" /\ thread[p] \in {"none", "exited"}
    /\ mapped' = mapped \ {p}
    /\ GoesTo(p, "idle")
    /\ UNCHANGED <<slot, ghost, now, closing, thread, temp, starts>>

-----------------------------------------------------------------------------
(* Mutant: the counter may come to 0, which a wiped slot has. *)
CountedThroughZero(n) == (n + 1) % CounterBase

(* The counter is one byte, and 0 is left to the wiped slot. *)
Counted(n) == IF (n + 1) % CounterBase = 0 THEN 1 ELSE n + 1

(* RequestSend, under the mutex. *)
Send(p) ==
    /\ gpc[p] = "idle" /\ p \in mapped \ closing
    /\ Len(sent) < MaxMessages
    /\ now' = [now EXCEPT ![p] = Counted(@)]
    /\ counter' = Counted(now[p])
    /\ message' = Len(sent) + 1
    /\ sent' = Append(sent, p)
    /\ lag' = [q \in Peers |-> IF q = p THEN 0
                               ELSE IF now[p] = counter /\ lag[q] >= 0 THEN lag[q] + 1
                               ELSE -1]
    /\ UNCHANGED <<mapped, closing, thread, temp, gpc, starts, received>>

-----------------------------------------------------------------------------
(* The polling thread: ReceivedData.                                       *)

ThreadGoesTo(p, pc) == thread' = [thread EXCEPT ![p] = pc]

PollEnds(p) ==
    /\ thread[p] = "loop" /\ p \in closing
    /\ ThreadGoesTo(p, "exited")
    /\ UNCHANGED <<slot, ghost, now, mapped, closing, temp, gpc, starts>>

(* Mutant: NowCounter is not brought up to date. *)
LookForgets(p) ==
    /\ thread[p] = "loop" /\ p \notin closing /\ p \in mapped
    /\ counter # now[p]
    /\ temp' = [temp EXCEPT ![p] = message]
    /\ lag' = [lag EXCEPT ![p] = 0]
    /\ ThreadGoesTo(p, IF message = 0 THEN "loop" ELSE "deliver")
    /\ UNCHANGED <<slot, now, mapped, closing, gpc, starts, sent, received>>

(* Under the mutex: the counter has changed, and the slot is copied. *)
Look(p) ==
    /\ thread[p] = "loop" /\ p \notin closing /\ p \in mapped
    /\ counter # now[p]
    /\ now' = [now EXCEPT ![p] = counter]
    /\ temp' = [temp EXCEPT ![p] = message]
    /\ lag' = [lag EXCEPT ![p] = 0]
    /\ ThreadGoesTo(p, IF message = 0 THEN "loop" ELSE "deliver")
    /\ UNCHANGED <<slot, mapped, closing, gpc, starts, sent, received>>

(* The copy is given to the packet rule. *)
Deliver(p) ==
    /\ thread[p] = "deliver"
    /\ received' = [received EXCEPT ![p] = Append(@, temp[p])]
    /\ temp' = [temp EXCEPT ![p] = 0]
    /\ ThreadGoesTo(p, "loop")
    /\ UNCHANGED <<slot, now, mapped, closing, gpc, starts, sent, lag>>

Poll(p) == PollEnds(p) \/ Look(p) \/ Deliver(p)

Call(p) == Wipe(p) \/ Spawn(p) \/ FinishClose(p)

Next == \E p \in Peers : Start(p) \/ Close(p) \/ Send(p) \/ Call(p) \/ Poll(p)

(* The polling thread runs until it is stopped, and Start and Close go on. *)
Fairness == \A p \in Peers : WF_vars(Poll(p)) /\ WF_vars(Call(p))

Spec == Init /\ [][Next]_vars

FairSpec == Spec /\ Fairness

-----------------------------------------------------------------------------
(* The slot and what the peers keep are in their domains; a polling thread *)
(* that hands a message on has one.                                        *)
TypeOK ==
    /\ counter \in 0 .. CounterBase - 1 /\ message \in 0 .. Len(sent)
    /\ now \in [Peers -> 0 .. CounterBase - 1]
    /\ mapped \subseteq Peers /\ closing \subseteq Peers
    /\ thread \in [Peers -> {"none", "loop", "deliver", "exited"}]
    /\ temp \in [Peers -> 0 .. Len(sent)]
    /\ \A p \in Peers : thread[p] = "deliver" => temp[p] # 0
    /\ gpc \in [Peers -> {"idle", "wipe", "spawn", "join"}]
    /\ starts \in [Peers -> 0 .. MaxStarts]
    /\ sent \in Seq(Peers)
    /\ received \in [Peers -> Seq(Nat \ {0})]
    /\ lag \in [Peers -> Int]

(* A peer that polls notices what was written since it last looked, unless *)
(* the counter, which leaves out 0, has come round in the meantime, or     *)
(* another peer has wiped the slot or written it without having looked.    *)
(* A peer that has seen only a wiped slot notices any message.             *)
Noticeable(p) == lag[p] \in 1 .. CounterBase - 2 \/ (now[p] = 0 /\ message # 0)

UnreadIsNoticed ==
    \A p \in Peers : thread[p] = "loop" /\ Noticeable(p) => counter # now[p]

(* When Close has returned the polling thread, which reads the mapped      *)
(* memory without asking again, has ended.                                 *)
UnmappedIsUnused ==
    \A p \in Peers : thread[p] \in {"loop", "deliver"} => p \in mapped

(* A message that a polling peer can notice is handed to it, unless it is  *)
(* overwritten or wiped, or the peer closes, before the peer has looked.   *)
Delivered(p, i) == \E j \in DOMAIN received[p] : received[p][j] = i

NoticeableIsDelivered ==
    \A p \in Peers : \A i \in 1 .. MaxMessages :
        thread[p] = "loop" /\ message = i /\ Noticeable(p)
            ~> Delivered(p, i) \/ message # i \/ p \in closing

(* The slot is a channel that may lose messages but hands on no other      *)
(* messages than those sent, to others than the sender, in order and once. *)
Channel == INSTANCE LossyChannel

ImplementsChannel == Channel!Spec
=============================================================================
