------------------------- MODULE SharedMemoryProofs -------------------------
(***************************************************************************)
(* For any number of processes, messages and starts: the slot keeps its    *)
(* types, no polling thread outlives the mapping it reads, what the        *)
(* processes are handed is a channel that may lose messages but neither    *)
(* repeats nor reorders them, and the counter tells a new message.         *)
(***************************************************************************)
EXTENDS SharedMemory, TLAPS

(* While Start goes on the memory is mapped.                               *)
StartInv == \A p \in Peers : gpc[p] \in {"wipe", "spawn"} => p \in mapped

UseInv == TypeOK /\ StartInv /\ UnmappedIsUnused

(* The next value of the counter, and that it is never 0. *)
LEMMA CountedNext ==
    ASSUME NEW n \in 0 .. CounterBase - 1
    PROVE  Counted(n) = IF n = CounterBase - 1 THEN 1 ELSE n + 1
<1>1. CounterBase \in Nat /\ CounterBase > 2  BY SlotAssumption
<1>2. CASE n = CounterBase - 1
  <2>1. (n + 1) % CounterBase = 0  BY <1>1, <1>2
  <2> QED  BY <1>2, <2>1 DEF Counted
<1>3. CASE n < CounterBase - 1
  <2>1. (n + 1) % CounterBase = n + 1  BY <1>1, <1>3
  <2> QED  BY <1>1, <1>3, <2>1 DEF Counted
<1> QED  BY <1>1, <1>2, <1>3

(* The counter stays a byte when it is counted up. *)
LEMMA CountedIsByte ==
    ASSUME NEW n \in 0 .. CounterBase - 1
    PROVE  Counted(n) \in 0 .. CounterBase - 1
BY CountedNext, SlotAssumption

(* At first nothing is mapped and no thread runs. *)
LEMMA UseInvInit == Init => UseInv
BY SlotAssumption DEF Init, UseInv, TypeOK, StartInv, UnmappedIsUnused

(* One step per action of a peer, in Start and Close, by the user, and in  *)
(* the polling thread.                                                     *)
LEMMA UseInvStep == UseInv /\ [Next]_vars => UseInv'
<1> SUFFICES ASSUME UseInv, [Next]_vars PROVE UseInv'
    OBVIOUS
<1> USE DEF UseInv, TypeOK, StartInv, UnmappedIsUnused, GoesTo, ThreadGoesTo, slot, own, ghost
<1>1. CASE UNCHANGED vars  BY <1>1 DEF vars
<1>2. ASSUME NEW p \in Peers, Start(p) PROVE UseInv'
  <2>1. starts' \in [Peers -> 0 .. MaxStarts]
    BY <1>2, SlotAssumption DEF Start
  <2>2. /\ gpc' \in [Peers -> {"idle", "wipe", "spawn", "join"}]
        /\ mapped' \subseteq Peers /\ mapped \subseteq mapped'
        /\ \A q \in Peers : gpc'[q] \in {"wipe", "spawn"} => q \in mapped'
    BY <1>2 DEF Start
  <2> QED  BY <1>2, <2>1, <2>2 DEF Start
<1>3. ASSUME NEW p \in Peers, Close(p) PROVE UseInv'
  BY <1>3 DEF Close
<1>4. ASSUME NEW p \in Peers, Send(p) PROVE UseInv'
  <2>1. Counted(now[p]) \in 0 .. CounterBase - 1  BY CountedIsByte
  <2>2. sent' \in Seq(Peers) /\ Len(sent') = Len(sent) + 1 /\ Len(sent) \in Nat
    BY <1>4 DEF Send
  <2>3. counter' \in 0 .. CounterBase - 1 /\ now' \in [Peers -> 0 .. CounterBase - 1]
    BY <1>4, <2>1 DEF Send
  <2>4. message' \in 0 .. Len(sent') /\ temp' \in [Peers -> 0 .. Len(sent')]
    BY <1>4, <2>2 DEF Send
  <2>5. lag' \in [Peers -> Int]  BY <1>4 DEF Send
  <2> QED  BY <1>4, <2>2, <2>3, <2>4, <2>5 DEF Send
<1>5. ASSUME NEW p \in Peers, Wipe(p) PROVE UseInv'
  BY <1>5, SlotAssumption DEF Wipe
<1>6. ASSUME NEW p \in Peers, Spawn(p) PROVE UseInv'
  BY <1>6, SlotAssumption DEF Spawn
<1>7. ASSUME NEW p \in Peers, FinishClose(p) PROVE UseInv'
  BY <1>7 DEF FinishClose
<1>8. ASSUME NEW p \in Peers, PollEnds(p) PROVE UseInv'
  BY <1>8 DEF PollEnds
<1>9. ASSUME NEW p \in Peers, Look(p) PROVE UseInv'
  <2>1. /\ now' \in [Peers -> 0 .. CounterBase - 1]
        /\ temp' \in [Peers -> 0 .. Len(sent')]
        /\ lag' \in [Peers -> Int]
    BY <1>9 DEF Look
  <2>2. /\ p \in mapped /\ thread' \in [Peers -> {"none", "loop", "deliver", "exited"}]
        /\ \A q \in Peers : q # p => thread'[q] = thread[q] /\ temp'[q] = temp[q]
        /\ thread'[p] = "deliver" => temp'[p] # 0
    BY <1>9 DEF Look
  <2> QED  BY <1>9, <2>1, <2>2 DEF Look
<1>10. ASSUME NEW p \in Peers, Deliver(p) PROVE UseInv'
  <2>1. temp[p] \in Nat \ {0}  BY <1>10 DEF Deliver
  <2>2. received' \in [Peers -> Seq(Nat \ {0})]  BY <1>10, <2>1 DEF Deliver
  <2> QED  BY <1>10, <2>2 DEF Deliver
<1> QED
  BY <1>1, <1>2, <1>3, <1>4, <1>5, <1>6, <1>7, <1>8, <1>9, <1>10 DEF Next, Call, Poll

LEMMA UseInvAlways == Spec => []UseInv
BY UseInvInit, UseInvStep, PTL DEF Spec

(* What the slot and its users keep is always in its domain; a polling     *)
(* thread that hands a message on has one.                                 *)
THEOREM SlotTypeCorrect == Spec => []TypeOK
<1>1. UseInv => TypeOK  BY DEF UseInv
<1> QED  BY <1>1, UseInvAlways, PTL

(* A polling thread that runs has the memory mapped, whatever Close and    *)
(* Start do meanwhile.                                                     *)
THEOREM MappingSafety == Spec => []UnmappedIsUnused
<1>1. UseInv => UnmappedIsUnused  BY DEF UseInv
<1> QED  BY <1>1, UseInvAlways, PTL

-----------------------------------------------------------------------------
(* The refinement of LossyChannel.  What a peer was handed and what it is  *)
(* about to be handed is older than the message in the slot whenever the   *)
(* counter tells it to look, and that message is not its own.  The counter *)
(* tells it so also after Start has set NowCounter back to 0: therefore    *)
(* Start wipes the slot first.                                             *)
OlderThan(p, i) == \A j \in DOMAIN received[p] : received[p][j] < i

Handing(p) ==
    /\ OlderThan(p, Len(sent) + 1)
    /\ thread[p] # "deliver" => temp[p] = 0
    /\ temp[p] # 0 => sent[temp[p]] # p /\ OlderThan(p, temp[p])

Fresh(p) ==
    message # 0 /\ (counter # now[p] \/ gpc[p] = "spawn")
        => sent[message] # p /\ OlderThan(p, message) /\ temp[p] < message

Quiet(p) == gpc[p] \in {"wipe", "spawn"} => thread[p] \notin {"loop", "deliver"}

OrderInv == \A p \in Peers : Handing(p) /\ Fresh(p) /\ Quiet(p)

(* Nothing has been sent or handed on. *)
LEMMA OrderInvInit == Init => OrderInv
<1> SUFFICES ASSUME Init, NEW p \in Peers PROVE Handing(p) /\ Fresh(p) /\ Quiet(p)
    BY DEF OrderInv
<1>1. received[p] = <<>> /\ temp[p] = 0 /\ thread[p] = "none" /\ message = 0
    BY DEF Init
<1>2. DOMAIN received[p] = {}  BY <1>1
<1> QED  BY <1>1, <1>2 DEF Handing, Fresh, Quiet, OlderThan

(* A message just sent is younger than all others.  For the sender it is   *)
(* nothing to look at, for the other peers it is.                          *)
LEMMA SendKeepsOrder ==
    ASSUME UseInv, OrderInv, NEW p \in Peers, Send(p)
    PROVE  OrderInv'
<1>1. /\ Len(sent) \in Nat /\ Len(sent') = Len(sent) + 1
      /\ sent'[Len(sent) + 1] = p
      /\ \A i \in 1 .. Len(sent) : sent'[i] = sent[i]
  BY DEF Send, UseInv, TypeOK
<1>2. /\ message' = Len(sent) + 1 /\ counter' = now'[p] /\ gpc' = gpc /\ gpc[p] = "idle"
      /\ received' = received /\ temp' = temp /\ thread' = thread
  BY DEF Send, UseInv, TypeOK
<1>3. ASSUME NEW q \in Peers PROVE Handing(q)' /\ Fresh(q)' /\ Quiet(q)'
  <2>1. Handing(q) /\ Quiet(q)  BY DEF OrderInv
  <2>2. /\ temp[q] \in 0 .. Len(sent)
        /\ \A j \in DOMAIN received[q] : received[q][j] \in Nat
    BY DEF UseInv, TypeOK
  <2>3. Handing(q)'
    <3>1. OlderThan(q, Len(sent) + 1)' /\ OlderThan(q, Len(sent) + 1)
      BY <1>1, <1>2, <2>1, <2>2 DEF Handing, OlderThan
    <3>2. temp'[q] # 0 => sent'[temp'[q]] # q /\ OlderThan(q, temp[q])'
      <4>1. temp[q] # 0 => sent'[temp[q]] = sent[temp[q]]  BY <1>1, <2>2
      <4>2. temp'[q] = temp[q] /\ received'[q] = received[q]  BY <1>2
      <4>3. temp[q] # 0 => sent[temp[q]] # q /\ OlderThan(q, temp[q])
        BY <2>1 DEF Handing
      <4> QED  BY <4>1, <4>2, <4>3 DEF OlderThan
    <3> QED  BY <1>2, <2>1, <3>1, <3>2 DEF Handing
  <2>4. Fresh(q)'
    <3>1. CASE q = p  BY <1>2, <3>1 DEF Fresh
    <3>2. CASE q # p
      BY <1>1, <1>2, <2>1, <2>2, <3>2 DEF Fresh, Handing, OlderThan
    <3> QED  BY <3>1, <3>2
  <2>5. Quiet(q)'  BY <1>2, <2>1 DEF Quiet
  <2> QED  BY <2>3, <2>4, <2>5
<1> QED  BY <1>3 DEF OrderInv

(* What a peer copies is not its own and younger than what it was handed;  *)
(* afterwards its counter agrees with the slot.                            *)
LEMMA LookKeepsOrder ==
    ASSUME UseInv, OrderInv, NEW p \in Peers, Look(p)
    PROVE  OrderInv'
<1>1. /\ now'[p] = counter /\ temp'[p] = message /\ counter # now[p]
      /\ thread[p] = "loop"
      /\ thread'[p] # "deliver" => message = 0
      /\ UNCHANGED <<counter, message, gpc, sent, received>>
      /\ \A q \in Peers : q # p => /\ now'[q] = now[q] /\ temp'[q] = temp[q]
                                   /\ thread'[q] = thread[q]
  <2>1. UNCHANGED <<counter, message, gpc, sent, received>> /\ counter # now[p] /\ thread[p] = "loop"
    BY DEF Look, slot
  <2>2. now' = [now EXCEPT ![p] = counter] /\ temp' = [temp EXCEPT ![p] = message]
    BY DEF Look
  <2>3. thread' = [thread EXCEPT ![p] = IF message = 0 THEN "loop" ELSE "deliver"]
    BY DEF Look, ThreadGoesTo
  <2> QED  BY <2>1, <2>2, <2>3 DEF UseInv, TypeOK
<1>2. ASSUME NEW q \in Peers PROVE Handing(q)' /\ Fresh(q)' /\ Quiet(q)'
  <2>1. Handing(q) /\ Fresh(q) /\ Quiet(q)  BY DEF OrderInv
  <2>2. CASE q # p
    BY <1>1, <2>1, <2>2 DEF Handing, Fresh, Quiet, OlderThan
  <2>3. CASE q = p
    <3>1. Handing(p)'  BY <1>1, <2>1, <2>3 DEF Handing, Fresh, OlderThan
    <3>2. gpc[p] \notin {"wipe", "spawn"}  BY <1>1, <2>1, <2>3 DEF Quiet
    <3> QED  BY <1>1, <2>3, <3>1, <3>2 DEF Fresh, Quiet
  <2> QED  BY <2>2, <2>3
<1> QED  BY <1>2 DEF OrderInv

(* The copied message becomes the last that was handed on. *)
LEMMA DeliverKeepsOrder ==
    ASSUME UseInv, OrderInv, NEW p \in Peers, Deliver(p)
    PROVE  OrderInv'
<1>1. /\ thread[p] = "deliver" /\ temp[p] \in 1 .. Len(sent)
      /\ temp'[p] = 0 /\ thread'[p] = "loop"
      /\ UNCHANGED <<counter, message, gpc, sent, now>>
      /\ received'[p] = Append(received[p], temp[p])
      /\ \A q \in Peers : q # p => /\ received'[q] = received[q] /\ temp'[q] = temp[q]
                                   /\ thread'[q] = thread[q]
  <2>1. /\ thread[p] = "deliver" /\ UNCHANGED <<counter, message, gpc, sent, now>>
        /\ temp' = [temp EXCEPT ![p] = 0] /\ thread' = [thread EXCEPT ![p] = "loop"]
        /\ received' = [received EXCEPT ![p] = Append(@, temp[p])]
    BY DEF Deliver, ThreadGoesTo, slot
  <2>2. temp[p] \in 1 .. Len(sent)  BY <2>1 DEF UseInv, TypeOK
  <2> QED  BY <2>1, <2>2 DEF UseInv, TypeOK
<1>2. ASSUME NEW q \in Peers PROVE Handing(q)' /\ Fresh(q)' /\ Quiet(q)'
  <2>1. Handing(q) /\ Fresh(q) /\ Quiet(q)  BY DEF OrderInv
  <2>2. CASE q # p
    BY <1>1, <2>1, <2>2 DEF Handing, Fresh, Quiet, OlderThan
  <2>3. CASE q = p
    <3>1. \A j \in DOMAIN received'[p] :
              \/ received'[p][j] = temp[p]
              \/ j \in DOMAIN received[p] /\ received'[p][j] = received[p][j]
      <4>1. received[p] \in Seq(Nat \ {0}) /\ temp[p] \in Nat \ {0}
        BY <1>1 DEF UseInv, TypeOK
      <4>2. DOMAIN Append(received[p], temp[p]) = 1 .. Len(received[p]) + 1
            /\ DOMAIN received[p] = 1 .. Len(received[p])
        BY <4>1
      <4>3. \A j \in 1 .. Len(received[p]) + 1 : Append(received[p], temp[p])[j] =
                IF j = Len(received[p]) + 1 THEN temp[p] ELSE received[p][j]
        BY <4>1
      <4> QED  BY <1>1, <4>1, <4>2, <4>3
    <3>2. OlderThan(p, temp[p]) /\ temp[p] # 0  BY <1>1, <2>1, <2>3 DEF Handing
    <3>3. \A i \in Nat : i > temp[p] => OlderThan(p, i)'
      <4> SUFFICES ASSUME NEW i \in Nat, i > temp[p], NEW j \in DOMAIN received'[p]
                   PROVE  received'[p][j] < i
          BY DEF OlderThan
      <4>1. temp[p] \in Nat /\ \A k \in DOMAIN received[p] : received[p][k] \in Nat
        BY DEF UseInv, TypeOK
      <4> QED  BY <3>1, <3>2, <4>1 DEF OlderThan
    <3>4. Handing(p)' /\ Fresh(p)'
      <4>1. Len(sent') + 1 \in Nat /\ Len(sent') + 1 > temp[p] /\ message' \in Nat
        <5>1. Len(sent) \in Nat /\ message \in 0 .. Len(sent)  BY DEF UseInv, TypeOK
        <5>2. sent' = sent /\ message' = message /\ temp[p] \in 1 .. Len(sent)  BY <1>1
        <5> QED  BY <5>1, <5>2
      <4>2. Handing(p)'  BY <1>1, <3>3, <4>1 DEF Handing
      <4>3. Fresh(p)'  BY <1>1, <2>1, <2>3, <3>3, <4>1 DEF Fresh
      <4> QED  BY <4>2, <4>3
    <3>5. Quiet(p)'  BY <1>1, <2>1, <2>3 DEF Quiet
    <3> QED  BY <2>3, <3>4, <3>5
  <2> QED  BY <2>2, <2>3
<1> QED  BY <1>2 DEF OrderInv

(* A Start finds no polling thread, since none runs without the mapping;   *)
(* it empties the slot before NowCounter is set back.                      *)
LEMMA OrderInvStep == UseInv /\ OrderInv /\ [Next]_vars => OrderInv'
<1> SUFFICES ASSUME UseInv, OrderInv, [Next]_vars PROVE OrderInv'
    OBVIOUS
<1> USE DEF OrderInv, Handing, Fresh, Quiet, OlderThan, GoesTo, ThreadGoesTo, slot, own, ghost
<1>1. CASE UNCHANGED vars  BY <1>1 DEF vars
<1>2. ASSUME NEW p \in Peers, Start(p) PROVE OrderInv'
  BY <1>2 DEF Start, UseInv, TypeOK, UnmappedIsUnused
<1>3. ASSUME NEW p \in Peers, Close(p) PROVE OrderInv'
  BY <1>3 DEF Close, UseInv, TypeOK
<1>4. ASSUME NEW p \in Peers, Wipe(p) PROVE OrderInv'
  BY <1>4 DEF Wipe, UseInv, TypeOK
<1>5. ASSUME NEW p \in Peers, Spawn(p) PROVE OrderInv'
  BY <1>5 DEF Spawn, UseInv, TypeOK
<1>6. ASSUME NEW p \in Peers, FinishClose(p) PROVE OrderInv'
  BY <1>6 DEF FinishClose, UseInv, TypeOK
<1>7. ASSUME NEW p \in Peers, PollEnds(p) PROVE OrderInv'
  BY <1>7 DEF PollEnds, UseInv, TypeOK
<1> QED
  BY <1>1, <1>2, <1>3, <1>4, <1>5, <1>6, <1>7,
     SendKeepsOrder, LookKeepsOrder, DeliverKeepsOrder DEF Next, Call, Poll

(* Sending and handing on are the steps of the channel, all others are     *)
(* stutters of it.                                                         *)
LEMMA ChannelStep == UseInv /\ OrderInv /\ [Next]_vars => [Channel!Next]_(Channel!vars)
<1> SUFFICES ASSUME UseInv, OrderInv, [Next]_vars PROVE [Channel!Next]_(Channel!vars)
    OBVIOUS
<1>1. ASSUME NEW p \in Peers, Send(p) PROVE Channel!Next
  BY <1>1 DEF Send, Channel!Next, Channel!Send
<1>2. ASSUME NEW p \in Peers, Deliver(p) PROVE Channel!Next
  <2>1. temp[p] \in DOMAIN sent  BY <1>2 DEF Deliver, UseInv, TypeOK
  <2>2. sent[temp[p]] # p /\ OlderThan(p, temp[p])
    BY <1>2, <2>1 DEF Deliver, UseInv, TypeOK, OrderInv, Handing
  <2> QED  BY <1>2, <2>1, <2>2 DEF Deliver, OlderThan, Channel!Next, Channel!Deliver
<1>3. ASSUME NEW p \in Peers,
             Start(p) \/ Close(p) \/ Call(p) \/ PollEnds(p) \/ Look(p)
      PROVE  UNCHANGED <<sent, received>>
  BY <1>3 DEF Start, Close, Call, Wipe, Spawn, FinishClose, PollEnds, Look, ghost
<1> QED
  BY <1>1, <1>2, <1>3 DEF Next, Poll, vars, ghost, Channel!vars

(* Each peer is handed messages that others sent, in the order of sending  *)
(* and none twice, whatever the counter does and whoever starts and closes *)
(* in between.                                                             *)
THEOREM SlotIsChannel == Spec => ImplementsChannel
<1>1. Init => Channel!Init  BY DEF Init, Channel!Init
<1> QED
  BY <1>1, UseInvInit, UseInvStep, OrderInvInit, OrderInvStep, ChannelStep, PTL
  DEF Spec, ImplementsChannel, Channel!Spec

-----------------------------------------------------------------------------
(* The counter.  It is as many values after the one a peer saw last as     *)
(* there were messages since, if they are fewer than the values; 0 is left *)
(* out.  A peer in Start has not set NowCounter back yet.                  *)
Seen(p) == IF gpc[p] = "spawn" THEN 0 ELSE now[p]

Ahead(p) ==
    lag[p] \in 0 .. CounterBase - 2 =>
        counter = IF Seen(p) + lag[p] < CounterBase THEN Seen(p) + lag[p]
                  ELSE Seen(p) + lag[p] - (CounterBase - 1)

CountInv == (counter = 0 => message = 0) /\ \A p \in Peers : Ahead(p)

(* The slot is empty and nobody is behind. *)
LEMMA CountInvInit == Init => CountInv
BY SlotAssumption DEF Init, CountInv, Ahead

(* The sender has seen what it sent; a peer that is k messages behind the  *)
(* counter the sender has seen is then k + 1 behind.                       *)
LEMMA SendKeepsCount ==
    ASSUME UseInv, CountInv, NEW p \in Peers, Send(p)
    PROVE  CountInv'
<1>1. /\ CounterBase \in Nat /\ CounterBase > 2
      /\ counter \in 0 .. CounterBase - 1
      /\ now \in [Peers -> 0 .. CounterBase - 1] /\ lag \in [Peers -> Int]
  BY SlotAssumption DEF UseInv, TypeOK
<1>2. /\ gpc' = gpc /\ gpc[p] = "idle"
      /\ counter' = Counted(now[p]) /\ now' = [now EXCEPT ![p] = Counted(@)]
      /\ lag' = [q \in Peers |-> IF q = p THEN 0
                                 ELSE IF now[p] = counter /\ lag[q] >= 0 THEN lag[q] + 1
                                 ELSE -1]
  BY DEF Send
<1>3. Counted(now[p]) = IF now[p] = CounterBase - 1 THEN 1 ELSE now[p] + 1
  BY <1>1, CountedNext
<1>4. counter' # 0  BY <1>1, <1>2, <1>3
<1>5. ASSUME NEW q \in Peers PROVE Ahead(q)'
  <2>1. CASE q = p  BY <1>1, <1>2, <1>3, <2>1 DEF Ahead, Seen
  <2>2. CASE q # p /\ now[p] = counter /\ lag[q] >= 0
    <3>1. Ahead(q) /\ Seen(q) \in 0 .. CounterBase - 1
      BY <1>1 DEF CountInv, Seen
    <3>2. lag'[q] = lag[q] + 1 /\ Seen(q)' = Seen(q) /\ lag[q] \in Int
      BY <1>1, <1>2, <2>2 DEF Seen
    <3>3. counter' = IF counter = CounterBase - 1 THEN 1 ELSE counter + 1
      BY <1>2, <1>3, <2>2
    <3> QED  BY <1>1, <2>2, <3>1, <3>2, <3>3 DEF Ahead
  <2>3. CASE q # p /\ ~(now[p] = counter /\ lag[q] >= 0)
    <3>1. lag'[q] = -1  BY <1>2, <2>3
    <3> QED  BY <1>1, <3>1 DEF Ahead
  <2> QED  BY <2>1, <2>2, <2>3
<1> QED  BY <1>4, <1>5 DEF CountInv

(* A wiped slot is 0, also for the one that wipes; to look is to see the   *)
(* counter as it is.                                                       *)
LEMMA CountInvStep == UseInv /\ OrderInv /\ CountInv /\ [Next]_vars => CountInv'
<1> SUFFICES ASSUME UseInv, OrderInv, CountInv, [Next]_vars PROVE CountInv'
    OBVIOUS
<1>0. /\ CounterBase \in Nat /\ CounterBase > 2
      /\ counter \in 0 .. CounterBase - 1
      /\ now \in [Peers -> 0 .. CounterBase - 1] /\ lag \in [Peers -> Int]
      /\ gpc \in [Peers -> {"idle", "wipe", "spawn", "join"}]
  BY SlotAssumption DEF UseInv, TypeOK
<1> USE DEF CountInv, Ahead, Seen, GoesTo, slot, own, ghost
<1>1. CASE UNCHANGED vars  BY <1>1 DEF vars
<1>2. ASSUME NEW p \in Peers, Start(p) PROVE CountInv'
  BY <1>0, <1>2 DEF Start
<1>3. ASSUME NEW p \in Peers, Close(p) PROVE CountInv'
  BY <1>0, <1>3 DEF Close
<1>4. ASSUME NEW p \in Peers, Wipe(p) PROVE CountInv'
  BY <1>0, <1>4 DEF Wipe
<1>5. ASSUME NEW p \in Peers, Spawn(p) PROVE CountInv'
  BY <1>0, <1>5 DEF Spawn
<1>6. ASSUME NEW p \in Peers, FinishClose(p) PROVE CountInv'
  BY <1>0, <1>6 DEF FinishClose
<1>7. ASSUME NEW p \in Peers, PollEnds(p) PROVE CountInv'
  BY <1>0, <1>7 DEF PollEnds
<1>8. ASSUME NEW p \in Peers, Look(p) PROVE CountInv'
  <2>1. gpc[p] # "spawn"  BY <1>8 DEF Look, OrderInv, Quiet
  <2> QED  BY <1>0, <1>8, <2>1 DEF Look
<1>9. ASSUME NEW p \in Peers, Deliver(p) PROVE CountInv'
  BY <1>0, <1>9 DEF Deliver
<1> QED
  BY <1>1, <1>2, <1>3, <1>4, <1>5, <1>6, <1>7, <1>8, <1>9, SendKeepsCount
  DEF Next, Call, Poll

(* A polling peer notices what was written since it last looked, unless    *)
(* the counter has come round, or the slot was wiped or written blindly;   *)
(* and a peer that has seen only a wiped slot notices any message.         *)
THEOREM CounterTells == Spec => []UnreadIsNoticed
<1>1. UseInv /\ OrderInv /\ CountInv => UnreadIsNoticed
  <2> SUFFICES ASSUME UseInv, OrderInv, CountInv, NEW p \in Peers,
                      thread[p] = "loop", Noticeable(p)
               PROVE  counter # now[p]
      BY DEF UnreadIsNoticed
  <2>1. gpc[p] # "spawn"  BY DEF OrderInv, Quiet
  <2>2. now[p] \in 0 .. CounterBase - 1 /\ CounterBase \in Nat /\ CounterBase > 2
    BY SlotAssumption DEF UseInv, TypeOK
  <2>3. CASE lag[p] \in 1 .. CounterBase - 2
    BY <2>1, <2>2, <2>3 DEF CountInv, Ahead, Seen
  <2>4. CASE now[p] = 0 /\ message # 0  BY <2>4 DEF CountInv
  <2> QED  BY <2>3, <2>4 DEF Noticeable
<1> QED
  BY <1>1, UseInvInit, UseInvStep, OrderInvInit, OrderInvStep,
     CountInvInit, CountInvStep, PTL DEF Spec
=============================================================================
