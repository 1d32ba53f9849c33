------------------------- MODULE TlsConnectionProofs -------------------------
(***************************************************************************)
(* Proofs about the two ends of a TLS connection, for any number of        *)
(* messages, any length of a message, any size of the socket buffers and   *)
(* any limits, and whichever ends send: nothing of the stream is lost or   *)
(* repeated in the middle, no worker uses a destroyed FSocket, an end that *)
(* is closed receives and reports nothing, and the worker that Close waits *)
(* for is given nothing more to do.                                        *)
(*                                                                         *)
(* StreamIntact follows from ChainInv: what an end has received, what is   *)
(* on the wire to it, what the other's worker is writing and what is       *)
(* queued there are consecutive, as long as both workers are in their      *)
(* loops and the network lives.  A write that fails breaks the chain only  *)
(* when nobody reads any more.                                             *)
(***************************************************************************)
EXTENDS TlsConnection, FiniteSetTheorems, SequenceTheorems, TLAPS

TypeInv ==
    /\ ConnectionTypeOK
    /\ \A e \in Ends : sender[e] # "idle" => queued[e] < MessagesPerEnd
    /\ sendQueue \in [Ends -> Seq(Nat \ {0})] /\ dataToSend \in [Ends -> Seq(Nat \ {0})]

(* The worker in its loop, and the end of its life. *)
Working(e) == worker[e] \in {"loop", "write", "read"}

ThreadInv ==
    \A e \in Ends :
        /\ tcp[e] = "destroyed" => worker[e] \in {"report", "exited"}
        /\ closer[e] \in {"shutdown", "socket", "closed"} => worker[e] = "exited"
        /\ losses[e] # 0 => worker[e] = "exited"
        /\ Working(e) => bConnected[e]

(* Only Close says close_notify, after its worker has ended. *)
ByeInv ==
    \A e \in Ends : \A i \in 1 .. Len(onWire[e]) :
        onWire[e][i] = Bye => closer[e] \in {"socket", "closed"}

(* The wire of an end: consecutive units after what was received, and at   *)
(* most close_notify behind them. *)
WireInv(e) ==
    \A i \in 1 .. Len(onWire[e]) :
        \/ onWire[e][i] = Len(received_[Other(e)]) + i
        \/ (i = Len(onWire[e]) /\ onWire[e][i] = Bye)

(* The units the writer has behind it, on the wire or received. *)
Written(e) == Len(received_[Other(e)]) + Len(onWire[e])

WriterInv(e) ==
    /\ \A i \in 1 .. Len(dataToSend[e]) : dataToSend[e][i] = Written(e) + i
    /\ Written(e) + Len(dataToSend[e]) = (queued[e] - Len(sendQueue[e])) * UnitsPerMessage

QueueInv(e) ==
    /\ Len(sendQueue[e]) <= queued[e]
    /\ \A i \in 1 .. Len(sendQueue[e]) : sendQueue[e][i] = queued[e] - Len(sendQueue[e]) + i

ChainInv ==
    \A e \in Ends :
        /\ QueueInv(e)
        /\ tcp[Other(e)] = "open" => WireInv(e)
        /\ tcp[Other(e)] = "open" /\ ~cut /\ Working(e) => WriterInv(e)

ConnectionInv == TypeInv /\ ThreadInv /\ ByeInv /\ ChainInv /\ StreamIntact

-----------------------------------------------------------------------------
(* There are exactly two ends. *)
LEMMA TwoEndsThere ==
    \A e \in Ends : /\ Other(e) \in Ends /\ Other(e) # e /\ Other(Other(e)) = e
                    /\ \A x \in Ends : x = e \/ x = Other(e)
<1> TAKE e \in Ends
<1>1. IsFiniteSet(Ends \ {e}) /\ Cardinality(Ends \ {e}) = 1
  BY ConnectionAssumption, FS_RemoveElement
<1>2. PICK o : Ends \ {e} = {o}
  BY <1>1, FS_Singleton
<1>3. o \in Ends /\ o # e /\ \A x \in Ends : x = e \/ x = o
  BY <1>2
<1>4. Other(e) = o
  BY <1>3 DEF Other
<1>5. Other(o) = e
  BY <1>3 DEF Other
<1> QED BY <1>3, <1>4, <1>5

(* A message is cut into units. *)
LEMMA UnitsAreUnits ==
    ASSUME NEW i \in Nat \ {0}
    PROVE  /\ Units(i) \in Seq(Nat \ {0}) /\ Len(Units(i)) = UnitsPerMessage
           /\ \A j \in 1 .. UnitsPerMessage : Units(i)[j] = (i - 1) * UnitsPerMessage + j
<1>1. \A j \in 1 .. UnitsPerMessage : (i - 1) * UnitsPerMessage + j \in Nat \ {0}
  <2>1. i - 1 \in Nat /\ UnitsPerMessage \in Nat
    BY ConnectionAssumption
  <2>2. (i - 1) * UnitsPerMessage \in Nat
    BY <2>1
  <2> QED BY <2>2
<1>2. Units(i) \in [1 .. UnitsPerMessage -> Nat \ {0}]
  BY <1>1 DEF Units
<1> QED BY <1>2, ConnectionAssumption DEF Units

(* What is left of a wire. *)
LEMMA KeptIsPrefix ==
    ASSUME ConnectionTypeOK, NEW e \in Ends, NEW w \in Kept(e)
    PROVE  /\ w \in Seq(Nat) /\ Len(w) <= Len(onWire[e])
           /\ \A i \in 1 .. Len(w) : w[i] = onWire[e][i]
<1>1. onWire[e] \in Seq(Nat)
  BY DEF ConnectionTypeOK
<1>2. PICK n \in 0 .. Len(onWire[e]) : w = SubSeq(onWire[e], 1, n)
  BY DEF Kept
<1>3. \A i \in 1 .. n : onWire[e][i] \in Nat
  BY <1>1
<1> QED BY <1>1, <1>2, <1>3, SubSeqProperties

(* The connection has just been made. *)
LEMMA ConnectionInvInit == ConnectionInit => ConnectionInv
<1> SUFFICES ASSUME ConnectionInit PROVE ConnectionInv
  OBVIOUS
<1> USE ConnectionAssumption DEF ConnectionInit, Connected
<1>1. /\ hasSsl \in [Ends -> BOOLEAN] /\ sslClosing \in [Ends -> BOOLEAN]
      /\ isSelfClose \in [Ends -> BOOLEAN] /\ bConnected \in [Ends -> BOOLEAN]
      /\ bStopWorker \in [Ends -> BOOLEAN] /\ cut \in BOOLEAN
  OBVIOUS
<1>2. speakers \subseteq Ends
  OBVIOUS
<1>3. /\ onWire \in [Ends -> Seq(Nat)] /\ dataToSend \in [Ends -> Seq(Nat)]
      /\ sendQueue \in [Ends -> Seq(Nat)] /\ sendQueue \in [Ends -> Seq(Nat \ {0})]
      /\ dataToSend \in [Ends -> Seq(Nat \ {0})]
      /\ received_ \in [Ends -> Seq(Nat)]
  OBVIOUS
<1>4. TypeInv
  BY <1>1, <1>2, <1>3 DEF TypeInv, ConnectionTypeOK
<1>5. ThreadInv
  BY DEF ThreadInv, Working
<1>6. ByeInv
  BY DEF ByeInv
<1>7. ChainInv
  BY TwoEndsThere DEF ChainInv, QueueInv, WireInv, WriterInv, Written
<1>8. StreamIntact
  BY DEF StreamIntact
<1> QED BY <1>4, <1>5, <1>6, <1>7, <1>8 DEF ConnectionInv

-----------------------------------------------------------------------------
(* What the types say of one end. *)
LEMMA Typed ==
    ASSUME TypeInv, NEW e \in Ends
    PROVE  /\ onWire[e] \in Seq(Nat) /\ dataToSend[e] \in Seq(Nat)
           /\ sendQueue[e] \in Seq(Nat \ {0}) /\ dataToSend[e] \in Seq(Nat \ {0})
           /\ received_[e] \in Seq(Nat)
           /\ loopCount[e] \in 0 .. StartupGrace + 1 /\ noDataCount_[e] \in 0 .. ReadableLimit
           /\ queued[e] \in 0 .. MessagesPerEnd /\ losses[e] \in Nat
           /\ sender[e] # "idle" => queued[e] < MessagesPerEnd
  BY DEF TypeInv, ConnectionTypeOK

(* A queue of message numbers is a sequence of numbers. *)
LEMMA Weaker ==
    ASSUME NEW f \in [Ends -> Seq(Nat \ {0})] PROVE f \in [Ends -> Seq(Nat)]
<1> SUFFICES ASSUME NEW e \in Ends PROVE f[e] \in Seq(Nat)
  OBVIOUS
<1> QED OBVIOUS

(* Every step keeps the variables in their domains. *)
LEMMA TypeStep == TypeInv /\ [ConnectionNext]_connectionVars => TypeInv'
<1> SUFFICES ASSUME TypeInv, [ConnectionNext]_connectionVars PROVE TypeInv'
  OBVIOUS
<1>1. CASE UNCHANGED connectionVars
  BY <1>1
  DEF connectionVars, TypeInv, ConnectionTypeOK, wireVars, flagVars, workerVars, queueVars,
      heardVars
<1>2. CASE NetworkFails
  <2>1. onWire' \in [Ends -> Seq(Nat)] /\ cut' \in BOOLEAN
    BY <1>2 DEF NetworkFails
  <2> QED BY <1>2, <2>1
          DEF NetworkFails, TypeInv, ConnectionTypeOK, wireVars, flagVars, workerVars,
              queueVars, heardVars
<1>3. ASSUME NEW e \in Ends, UserSends(e) PROVE TypeInv'
  BY <1>3
  DEF UserSends, TypeInv, ConnectionTypeOK, wireVars, flagVars, workerVars, queueVars, heardVars
<1>4. ASSUME NEW e \in Ends, RequestSend(e) PROVE TypeInv'
  BY <1>4
  DEF RequestSend, TypeInv, ConnectionTypeOK, wireVars, flagVars, workerVars, queueVars,
      heardVars
<1>5. ASSUME NEW e \in Ends, Enqueue(e) PROVE TypeInv'
  <2>1. /\ queued \in [Ends -> 0 .. MessagesPerEnd] /\ sendQueue \in [Ends -> Seq(Nat \ {0})]
        /\ sender \in [Ends -> {"idle", "packed", "locks"}]
    BY DEF TypeInv, ConnectionTypeOK
  <2>2. queued[e] + 1 \in 0 .. MessagesPerEnd /\ queued[e] + 1 \in Nat \ {0}
    BY <1>5, Typed, ConnectionAssumption DEF Enqueue
  <2>3. queued' \in [Ends -> 0 .. MessagesPerEnd] /\ queued'[e] = queued[e] + 1
    BY <1>5, <2>1, <2>2 DEF Enqueue
  <2>4. Append(sendQueue[e], queued[e] + 1) \in Seq(Nat \ {0})
    BY <2>1, <2>2
  <2>5. sendQueue' \in [Ends -> Seq(Nat \ {0})]
    BY <1>5, <2>1, <2>3, <2>4 DEF Enqueue
  <2>6. sendQueue' \in [Ends -> Seq(Nat)]
    BY <2>5, Weaker
  <2>7. \A x \in Ends : sender'[x] # "idle" => queued'[x] < MessagesPerEnd
    BY <1>5, <2>1 DEF Enqueue, TypeInv
  <2>8. sender' \in [Ends -> {"idle", "packed", "locks"}]
    BY <1>5, <2>1 DEF Enqueue
  <2> QED BY <1>5, <2>3, <2>5, <2>6, <2>7, <2>8
          DEF Enqueue, TypeInv, ConnectionTypeOK, wireVars, flagVars, workerVars, queueVars,
              heardVars
<1>6. ASSUME NEW e \in Ends, WorkerTurn(e) PROVE TypeInv'
  <2>1. loopCount' \in [Ends -> 0 .. StartupGrace + 1]
    <3>1. loopCount \in [Ends -> 0 .. StartupGrace + 1]
      BY DEF TypeInv, ConnectionTypeOK
    <3>2. (IF loopCount[e] > StartupGrace THEN loopCount[e] ELSE loopCount[e] + 1)
             \in 0 .. StartupGrace + 1
      BY Typed, ConnectionAssumption
    <3>3. CASE bStopWorker[e]
      BY <1>6, <3>1, <3>3 DEF WorkerTurn
    <3>4. CASE ~bStopWorker[e]
      BY <1>6, <3>1, <3>2, <3>4 DEF WorkerTurn
    <3> QED BY <3>3, <3>4
  <2>2. worker' = [worker EXCEPT ![e] = "exited"] \/ worker' = [worker EXCEPT ![e] = "write"]
    BY <1>6, Zenon DEF WorkerTurn, WorkerGoesTo
  <2>3. UNCHANGED <<wireVars, flagVars, noDataCount_, queueVars, heardVars, sender, closer>>
    BY <1>6, Zenon DEF WorkerTurn
  <2> QED BY <2>1, <2>2, <2>3
          DEF TypeInv, ConnectionTypeOK, wireVars, flagVars, workerVars, queueVars, heardVars
<1>7. ASSUME NEW e \in Ends, Dequeue(e) PROVE TypeInv'
  <2>1. dataToSend \in [Ends -> Seq(Nat \ {0})] /\ sendQueue \in [Ends -> Seq(Nat \ {0})]
    BY DEF TypeInv, ConnectionTypeOK
  <2>2. Head(sendQueue[e]) \in Nat \ {0} /\ Tail(sendQueue[e]) \in Seq(Nat \ {0})
    BY <1>7, Typed DEF Dequeue
  <2>3. (IF bConnected[e] THEN Units(Head(sendQueue[e])) ELSE <<>>) \in Seq(Nat \ {0})
    <3>1. Units(Head(sendQueue[e])) \in Seq(Nat \ {0})
      BY <2>2, UnitsAreUnits
    <3>2. <<>> \in Seq(Nat \ {0})
      OBVIOUS
    <3> QED BY <3>1, <3>2
  <2>4. dataToSend' \in [Ends -> Seq(Nat \ {0})]
    BY <1>7, <2>1, <2>3, Zenon DEF Dequeue
  <2>5. sendQueue' \in [Ends -> Seq(Nat \ {0})]
    BY <1>7, <2>1, <2>2 DEF Dequeue
  <2>6. sendQueue' \in [Ends -> Seq(Nat)] /\ dataToSend' \in [Ends -> Seq(Nat)]
    BY <2>4, <2>5, Weaker
  <2>7. UNCHANGED <<wireVars, flagVars, workerVars, queued, heardVars, sender, closer>>
    BY <1>7 DEF Dequeue
  <2> QED BY <2>4, <2>5, <2>6, <2>7
          DEF TypeInv, ConnectionTypeOK, wireVars, flagVars, workerVars, queueVars, heardVars
<1>8. ASSUME NEW e \in Ends, SslWrite(e) PROVE TypeInv'
  <2>1. /\ Append(onWire[e], Head(dataToSend[e])) \in Seq(Nat)
        /\ Tail(dataToSend[e]) \in Seq(Nat \ {0})
    BY <1>8, Typed DEF SslWrite
  <2>0. dataToSend' \in [Ends -> Seq(Nat \ {0})] /\ onWire' \in [Ends -> Seq(Nat)]
    BY <1>8, <2>1 DEF SslWrite, TypeInv, ConnectionTypeOK
  <2>2. /\ dataToSend' \in [Ends -> Seq(Nat \ {0})] /\ dataToSend' \in [Ends -> Seq(Nat)]
        /\ onWire' \in [Ends -> Seq(Nat)]
    BY <2>0, Weaker
  <2>3. UNCHANGED <<speakers, cut, tcp, flagVars, workerVars, sendQueue, queued, heardVars,
                    sender, closer>>
    BY <1>8 DEF SslWrite
  <2> QED BY <2>2, <2>3
          DEF TypeInv, ConnectionTypeOK, wireVars, flagVars, workerVars, queueVars, heardVars
<1>9. ASSUME NEW e \in Ends, SslWriteFails(e) PROVE TypeInv'
  <2>1. <<>> \in Seq(Nat) /\ <<>> \in Seq(Nat \ {0})
    OBVIOUS
  <2> QED BY <1>9, <2>1
          DEF SslWriteFails, TypeInv, ConnectionTypeOK, wireVars, flagVars, workerVars,
              queueVars, heardVars
<1>10. ASSUME NEW e \in Ends, WriteDone(e) PROVE TypeInv'
  BY <1>10
  DEF WriteDone, WorkerGoesTo, TypeInv, ConnectionTypeOK, wireVars, flagVars, workerVars,
      queueVars, heardVars
<1>11. ASSUME NEW e \in Ends, SslRead(e) PROVE TypeInv'
  <2>1. Other(e) \in Ends /\ onWire[Other(e)] \in Seq(Nat) /\ received_[e] \in Seq(Nat)
    BY TwoEndsThere, Typed
  <2>2. /\ Append(received_[e], Head(onWire[Other(e)])) \in Seq(Nat)
        /\ Tail(onWire[Other(e)]) \in Seq(Nat)
    BY <1>11, <2>1 DEF SslRead, Incoming
  <2>3. onWire' \in [Ends -> Seq(Nat)] /\ received_' \in [Ends -> Seq(Nat)]
    BY <1>11, <2>1, <2>2 DEF SslRead, Incoming, TypeInv, ConnectionTypeOK
  <2>4. noDataCount_' \in [Ends -> 0 .. ReadableLimit]
    BY <1>11, ConnectionAssumption DEF SslRead, TypeInv, ConnectionTypeOK
  <2>5. /\ worker' = [worker EXCEPT ![e] = "loop"]
        /\ UNCHANGED <<speakers, cut, tcp, flagVars, loopCount, queueVars, losses, sender,
                       closer>>
    BY <1>11 DEF SslRead, WorkerGoesTo
  <2> QED BY <2>3, <2>4, <2>5
          DEF TypeInv, ConnectionTypeOK, wireVars, flagVars, workerVars, queueVars, heardVars
<1>12. ASSUME NEW e \in Ends, ReadNothing(e) PROVE TypeInv'
  BY <1>12, ConnectionAssumption
  DEF ReadNothing, WorkerGoesTo, TypeInv, ConnectionTypeOK, wireVars, flagVars, workerVars,
      queueVars, heardVars
<1>13. ASSUME NEW e \in Ends, ReadEmpty(e) \/ ReadEnd(e) PROVE TypeInv'
  <2>1. noDataCount_' \in [Ends -> 0 .. ReadableLimit]
    <3>1. /\ 0 \in 0 .. ReadableLimit
          /\ (IF noDataCount_[e] < ReadableLimit THEN noDataCount_[e] + 1 ELSE noDataCount_[e])
                \in 0 .. ReadableLimit
      BY Typed, ConnectionAssumption
    <3> QED BY <1>13, <3>1 DEF ReadEmpty, ReadEnd, TypeInv, ConnectionTypeOK
  <2>2. PICK lost : Lost(e, lost)
    BY <1>13, Zenon DEF ReadEmpty, ReadEnd
  <2>3. worker' = [worker EXCEPT ![e] = "notify"] \/ worker' = [worker EXCEPT ![e] = "loop"]
    BY <2>2, Zenon DEF Lost, WorkerGoesTo
  <2>4. bConnected' \in [Ends -> BOOLEAN]
    <3>1. bConnected' = [bConnected EXCEPT ![e] = ~lost /\ @]
      BY <2>2 DEF Lost
    <3>2. (~lost /\ bConnected[e]) \in BOOLEAN
      OBVIOUS
    <3> QED BY <3>1, <3>2, Zenon DEF TypeInv, ConnectionTypeOK
  <2>5. UNCHANGED <<wireVars, hasSsl, sslClosing, isSelfClose, bStopWorker, loopCount,
                    queueVars, heardVars, sender, closer>>
    BY <1>13, Zenon DEF ReadEmpty, ReadEnd
  <2> QED BY <2>1, <2>3, <2>4, <2>5
          DEF TypeInv, ConnectionTypeOK, wireVars, flagVars, workerVars, queueVars, heardVars
<1>14. ASSUME NEW e \in Ends, SeesClosing(e) PROVE TypeInv'
  BY <1>14
  DEF SeesClosing, WorkerGoesTo, TypeInv, ConnectionTypeOK, wireVars, flagVars, workerVars,
      queueVars, heardVars
<1>15. ASSUME NEW e \in Ends, ClaimSelfClose(e) PROVE TypeInv'
  BY <1>15
  DEF ClaimSelfClose, WorkerGoesTo, TypeInv, ConnectionTypeOK, wireVars, flagVars, workerVars,
      queueVars, heardVars
<1>16. ASSUME NEW e \in Ends, ReportLoss(e) PROVE TypeInv'
  BY <1>16
  DEF ReportLoss, WorkerGoesTo, TypeInv, ConnectionTypeOK, wireVars, flagVars, workerVars,
      queueVars, heardVars
<1>17. ASSUME NEW e \in Ends, DestroySocket(e)
       PROVE  onWire' \in [Ends -> Seq(Nat)] /\ tcp' \in [Ends -> {"open", "destroyed"}]
  <2>1. PICK w \in Kept(e) \union {onWire[e]} : onWire' = [onWire EXCEPT ![e] = w]
    BY <1>17 DEF DestroySocket
  <2>2. w \in Seq(Nat)
    BY <2>1, KeptIsPrefix, Typed DEF TypeInv
  <2> QED BY <1>17, <2>1, <2>2 DEF DestroySocket, TypeInv, ConnectionTypeOK
<1>18. ASSUME NEW e \in Ends, WorkerClosesSocket(e) PROVE TypeInv'
  <2>1. onWire' \in [Ends -> Seq(Nat)] /\ tcp' \in [Ends -> {"open", "destroyed"}]
    BY <1>17, <1>18 DEF WorkerClosesSocket
  <2>2. /\ worker' = [worker EXCEPT ![e] = "report"]
        /\ UNCHANGED <<speakers, cut, flagVars, loopCount, noDataCount_, queueVars, heardVars,
                       sender, closer>>
    BY <1>18 DEF WorkerClosesSocket, WorkerGoesTo
  <2> QED BY <2>1, <2>2
          DEF TypeInv, ConnectionTypeOK, wireVars, flagVars, workerVars, queueVars, heardVars
<1>19. ASSUME NEW e \in Ends, CloseTcpSocket(e) PROVE TypeInv'
  <2>1. onWire' \in [Ends -> Seq(Nat)] /\ tcp' \in [Ends -> {"open", "destroyed"}]
    BY <1>17, <1>19 DEF CloseTcpSocket
  <2>2. /\ closer' = [closer EXCEPT ![e] = "closed"]
        /\ UNCHANGED <<speakers, cut, flagVars, workerVars, queueVars, heardVars, sender>>
    BY <1>19 DEF CloseTcpSocket, CloserGoesTo
  <2> QED BY <2>1, <2>2
          DEF TypeInv, ConnectionTypeOK, wireVars, flagVars, workerVars, queueVars, heardVars
<1>20. ASSUME NEW e \in Ends, UserClosesTls(e) PROVE TypeInv'
  BY <1>20
  DEF UserClosesTls, CloserGoesTo, TypeInv, ConnectionTypeOK, wireVars, flagVars, workerVars,
      queueVars, heardVars
<1>21. ASSUME NEW e \in Ends, TakeSslConnection(e) PROVE TypeInv'
  BY <1>21
  DEF TakeSslConnection, CloserGoesTo, TypeInv, ConnectionTypeOK, wireVars, flagVars,
      workerVars, queueVars, heardVars
<1>22. ASSUME NEW e \in Ends, JoinWorker(e) PROVE TypeInv'
  BY <1>22
  DEF JoinWorker, CloserGoesTo, TypeInv, ConnectionTypeOK, wireVars, flagVars, workerVars,
      queueVars, heardVars
<1>23. ASSUME NEW e \in Ends, ShutdownSsl(e) PROVE TypeInv'
  <2>1. Append(onWire[e], Bye) \in Seq(Nat)
    BY Typed DEF Bye
  <2>2. onWire' \in [Ends -> Seq(Nat)]
    BY <1>23, <2>1 DEF ShutdownSsl, TypeInv, ConnectionTypeOK
  <2>3. /\ bConnected' = [bConnected EXCEPT ![e] = FALSE]
        /\ closer' = [closer EXCEPT ![e] = "socket"]
        /\ UNCHANGED <<speakers, cut, tcp, hasSsl, sslClosing, isSelfClose, bStopWorker,
                       workerVars, queueVars, heardVars, sender>>
    BY <1>23 DEF ShutdownSsl, CloserGoesTo
  <2> QED BY <2>2, <2>3
          DEF TypeInv, ConnectionTypeOK, wireVars, flagVars, workerVars, queueVars, heardVars
<1> QED
  BY <1>1, <1>2, <1>3, <1>4, <1>5, <1>6, <1>7, <1>8, <1>9, <1>10, <1>11, <1>12, <1>13, <1>14,
     <1>15, <1>16, <1>18, <1>19, <1>20, <1>21, <1>22, <1>23
  DEF ConnectionNext, SendStep, WorkerStep, TlsCloseStep

(* Who has ended what: by each step. *)
LEMMA ThreadStep == TypeInv /\ ThreadInv /\ [ConnectionNext]_connectionVars => ThreadInv'
<1> SUFFICES ASSUME TypeInv, ThreadInv, [ConnectionNext]_connectionVars PROVE ThreadInv'
  OBVIOUS
<1>0. CASE UNCHANGED connectionVars
  BY <1>0 DEF connectionVars, ThreadInv, Working, TypeInv, ConnectionTypeOK, wireVars, flagVars,
      workerVars, queueVars, heardVars
<1>1. CASE NetworkFails
  BY <1>1 DEF NetworkFails, ThreadInv, Working, TypeInv, ConnectionTypeOK, wireVars, flagVars,
      workerVars, queueVars, heardVars
<1>2. ASSUME NEW e \in Ends, UserSends(e) PROVE ThreadInv'
  BY <1>2 DEF UserSends, ThreadInv, Working, TypeInv, ConnectionTypeOK, wireVars, flagVars,
      workerVars, queueVars, heardVars
<1>3. ASSUME NEW e \in Ends, RequestSend(e) PROVE ThreadInv'
  BY <1>3 DEF RequestSend, ThreadInv, Working, TypeInv, ConnectionTypeOK, wireVars, flagVars,
      workerVars, queueVars, heardVars
<1>4. ASSUME NEW e \in Ends, Enqueue(e) PROVE ThreadInv'
  BY <1>4 DEF Enqueue, ThreadInv, Working, TypeInv, ConnectionTypeOK, wireVars, flagVars,
      workerVars, queueVars, heardVars
<1>5. ASSUME NEW e \in Ends, WorkerTurn(e) PROVE ThreadInv'
  BY <1>5
  DEF WorkerTurn, WorkerGoesTo, ThreadInv, Working, TypeInv, ConnectionTypeOK, wireVars,
      flagVars,
      workerVars, queueVars, heardVars
<1>6. ASSUME NEW e \in Ends, Dequeue(e) PROVE ThreadInv'
  BY <1>6 DEF Dequeue, ThreadInv, Working, TypeInv, ConnectionTypeOK, wireVars, flagVars,
      workerVars, queueVars, heardVars
<1>7. ASSUME NEW e \in Ends, SslWrite(e) PROVE ThreadInv'
  BY <1>7 DEF SslWrite, ThreadInv, Working, TypeInv, ConnectionTypeOK, wireVars, flagVars,
      workerVars, queueVars, heardVars
<1>8. ASSUME NEW e \in Ends, SslWriteFails(e) PROVE ThreadInv'
  BY <1>8 DEF SslWriteFails, ThreadInv, Working, TypeInv, ConnectionTypeOK, wireVars, flagVars,
      workerVars, queueVars, heardVars
<1>9. ASSUME NEW e \in Ends, WriteDone(e) PROVE ThreadInv'
  BY <1>9
  DEF WriteDone, WorkerGoesTo, ThreadInv, Working, TypeInv, ConnectionTypeOK, wireVars,
      flagVars,
      workerVars, queueVars, heardVars
<1>10. ASSUME NEW e \in Ends, SslRead(e) PROVE ThreadInv'
  BY <1>10
  DEF SslRead, WorkerGoesTo, ThreadInv, Working, TypeInv, ConnectionTypeOK, wireVars, flagVars,
      workerVars, queueVars, heardVars
<1>11. ASSUME NEW e \in Ends, ReadNothing(e) PROVE ThreadInv'
  BY <1>11
  DEF ReadNothing, WorkerGoesTo, ThreadInv, Working, TypeInv, ConnectionTypeOK, wireVars,
      flagVars,
      workerVars, queueVars, heardVars
<1>12. ASSUME NEW e \in Ends, ReadEmpty(e) PROVE ThreadInv'
  BY <1>12
  DEF ReadEmpty, Lost, WorkerGoesTo, ThreadInv, Working, TypeInv, ConnectionTypeOK, wireVars,
      flagVars,
      workerVars, queueVars, heardVars
<1>13. ASSUME NEW e \in Ends, ReadEnd(e) PROVE ThreadInv'
  BY <1>13
  DEF ReadEnd, Lost, WorkerGoesTo, ThreadInv, Working, TypeInv, ConnectionTypeOK, wireVars,
      flagVars,
      workerVars, queueVars, heardVars
<1>14. ASSUME NEW e \in Ends, SeesClosing(e) PROVE ThreadInv'
  BY <1>14
  DEF SeesClosing, WorkerGoesTo, ThreadInv, Working, TypeInv, ConnectionTypeOK, wireVars,
      flagVars,
      workerVars, queueVars, heardVars
<1>15. ASSUME NEW e \in Ends, ClaimSelfClose(e) PROVE ThreadInv'
  BY <1>15
  DEF ClaimSelfClose, WorkerGoesTo, ThreadInv, Working, TypeInv, ConnectionTypeOK, wireVars,
      flagVars,
      workerVars, queueVars, heardVars
<1>16. ASSUME NEW e \in Ends, WorkerClosesSocket(e) PROVE ThreadInv'
  BY <1>16
  DEF WorkerClosesSocket, DestroySocket, WorkerGoesTo, ThreadInv, Working, TypeInv,
      ConnectionTypeOK, wireVars, flagVars,
      workerVars, queueVars, heardVars
<1>17. ASSUME NEW e \in Ends, ReportLoss(e) PROVE ThreadInv'
  BY <1>17
  DEF ReportLoss, WorkerGoesTo, ThreadInv, Working, TypeInv, ConnectionTypeOK, wireVars,
      flagVars,
      workerVars, queueVars, heardVars
<1>18. ASSUME NEW e \in Ends, UserClosesTls(e) PROVE ThreadInv'
  BY <1>18
  DEF UserClosesTls, CloserGoesTo, ThreadInv, Working, TypeInv, ConnectionTypeOK, wireVars,
      flagVars,
      workerVars, queueVars, heardVars
<1>19. ASSUME NEW e \in Ends, TakeSslConnection(e) PROVE ThreadInv'
  BY <1>19
  DEF TakeSslConnection, CloserGoesTo, ThreadInv, Working, TypeInv, ConnectionTypeOK, wireVars,
      flagVars,
      workerVars, queueVars, heardVars
<1>20. ASSUME NEW e \in Ends, JoinWorker(e) PROVE ThreadInv'
  BY <1>20
  DEF JoinWorker, CloserGoesTo, ThreadInv, Working, TypeInv, ConnectionTypeOK, wireVars,
      flagVars,
      workerVars, queueVars, heardVars
<1>21. ASSUME NEW e \in Ends, ShutdownSsl(e) PROVE ThreadInv'
  BY <1>21
  DEF ShutdownSsl, CloserGoesTo, ThreadInv, Working, TypeInv, ConnectionTypeOK, wireVars,
      flagVars,
      workerVars, queueVars, heardVars
<1>22. ASSUME NEW e \in Ends, CloseTcpSocket(e) PROVE ThreadInv'
  BY <1>22
  DEF CloseTcpSocket, DestroySocket, CloserGoesTo, ThreadInv, Working, TypeInv,
      ConnectionTypeOK, wireVars, flagVars,
      workerVars, queueVars, heardVars
<1> QED
  BY <1>0, <1>1, <1>2, <1>3, <1>4, <1>5, <1>6, <1>7, <1>8, <1>9, <1>10, <1>11, <1>12, <1>13,
  <1>14, <1>15, <1>16, <1>17, <1>18, <1>19, <1>20, <1>21, <1>22
  DEF ConnectionNext, SendStep, WorkerStep, TlsCloseStep

-----------------------------------------------------------------------------
(* A step that moves no unit, opens no socket and starts no worker leaves  *)
(* the chain as it is. *)
LEMMA ChainKept ==
    ASSUME ByeInv, ChainInv, StreamIntact,
           UNCHANGED <<cut, onWire, tcp, dataToSend, sendQueue, queued, received_>>,
           \A x \in Ends : worker'[x] \in {"loop", "write", "read"} => Working(x),
           \A x \in Ends : closer[x] \in {"socket", "closed"} => closer'[x] \in {"socket",
           "closed"}
    PROVE  ByeInv' /\ ChainInv' /\ StreamIntact'
<1>1. ByeInv'
  BY DEF ByeInv
<1>2. ChainInv'
  BY DEF ChainInv, QueueInv, WireInv, WriterInv, Written, Working
<1>3. StreamIntact'
  BY DEF StreamIntact
<1> QED BY <1>1, <1>2, <1>3

(* An end whose socket is destroyed writes nothing more, and what is left  *)
(* of its wire is a prefix. *)
LEMMA ChainCutShort ==
    ASSUME TypeInv, ByeInv, ChainInv, StreamIntact, NEW e \in Ends, DestroySocket(e),
           UNCHANGED <<cut, dataToSend, sendQueue, queued, received_>>,
           \A x \in Ends : worker'[x] \in {"loop", "write", "read"} => Working(x) /\ x # e,
           \A x \in Ends : closer[x] \in {"socket", "closed"} => closer'[x] \in {"socket",
           "closed"}
    PROVE  ByeInv' /\ ChainInv' /\ StreamIntact'
<1>1. PICK w \in Kept(e) \union {onWire[e]} : onWire' = [onWire EXCEPT ![e] = w]
  BY DEF DestroySocket
<1>2. /\ w \in Seq(Nat) /\ onWire[e] \in Seq(Nat) /\ Len(w) <= Len(onWire[e])
      /\ \A i \in 1 .. Len(w) : w[i] = onWire[e][i]
  BY <1>1, KeptIsPrefix, Typed DEF TypeInv
<1>3. /\ onWire'[e] = w /\ \A x \in Ends : x # e => onWire'[x] = onWire[x]
      /\ tcp'[e] = "destroyed" /\ \A x \in Ends : x # e => tcp'[x] = tcp[x]
  BY <1>1 DEF DestroySocket, TypeInv, ConnectionTypeOK
<1>4. ByeInv'
  <2> SUFFICES ASSUME NEW x \in Ends, NEW i \in 1 .. Len(onWire'[x]), onWire'[x][i] = Bye
               PROVE  closer'[x] \in {"socket", "closed"}
    BY DEF ByeInv
  <2>1. i \in 1 .. Len(onWire[x]) /\ onWire[x][i] = Bye
    BY <1>2, <1>3
  <2> QED BY <2>1 DEF ByeInv
<1>5. ASSUME NEW x \in Ends PROVE QueueInv(x)'
  BY DEF ChainInv, QueueInv
<1>6. ASSUME NEW x \in Ends, tcp'[Other(x)] = "open" PROVE WireInv(x)'
  <2>1. x = e /\ Other(x) # e /\ Other(x) \in Ends
    BY <1>3, <1>6, TwoEndsThere
  <2>2. WireInv(e)
    BY <1>3, <1>6, <2>1 DEF ChainInv
  <2>3. ASSUME NEW i \in 1 .. Len(w)
        PROVE  w[i] = Len(received_[Other(e)]) + i \/ (i = Len(w) /\ w[i] = Bye)
    <3>1. i \in 1 .. Len(onWire[e]) /\ w[i] = onWire[e][i]
      BY <1>2
    <3>2. \/ onWire[e][i] = Len(received_[Other(e)]) + i
          \/ i = Len(onWire[e]) /\ onWire[e][i] = Bye
      BY <2>2, <3>1 DEF WireInv
    <3>3. i = Len(onWire[e]) => i = Len(w)
      BY <1>2
    <3> QED BY <3>1, <3>2, <3>3
  <2> QED BY <1>3, <2>1, <2>3 DEF WireInv
<1>7. ASSUME NEW x \in Ends, tcp'[Other(x)] = "open", ~cut', Working(x)' PROVE FALSE
  BY <1>3, <1>7, TwoEndsThere DEF Working
<1> QED BY <1>4, <1>5, <1>6, <1>7 DEF ChainInv, StreamIntact

(* What was received so far, and the next unit. *)
LEMMA OneMore ==
    ASSUME NEW r \in Seq(Nat), r = [i \in 1 .. Len(r) |-> i]
    PROVE  /\ Append(r, Len(r) + 1) \in Seq(Nat) /\ Len(Append(r, Len(r) + 1)) = Len(r) + 1
           /\ Append(r, Len(r) + 1) = [i \in 1 .. Len(r) + 1 |-> i]
  OBVIOUS

(* The units of a message follow those of the messages before it. *)
LEMMA NextMessage ==
    ASSUME NEW m \in Nat
    PROVE  /\ m * UnitsPerMessage \in Nat
           /\ (m + 1) * UnitsPerMessage = m * UnitsPerMessage + UnitsPerMessage
           /\ \A j \in 1 .. UnitsPerMessage : Units(m + 1)[j] = m * UnitsPerMessage + j
<1>1. UnitsPerMessage \in Nat /\ m + 1 \in Nat \ {0} /\ (m + 1) - 1 = m
  BY ConnectionAssumption
<1>2. \A j \in 1 .. UnitsPerMessage : Units(m + 1)[j] = ((m + 1) - 1) * UnitsPerMessage + j
  BY <1>1, UnitsAreUnits
<1> QED BY <1>1, <1>2

(* The first of the messages that wait. *)
LEMMA QueueHead ==
    ASSUME NEW q \in Seq(Nat \ {0}), q # <<>>, NEW k \in Nat, Len(q) <= k,
           \A i \in 1 .. Len(q) : q[i] = k - Len(q) + i
    PROVE  /\ k - Len(q) \in Nat /\ Head(q) = k - Len(q) + 1
           /\ Len(Tail(q)) <= k /\ k - Len(Tail(q)) = k - Len(q) + 1
           /\ \A i \in 1 .. Len(Tail(q)) : Tail(q)[i] = k - Len(Tail(q)) + i
<1>1. Len(q) \in Nat /\ Len(q) >= 1 /\ Head(q) = q[1]
  BY LenProperties
<1>2. Len(Tail(q)) = Len(q) - 1 /\ \A i \in 1 .. Len(Tail(q)) : Tail(q)[i] = q[i + 1]
  BY HeadTailProperties
<1>3. ASSUME NEW i \in 1 .. Len(Tail(q)) PROVE Tail(q)[i] = k - Len(Tail(q)) + i
  <2>1. i + 1 \in 1 .. Len(q)
    BY <1>1, <1>2
  <2>2. q[i + 1] = k - Len(q) + (i + 1)
    BY <2>1
  <2> QED BY <1>1, <1>2, <2>2
<1> QED BY <1>1, <1>2, <1>3

(* A unit or close_notify behind a wire that holds units only. *)
LEMMA WireAppend ==
    ASSUME NEW w \in Seq(Nat), NEW n \in Nat, \A i \in 1 .. Len(w) : w[i] = n + i,
           NEW v \in Nat, v = n + Len(w) + 1 \/ v = Bye
    PROVE  /\ Len(Append(w, v)) = Len(w) + 1
           /\ \A i \in 1 .. Len(Append(w, v)) :
                 \/ Append(w, v)[i] = n + i
                 \/ (i = Len(Append(w, v)) /\ Append(w, v)[i] = Bye)
<1>1. /\ Len(w) \in Nat /\ Len(Append(w, v)) = Len(w) + 1 /\ Append(w, v)[Len(w) + 1] = v
      /\ \A i \in 1 .. Len(w) : Append(w, v)[i] = w[i]
  BY AppendProperties, LenProperties
<1>2. ASSUME NEW i \in 1 .. Len(Append(w, v))
      PROVE  \/ Append(w, v)[i] = n + i
             \/ (i = Len(Append(w, v)) /\ Append(w, v)[i] = Bye)
  <2>1. CASE i \in 1 .. Len(w)
    BY <1>1, <2>1
  <2>2. CASE i = Len(w) + 1
    BY <1>1, <2>2
  <2> QED BY <1>1, <2>1, <2>2
<1> QED BY <1>1, <1>2

(* The first unit of a wire. *)
LEMMA WireHead ==
    ASSUME NEW w \in Seq(Nat), w # <<>>, Head(w) # Bye, NEW n \in Nat,
           \A i \in 1 .. Len(w) : w[i] = n + i \/ (i = Len(w) /\ w[i] = Bye)
    PROVE  /\ Head(w) = n + 1 /\ Len(Tail(w)) = Len(w) - 1
           /\ \A i \in 1 .. Len(Tail(w)) :
                 \/ Tail(w)[i] = n + 1 + i
                 \/ (i = Len(Tail(w)) /\ Tail(w)[i] = Bye)
<1>1. Len(w) \in Nat /\ Len(w) >= 1 /\ Head(w) = w[1]
  BY LenProperties
<1>2. Len(Tail(w)) = Len(w) - 1 /\ \A i \in 1 .. Len(Tail(w)) : Tail(w)[i] = w[i + 1]
  BY HeadTailProperties
<1>3. ASSUME NEW p \in Nat, NEW i \in 1 .. p - 1
      PROVE  i + 1 \in 1 .. p /\ n + (i + 1) = n + 1 + i /\ (i + 1 = p => i = p - 1)
  OBVIOUS
<1>4. ASSUME NEW i \in 1 .. Len(Tail(w))
      PROVE  Tail(w)[i] = n + 1 + i \/ (i = Len(Tail(w)) /\ Tail(w)[i] = Bye)
  <2>1. i \in 1 .. Len(w) - 1 /\ Tail(w)[i] = w[i + 1]
    BY <1>2
  <2>2. i + 1 \in 1 .. Len(w) /\ n + (i + 1) = n + 1 + i /\ (i + 1 = Len(w) => i = Len(w) - 1)
    BY <1>1, <1>3, <2>1
  <2>3. w[i + 1] = n + (i + 1) \/ (i + 1 = Len(w) /\ w[i + 1] = Bye)
    BY <2>2, Zenon
  <2> QED BY <1>2, <2>1, <2>2, <2>3, Zenon
<1>5. Head(w) = n + 1
  <2>1. 1 \in 1 .. Len(w)
    BY <1>1
  <2>2. w[1] = n + 1 \/ w[1] = Bye
    BY <2>1, Zenon
  <2> QED BY <1>1, <2>2, Zenon
<1> QED BY <1>2, <1>4, <1>5, Zenon

(* The first unit of what is to be written. *)
LEMMA DataHead ==
    ASSUME NEW d \in Seq(Nat \ {0}), d # <<>>, NEW n \in Nat,
    \A i \in 1 .. Len(d) : d[i] = n + i
    PROVE  /\ Head(d) = n + 1 /\ Len(Tail(d)) + 1 = Len(d)
           /\ \A i \in 1 .. Len(Tail(d)) : Tail(d)[i] = n + 1 + i
<1>1. Len(d) \in Nat /\ Len(d) >= 1 /\ Head(d) = d[1]
  BY LenProperties
<1>2. Len(Tail(d)) = Len(d) - 1 /\ \A i \in 1 .. Len(Tail(d)) : Tail(d)[i] = d[i + 1]
  BY HeadTailProperties
<1>3. ASSUME NEW i \in 1 .. Len(Tail(d)) PROVE Tail(d)[i] = n + 1 + i
  <2>1. i + 1 \in 1 .. Len(d)
    BY <1>1, <1>2
  <2> QED BY <1>1, <1>2, <2>1
<1> QED BY <1>1, <1>2, <1>3

-----------------------------------------------------------------------------
(* The steps that move or drop a unit or a message. *)

(* A message is queued behind those that wait. *)
LEMMA ChainEnqueue ==
    ASSUME TypeInv, ByeInv, ChainInv, StreamIntact, NEW e \in Ends, Enqueue(e)
    PROVE  ByeInv' /\ ChainInv' /\ StreamIntact'
<1>1. /\ queued'[e] = queued[e] + 1
      /\ sendQueue'[e] = Append(sendQueue[e], queued[e] + 1)
      /\ \A x \in Ends : x # e => queued'[x] = queued[x] /\ sendQueue'[x] = sendQueue[x]
      /\ UNCHANGED <<cut, onWire, tcp, worker, closer, dataToSend, received_>>
  BY DEF Enqueue, TypeInv, ConnectionTypeOK, wireVars, workerVars, heardVars
<1>2. QueueInv(e) /\ sendQueue[e] \in Seq(Nat \ {0}) /\ queued[e] \in Nat
  BY Typed, ConnectionAssumption DEF ChainInv
<1>3. /\ Len(sendQueue'[e]) = Len(sendQueue[e]) + 1
      /\ queued'[e] - Len(sendQueue'[e]) = queued[e] - Len(sendQueue[e])
  BY <1>1, <1>2
<1>4. QueueInv(e)'
  <2>1. ASSUME NEW i \in 1 .. Len(sendQueue'[e])
        PROVE  sendQueue'[e][i] = queued'[e] - Len(sendQueue'[e]) + i
    <3>1. CASE i \in 1 .. Len(sendQueue[e])
      BY <1>1, <1>2, <1>3, <3>1 DEF QueueInv
    <3>2. CASE i = Len(sendQueue[e]) + 1
      BY <1>1, <1>2, <1>3, <3>2
    <3> QED BY <1>2, <1>3, <3>1, <3>2
  <2> QED BY <1>1, <1>2, <1>3, <2>1 DEF QueueInv
<1>5. ASSUME NEW x \in Ends PROVE QueueInv(x)'
  <2>1. CASE x = e
    BY <1>4, <2>1
  <2>2. CASE x # e
    BY <1>1, <2>2 DEF ChainInv, QueueInv
  <2> QED BY <2>1, <2>2
<1>6. ASSUME NEW x \in Ends, tcp'[Other(x)] = "open" PROVE WireInv(x)'
  BY <1>1, <1>6 DEF ChainInv, WireInv
<1>7. ASSUME NEW x \in Ends, tcp'[Other(x)] = "open", ~cut', Working(x)' PROVE WriterInv(x)'
  <2>1. WriterInv(x)
    BY <1>1, <1>7 DEF ChainInv, Working
  <2>2. queued'[x] - Len(sendQueue'[x]) = queued[x] - Len(sendQueue[x])
    BY <1>1, <1>3
  <2> QED BY <1>1, <2>1, <2>2 DEF WriterInv, Written
<1>8. ByeInv' /\ StreamIntact'
  BY <1>1 DEF ByeInv, StreamIntact
<1> QED BY <1>5, <1>6, <1>7, <1>8 DEF ChainInv

(* The worker takes the message whose units come next. *)
LEMMA ChainDequeue ==
    ASSUME TypeInv, ThreadInv, ByeInv, ChainInv, StreamIntact, NEW e \in Ends, Dequeue(e)
    PROVE  ByeInv' /\ ChainInv' /\ StreamIntact'
<1>1. worker[e] = "write" /\ dataToSend[e] = <<>> /\ sendQueue[e] # <<>> /\ bConnected[e]
  BY DEF Dequeue, ThreadInv, Working
<1>2. /\ dataToSend'[e] = Units(Head(sendQueue[e])) /\ sendQueue'[e] = Tail(sendQueue[e])
      /\ \A x \in Ends : x # e => /\ dataToSend'[x] = dataToSend[x]
                                 /\ sendQueue'[x] = sendQueue[x]
      /\ UNCHANGED <<cut, onWire, tcp, worker, closer, queued, received_>>
  BY <1>1 DEF Dequeue, TypeInv, ConnectionTypeOK, wireVars, workerVars, heardVars
<1>3. QueueInv(e) /\ sendQueue[e] \in Seq(Nat \ {0}) /\ queued[e] \in Nat
  BY Typed, ConnectionAssumption DEF ChainInv
<1>4. /\ queued[e] - Len(sendQueue[e]) \in Nat
      /\ Head(sendQueue[e]) = queued[e] - Len(sendQueue[e]) + 1
      /\ Len(sendQueue'[e]) <= queued'[e]
      /\ queued'[e] - Len(sendQueue'[e]) = queued[e] - Len(sendQueue[e]) + 1
      /\ \A i \in 1 .. Len(sendQueue'[e]) :
            sendQueue'[e][i] = queued'[e] - Len(sendQueue'[e]) + i
  <2>1. /\ Len(sendQueue[e]) <= queued[e]
        /\ \A i \in 1 .. Len(sendQueue[e]) :
              sendQueue[e][i] = queued[e] - Len(sendQueue[e]) + i
    BY <1>3 DEF QueueInv
  <2>2. LET q == sendQueue[e] IN
        /\ queued[e] - Len(q) \in Nat /\ Head(q) = queued[e] - Len(q) + 1
        /\ Len(Tail(q)) <= queued[e] /\ queued[e] - Len(Tail(q)) = queued[e] - Len(q) + 1
        /\ \A i \in 1 .. Len(Tail(q)) : Tail(q)[i] = queued[e] - Len(Tail(q)) + i
    BY <1>1, <1>3, <2>1, QueueHead, Zenon
  <2>3. sendQueue'[e] = Tail(sendQueue[e]) /\ queued'[e] = queued[e]
    BY <1>2
  <2> QED BY <2>2, <2>3, Zenon
<1>5. QueueInv(e)'
  BY <1>4 DEF QueueInv
<1>10. PICK m \in Nat : queued[e] - Len(sendQueue[e]) = m
  BY <1>4
<1>6. ASSUME NEW x \in Ends PROVE QueueInv(x)'
  <2>1. CASE x = e
    BY <1>5, <2>1
  <2>2. CASE x # e
    BY <1>2, <2>2 DEF ChainInv, QueueInv
  <2> QED BY <2>1, <2>2
<1>7. ASSUME NEW x \in Ends, tcp'[Other(x)] = "open" PROVE WireInv(x)'
  BY <1>2, <1>7 DEF ChainInv, WireInv
<1>8. ASSUME NEW x \in Ends, tcp'[Other(x)] = "open", ~cut', Working(x)' PROVE WriterInv(x)'
  <2>1. WriterInv(x)
    BY <1>2, <1>8 DEF ChainInv, Working
  <2>2. CASE x # e
    BY <1>2, <2>1, <2>2 DEF WriterInv, Written
  <2>3. CASE x = e
    <3>1. Written(e) = m * UnitsPerMessage /\ Written(e)' = Written(e)
      <4>1. Written(e) + 0 = m * UnitsPerMessage
        BY <1>1, <1>10, <2>1, <2>3 DEF WriterInv
      <4>2. Written(e) \in Nat
        <5>1. onWire[e] \in Seq(Nat) /\ received_[Other(e)] \in Seq(Nat)
          BY Typed, TwoEndsThere
        <5>2. Len(onWire[e]) \in Nat /\ Len(received_[Other(e)]) \in Nat
          BY <5>1, LenProperties
        <5>3. \A p, q \in Nat : p + q \in Nat
          OBVIOUS
        <5> QED BY <5>2, <5>3, Zenon DEF Written
      <4>3. Written(e) = m * UnitsPerMessage
        BY <4>1, <4>2
      <4>4. Written(e)' = Written(e)
        BY <1>2, Zenon DEF Written
      <4> QED BY <4>3, <4>4
    <3>2. /\ Len(dataToSend'[e]) = UnitsPerMessage
          /\ \A j \in 1 .. UnitsPerMessage : dataToSend'[e][j] = m * UnitsPerMessage + j
      <4>1. m + 1 \in Nat \ {0} /\ dataToSend'[e] = Units(m + 1)
        BY <1>2, <1>4, <1>10
      <4>2. Len(Units(m + 1)) = UnitsPerMessage
        BY <4>1, UnitsAreUnits
      <4> QED BY <4>1, <4>2, NextMessage
    <3>3. m * UnitsPerMessage + UnitsPerMessage = (m + 1) * UnitsPerMessage
      BY NextMessage
    <3> QED BY <1>4, <1>10, <2>3, <3>1, <3>2, <3>3 DEF WriterInv
  <2> QED BY <2>2, <2>3
<1>9. ByeInv' /\ StreamIntact'
  BY <1>2 DEF ByeInv, StreamIntact
<1> QED BY <1>6, <1>7, <1>8, <1>9 DEF ChainInv

(* The worker writes the unit that comes next. *)
LEMMA ChainWrite ==
    ASSUME TypeInv, ThreadInv, ByeInv, ChainInv, StreamIntact, NEW e \in Ends, SslWrite(e)
    PROVE  ByeInv' /\ ChainInv' /\ StreamIntact'
<1>1. worker[e] = "write" /\ dataToSend[e] # <<>> /\ ~cut /\ closer[e] \notin {"socket",
"closed"}
  BY DEF SslWrite, ThreadInv
<1>2. /\ onWire'[e] = Append(onWire[e], Head(dataToSend[e]))
      /\ dataToSend'[e] = Tail(dataToSend[e])
      /\ \A x \in Ends : x # e => onWire'[x] = onWire[x] /\ dataToSend'[x] = dataToSend[x]
      /\ UNCHANGED <<cut, tcp, worker, closer, sendQueue, queued, received_>>
  BY DEF SslWrite, TypeInv, ConnectionTypeOK, workerVars, heardVars
<1>3. /\ onWire[e] \in Seq(Nat) /\ dataToSend[e] \in Seq(Nat \ {0})
      /\ Other(e) \in Ends /\ received_[Other(e)] \in Seq(Nat)
  BY Typed, TwoEndsThere
<1>4. /\ Len(onWire[e]) \in Nat /\ Len(received_[Other(e)]) \in Nat
      /\ Head(dataToSend[e]) \in Nat \ {0}
  BY <1>1, <1>3, LenProperties, HeadTailProperties
<1>5. PICK n \in Nat : n = Len(received_[Other(e)])
  BY <1>4
<1>6. ASSUME NEW i \in 1 .. Len(onWire[e]) PROVE onWire[e][i] # Bye
  BY <1>1 DEF ByeInv
<1>7. ByeInv'
  <2> SUFFICES ASSUME NEW x \in Ends, NEW i \in 1 .. Len(onWire'[x]), onWire'[x][i] = Bye
               PROVE  closer'[x] \in {"socket", "closed"}
    BY DEF ByeInv
  <2>1. CASE x # e
    BY <1>2, <2>1 DEF ByeInv
  <2>2. CASE x = e
    <3>1. /\ Len(onWire'[e]) = Len(onWire[e]) + 1
          /\ onWire'[e][Len(onWire[e]) + 1] = Head(dataToSend[e])
          /\ \A j \in 1 .. Len(onWire[e]) : onWire'[e][j] = onWire[e][j]
      BY <1>2, <1>3, <1>4, AppendProperties
    <3>2. i \in 1 .. Len(onWire[e]) \/ i = Len(onWire[e]) + 1
      BY <1>4, <2>2, <3>1
    <3> QED BY <1>4, <1>6, <2>2, <3>1, <3>2 DEF Bye
  <2> QED BY <2>1, <2>2
<1>8. ASSUME NEW x \in Ends PROVE QueueInv(x)'
  BY <1>2 DEF ChainInv, QueueInv
<1>9. ASSUME tcp[Other(e)] = "open"
      PROVE  WireInv(e)' /\ WriterInv(e)'
  <2>1. WireInv(e) /\ WriterInv(e)
    BY <1>1, <1>9 DEF ChainInv, Working
  <2>2. \A i \in 1 .. Len(onWire[e]) : onWire[e][i] = n + i
    BY <1>5, <1>6, <2>1 DEF WireInv
  <2>3. PICK k \in Nat : k = n + Len(onWire[e])
    BY <1>4
  <2>4. Written(e) = k
    BY <1>5, <2>3, Zenon DEF Written
  <2>5. \A i \in 1 .. Len(dataToSend[e]) : dataToSend[e][i] = k + i
    BY <2>1, <2>4, Zenon DEF WriterInv
  <2>6. /\ Head(dataToSend[e]) = k + 1 /\ Len(dataToSend'[e]) + 1 = Len(dataToSend[e])
        /\ \A i \in 1 .. Len(dataToSend'[e]) : dataToSend'[e][i] = k + 1 + i
    <3>1. LET d == dataToSend[e] IN
          /\ Head(d) = k + 1 /\ Len(Tail(d)) + 1 = Len(d)
          /\ \A i \in 1 .. Len(Tail(d)) : Tail(d)[i] = k + 1 + i
      BY <1>1, <1>3, <2>5, DataHead, Zenon
    <3>2. dataToSend'[e] = Tail(dataToSend[e])
      BY <1>2
    <3> QED BY <3>1, <3>2, Zenon
  <2>7. /\ Len(onWire'[e]) = Len(onWire[e]) + 1
        /\ \A i \in 1 .. Len(onWire'[e]) :
              \/ onWire'[e][i] = n + i
              \/ (i = Len(onWire'[e]) /\ onWire'[e][i] = Bye)
    <3>1. Head(dataToSend[e]) \in Nat /\ Head(dataToSend[e]) = n + Len(onWire[e]) + 1
      BY <1>4, <2>3, <2>6
    <3>2. LET w == onWire[e]
              v == Head(dataToSend[e]) IN
          /\ Len(Append(w, v)) = Len(w) + 1
          /\ \A i \in 1 .. Len(Append(w, v)) :
                \/ Append(w, v)[i] = n + i
                \/ (i = Len(Append(w, v)) /\ Append(w, v)[i] = Bye)
      BY <1>3, <2>2, <3>1, WireAppend, Zenon
    <3>3. onWire'[e] = Append(onWire[e], Head(dataToSend[e]))
      BY <1>2
    <3> QED BY <3>2, <3>3, Zenon
  <2>8. WireInv(e)'
    BY <1>2, <1>5, <2>7 DEF WireInv
  <2>9. Written(e)' = k + 1
    <3>1. Written(e)' = n + Len(onWire'[e])
      BY <1>2, <1>5, Zenon DEF Written
    <3> QED BY <1>4, <2>3, <2>7, <3>1
  <2>10. Written(e)' + Len(dataToSend'[e]) = k + Len(dataToSend[e])
    <3>1. Len(dataToSend'[e]) \in Nat /\ Len(dataToSend[e]) \in Nat
      BY <1>1, <1>2, <1>3, LenProperties, HeadTailProperties
    <3>2. ASSUME NEW p \in Nat, NEW q \in Nat, p + 1 = q PROVE k + 1 + p = k + q
      BY <3>2
    <3>3. Len(dataToSend'[e]) + 1 = Len(dataToSend[e])
      BY <2>6, Zenon
    <3>4. k + 1 + Len(dataToSend'[e]) = k + Len(dataToSend[e])
      BY <3>1, <3>2, <3>3, Zenon
    <3> QED BY <2>9, <3>4, Zenon
  <2>11. k + Len(dataToSend[e]) = (queued'[e] - Len(sendQueue'[e])) * UnitsPerMessage
    <3>1. Written(e) + Len(dataToSend[e]) = (queued[e] - Len(sendQueue[e])) * UnitsPerMessage
      BY <2>1, Zenon DEF WriterInv
    <3> QED BY <1>2, <2>4, <3>1, Zenon
  <2>12. WriterInv(e)'
    <3>1. \A i \in 1 .. Len(dataToSend'[e]) : dataToSend'[e][i] = Written(e)' + i
      BY <2>6, <2>9, Zenon
    <3>2. Written(e)' + Len(dataToSend'[e])
             = (queued'[e] - Len(sendQueue'[e])) * UnitsPerMessage
      BY <2>10, <2>11, Zenon
    <3> QED BY <3>1, <3>2, Zenon DEF WriterInv
  <2> QED BY <2>8, <2>12
<1>10. ASSUME NEW x \in Ends, tcp'[Other(x)] = "open" PROVE WireInv(x)'
  <2>1. CASE x = e
    BY <1>2, <1>9, <1>10, <2>1
  <2>2. CASE x # e
    BY <1>2, <1>10, <2>2 DEF ChainInv, WireInv
  <2> QED BY <2>1, <2>2
<1>11. ASSUME NEW x \in Ends, tcp'[Other(x)] = "open", ~cut', Working(x)' PROVE WriterInv(x)'
  <2>1. CASE x = e
    BY <1>2, <1>9, <1>11, <2>1
  <2>2. CASE x # e
    BY <1>2, <1>11, <2>2 DEF ChainInv, WriterInv, Written, Working
  <2> QED BY <2>1, <2>2
<1>12. StreamIntact'
  BY <1>2 DEF StreamIntact
<1> QED BY <1>7, <1>8, <1>10, <1>11, <1>12 DEF ChainInv

(* The worker of the other end takes the unit that comes next. *)
LEMMA ChainRead ==
    ASSUME TypeInv, ThreadInv, ByeInv, ChainInv, StreamIntact, NEW e \in Ends, SslRead(e)
    PROVE  ByeInv' /\ ChainInv' /\ StreamIntact'
<1> DEFINE o == Other(e)
<1> DEFINE w == onWire[o]
<1>1. /\ o \in Ends /\ o # e /\ Other(o) = e
      /\ \A x \in Ends : x # e => x = o
  BY TwoEndsThere
<1>2. /\ w # <<>> /\ Head(w) # Bye
      /\ worker[e] = "read" /\ tcp[e] = "open"
  BY DEF SslRead, Incoming, ThreadInv, TypeInv, ConnectionTypeOK
<1>3. /\ onWire'[o] = Tail(w) /\ onWire'[e] = onWire[e]
      /\ received_'[e] = Append(received_[e], Head(w)) /\ received_'[o] = received_[o]
      /\ UNCHANGED <<cut, tcp, closer, dataToSend, sendQueue, queued>>
      /\ \A x \in Ends : Working(x)' => Working(x)
  BY <1>1 DEF SslRead, Incoming, TypeInv, ConnectionTypeOK, queueVars, WorkerGoesTo, Working
<1>4. w \in Seq(Nat) /\ received_[e] \in Seq(Nat)
  BY <1>1, Typed
<1>5. PICK n \in Nat : n = Len(received_[e])
  BY <1>4, LenProperties
<1>6. /\ Head(w) = n + 1 /\ Len(Tail(w)) = Len(w) - 1
      /\ \A i \in 1 .. Len(Tail(w)) :
            \/ Tail(w)[i] = n + 1 + i
            \/ (i = Len(Tail(w)) /\ Tail(w)[i] = Bye)
  <2>1. WireInv(o)
    BY <1>1, <1>2 DEF ChainInv
  <2>2. \A i \in 1 .. Len(w) : w[i] = n + i \/ (i = Len(w) /\ w[i] = Bye)
    BY <1>1, <1>5, <2>1, Zenon DEF WireInv
  <2> QED BY <1>2, <1>4, <2>2, WireHead, Zenon
<1>7. /\ Len(received_'[e]) = n + 1
      /\ received_'[e] = [i \in 1 .. Len(received_'[e]) |-> i]
  <2>1. received_[e] = [i \in 1 .. Len(received_[e]) |-> i]
    BY DEF StreamIntact
  <2>2. /\ Len(Append(received_[e], Len(received_[e]) + 1)) = Len(received_[e]) + 1
        /\ Append(received_[e], Len(received_[e]) + 1)
              = [i \in 1 .. Len(received_[e]) + 1 |-> i]
    BY <1>4, <2>1, OneMore, Zenon
  <2>3. received_'[e] = Append(received_[e], Len(received_[e]) + 1)
    BY <1>3, <1>5, <1>6, Zenon
  <2> QED BY <1>5, <2>2, <2>3, Zenon
<1>8. StreamIntact'
  BY <1>1, <1>3, <1>7, Zenon DEF StreamIntact
<1>9. ByeInv'
  <2> SUFFICES ASSUME NEW x \in Ends, NEW i \in 1 .. Len(onWire'[x]), onWire'[x][i] = Bye
               PROVE  closer'[x] \in {"socket", "closed"}
    BY DEF ByeInv
  <2>1. CASE x = e
    BY <1>3, <2>1 DEF ByeInv
  <2>2. CASE x = o
    <3>1. w \in Seq(Nat) /\ w # <<>> => /\ Len(w) \in Nat /\ Len(Tail(w)) = Len(w) - 1
                                        /\ \A j \in 1 .. Len(Tail(w)) : Tail(w)[j] = w[j + 1]
      BY LenProperties, HeadTailProperties
    <3>2. i \in 1 .. Len(w) - 1 /\ w[i + 1] = Bye
      BY <1>2, <1>3, <1>4, <2>2, <3>1, Zenon
    <3>3. ASSUME NEW p \in Nat, NEW j \in 1 .. p - 1 PROVE j + 1 \in 1 .. p
      OBVIOUS
    <3>4. i + 1 \in 1 .. Len(w)
      BY <1>2, <1>4, <3>1, <3>2, <3>3, Zenon
    <3> QED BY <1>1, <1>3, <2>2, <3>2, <3>4, Zenon DEF ByeInv
  <2> QED BY <1>1, <2>1, <2>2
<1>10. ASSUME NEW x \in Ends PROVE QueueInv(x)'
  BY <1>3 DEF ChainInv, QueueInv
<1>11. ASSUME NEW x \in Ends, tcp'[Other(x)] = "open" PROVE WireInv(x)'
  <2>1. CASE x = e
    <3>1. WireInv(e)
      BY <1>3, <1>11, <2>1 DEF ChainInv
    <3> QED BY <1>3, <2>1, <3>1, Zenon DEF WireInv
  <2>2. CASE x = o
    BY <1>1, <1>3, <1>6, <1>7, <2>2, Zenon DEF WireInv
  <2> QED BY <1>1, <2>1, <2>2
<1>12. ASSUME NEW x \in Ends, tcp'[Other(x)] = "open", ~cut', Working(x)' PROVE WriterInv(x)'
  <2>1. WriterInv(x)
    BY <1>3, <1>12 DEF ChainInv
  <2>2. Written(x)' = Written(x)
    <3>1. CASE x = e
      BY <1>3, <3>1, Zenon DEF Written
    <3>2. CASE x = o
      <4>1. Written(o) = n + Len(w)
        BY <1>1, <1>5, Zenon DEF Written
      <4>2. Written(o)' = n + 1 + (Len(w) - 1)
        BY <1>1, <1>3, <1>6, <1>7, Zenon DEF Written
      <4>3. ASSUME NEW p \in Nat PROVE n + 1 + (p - 1) = n + p
        OBVIOUS
      <4>4. Len(w) \in Nat
        BY <1>4, LenProperties
      <4> QED BY <3>2, <4>1, <4>2, <4>3, <4>4, Zenon
    <3> QED BY <1>1, <3>1, <3>2
  <2> QED BY <1>3, <2>1, <2>2, Zenon DEF WriterInv
<1> QED BY <1>8, <1>9, <1>10, <1>11, <1>12 DEF ChainInv

(* Close says close_notify behind the last unit. *)
LEMMA ChainShutdown ==
    ASSUME TypeInv, ThreadInv, ByeInv, ChainInv, StreamIntact, NEW e \in Ends, ShutdownSsl(e)
    PROVE  ByeInv' /\ ChainInv' /\ StreamIntact'
<1>1. /\ closer[e] = "shutdown" /\ worker[e] = "exited" /\ closer'[e] = "socket"
      /\ \A x \in Ends : x # e => closer'[x] = closer[x]
      /\ UNCHANGED <<cut, tcp, worker, dataToSend, sendQueue, queued, received_>>
  BY DEF ShutdownSsl, ThreadInv, TypeInv, ConnectionTypeOK, CloserGoesTo, workerVars, queueVars,
         heardVars
<1>2. /\ onWire'[e] = onWire[e] \/ onWire'[e] = Append(onWire[e], Bye)
      /\ \A x \in Ends : x # e => onWire'[x] = onWire[x]
  BY DEF ShutdownSsl, TypeInv, ConnectionTypeOK
<1>3. onWire[e] \in Seq(Nat) /\ Other(e) \in Ends /\ received_[Other(e)] \in Seq(Nat)
  BY Typed, TwoEndsThere
<1>4. ASSUME NEW i \in 1 .. Len(onWire[e]) PROVE onWire[e][i] # Bye
  BY <1>1 DEF ByeInv
<1>5. ByeInv'
  BY <1>1, <1>2 DEF ByeInv
<1>6. ASSUME NEW x \in Ends PROVE QueueInv(x)'
  BY <1>1 DEF ChainInv, QueueInv
<1>7. ASSUME NEW x \in Ends, tcp'[Other(x)] = "open" PROVE WireInv(x)'
  <2>1. WireInv(x)
    BY <1>1, <1>7 DEF ChainInv
  <2>2. CASE onWire'[x] = onWire[x]
    BY <1>1, <2>1, <2>2, Zenon DEF WireInv
  <2>3. CASE x = e /\ onWire'[e] = Append(onWire[e], Bye)
    <3>1. PICK n \in Nat : n = Len(received_[Other(e)])
      BY <1>3, LenProperties
    <3>2. \A i \in 1 .. Len(onWire[e]) : onWire[e][i] = n + i
      BY <1>4, <2>1, <2>3, <3>1, Zenon DEF WireInv
    <3>3. Bye \in Nat
      BY DEF Bye
    <3>4. LET v == onWire[e] IN
          \A i \in 1 .. Len(Append(v, Bye)) :
             \/ Append(v, Bye)[i] = n + i
             \/ (i = Len(Append(v, Bye)) /\ Append(v, Bye)[i] = Bye)
      BY <1>3, <3>2, <3>3, WireAppend, Zenon
    <3> QED BY <1>1, <2>3, <3>1, <3>4, Zenon DEF WireInv
  <2> QED BY <1>2, <2>2, <2>3
<1>8. ASSUME NEW x \in Ends, tcp'[Other(x)] = "open", ~cut', Working(x)' PROVE WriterInv(x)'
  <2>1. Working(x) /\ x # e
    BY <1>1, <1>8 DEF Working
  <2> QED BY <1>1, <1>2, <1>8, <2>1 DEF ChainInv, WriterInv, Written
<1> QED BY <1>1, <1>5, <1>6, <1>7, <1>8 DEF ChainInv, StreamIntact

(* A buffer that cannot be written is dropped: nobody reads any more. *)
LEMMA ChainWriteFails ==
    ASSUME TypeInv, ByeInv, ChainInv, StreamIntact, NEW e \in Ends, SslWriteFails(e)
    PROVE  ByeInv' /\ ChainInv' /\ StreamIntact'
<1>1. /\ cut \/ tcp[Other(e)] # "open"
      /\ \A x \in Ends : x # e => dataToSend'[x] = dataToSend[x]
      /\ UNCHANGED <<cut, onWire, tcp, worker, closer, sendQueue, queued, received_>>
  BY DEF SslWriteFails, Reachable, TypeInv, ConnectionTypeOK, wireVars, workerVars, heardVars
<1>2. ASSUME NEW x \in Ends, tcp'[Other(x)] = "open", ~cut', Working(x)' PROVE WriterInv(x)'
  <2>1. x # e
    BY <1>1, <1>2
  <2> QED BY <1>1, <1>2, <2>1 DEF ChainInv, WriterInv, Written, Working
<1>3. ASSUME NEW x \in Ends
      PROVE  QueueInv(x)' /\ (tcp'[Other(x)] = "open" => WireInv(x)')
  BY <1>1 DEF ChainInv, QueueInv, WireInv
<1> QED BY <1>1, <1>2, <1>3 DEF ChainInv, ByeInv, StreamIntact

(* The network fails: what is on the wires is gone. *)
LEMMA ChainCut ==
    ASSUME TypeInv, ChainInv, StreamIntact, NetworkFails
    PROVE  ByeInv' /\ ChainInv' /\ StreamIntact'
<1>1. /\ cut' /\ \A x \in Ends : onWire'[x] = <<>>
      /\ UNCHANGED <<sendQueue, queued, received_>>
  BY DEF NetworkFails, queueVars, heardVars
<1> QED BY <1>1 DEF ChainInv, QueueInv, WireInv, ByeInv, StreamIntact

-----------------------------------------------------------------------------
(* Every step keeps the chain. *)
LEMMA ChainStep ==
    TypeInv /\ ThreadInv /\ ByeInv /\ ChainInv /\ StreamIntact
        /\ [ConnectionNext]_connectionVars
        => ByeInv' /\ ChainInv' /\ StreamIntact'
<1> SUFFICES ASSUME TypeInv, ThreadInv, ByeInv, ChainInv, StreamIntact,
                    [ConnectionNext]_connectionVars
             PROVE  ByeInv' /\ ChainInv' /\ StreamIntact'
  OBVIOUS
<1>1. CASE UNCHANGED connectionVars
  BY <1>1, ChainKept
  DEF connectionVars, wireVars, workerVars, queueVars, heardVars, Working
<1>2. CASE NetworkFails
  BY <1>2, ChainCut
<1>3. ASSUME NEW e \in Ends, Enqueue(e) PROVE ByeInv' /\ ChainInv' /\ StreamIntact'
  BY <1>3, ChainEnqueue
<1>4. ASSUME NEW e \in Ends, Dequeue(e) PROVE ByeInv' /\ ChainInv' /\ StreamIntact'
  BY <1>4, ChainDequeue
<1>5. ASSUME NEW e \in Ends, SslWrite(e) PROVE ByeInv' /\ ChainInv' /\ StreamIntact'
  BY <1>5, ChainWrite
<1>6. ASSUME NEW e \in Ends, SslWriteFails(e) PROVE ByeInv' /\ ChainInv' /\ StreamIntact'
  BY <1>6, ChainWriteFails
<1>7. ASSUME NEW e \in Ends, SslRead(e) PROVE ByeInv' /\ ChainInv' /\ StreamIntact'
  BY <1>7, ChainRead
<1>8. ASSUME NEW e \in Ends, ShutdownSsl(e) PROVE ByeInv' /\ ChainInv' /\ StreamIntact'
  BY <1>8, ChainShutdown
<1>9. ASSUME NEW e \in Ends, WorkerClosesSocket(e) PROVE ByeInv' /\ ChainInv' /\ StreamIntact'
  <2>1. /\ DestroySocket(e) /\ UNCHANGED <<cut, dataToSend, sendQueue, queued, received_>>
        /\ \A x \in Ends : worker'[x] \in {"loop", "write", "read"} => Working(x) /\ x # e
        /\ \A x \in Ends : closer[x] \in {"socket", "closed"}
                             => closer'[x] \in {"socket", "closed"}
    BY <1>9 DEF WorkerClosesSocket, WorkerGoesTo, Working, ThreadInv, TypeInv,
                ConnectionTypeOK, workerVars, queueVars, heardVars
  <2> QED BY <2>1, ChainCutShort
<1>10. ASSUME NEW e \in Ends, CloseTcpSocket(e) PROVE ByeInv' /\ ChainInv' /\ StreamIntact'
  <2>1. /\ DestroySocket(e) /\ UNCHANGED <<cut, dataToSend, sendQueue, queued, received_>>
        /\ \A x \in Ends : worker'[x] \in {"loop", "write", "read"} => Working(x) /\ x # e
        /\ \A x \in Ends : closer[x] \in {"socket", "closed"}
                             => closer'[x] \in {"socket", "closed"}
    BY <1>10 DEF CloseTcpSocket, CloserGoesTo, Working, ThreadInv, TypeInv,
                ConnectionTypeOK, workerVars, queueVars, heardVars
  <2> QED BY <2>1, ChainCutShort
<1>11. ASSUME NEW e \in Ends, UserSends(e) PROVE ByeInv' /\ ChainInv' /\ StreamIntact'
  <2>1. /\ UNCHANGED <<cut, onWire, tcp, dataToSend, sendQueue, queued, received_>>
        /\ \A x \in Ends : worker'[x] \in {"loop", "write", "read"} => Working(x)
        /\ \A x \in Ends : closer[x] \in {"socket", "closed"}
                             => closer'[x] \in {"socket", "closed"}
    BY <1>11 DEF UserSends, Working, TypeInv, ConnectionTypeOK,
                wireVars, workerVars, queueVars, heardVars
  <2> QED BY <2>1, ChainKept
<1>12. ASSUME NEW e \in Ends, RequestSend(e) PROVE ByeInv' /\ ChainInv' /\ StreamIntact'
  <2>1. /\ UNCHANGED <<cut, onWire, tcp, dataToSend, sendQueue, queued, received_>>
        /\ \A x \in Ends : worker'[x] \in {"loop", "write", "read"} => Working(x)
        /\ \A x \in Ends : closer[x] \in {"socket", "closed"}
                             => closer'[x] \in {"socket", "closed"}
    BY <1>12 DEF RequestSend, Working, TypeInv, ConnectionTypeOK,
                wireVars, workerVars, queueVars, heardVars
  <2> QED BY <2>1, ChainKept
<1>13. ASSUME NEW e \in Ends, WorkerTurn(e) PROVE ByeInv' /\ ChainInv' /\ StreamIntact'
  <2>1. /\ UNCHANGED <<cut, onWire, tcp, dataToSend, sendQueue, queued, received_>>
        /\ \A x \in Ends : worker'[x] \in {"loop", "write", "read"} => Working(x)
        /\ \A x \in Ends : closer[x] \in {"socket", "closed"}
                             => closer'[x] \in {"socket", "closed"}
    BY <1>13 DEF WorkerTurn, WorkerGoesTo, Working, TypeInv, ConnectionTypeOK,
                wireVars, workerVars, queueVars, heardVars
  <2> QED BY <2>1, ChainKept
<1>14. ASSUME NEW e \in Ends, WriteDone(e) PROVE ByeInv' /\ ChainInv' /\ StreamIntact'
  <2>1. /\ UNCHANGED <<cut, onWire, tcp, dataToSend, sendQueue, queued, received_>>
        /\ \A x \in Ends : worker'[x] \in {"loop", "write", "read"} => Working(x)
        /\ \A x \in Ends : closer[x] \in {"socket", "closed"}
                             => closer'[x] \in {"socket", "closed"}
    BY <1>14 DEF WriteDone, WorkerGoesTo, Working, TypeInv, ConnectionTypeOK,
                wireVars, workerVars, queueVars, heardVars
  <2> QED BY <2>1, ChainKept
<1>15. ASSUME NEW e \in Ends, ReadNothing(e) PROVE ByeInv' /\ ChainInv' /\ StreamIntact'
  <2>1. /\ UNCHANGED <<cut, onWire, tcp, dataToSend, sendQueue, queued, received_>>
        /\ \A x \in Ends : worker'[x] \in {"loop", "write", "read"} => Working(x)
        /\ \A x \in Ends : closer[x] \in {"socket", "closed"}
                             => closer'[x] \in {"socket", "closed"}
    BY <1>15 DEF ReadNothing, WorkerGoesTo, Working, TypeInv, ConnectionTypeOK,
                wireVars, workerVars, queueVars, heardVars
  <2> QED BY <2>1, ChainKept
<1>16. ASSUME NEW e \in Ends, ReadEmpty(e) PROVE ByeInv' /\ ChainInv' /\ StreamIntact'
  <2>1. /\ UNCHANGED <<cut, onWire, tcp, dataToSend, sendQueue, queued, received_>>
        /\ \A x \in Ends : worker'[x] \in {"loop", "write", "read"} => Working(x)
        /\ \A x \in Ends : closer[x] \in {"socket", "closed"}
                             => closer'[x] \in {"socket", "closed"}
    BY <1>16 DEF ReadEmpty, Lost, WorkerGoesTo, Working, TypeInv, ConnectionTypeOK,
                wireVars, workerVars, queueVars, heardVars
  <2> QED BY <2>1, ChainKept
<1>17. ASSUME NEW e \in Ends, ReadEnd(e) PROVE ByeInv' /\ ChainInv' /\ StreamIntact'
  <2>1. /\ UNCHANGED <<cut, onWire, tcp, dataToSend, sendQueue, queued, received_>>
        /\ \A x \in Ends : worker'[x] \in {"loop", "write", "read"} => Working(x)
        /\ \A x \in Ends : closer[x] \in {"socket", "closed"}
                             => closer'[x] \in {"socket", "closed"}
    BY <1>17 DEF ReadEnd, Lost, WorkerGoesTo, Working, TypeInv, ConnectionTypeOK,
                wireVars, workerVars, queueVars, heardVars
  <2> QED BY <2>1, ChainKept
<1>18. ASSUME NEW e \in Ends, SeesClosing(e) PROVE ByeInv' /\ ChainInv' /\ StreamIntact'
  <2>1. /\ UNCHANGED <<cut, onWire, tcp, dataToSend, sendQueue, queued, received_>>
        /\ \A x \in Ends : worker'[x] \in {"loop", "write", "read"} => Working(x)
        /\ \A x \in Ends : closer[x] \in {"socket", "closed"}
                             => closer'[x] \in {"socket", "closed"}
    BY <1>18 DEF SeesClosing, WorkerGoesTo, Working, TypeInv, ConnectionTypeOK,
                wireVars, workerVars, queueVars, heardVars
  <2> QED BY <2>1, ChainKept
<1>19. ASSUME NEW e \in Ends, ClaimSelfClose(e) PROVE ByeInv' /\ ChainInv' /\ StreamIntact'
  <2>1. /\ UNCHANGED <<cut, onWire, tcp, dataToSend, sendQueue, queued, received_>>
        /\ \A x \in Ends : worker'[x] \in {"loop", "write", "read"} => Working(x)
        /\ \A x \in Ends : closer[x] \in {"socket", "closed"}
                             => closer'[x] \in {"socket", "closed"}
    BY <1>19 DEF ClaimSelfClose, WorkerGoesTo, Working, TypeInv, ConnectionTypeOK,
                wireVars, workerVars, queueVars, heardVars
  <2> QED BY <2>1, ChainKept
<1>20. ASSUME NEW e \in Ends, ReportLoss(e) PROVE ByeInv' /\ ChainInv' /\ StreamIntact'
  <2>1. /\ UNCHANGED <<cut, onWire, tcp, dataToSend, sendQueue, queued, received_>>
        /\ \A x \in Ends : worker'[x] \in {"loop", "write", "read"} => Working(x)
        /\ \A x \in Ends : closer[x] \in {"socket", "closed"}
                             => closer'[x] \in {"socket", "closed"}
    BY <1>20 DEF ReportLoss, WorkerGoesTo, Working, TypeInv, ConnectionTypeOK,
                wireVars, workerVars, queueVars, heardVars
  <2> QED BY <2>1, ChainKept
<1>21. ASSUME NEW e \in Ends, UserClosesTls(e) PROVE ByeInv' /\ ChainInv' /\ StreamIntact'
  <2>1. /\ UNCHANGED <<cut, onWire, tcp, dataToSend, sendQueue, queued, received_>>
        /\ \A x \in Ends : worker'[x] \in {"loop", "write", "read"} => Working(x)
        /\ \A x \in Ends : closer[x] \in {"socket", "closed"}
                             => closer'[x] \in {"socket", "closed"}
    BY <1>21 DEF UserClosesTls, CloserGoesTo, Working, TypeInv, ConnectionTypeOK,
                wireVars, workerVars, queueVars, heardVars
  <2> QED BY <2>1, ChainKept
<1>22. ASSUME NEW e \in Ends, TakeSslConnection(e) PROVE ByeInv' /\ ChainInv' /\ StreamIntact'
  <2>1. /\ UNCHANGED <<cut, onWire, tcp, dataToSend, sendQueue, queued, received_>>
        /\ \A x \in Ends : worker'[x] \in {"loop", "write", "read"} => Working(x)
        /\ \A x \in Ends : closer[x] \in {"socket", "closed"}
                             => closer'[x] \in {"socket", "closed"}
    BY <1>22 DEF TakeSslConnection, CloserGoesTo, Working, TypeInv, ConnectionTypeOK,
                wireVars, workerVars, queueVars, heardVars
  <2> QED BY <2>1, ChainKept
<1>23. ASSUME NEW e \in Ends, JoinWorker(e) PROVE ByeInv' /\ ChainInv' /\ StreamIntact'
  <2>1. /\ UNCHANGED <<cut, onWire, tcp, dataToSend, sendQueue, queued, received_>>
        /\ \A x \in Ends : worker'[x] \in {"loop", "write", "read"} => Working(x)
        /\ \A x \in Ends : closer[x] \in {"socket", "closed"}
                             => closer'[x] \in {"socket", "closed"}
    BY <1>23 DEF JoinWorker, CloserGoesTo, Working, TypeInv, ConnectionTypeOK,
                wireVars, workerVars, queueVars, heardVars
  <2> QED BY <2>1, ChainKept
<1> QED
  BY <1>1, <1>2, <1>3, <1>4, <1>5, <1>6, <1>7, <1>8, <1>9, <1>10, <1>11, <1>12, <1>13, <1>14,
     <1>15, <1>16, <1>17, <1>18, <1>19, <1>20, <1>21, <1>22, <1>23
  DEF ConnectionNext, SendStep, WorkerStep, TlsCloseStep

LEMMA ConnectionInvStep == ConnectionInv /\ [ConnectionNext]_connectionVars => ConnectionInv'
  BY TypeStep, ThreadStep, ChainStep DEF ConnectionInv

LEMMA ConnectionInvAlways == ConnectionSpec => []ConnectionInv
  BY ConnectionInvInit, ConnectionInvStep, PTL DEF ConnectionSpec

-----------------------------------------------------------------------------
(* Every variable of the two ends keeps to its domain. *)
THEOREM ConnectionTypeCorrect == ConnectionSpec => []ConnectionTypeOK
<1>1. ConnectionInv => ConnectionTypeOK
  BY DEF ConnectionInv, TypeInv
<1> QED BY <1>1, ConnectionInvAlways, PTL

(* What the worker of an end has handed on is what the other end's user    *)
(* has sent, from the first unit on and without a gap, through waits for   *)
(* the wire, failures of the network and closes on both sides.             *)
THEOREM StreamSafety == ConnectionSpec => []StreamIntact
<1>1. ConnectionInv => StreamIntact
  BY DEF ConnectionInv
<1> QED BY <1>1, ConnectionInvAlways, PTL

(* The worker reads and writes an FSocket that is there, although it does  *)
(* so without the lock under which Close destroys it: Close waits for it.  *)
THEOREM TlsSocketSafety == ConnectionSpec => []TlsSocketOutlivesUse
<1>1. ConnectionInv => TlsSocketOutlivesUse
  BY DEF ConnectionInv, TypeInv, ThreadInv, ConnectionTypeOK, TlsSocketOutlivesUse
<1> QED BY <1>1, ConnectionInvAlways, PTL

(* A step of an end that is not closed, or has not reported its loss yet. *)
LEMMA QuietStep ==
    TypeInv /\ ThreadInv /\ [ConnectionNext]_connectionVars =>
        [\A e \in Ends :
            /\ losses'[e] # losses[e] => losses[e] = 0
            /\ closer[e] = "closed" =>
                  received_'[e] = received_[e] /\ losses'[e] = losses[e]]_connectionVars
<1> SUFFICES ASSUME TypeInv, ThreadInv, ConnectionNext, NEW e \in Ends
             PROVE  /\ losses'[e] # losses[e] => losses[e] = 0
                    /\ closer[e] = "closed" =>
                          received_'[e] = received_[e] /\ losses'[e] = losses[e]
  OBVIOUS
<1>1. CASE UNCHANGED heardVars
  BY <1>1 DEF heardVars
<1>2. ASSUME NEW x \in Ends, SslRead(x)
      PROVE  losses' = losses /\ (closer[e] = "closed" => received_'[e] = received_[e])
  BY <1>2 DEF SslRead, ThreadInv, TypeInv, ConnectionTypeOK
<1>3. ASSUME NEW x \in Ends, ReportLoss(x)
      PROVE  /\ received_' = received_ /\ (losses'[e] # losses[e] => losses[e] = 0)
             /\ closer[e] = "closed" => losses'[e] = losses[e]
  BY <1>3 DEF ReportLoss, ThreadInv, TypeInv, ConnectionTypeOK
<1>4. \/ UNCHANGED heardVars
      \/ \E x \in Ends : SslRead(x) \/ ReportLoss(x)
  BY
  DEF ConnectionNext, SendStep, WorkerStep, TlsCloseStep, NetworkFails, UserSends,
      UserClosesTls,
         RequestSend, Enqueue, WorkerTurn, Dequeue, SslWrite, SslWriteFails, WriteDone,
         ReadNothing,
         ReadEmpty, ReadEnd, SeesClosing, ClaimSelfClose, WorkerClosesSocket, TakeSslConnection,
         JoinWorker, ShutdownSsl, CloseTcpSocket
<1> QED BY <1>1, <1>2, <1>3, <1>4

(* The loss of a connection is reported once, and after Close has returned *)
(* nothing is received or reported any more.                               *)
THEOREM ClosedEndSafety == ConnectionSpec => ClosedEndIsQuiet
<1>1. ConnectionInv /\ [ConnectionNext]_connectionVars =>
        [\A e \in Ends :
            /\ losses'[e] # losses[e] => losses[e] = 0
            /\ closer[e] = "closed" =>
                  received_'[e] = received_[e] /\ losses'[e] = losses[e]]_connectionVars
  BY QuietStep DEF ConnectionInv
<1> QED BY <1>1, ConnectionInvAlways, PTL DEF ConnectionSpec, ClosedEndIsQuiet

-----------------------------------------------------------------------------
(* Close waits for the worker, which first writes what is queued.  Of what *)
(* it has to do nothing is added while it is waited for: neither turns of  *)
(* its loop nor messages, though a user may be in Send. *)

(* How many steps are left, at the most, outside its writing. *)
WorkerLeft(pc) ==
    CASE pc = "write"              -> 6
      [] pc = "read"               -> 5
      [] pc = "notify"             -> 4
      [] pc = "claim"              -> 3
      [] pc = "drop"               -> 2
      [] pc \in {"loop", "report"} -> 1
      [] pc = "exited"             -> 0

(* A step leaves all of it alone, or a unit or a message less to write, or *)
(* brings the worker nearer to its end. *)
WorkerEnds(e) ==
    \/ worker'[e] = worker[e] /\ sendQueue'[e] = sendQueue[e] /\ dataToSend'[e] = dataToSend[e]
    \/ /\ worker'[e] = worker[e] /\ sendQueue'[e] = sendQueue[e]
       /\ Len(dataToSend'[e]) < Len(dataToSend[e])
    \/ worker'[e] = worker[e] /\ Len(sendQueue'[e]) < Len(sendQueue[e])
    \/ /\ WorkerLeft(worker'[e]) < WorkerLeft(worker[e])
       /\ sendQueue'[e] = sendQueue[e] /\ dataToSend'[e] = dataToSend[e]

TlsConnectionWaitsBriefly ==
    [][\A e \in Ends : closer[e] = "join" => WorkerEnds(e)]_connectionVars

(* Close has told the worker to stop and taken the connection away from    *)
(* the user's thread, which is not about to queue a message. *)
JoinInv ==
    \A e \in Ends :
        /\ closer[e] # "none" => sslClosing[e]
        /\ closer[e] = "join" => bStopWorker[e] /\ ~hasSsl[e] /\ sender[e] # "locks"

LEMMA JoinInvStep == TypeInv /\ JoinInv /\ [ConnectionNext]_connectionVars => JoinInv'
<1> SUFFICES ASSUME TypeInv, JoinInv, [ConnectionNext]_connectionVars PROVE JoinInv'
  OBVIOUS
<1> USE DEF JoinInv, flagVars
<1>0. /\ sslClosing \in [Ends -> BOOLEAN] /\ hasSsl \in [Ends -> BOOLEAN]
      /\ bStopWorker \in [Ends -> BOOLEAN]
      /\ sender \in [Ends -> {"idle", "packed", "locks"}]
      /\ closer \in [Ends -> {"none", "take", "join", "shutdown", "socket", "closed"}]
  BY DEF TypeInv, ConnectionTypeOK
<1>1. CASE NetworkFails
  BY <1>1 DEF NetworkFails
<1>2. ASSUME NEW e \in Ends, UserSends(e) \/ SendStep(e) PROVE JoinInv'
  BY <1>0, <1>2 DEF UserSends, SendStep, RequestSend, Enqueue
<1>3. ASSUME NEW e \in Ends, WorkerStep(e) PROVE JoinInv'
  <2>1. UNCHANGED <<hasSsl, sslClosing, bStopWorker, sender, closer>>
    BY <1>3 DEF WorkerStep, WorkerTurn, Dequeue, SslWrite, SslWriteFails, WriteDone, SslRead,
       ReadNothing, ReadEmpty, ReadEnd, SeesClosing, ClaimSelfClose, WorkerClosesSocket, ReportLoss
  <2> QED BY <2>1
<1>4. ASSUME NEW e \in Ends, UserClosesTls(e) PROVE JoinInv'
  BY <1>0, <1>4 DEF UserClosesTls, CloserGoesTo
<1>5. ASSUME NEW e \in Ends, TakeSslConnection(e) PROVE JoinInv'
  BY <1>0, <1>5 DEF TakeSslConnection, CloserGoesTo
<1>6. ASSUME NEW e \in Ends, JoinWorker(e) \/ ShutdownSsl(e) \/ CloseTcpSocket(e) PROVE JoinInv'
  BY <1>0, <1>6 DEF JoinWorker, ShutdownSsl, CloseTcpSocket, CloserGoesTo
<1>7. CASE UNCHANGED connectionVars
  BY <1>7 DEF connectionVars
<1> QED BY <1>1, <1>2, <1>3, <1>4, <1>5, <1>6, <1>7 DEF ConnectionNext, TlsCloseStep

(* What the worker does when it is waited for. *)
LEMMA JoinedWorkerEnds ==
    ASSUME TypeInv, JoinInv, NEW e \in Ends, closer[e] = "join", WorkerStep(e)
    PROVE  WorkerEnds(e)
<1> USE DEF WorkerGoesTo, queueVars
<1>0. /\ bStopWorker[e] /\ sslClosing[e]
      /\ worker \in [Ends -> {"loop", "write", "read", "notify", "claim", "drop", "report",
                              "exited"}]
      /\ sendQueue \in [Ends -> Seq(Nat)] /\ dataToSend \in [Ends -> Seq(Nat)]
      /\ sendQueue[e] \in Seq(Nat) /\ dataToSend[e] \in Seq(Nat)
  BY DEF JoinInv, TypeInv, ConnectionTypeOK
<1>1. CASE Dequeue(e)
  <2>1. worker' = worker /\ sendQueue'[e] = Tail(sendQueue[e]) /\ sendQueue[e] # <<>>
    BY <1>0, <1>1 DEF Dequeue, workerVars
  <2> QED BY <1>0, <2>1 DEF WorkerEnds
<1>2. CASE SslWrite(e)
  <2>1. /\ worker' = worker /\ sendQueue' = sendQueue
        /\ dataToSend'[e] = Tail(dataToSend[e]) /\ dataToSend[e] # <<>>
    BY <1>0, <1>2 DEF SslWrite, workerVars
  <2> QED BY <1>0, <2>1 DEF WorkerEnds
<1>3. CASE SslWriteFails(e)
  <2>1. /\ worker' = worker /\ sendQueue' = sendQueue
        /\ dataToSend'[e] = <<>> /\ dataToSend[e] # <<>>
    BY <1>0, <1>3 DEF SslWriteFails, workerVars
  <2> QED BY <1>0, <2>1 DEF WorkerEnds
<1>4. CASE ~Dequeue(e) /\ ~SslWrite(e) /\ ~SslWriteFails(e)
  <2>1. sendQueue' = sendQueue /\ dataToSend' = dataToSend
    BY <1>4 DEF WorkerStep, WorkerTurn, WriteDone, SslRead, ReadNothing, ReadEmpty, ReadEnd,
       SeesClosing, ClaimSelfClose, WorkerClosesSocket, ReportLoss
  <2>2. \/ worker[e] = "loop" /\ worker'[e] = "exited"
        \/ worker[e] = "write" /\ worker'[e] = "read"
        \/ worker[e] = "read" /\ worker'[e] \in {"loop", "notify"}
        \/ worker[e] = "notify" /\ worker'[e] = "exited"
        \/ worker[e] = "claim" /\ worker'[e] \in {"drop", "exited"}
        \/ worker[e] = "drop" /\ worker'[e] = "report"
        \/ worker[e] = "report" /\ worker'[e] = "exited"
    <3>1. CASE WorkerTurn(e) \/ WriteDone(e)
      BY <1>0, <3>1 DEF WorkerTurn, WriteDone
    <3>2. CASE SslRead(e) \/ ReadNothing(e)
      BY <1>0, <3>2 DEF SslRead, ReadNothing
    <3>3. CASE ReadEmpty(e) \/ ReadEnd(e)
      BY <1>0, <3>3 DEF ReadEmpty, ReadEnd, Lost
    <3>4. CASE SeesClosing(e) \/ ClaimSelfClose(e)
      BY <1>0, <3>4 DEF SeesClosing, ClaimSelfClose
    <3>5. CASE WorkerClosesSocket(e) \/ ReportLoss(e)
      BY <1>0, <3>5 DEF WorkerClosesSocket, ReportLoss
    <3> QED BY <1>4, <3>1, <3>2, <3>3, <3>4, <3>5 DEF WorkerStep
  <2>3. WorkerLeft(worker'[e]) < WorkerLeft(worker[e])
    BY <2>2 DEF WorkerLeft
  <2> QED BY <2>1, <2>3 DEF WorkerEnds
<1> QED BY <1>1, <1>2, <1>3, <1>4

(* Nobody else adds to what it has to do. *)
LEMMA OthersLeaveWorker ==
    ASSUME TypeInv, JoinInv, [ConnectionNext]_connectionVars, NEW e \in Ends, closer[e] = "join",
           ~WorkerStep(e)
    PROVE  worker'[e] = worker[e] /\ sendQueue'[e] = sendQueue[e] /\ dataToSend'[e] = dataToSend[e]
<1> USE DEF workerVars, queueVars
<1>0. /\ sender[e] # "locks"
      /\ worker \in [Ends -> {"loop", "write", "read", "notify", "claim", "drop", "report",
                              "exited"}]
      /\ sendQueue \in [Ends -> Seq(Nat)] /\ dataToSend \in [Ends -> Seq(Nat)]
  BY DEF JoinInv, TypeInv, ConnectionTypeOK
<1>1. CASE NetworkFails
  BY <1>1 DEF NetworkFails
<1>2. ASSUME NEW x \in Ends, UserSends(x) \/ RequestSend(x) \/ UserClosesTls(x) \/ TlsCloseStep(x)
      PROVE  UNCHANGED <<worker, sendQueue, dataToSend>>
  BY <1>2 DEF UserSends, RequestSend, UserClosesTls, TlsCloseStep, TakeSslConnection, JoinWorker,
     ShutdownSsl, CloseTcpSocket
<1>3. ASSUME NEW x \in Ends, Enqueue(x)
      PROVE  UNCHANGED <<worker, dataToSend>> /\ sendQueue'[e] = sendQueue[e]
  BY <1>0, <1>3 DEF Enqueue
<1>4. ASSUME NEW x \in Ends \ {e}, WorkerStep(x)
      PROVE  worker'[e] = worker[e] /\ sendQueue'[e] = sendQueue[e] /\ dataToSend'[e] = dataToSend[e]
  <2> USE <1>0 DEF WorkerGoesTo, Lost
  <2>1. CASE WorkerTurn(x) \/ Dequeue(x)
    BY <2>1 DEF WorkerTurn, Dequeue
  <2>2. CASE SslWrite(x) \/ SslWriteFails(x) \/ WriteDone(x)
    BY <2>2 DEF SslWrite, SslWriteFails, WriteDone
  <2>3. CASE SslRead(x) \/ ReadNothing(x) \/ ReadEmpty(x) \/ ReadEnd(x)
    BY <2>3 DEF SslRead, ReadNothing, ReadEmpty, ReadEnd
  <2>4. CASE SeesClosing(x) \/ ClaimSelfClose(x) \/ WorkerClosesSocket(x) \/ ReportLoss(x)
    BY <2>4 DEF SeesClosing, ClaimSelfClose, WorkerClosesSocket, ReportLoss
  <2> QED BY <1>4, <2>1, <2>2, <2>3, <2>4 DEF WorkerStep
<1>5. CASE UNCHANGED connectionVars
  BY <1>5 DEF connectionVars
<1> QED BY <1>1, <1>2, <1>3, <1>4, <1>5 DEF ConnectionNext, SendStep

(* The worker that Close waits for writes what was queued when Close took  *)
(* the connection, reads at most once more and ends: it does not go round  *)
(* its loop, and a Send that comes between Close and the worker queues     *)
(* nothing more. *)
THEOREM ConnectionCloseWaitsBriefly == ConnectionSpec => TlsConnectionWaitsBriefly
<1> DEFINE All == TypeInv /\ JoinInv
<1>1. ConnectionInit => All
  BY ConnectionInvInit DEF ConnectionInit, Connected, ConnectionInv, JoinInv
<1>2. All /\ [ConnectionNext]_connectionVars => All'
  BY TypeStep, JoinInvStep
<1>3. ASSUME All, [ConnectionNext]_connectionVars
      PROVE  [\A e \in Ends : closer[e] = "join" => WorkerEnds(e)]_connectionVars
  <2> SUFFICES ASSUME NEW e \in Ends, closer[e] = "join" PROVE WorkerEnds(e)
    OBVIOUS
  <2>1. CASE WorkerStep(e)
    BY <1>3, <2>1, JoinedWorkerEnds
  <2>2. CASE ~WorkerStep(e)
    BY <1>3, <2>2, OthersLeaveWorker DEF WorkerEnds
  <2> QED BY <2>1, <2>2
<1> QED BY <1>1, <1>2, <1>3, PTL DEF ConnectionSpec, TlsConnectionWaitsBriefly
=============================================================================
