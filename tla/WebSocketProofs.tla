--------------------------- MODULE WebSocketProofs ---------------------------
(***************************************************************************)
(* Proofs about the users of web sockets, UProtocolWebSocketClient and     *)
(* UProductionSubsystem, for any number of sockets and messages.           *)
(***************************************************************************)
EXTENDS ProductionSubsystem, WebSocketClient, FiniteSetTheorems, TLAPS

-----------------------------------------------------------------------------
(* The callbacks of the engine's sockets.                                  *)

(* More callbacks of s may come, or wait for the game thread. *)
Busy(s) == Live(s) \/ callbacks[s] # <<>>

(* The callbacks of one socket: at most one connect, and first; exactly    *)
(* one ending once the socket is over, and last.                           *)
QueueInv ==
    \A s \in Sockets :
        /\ ws[s] \in {"unused", "connecting"} => callbacks[s] = <<>>
        /\ \A i \in DOMAIN callbacks[s] :
              /\ callbacks[s][i] \in {"connected", "error"} => i = 1
              /\ callbacks[s][i] \in Endings => i = Len(callbacks[s]) /\ ws[s] = "over"
        /\ ws[s] = "over" /\ callbacks[s] # <<>> => callbacks[s][Len(callbacks[s])] \in Endings

SocketInv == WTypeOK /\ QueueInv

(* What waits is about a connection that has been announced. *)
Announced ==
    \A s \in Sockets :
        /\ ws[s] # "connecting"
        /\ \A i \in DOMAIN callbacks[s] : callbacks[s][i] \notin {"connected", "error"}

(* What waits is about a connection that is still to be announced, or that *)
(* failed.                                                                 *)
ToAnnounce ==
    \A s \in Sockets :
        /\ ws[s] = "open" => callbacks[s] # <<>> /\ callbacks[s][1] = "connected"
        /\ \A i \in DOMAIN callbacks[s] :
              callbacks[s][i] \in Messages => callbacks[s][1] = "connected"

(* Appending keeps the elements and their order. *)
LEMMA Appended ==
    ASSUME NEW S, NEW q \in Seq(S), NEW x \in S
    PROVE  /\ Append(q, x) \in Seq(S) /\ Append(q, x) # <<>>
           /\ Len(q) \in Nat /\ DOMAIN q = 1 .. Len(q)
           /\ Len(Append(q, x)) = Len(q) + 1 /\ DOMAIN Append(q, x) = 1 .. Len(q) + 1
           /\ \A i \in 1 .. Len(q) : Append(q, x)[i] = q[i]
           /\ Append(q, x)[Len(q) + 1] = x
           /\ q = <<>> <=> Len(q) = 0
  OBVIOUS

(* Only the empty sequence has length 0. *)
LEMMA EmptyLen == ASSUME NEW S, NEW q \in Seq(S) PROVE q = <<>> <=> Len(q) = 0
  OBVIOUS

(* Dropping the first element keeps the rest in its order. *)
LEMMA Dropped ==
    ASSUME NEW S, NEW q \in Seq(S), q # <<>>
    PROVE  /\ Tail(q) \in Seq(S)
           /\ Len(q) \in Nat \ {0} /\ DOMAIN q = 1 .. Len(q)
           /\ Len(Tail(q)) = Len(q) - 1 /\ DOMAIN Tail(q) = 1 .. Len(q) - 1
           /\ \A i \in 1 .. Len(q) - 1 : Tail(q)[i] = q[i + 1]
           /\ Head(q) = q[1]
           /\ Tail(q) = <<>> <=> Len(q) = 1
<1>1. Len(q) \in Nat \ {0} /\ DOMAIN q = 1 .. Len(q) /\ Head(q) = q[1]
  OBVIOUS
<1>2. Tail(q) \in Seq(S) /\ Len(Tail(q)) = Len(q) - 1 /\ DOMAIN Tail(q) = 1 .. Len(q) - 1
  OBVIOUS
<1>3. \A i \in 1 .. Len(q) - 1 : Tail(q)[i] = q[i + 1]
  OBVIOUS
<1>4. Tail(q) = <<>> <=> Len(Tail(q)) = 0
  BY <1>2, EmptyLen
<1> QED BY <1>1, <1>2, <1>3, <1>4

(* A callback that is added to a socket's queue, as the engine adds them:  *)
(* nothing after an ending, an ending when the socket is over, a connect   *)
(* or an error only after nothing. *)
LEMMA Grown ==
    ASSUME SocketInv, NEW s \in Sockets, NEW cb \in Callbacks, Live(s),
           callbacks'[s] = Append(callbacks[s], cb),
           cb \in {"connected", "error"} => ws[s] = "connecting",
           cb \in Messages => ws[s] = "open",
           cb \in Endings <=> ws'[s] = "over",
           ws'[s] \in {"open", "over"}
    PROVE  /\ ws'[s] \in {"unused", "connecting"} => callbacks'[s] = <<>>
           /\ \A i \in DOMAIN callbacks'[s] :
                 /\ callbacks'[s][i] \in {"connected", "error"} => i = 1
                 /\ callbacks'[s][i] \in Endings => i = Len(callbacks'[s]) /\ ws'[s] = "over"
           /\ ws'[s] = "over" /\ callbacks'[s] # <<>> => callbacks'[s][Len(callbacks'[s])] \in Endings
           /\ callbacks'[s] \in Seq(Callbacks)
           /\ (\A i \in DOMAIN callbacks[s] : callbacks[s][i] \notin {"connected", "error"})
                 /\ ws[s] # "connecting"
                 => \A i \in DOMAIN callbacks'[s] : callbacks'[s][i] \notin {"connected", "error"}
           /\ (ws[s] = "open" => callbacks[s] # <<>> /\ callbacks[s][1] = "connected")
                 => /\ ws'[s] = "open" => callbacks'[s] # <<>> /\ callbacks'[s][1] = "connected"
                    /\ \A i \in DOMAIN callbacks'[s] :
                          callbacks'[s][i] \in Messages => callbacks'[s][1] = "connected"
<1> DEFINE n == Len(callbacks[s])
           q == callbacks'[s]
<1>1. callbacks[s] \in Seq(Callbacks)
  BY DEF SocketInv, WTypeOK
<1>2. /\ q \in Seq(Callbacks) /\ q # <<>>
      /\ n \in Nat /\ DOMAIN callbacks[s] = 1 .. n
      /\ Len(q) = n + 1 /\ DOMAIN q = 1 .. n + 1
      /\ \A i \in 1 .. n : q[i] = callbacks[s][i]
      /\ q[n + 1] = cb
      /\ callbacks[s] = <<>> <=> n = 0
  BY <1>1, Appended
<1>3. /\ ws[s] = "connecting" => n = 0
      /\ \A i \in 1 .. n : /\ callbacks[s][i] \in {"connected", "error"} => i = 1
                           /\ callbacks[s][i] \notin Endings
  BY <1>2 DEF SocketInv, QueueInv, Live
<1>4. /\ Endings \cap Messages = {} /\ "connected" \notin Endings \cup Messages
      /\ "error" \in Endings
      /\ cb \notin Endings => cb \in Messages \cup {"connected"}
  BY SocketAssumption DEF Endings, Callbacks
<1> HIDE DEF n, q
<1>5. \A i \in 1 .. n + 1 : i = n + 1 \/ i \in 1 .. n
  BY <1>2
<1>6. \A i \in DOMAIN q : /\ q[i] \in {"connected", "error"} => i = 1
                          /\ q[i] \in Endings => i = Len(q) /\ ws'[s] = "over"
  BY <1>2, <1>3, <1>5
<1>7. ws'[s] = "over" => q[Len(q)] \in Endings
  BY <1>2
<1>8. ASSUME \A i \in DOMAIN callbacks[s] : callbacks[s][i] \notin {"connected", "error"},
             ws[s] # "connecting"
      PROVE  \A i \in DOMAIN q : q[i] \notin {"connected", "error"}
  BY <1>2, <1>5, <1>8
<1>9. ASSUME ws[s] = "open" => callbacks[s] # <<>> /\ callbacks[s][1] = "connected"
      PROVE  /\ ws'[s] = "open" => q # <<>> /\ q[1] = "connected"
             /\ \A i \in DOMAIN q : q[i] \in Messages => q[1] = "connected"
  <2>1. CASE ws[s] = "open"
    <3>1. 1 \in 1 .. n /\ q[1] = "connected"
      BY <1>2, <1>9, <2>1
    <3> QED BY <1>2, <3>1
  <2>2. CASE ws[s] = "connecting"
    <3>1. n = 0 /\ q[1] = cb /\ DOMAIN q = {1}
      BY <1>2, <1>3, <2>2
    <3>2. cb \in Endings \/ cb = "connected" \/ cb \in Messages
      BY <1>4
    <3> QED BY <1>2, <1>4, <2>2, <3>1, <3>2
  <2> QED BY <2>1, <2>2 DEF Live
<1> QED BY <1>2, <1>6, <1>7, <1>8, <1>9 DEF q

(* A socket that gets no callback, and one that gets cb. *)
Same(s) ==
    /\ callbacks'[s] = callbacks[s]
    /\ ws'[s] = ws[s] \/ (~Live(s) /\ ws'[s] = "over")

Gets(s, cb) ==
    /\ Live(s) /\ cb \in Callbacks
    /\ callbacks'[s] = Append(callbacks[s], cb)
    /\ cb \in {"connected", "error"} => ws[s] = "connecting"
    /\ cb \in Messages => ws[s] = "open"
    /\ cb \in Endings <=> ws'[s] = "over"
    /\ ws'[s] \in {"open", "over"}

(* Callbacks that the engine adds keep what is known of the queues. *)
LEMMA GrowStep ==
    ASSUME SocketInv,
           ws' \in [Sockets -> {"unused", "connecting", "open", "over"}],
           DOMAIN callbacks' = Sockets, callbacks' = [s \in Sockets |-> callbacks'[s]],
           \A s \in Sockets : Same(s) \/ \E cb : Gets(s, cb)
    PROVE  /\ SocketInv'
           /\ Announced => Announced'
           /\ ToAnnounce => ToAnnounce'
           /\ \A s \in Sockets : (Live(s)' => Live(s)) /\ (Busy(s)' <=> Busy(s))
<1>1. ASSUME NEW s \in Sockets, NEW cb, Gets(s, cb)
      PROVE  /\ ws'[s] \in {"unused", "connecting"} => callbacks'[s] = <<>>
             /\ \A i \in DOMAIN callbacks'[s] :
                   /\ callbacks'[s][i] \in {"connected", "error"} => i = 1
                   /\ callbacks'[s][i] \in Endings => i = Len(callbacks'[s]) /\ ws'[s] = "over"
             /\ ws'[s] = "over" /\ callbacks'[s] # <<>> => callbacks'[s][Len(callbacks'[s])] \in Endings
             /\ callbacks'[s] \in Seq(Callbacks)
             /\ Announced => \A i \in DOMAIN callbacks'[s] :
                                callbacks'[s][i] \notin {"connected", "error"}
             /\ ToAnnounce =>
                   /\ ws'[s] = "open" => callbacks'[s] # <<>> /\ callbacks'[s][1] = "connected"
                   /\ \A i \in DOMAIN callbacks'[s] :
                         callbacks'[s][i] \in Messages => callbacks'[s][1] = "connected"
  BY <1>1, Grown DEF Gets, Announced, ToAnnounce
<1>2. callbacks' \in [Sockets -> Seq(Callbacks)]
  BY <1>1 DEF SocketInv, WTypeOK, Same
<1>3. QueueInv'
  BY <1>1 DEF SocketInv, WTypeOK, QueueInv, Same, Live
<1>4. Announced => Announced'
  <2> SUFFICES ASSUME Announced, NEW s \in Sockets
               PROVE  /\ ws'[s] # "connecting"
                      /\ \A i \in DOMAIN callbacks'[s] :
                            callbacks'[s][i] \notin {"connected", "error"}
    BY DEF Announced
  <2>1. CASE Same(s)
    BY <2>1 DEF Same, Announced
  <2>2. ASSUME NEW cb, Gets(s, cb) PROVE ws'[s] # "connecting"
    BY <2>2 DEF Gets
  <2> QED BY <1>1, <2>1, <2>2
<1>5. ToAnnounce => ToAnnounce'
  <2> SUFFICES ASSUME ToAnnounce, NEW s \in Sockets
               PROVE  /\ ws'[s] = "open" => callbacks'[s] # <<>> /\ callbacks'[s][1] = "connected"
                      /\ \A i \in DOMAIN callbacks'[s] :
                            callbacks'[s][i] \in Messages => callbacks'[s][1] = "connected"
    BY DEF ToAnnounce
  <2>1. CASE Same(s)
    BY <2>1 DEF Same, ToAnnounce
  <2> QED BY <1>1, <2>1
<1>6. ASSUME NEW s \in Sockets PROVE (Live(s)' => Live(s)) /\ (Busy(s)' <=> Busy(s))
  <2>1. CASE Same(s)
    BY <2>1 DEF Same, Live, Busy
  <2>2. ASSUME NEW cb, Gets(s, cb) PROVE Live(s) /\ callbacks'[s] # <<>>
    <3>1. callbacks[s] \in Seq(Callbacks) /\ cb \in Callbacks
      BY <2>2 DEF Gets, SocketInv, WTypeOK
    <3> QED BY <2>2, <3>1, Appended DEF Gets
  <2> QED BY <2>1, <2>2 DEF Busy, Live
<1> QED BY <1>2, <1>3, <1>4, <1>5, <1>6 DEF SocketInv, WTypeOK

(* The network and the server do no more than that. *)
LEMMA NetworkStep ==
    ASSUME SocketInv, Network
    PROVE  /\ SocketInv'
           /\ Announced => Announced'
           /\ ToAnnounce => ToAnnounce'
           /\ \A s \in Sockets : (Live(s)' => Live(s)) /\ (Busy(s)' <=> Busy(s))
<1>0. /\ "connected" \in Callbacks /\ Endings \subseteq Callbacks /\ Messages \subseteq Callbacks
      /\ "error" \in Endings /\ "closed" \in Endings /\ "connected" \notin Endings \cup Messages
      /\ Endings \cap Messages = {} /\ "closed" # "error" /\ "closed" # "connected"
  BY SocketAssumption DEF Callbacks, Endings
<1>1. ASSUME NEW s \in Sockets, NEW before, NEW after, NEW cb, Happens(s, before, after, cb),
             \/ before = "connecting" /\ after = "open" /\ cb = "connected"
             \/ before = "connecting" /\ after = "over" /\ cb = "error"
             \/ before = "open" /\ after = "over" /\ cb = "closed"
             \/ before = "open" /\ after = "open" /\ cb \in Messages
      PROVE  /\ SocketInv'
             /\ Announced => Announced'
             /\ ToAnnounce => ToAnnounce'
             /\ \A r \in Sockets : (Live(r)' => Live(r)) /\ (Busy(r)' <=> Busy(r))
  <2>1. /\ ws \in [Sockets -> {"unused", "connecting", "open", "over"}]
        /\ callbacks \in [Sockets -> Seq(Callbacks)]
    BY DEF SocketInv, WTypeOK
  <2>2. /\ ws[s] = before /\ ws'[s] = after
        /\ ws' \in [Sockets -> {"unused", "connecting", "open", "over"}]
        /\ DOMAIN callbacks' = Sockets /\ callbacks' = [r \in Sockets |-> callbacks'[r]]
        /\ callbacks'[s] = Append(callbacks[s], cb)
        /\ \A r \in Sockets \ {s} : Same(r)
    BY <1>1, <2>1 DEF Happens, Same
  <2>3. Gets(s, cb)
    BY <1>0, <1>1, <2>2 DEF Gets, Live
  <2>4. \A r \in Sockets : Same(r) \/ \E x : Gets(r, x)
    BY <2>2, <2>3
  <2> QED BY <2>2, <2>4, GrowStep
<1> QED BY <1>1 DEF Network, Arrives

(* Close of some sockets does no more than that either. *)
LEMMA CloseStep ==
    ASSUME SocketInv, NEW closed, CloseAndConnect(closed, {})
    PROVE  /\ SocketInv'
           /\ Announced => Announced'
           /\ ToAnnounce => ToAnnounce'
           /\ \A s \in Sockets : /\ Live(s)' => Live(s) /\ s \notin closed
                                 /\ Busy(s)' <=> Busy(s)
<1>1. PICK ending \in Endings :
        /\ ws' = [s \in Sockets |-> IF s \in closed THEN "over" ELSE ws[s]]
        /\ callbacks' = [s \in Sockets |->
               IF s \in closed /\ Live(s)
               THEN Append(callbacks[s], IF IsOpen(s) THEN "closed" ELSE ending)
               ELSE callbacks[s]]
  BY DEF CloseAndConnect
<1>2. /\ ws \in [Sockets -> {"unused", "connecting", "open", "over"}]
      /\ Endings = {"closed", "error"} /\ Endings \subseteq Callbacks
      /\ Endings \cap Messages = {} /\ "connected" \notin Endings
  BY SocketAssumption DEF Callbacks, Endings, SocketInv, WTypeOK
<1>3. /\ ws' \in [Sockets -> {"unused", "connecting", "open", "over"}]
      /\ DOMAIN callbacks' = Sockets /\ callbacks' = [r \in Sockets |-> callbacks'[r]]
  BY <1>1, <1>2
<1>4. ASSUME NEW s \in Sockets PROVE Same(s) \/ \E x : Gets(s, x)
  <2>1. CASE s \in closed /\ Live(s)
    <3> DEFINE x == IF IsOpen(s) THEN "closed" ELSE ending
    <3>1. x \in Endings /\ (x = "error" => ws[s] = "connecting")
      BY <1>2, <2>1 DEF Live, IsOpen
    <3>2. callbacks'[s] = Append(callbacks[s], x) /\ ws'[s] = "over"
      BY <1>1, <2>1
    <3> HIDE DEF x
    <3>3. Gets(s, x)
      BY <1>2, <2>1, <3>1, <3>2 DEF Gets
    <3>4. PICK y \in Endings : y = x
      BY <3>1
    <3> QED BY <3>3, <3>4
  <2>2. CASE s \in closed /\ ~Live(s)
    BY <1>1, <2>2 DEF Same
  <2>3. CASE s \notin closed
    BY <1>1, <2>3 DEF Same
  <2> QED BY <2>1, <2>2, <2>3
<1>5. \A s \in Sockets : s \in closed => ~Live(s)'
  BY <1>1 DEF Live
<1> QED BY <1>3, <1>4, <1>5, GrowStep

(* Close of some sockets and Connect of a new one, with nobody busy. *)
LEMMA ConnectStep ==
    ASSUME SocketInv, NEW closed, NEW new \in Sockets, CloseAndConnect(closed, {new}),
           \A s \in Sockets : ~Busy(s)
    PROVE  /\ SocketInv'
           /\ ToAnnounce'
           /\ Live(new)' /\ ws'[new] = "connecting"
           /\ \A s \in Sockets \ {new} : ~Busy(s)'
           /\ callbacks' = callbacks
<1>1. \A s \in Sockets : ~Live(s) /\ callbacks[s] = <<>>
  BY DEF Busy
<1>2. /\ ws \in [Sockets -> {"unused", "connecting", "open", "over"}]
      /\ callbacks \in [Sockets -> Seq(Callbacks)]
  BY DEF SocketInv, WTypeOK
<1>3. /\ ws' = [s \in Sockets |-> IF s \in {new} THEN "connecting"
                                 ELSE IF s \in closed THEN "over" ELSE ws[s]]
      /\ callbacks' = [s \in Sockets |-> callbacks[s]]
  BY <1>1 DEF CloseAndConnect
<1>4. callbacks' = callbacks
  BY <1>2, <1>3
<1>5. ws' \in [Sockets -> {"unused", "connecting", "open", "over"}]
  BY <1>2, <1>3
<1>6. /\ ws'[new] = "connecting"
      /\ \A s \in Sockets \ {new} : ws'[s] = ws[s] \/ ws'[s] = "over"
  BY <1>3
<1>7. \A s \in Sockets : callbacks'[s] = <<>> /\ DOMAIN callbacks'[s] = {}
  BY <1>1, <1>4
<1>8. SocketInv'
  BY <1>2, <1>4, <1>5, <1>7 DEF SocketInv, WTypeOK, QueueInv
<1>9. ToAnnounce'
  BY <1>1, <1>6, <1>7 DEF ToAnnounce, Live
<1> QED BY <1>1, <1>4, <1>6, <1>7, <1>8, <1>9 DEF Live, Busy

(* A callback that returns leaves the rest of the queue. *)
LEMMA ReturnStep ==
    ASSUME SocketInv, NEW s \in Sockets, NEW cb, CalledBack(s, cb), Return(s), ws' = ws
    PROVE  /\ SocketInv' /\ cb \in Callbacks
           /\ Busy(s)
           /\ \A r \in Sockets : (Live(r)' <=> Live(r)) /\ (Busy(r)' => Busy(r))
           /\ Announced => Announced' /\ cb \notin {"connected", "error"}
           /\ ToAnnounce => cb \notin Messages
           /\ Busy(s)' <=> cb \notin Endings
           /\ cb = "connected" => /\ ws[s] # "connecting"
                                  /\ \A i \in DOMAIN callbacks'[s] :
                                        callbacks'[s][i] \notin {"connected", "error"}
<1> DEFINE q == callbacks[s]
           t == callbacks'[s]
           n == Len(q)
<1>1. callbacks \in [Sockets -> Seq(Callbacks)] /\ q # <<>> /\ Head(q) = cb
  BY DEF SocketInv, WTypeOK, CalledBack
<1>2. callbacks' = [callbacks EXCEPT ![s] = Tail(@)]
  BY DEF Return
<1>3. t = Tail(q) /\ q \in Seq(Callbacks) /\ \A r \in Sockets \ {s} : callbacks'[r] = callbacks[r]
  BY <1>1, <1>2
<1>4. /\ t \in Seq(Callbacks)
      /\ n \in Nat \ {0} /\ DOMAIN q = 1 .. n
      /\ Len(t) = n - 1 /\ DOMAIN t = 1 .. n - 1
      /\ \A i \in 1 .. n - 1 : t[i] = q[i + 1]
      /\ cb = q[1]
      /\ t = <<>> <=> n = 1
  BY <1>1, <1>3, Dropped
<1>5. callbacks' \in [Sockets -> Seq(Callbacks)]
  BY <1>1, <1>2, <1>3, <1>4
<1> HIDE DEF q, t, n
<1>6. /\ \A i \in 1 .. n : /\ q[i] \in {"connected", "error"} => i = 1
                           /\ q[i] \in Endings => i = n /\ ws[s] = "over"
      /\ ws[s] \notin {"unused", "connecting"}
      /\ ws[s] = "over" => q[n] \in Endings
  BY <1>1, <1>4 DEF SocketInv, QueueInv, q, n
<1>7. \A i \in 1 .. n - 1 : /\ i + 1 \in 1 .. n /\ i + 1 # 1
                            /\ i \in Nat
  BY <1>4
<1>8. /\ \A i \in 1 .. n - 1 : /\ t[i] \notin {"connected", "error"}
                               /\ t[i] \in Endings => i = n - 1 /\ ws[s] = "over"
      /\ ws[s] = "over" /\ t # <<>> => t[n - 1] \in Endings
  <2>1. \A i \in 1 .. n - 1 : /\ t[i] \notin {"connected", "error"}
                              /\ t[i] \in Endings => i + 1 = n /\ ws[s] = "over"
    BY <1>4, <1>6, <1>7
  <2>2. ASSUME ws[s] = "over", t # <<>> PROVE t[n - 1] \in Endings
    <3>1. n - 1 \in 1 .. n - 1 /\ (n - 1) + 1 = n
      BY <1>4, <2>2
    <3>2. t[n - 1] = q[n]
      BY <1>4, <3>1
    <3> QED BY <1>6, <2>2, <3>2
  <2> QED BY <1>4, <1>7, <2>1, <2>2
<1>9. QueueInv'
  <2> SUFFICES ASSUME NEW r \in Sockets
               PROVE  /\ ws'[r] \in {"unused", "connecting"} => callbacks'[r] = <<>>
                      /\ \A i \in DOMAIN callbacks'[r] :
                            /\ callbacks'[r][i] \in {"connected", "error"} => i = 1
                            /\ callbacks'[r][i] \in Endings =>
                                  i = Len(callbacks'[r]) /\ ws'[r] = "over"
                      /\ ws'[r] = "over" /\ callbacks'[r] # <<>> =>
                            callbacks'[r][Len(callbacks'[r])] \in Endings
    BY DEF QueueInv
  <2>1. CASE r # s
    BY <1>3, <2>1 DEF SocketInv, QueueInv
  <2>2. CASE r = s
    BY <1>4, <1>6, <1>8, <2>2 DEF t
  <2> QED BY <2>1, <2>2
<1>10. SocketInv'
  BY <1>5, <1>9 DEF SocketInv, WTypeOK
<1>11. cb \in Callbacks /\ Busy(s)
  BY <1>1, <1>4 DEF Busy, q
<1>12. \A r \in Sockets : (Live(r)' <=> Live(r)) /\ (Busy(r)' => Busy(r))
  BY <1>3, <1>11 DEF Live, Busy
<1>13. ASSUME Announced PROVE Announced' /\ cb \notin {"connected", "error"}
  <2>1. cb \notin {"connected", "error"}
    <3>1. 1 \in DOMAIN callbacks[s] /\ callbacks[s][1] = cb
      BY <1>4 DEF q
    <3> QED BY <1>13, <3>1 DEF Announced
  <2>2. Announced'
    BY <1>3, <1>4, <1>8, <1>13 DEF Announced, t
  <2> QED BY <2>1, <2>2
<1>14. ASSUME ToAnnounce, cb \in Messages PROVE FALSE
  <2>1. 1 \in DOMAIN callbacks[s] /\ callbacks[s][1] = cb
    BY <1>4 DEF q
  <2>2. "connected" \notin Messages
    BY SocketAssumption
  <2> QED BY <1>14, <2>1, <2>2 DEF ToAnnounce
<1>15. Busy(s)' <=> cb \notin Endings
  <2>1. ASSUME cb \in Endings PROVE ~Busy(s)'
    <3>1. n = 1 /\ ws[s] = "over"
      BY <1>4, <1>6, <2>1
    <3> QED BY <1>4, <3>1 DEF Busy, Live, t
  <2>2. ASSUME cb \notin Endings PROVE Busy(s)'
    <3>1. CASE ws[s] = "over"
      <4>1. n # 1
        BY <1>4, <1>6, <2>2, <3>1
      <4> QED BY <1>4, <4>1 DEF Busy, t
    <3>2. CASE ws[s] # "over"
      <4>1. ws[s] \in {"unused", "connecting", "open", "over"}
        BY DEF SocketInv, WTypeOK
      <4> QED BY <1>6, <3>2, <4>1 DEF Busy, Live
    <3> QED BY <3>1, <3>2
  <2> QED BY <2>1, <2>2
<1>16. /\ ws[s] # "connecting"
       /\ \A i \in DOMAIN callbacks'[s] : callbacks'[s][i] \notin {"connected", "error"}
  BY <1>4, <1>6, <1>8 DEF t
<1> QED BY <1>10, <1>11, <1>12, <1>13, <1>14, <1>15, <1>16

-----------------------------------------------------------------------------
(* UProtocolWebSocketClient: one reconnect thread.                         *)

FlagInv == OneReconnect /\ (closing => bIsReconnecting = FALSE) /\ bIsReconnecting \in BOOLEAN

(* No reconnect thread exists before the first callback. *)
LEMMA FlagInit == Init => FlagInv
  BY DEF Init, FlagInv, OneReconnect

(* Only a callback that found bIsReconnecting clear makes a thread. *)
LEMMA FlagStep == FlagInv /\ [Next]_vars => FlagInv'
<1> SUFFICES ASSUME FlagInv, [Next]_vars
             PROVE  FlagInv'
  OBVIOUS
<1> USE DEF FlagInv, OneReconnect
<1>1. ASSUME NEW s \in Sockets, Start(s) PROVE FlagInv'
  BY <1>1 DEF Start
<1>2. ASSUME NEW s \in Sockets, Callback(s) PROVE FlagInv'
  <2>1. ~closing /\ UNCHANGED closing
    BY <1>2 DEF Callback, OnWebSocketConnected, OnWebSocketConnectionError,
                OnWebSocketClosed, OnWebSocketMessage
  <2>2. UNCHANGED <<bIsReconnecting, reconnect>> \/ ReconnectLater
    BY <1>2 DEF Callback, OnWebSocketConnected, OnWebSocketConnectionError,
                OnWebSocketClosed, OnWebSocketMessage
  <2> QED BY <2>1, <2>2 DEF ReconnectLater
<1>3. CASE BeginClose
  BY <1>3 DEF BeginClose
<1>4. CASE FinishClose
  BY <1>4 DEF FinishClose
<1>5. CASE ReconnectThread
  <2>1. CASE TryReconnect
    BY <2>1 DEF TryReconnect
  <2>2. CASE ReconnectEnds
    BY <2>2 DEF ReconnectEnds
  <2>3. ASSUME NEW s \in Sockets, Recreate(s) PROVE FlagInv'
    BY <2>3 DEF Recreate
  <2> QED BY <1>5, <2>1, <2>2, <2>3 DEF ReconnectThread
<1>6. CASE UNCHANGED cvars
  BY <1>6 DEF cvars
<1>7. CASE UNCHANGED vars
  BY <1>6, <1>7 DEF vars
<1> QED BY <1>1, <1>2, <1>3, <1>4, <1>5, <1>6, <1>7 DEF Next

(* While the game thread is outside Close, a reconnect thread is at work   *)
(* exactly if bIsReconnecting is set; since a callback makes a thread only *)
(* if it is clear, no thread that works is ever forgotten for a new one,   *)
(* and Close waits for the only one there is. *)
THEOREM ReconnectSafety == Spec => []OneReconnect
<1>1. FlagInv => OneReconnect
  BY DEF FlagInv
<1> QED BY <1>1, FlagInit, FlagStep, PTL DEF Spec

-----------------------------------------------------------------------------
(* UProtocolWebSocketClient: type correctness.                             *)

ClientInv == TypeOK /\ told # <<>> /\ QueueInv

Told == {"connected", "disconnected", "data"}

(* What the user was told last is remembered, with what comes next. *)
LEMMA Telling ==
    ASSUME told \in Seq(Told), told # <<>>, NEW what \in Told, Tell(what)
    PROVE  /\ told' \in Seq(Told) /\ told' # <<>> /\ Len(told') = 2
           /\ told'[1] = told[Len(told)] /\ told'[2] = what
  BY DEF Tell

(* Every callback, whatever it tells, takes the first of its queue. *)
LEMMA ClientCallback ==
    ASSUME ClientInv, NEW s \in Sockets, Callback(s)
    PROVE  /\ ws' = ws /\ Return(s)
           /\ UNCHANGED <<webSocket, bIsManualClose, closing, starts>> /\ ~closing
           /\ \/ /\ CalledBack(s, "connected") /\ Tell("connected")
                 /\ UNCHANGED <<bIsReconnecting, reconnect>>
              \/ CalledBack(s, "error") /\ told' = told /\ ReconnectLater
              \/ CalledBack(s, "closed") /\ Tell("disconnected") /\ ReconnectLater
              \/ /\ (\E msg \in Messages : CalledBack(s, msg)) /\ Tell("data")
                 /\ UNCHANGED <<bIsReconnecting, reconnect>>
  BY DEF Callback, OnWebSocketConnected, OnWebSocketConnectionError, OnWebSocketClosed,
         OnWebSocketMessage

(* CreateWebSocket, for a client that may have busy sockets. *)
LEMMA CreateKeepsTypes ==
    ASSUME ClientInv, NEW s \in Sockets, CreateWebSocket(s)
    PROVE  /\ SocketInv' /\ webSocket' = {s}
<1>1. /\ Fresh(s) /\ webSocket' = {s}
      /\ ws' = [r \in Sockets |-> IF r \in {s} THEN "connecting" ELSE ws[r]]
      /\ callbacks' = [r \in Sockets |-> callbacks[r]]
  BY DEF CreateWebSocket, CloseAndConnect
<1>2. /\ ws \in [Sockets -> {"unused", "connecting", "open", "over"}]
      /\ callbacks \in [Sockets -> Seq(Callbacks)]
  BY DEF ClientInv, TypeOK, WTypeOK
<1>3. callbacks' = callbacks /\ ws' \in [Sockets -> {"unused", "connecting", "open", "over"}]
  BY <1>1, <1>2
<1>4. /\ ws'[s] = "connecting" /\ callbacks[s] = <<>> /\ DOMAIN callbacks[s] = {}
      /\ \A r \in Sockets \ {s} : ws'[r] = ws[r]
  BY <1>1 DEF Fresh
<1>5. QueueInv'
  BY <1>3, <1>4 DEF ClientInv, QueueInv
<1> QED BY <1>1, <1>2, <1>3, <1>5 DEF SocketInv, WTypeOK

(* No step of the game thread, the reconnect thread or the engine takes a  *)
(* variable out of its domain. *)
LEMMA ClientStep == ClientInv /\ [Next]_vars => ClientInv'
<1> SUFFICES ASSUME ClientInv, [Next]_vars PROVE ClientInv'
  OBVIOUS
<1>0. /\ SocketInv /\ told \in Seq(Told) /\ told # <<>>
      /\ webSocket \subseteq Sockets /\ \A s, r \in webSocket : s = r
      /\ bIsManualClose \in BOOLEAN /\ bIsReconnecting \in BOOLEAN /\ closing \in BOOLEAN
      /\ reconnect \in {"none", "started", "create", "created", "done"}
      /\ starts \in 0 .. MaxStarts /\ MaxStarts \in Nat
  BY ClientAssumption DEF ClientInv, TypeOK, SocketInv, Told
<1>1. ASSUME SocketInv',
             told' \in Seq(Told) /\ told' # <<>>,
             webSocket' \subseteq Sockets /\ \A s, r \in webSocket' : s = r,
             bIsManualClose' \in BOOLEAN, bIsReconnecting' \in BOOLEAN, closing' \in BOOLEAN,
             reconnect' \in {"none", "started", "create", "created", "done"},
             starts' \in 0 .. MaxStarts
      PROVE  ClientInv'
  BY <1>1, Zenon DEF ClientInv, TypeOK, SocketInv, Told
<1>2. UNCHANGED wvars => SocketInv'
  BY <1>0 DEF wvars, SocketInv, WTypeOK, QueueInv
<1>3. ASSUME NEW s \in Sockets, Start(s) PROVE ClientInv'
  <2>1. SocketInv' /\ webSocket' = {s}
    BY <1>3, CreateKeepsTypes DEF Start
  <2>2. /\ UNCHANGED <<bIsReconnecting, reconnect, closing, told>>
        /\ bIsManualClose' = FALSE /\ starts' \in 0 .. MaxStarts
    BY <1>0, <1>3 DEF Start
  <2> QED BY <1>0, <1>1, <2>1, <2>2
<1>4. ASSUME NEW s \in Sockets, Callback(s) PROVE ClientInv'
  <2>1. PICK cb : CalledBack(s, cb) /\ Return(s) /\ ws' = ws
    BY <1>4, ClientCallback
  <2>2. SocketInv'
    BY <1>0, <2>1, ReturnStep
  <2>3. told' \in Seq(Told) /\ told' # <<>>
    <3>1. told' = told \/ \E what \in Told : Tell(what)
      BY <1>4, ClientCallback DEF Told
    <3> QED BY <1>0, <3>1, Telling
  <2>4. /\ UNCHANGED <<webSocket, bIsManualClose, closing, starts>>
        /\ UNCHANGED <<bIsReconnecting, reconnect>> \/ ReconnectLater
    BY <1>4, ClientCallback
  <2>5. /\ bIsReconnecting' \in BOOLEAN
        /\ reconnect' \in {"none", "started", "create", "created", "done"}
    BY <1>0, <2>4 DEF ReconnectLater
  <2> QED BY <1>0, <1>1, <2>2, <2>3, <2>4, <2>5
<1>5. CASE BeginClose
  <2>1. /\ UNCHANGED <<webSocket, reconnect, starts, told>> /\ UNCHANGED wvars
        /\ bIsManualClose' = TRUE /\ bIsReconnecting' = FALSE /\ closing' = TRUE
    BY <1>5 DEF BeginClose, wvars
  <2> QED BY <1>0, <1>1, <1>2, <2>1
<1>6. CASE FinishClose
  <2>1. /\ UNCHANGED <<bIsManualClose, bIsReconnecting, starts, told>>
        /\ webSocket' = {} /\ reconnect' = "none" /\ closing' = FALSE
        /\ CloseAndConnect(webSocket, {})
    BY <1>6 DEF FinishClose
  <2>2. SocketInv'
    BY <1>0, <2>1, CloseStep
  <2> QED BY <1>0, <1>1, <2>1, <2>2
<1>7. CASE TryReconnect \/ ReconnectEnds
  <2>1. /\ UNCHANGED <<webSocket, bIsManualClose, closing, starts, told>> /\ UNCHANGED wvars
        /\ reconnect' \in {"create", "done"}
        /\ bIsReconnecting' = bIsReconnecting \/ bIsReconnecting' = FALSE
    BY <1>7 DEF TryReconnect, ReconnectEnds, wvars
  <2> QED BY <1>0, <1>1, <1>2, <2>1
<1>8. ASSUME NEW s \in Sockets, Recreate(s) PROVE ClientInv'
  <2>1. SocketInv' /\ webSocket' = {s}
    BY <1>8, CreateKeepsTypes DEF Recreate
  <2>2. /\ UNCHANGED <<bIsManualClose, bIsReconnecting, closing, starts, told>>
        /\ reconnect' = "created"
    BY <1>8 DEF Recreate
  <2> QED BY <1>0, <1>1, <2>1, <2>2
<1>9. CASE Network /\ UNCHANGED cvars
  BY <1>0, <1>1, <1>9, NetworkStep DEF cvars
<1>10. CASE UNCHANGED vars
  BY <1>0, <1>1, <1>2, <1>10 DEF vars, cvars, wvars
<1> QED BY <1>3, <1>4, <1>5, <1>6, <1>7, <1>8, <1>9, <1>10 DEF Next, ReconnectThread

(* Nothing has been started, and the user takes itself for disconnected. *)
LEMMA ClientInit == Init => ClientInv
<1> SUFFICES ASSUME Init PROVE ClientInv
  OBVIOUS
<1>1. callbacks = [s \in Sockets |-> <<>>] /\ ws = [s \in Sockets |-> "unused"]
  BY DEF Init, WInit
<1>2. WTypeOK /\ QueueInv
  BY <1>1 DEF WTypeOK, QueueInv
<1>3. told \in Seq(Told) /\ told # <<>>
  BY DEF Init, Told
<1>4. /\ webSocket \subseteq Sockets /\ \A s, r \in webSocket : s = r
      /\ reconnect \in {"none", "started", "create", "created", "done"}
      /\ starts \in 0 .. MaxStarts
  BY ClientAssumption DEF Init
<1>5. bIsManualClose \in BOOLEAN /\ bIsReconnecting \in BOOLEAN /\ closing \in BOOLEAN
  BY Zenon DEF Init
<1> QED BY <1>2, <1>3, <1>4, <1>5, Zenon DEF ClientInv, TypeOK, Told

(* The variables of the client and of the engine's sockets stay in their   *)
(* domains, with and without reconnection and over any number of Starts.   *)
THEOREM ClientTypeCorrect == Spec => []TypeOK
<1>1. ClientInv => TypeOK
  BY DEF ClientInv
<1> QED BY <1>1, ClientInit, ClientStep, PTL DEF Spec

-----------------------------------------------------------------------------
(* UProtocolWebSocketClient between its first Start and a second one: one  *)
(* socket, told of in turn.                                                *)

Up == told[Len(told)] # "disconnected"

(* Only the socket of the client is live, and no other has anything left   *)
(* to say; a thread that will make a socket does so when nobody has.  What *)
(* waits fits what the user was told last.                                 *)
FirstSession ==
    /\ \A s \in Sockets : Live(s) => s \in webSocket
    /\ \A s, r \in Sockets : Busy(s) /\ Busy(r) => s = r
    /\ reconnect \in {"started", "create"} => \A s \in Sockets : ~Busy(s)
    /\ starts = 0 => ~bIsManualClose /\ reconnect = "none" /\ \A s \in Sockets : ~Busy(s)
    /\ closing => bIsManualClose
    /\ bIsManualClose /\ ~closing => webSocket = {} /\ reconnect = "none"
    /\ Up => starts > 0 /\ reconnect \notin {"started", "create"} /\ Announced
    /\ ~Up => ToAnnounce
    /\ ToldInTurn

(* A socket that nobody can hear of is as good as announced, and as good   *)
(* as one still to be announced. *)
LEMMA Idle ==
    ASSUME NEW s \in Sockets, ~Busy(s)
    PROVE  ws[s] \notin {"connecting", "open"} /\ callbacks[s] = <<>> /\ DOMAIN callbacks[s] = {}
<1>1. callbacks[s] = <<>>
  BY DEF Busy
<1>2. DOMAIN << >> = {}
  OBVIOUS
<1> QED BY <1>1, <1>2 DEF Busy, Live

(* With nobody busy both sides of a connection fit. *)
LEMMA AllIdle == (\A s \in Sockets : ~Busy(s)) => Announced /\ ToAnnounce
  BY Idle DEF Announced, ToAnnounce

(* The callback of the only busy socket is told in turn: a connect to a    *)
(* user who is disconnected, a message to one who is not. *)
LEMMA FirstCallback ==
    ASSUME ClientInv, FirstSession, NEW s \in Sockets, Callback(s)
    PROVE  FirstSession'
<1>0. /\ SocketInv /\ told \in Seq(Told) /\ told # <<>>
  BY DEF ClientInv, TypeOK, SocketInv, Told
<1>1. /\ ws' = ws /\ Return(s)
      /\ UNCHANGED <<webSocket, bIsManualClose, closing, starts>> /\ ~closing
  BY ClientCallback
<1>2. PICK cb : /\ CalledBack(s, cb)
                /\ \/ /\ cb = "connected" /\ Tell("connected")
                      /\ UNCHANGED <<bIsReconnecting, reconnect>>
                   \/ cb = "error" /\ told' = told /\ ReconnectLater
                   \/ cb = "closed" /\ Tell("disconnected") /\ ReconnectLater
                   \/ /\ cb \in Messages /\ Tell("data")
                      /\ UNCHANGED <<bIsReconnecting, reconnect>>
  BY ClientCallback
<1>3. /\ SocketInv' /\ Busy(s)
      /\ \A r \in Sockets : (Live(r)' <=> Live(r)) /\ (Busy(r)' => Busy(r))
      /\ Announced => Announced' /\ cb \notin {"connected", "error"}
      /\ ToAnnounce => cb \notin Messages
      /\ Busy(s)' <=> cb \notin Endings
      /\ cb = "connected" => /\ ws[s] # "connecting"
                             /\ \A i \in DOMAIN callbacks'[s] :
                                   callbacks'[s][i] \notin {"connected", "error"}
  BY <1>0, <1>1, <1>2, ReturnStep
<1>4. /\ \A r \in Sockets \ {s} : ~Busy(r) /\ ~Busy(r)'
      /\ starts > 0 /\ reconnect \notin {"started", "create"}
  BY <1>3 DEF FirstSession, ClientInv, TypeOK
<1>5. /\ \A r \in Sockets : Live(r)' => r \in webSocket'
      /\ \A r, q \in Sockets : Busy(r)' /\ Busy(q)' => r = q
      /\ starts' # 0
      /\ closing' => bIsManualClose'
  BY <1>1, <1>3, <1>4 DEF FirstSession, ClientInv, TypeOK
<1>6. CASE cb = "connected" /\ Tell("connected") /\ UNCHANGED <<bIsReconnecting, reconnect>>
  <2>1. told' \in Seq(Told) /\ Len(told') = 2 /\ told'[1] = told[Len(told)] /\ told'[2] = "connected"
    BY <1>0, <1>6, Telling DEF Told
  <2>2. ~Up
    BY <1>3, <1>6 DEF FirstSession
  <2>3. Up' /\ ToldInTurn'
    BY <2>1, <2>2 DEF Up, ToldInTurn
  <2>4. Announced'
    <3>1. \A r \in Sockets \ {s} : callbacks'[r] = <<>> /\ ws'[r] # "connecting"
      BY <1>4 DEF Busy, Live
    <3>2. DOMAIN << >> = {}
      OBVIOUS
    <3>3. /\ ws'[s] # "connecting"
          /\ \A i \in DOMAIN callbacks'[s] : callbacks'[s][i] \notin {"connected", "error"}
      BY <1>1, <1>3, <1>6
    <3> QED BY <3>1, <3>2, <3>3 DEF Announced
  <2> QED BY <1>1, <1>4, <1>5, <1>6, <2>3, <2>4 DEF FirstSession
<1>7. CASE cb \in {"error", "closed"} /\ ReconnectLater /\ (told' = told \/ Tell("disconnected"))
  <2>1. \A r \in Sockets : ~Busy(r)'
    BY <1>3, <1>4, <1>7 DEF Endings
  <2>2. Announced' /\ ToAnnounce'
    <3>1. \A r \in Sockets : callbacks'[r] = <<>> /\ ws'[r] \notin {"connecting", "open"}
      BY <2>1 DEF Busy, Live
    <3>2. DOMAIN << >> = {}
      OBVIOUS
    <3> QED BY <3>1, <3>2 DEF Announced, ToAnnounce
  <2>3. bIsManualClose /\ ~closing => webSocket' = {} /\ reconnect' = "none"
    BY <1>1, <1>7 DEF FirstSession, ReconnectLater
  <2>4. ~Up' /\ ToldInTurn'
    <3>1. CASE Tell("disconnected")
      <4>1. told' \in Seq(Told) /\ Len(told') = 2 /\ told'[2] = "disconnected"
        BY <1>0, <3>1, Telling DEF Told
      <4> QED BY <4>1 DEF Up, ToldInTurn
    <3>2. CASE told' = told /\ cb = "error"
      BY <1>3, <3>2 DEF FirstSession, Up, ToldInTurn
    <3> QED BY <1>2, <1>7, <3>1, <3>2, SocketAssumption DEF Endings
  <2> QED BY <1>1, <1>5, <2>1, <2>2, <2>3, <2>4 DEF FirstSession
<1>8. CASE cb \in Messages /\ Tell("data") /\ UNCHANGED <<bIsReconnecting, reconnect>>
  <2>1. told' \in Seq(Told) /\ Len(told') = 2 /\ told'[1] = told[Len(told)] /\ told'[2] = "data"
    BY <1>0, <1>8, Telling DEF Told
  <2>2. Up
    BY <1>3, <1>8 DEF FirstSession
  <2>3. Up' /\ ToldInTurn'
    BY <2>1, <2>2 DEF Up, ToldInTurn
  <2> QED BY <1>1, <1>3, <1>4, <1>5, <1>8, <2>2, <2>3 DEF FirstSession
<1> QED BY <1>2, <1>6, <1>7, <1>8

(* A new socket is made when nobody is busy and nobody is told of it yet. *)
LEMMA FirstCreate ==
    ASSUME ClientInv, FirstSession, NEW s \in Sockets, CreateWebSocket(s),
           \A r \in Sockets : ~Busy(r), ~Up,
           told' = told, ~bIsManualClose' \/ closing',
           closing' => bIsManualClose', starts' # 0,
           reconnect' \notin {"started", "create"}
    PROVE  FirstSession'
<1>1. webSocket' = {s} /\ CloseAndConnect({}, {s}) /\ SocketInv
  BY DEF CreateWebSocket, ClientInv, TypeOK, SocketInv
<1>2. ToAnnounce' /\ \A r \in Sockets \ {s} : ~Busy(r)'
  BY <1>1, ConnectStep
<1>3. \A r \in Sockets : Live(r)' => r = s
  BY <1>2 DEF Busy
<1>4. ~Up' /\ ToldInTurn'
  BY DEF FirstSession, Up, ToldInTurn
<1> QED BY <1>1, <1>2, <1>3, <1>4 DEF FirstSession

(* Until a second Start every step keeps to the first session. *)
LEMMA FirstStep ==
    ASSUME ClientInv, starts <= 1 => FirstSession, [Next]_vars, starts' <= 1
    PROVE  FirstSession'
<1>0. SocketInv /\ starts \in Nat
  BY ClientAssumption DEF ClientInv, TypeOK, SocketInv
<1>1. ASSUME NEW s \in Sockets, Start(s) PROVE FirstSession'
  <2>1. /\ starts = 0 /\ starts' # 0 /\ ~closing /\ CreateWebSocket(s)
        /\ bIsManualClose' = FALSE /\ UNCHANGED <<reconnect, closing, told>>
    BY <1>0, <1>1 DEF Start
  <2>2. FirstSession /\ ~Up /\ reconnect = "none" /\ \A r \in Sockets : ~Busy(r)
    BY <2>1 DEF FirstSession
  <2> QED BY <2>1, <2>2, FirstCreate
<1>2. FirstSession \/ \E s \in Sockets : Start(s)
  <2>1. starts' = starts \/ \E s \in Sockets : Start(s)
    BY ClientCallback DEF Next, BeginClose, FinishClose, ReconnectThread, TryReconnect,
       ReconnectEnds, Recreate, vars, cvars
  <2> QED BY <2>1
<1>3. ASSUME FirstSession, NEW s \in Sockets, Callback(s) PROVE FirstSession'
  BY <1>3, FirstCallback
<1>4. UNCHANGED <<wvars, told>> =>
        /\ Up' = Up /\ (Announced' <=> Announced) /\ (ToAnnounce' <=> ToAnnounce)
        /\ \A s \in Sockets : (Live(s)' <=> Live(s)) /\ (Busy(s)' <=> Busy(s))
        /\ ToldInTurn => ToldInTurn'
  BY DEF wvars, Up, Announced, ToAnnounce, Live, Busy, ToldInTurn
<1>5. CASE FirstSession /\ BeginClose
  <2>1. UNCHANGED <<wvars, webSocket, reconnect, starts, told>> /\ bIsManualClose' /\ closing'
        /\ starts > 0
    BY <1>5 DEF BeginClose
  <2> QED BY <1>0, <1>4, <1>5, <2>1 DEF FirstSession
<1>6. CASE FirstSession /\ FinishClose
  <2>1. /\ CloseAndConnect(webSocket, {}) /\ closing /\ ~closing'
        /\ webSocket' = {} /\ reconnect' = "none"
        /\ UNCHANGED <<bIsManualClose, starts, told>>
    BY <1>6 DEF FinishClose
  <2>2. /\ Announced => Announced'
        /\ ToAnnounce => ToAnnounce'
        /\ \A s \in Sockets : /\ Live(s)' => Live(s) /\ s \notin webSocket
                              /\ Busy(s)' <=> Busy(s)
    BY <1>0, <2>1, CloseStep
  <2>3. Up' = Up /\ (ToldInTurn => ToldInTurn')
    BY <2>1 DEF Up, ToldInTurn
  <2> QED BY <1>6, <2>1, <2>2, <2>3 DEF FirstSession
<1>7. CASE FirstSession /\ (TryReconnect \/ ReconnectEnds)
  <2>1. /\ UNCHANGED <<wvars, webSocket, bIsManualClose, closing, starts, told>>
        /\ reconnect # "none"
        /\ reconnect' = "done" \/ (reconnect = "started" /\ reconnect' = "create")
    BY <1>7 DEF TryReconnect, ReconnectEnds
  <2> QED BY <1>4, <1>7, <2>1 DEF FirstSession
<1>8. ASSUME FirstSession, NEW s \in Sockets, Recreate(s) PROVE FirstSession'
  <2>1. /\ reconnect = "create" /\ CreateWebSocket(s) /\ reconnect' = "created"
        /\ UNCHANGED <<bIsManualClose, closing, starts, told>>
    BY <1>8 DEF Recreate
  <2>2. /\ ~Up /\ starts # 0 /\ (\A r \in Sockets : ~Busy(r))
        /\ closing => bIsManualClose
        /\ ~bIsManualClose \/ closing
    BY <1>8, <2>1 DEF FirstSession
  <2> QED BY <1>8, <2>1, <2>2, FirstCreate, Zenon
<1>9. CASE FirstSession /\ Network /\ UNCHANGED cvars
  <2>1. /\ Announced => Announced'
        /\ ToAnnounce => ToAnnounce'
        /\ \A s \in Sockets : (Live(s)' => Live(s)) /\ (Busy(s)' <=> Busy(s))
    BY <1>0, <1>9, NetworkStep
  <2>2. UNCHANGED <<webSocket, bIsManualClose, reconnect, closing, starts, told>>
    BY <1>9 DEF cvars
  <2>3. Up' = Up /\ (ToldInTurn => ToldInTurn')
    BY <2>2 DEF Up, ToldInTurn
  <2> QED BY <1>9, <2>1, <2>2, <2>3 DEF FirstSession
<1>10. CASE FirstSession /\ UNCHANGED vars
  BY <1>4, <1>10 DEF FirstSession, vars, cvars
<1> QED BY <1>1, <1>2, <1>3, <1>5, <1>6, <1>7, <1>8, <1>9, <1>10 DEF Next, ReconnectThread

(* Before the first Start there is no socket and nothing was told. *)
LEMMA FirstInit == Init => FirstSession
<1> SUFFICES ASSUME Init PROVE FirstSession
  OBVIOUS
<1>1. /\ \A s \in Sockets : callbacks[s] = <<>> /\ ws[s] = "unused"
      /\ webSocket = {} /\ starts = 0 /\ reconnect = "none"
      /\ ~bIsManualClose /\ ~closing
  BY DEF Init, WInit
<1>2. told = <<"disconnected">> /\ Len(told) = 1
  BY DEF Init
<1>3. \A s \in Sockets : ~Busy(s) /\ ~Live(s)
  BY <1>1 DEF Busy, Live
<1>4. ~Up /\ ToldInTurn /\ ToAnnounce
  BY <1>2, <1>3, AllIdle DEF Up, ToldInTurn
<1> QED BY <1>1, <1>3, <1>4 DEF FirstSession

(* Until it is started a second time, a client has at most one socket that *)
(* is connecting or connected, over any number of reconnections, and none  *)
(* once Close has returned, although Close does not tell the engine's      *)
(* callbacks to stop. *)
THEOREM ClientSocketsAreAccountedFor == Spec => [](starts <= 1 => SocketsAreAccountedFor)
<1> DEFINE I == ClientInv /\ (starts <= 1 => FirstSession)
<1>1. Init => I
  BY ClientInit, FirstInit
<1>2. I /\ [Next]_vars => I'
  BY ClientStep, FirstStep
<1>3. I => (starts <= 1 => SocketsAreAccountedFor)
  BY DEF FirstSession, SocketsAreAccountedFor, OneSocket, ClosedStaysClosed, Busy
<1> QED BY <1>1, <1>2, <1>3, PTL DEF Spec

(* Until it is started a second time, a client tells its user of           *)
(* connections in turn: no connect while connected, no data after a        *)
(* disconnect. *)
THEOREM ClientTellsInTurn == Spec => [](starts <= 1 => ToldInTurn)
<1> DEFINE I == ClientInv /\ (starts <= 1 => FirstSession)
<1>1. Init => I
  BY ClientInit, FirstInit
<1>2. I /\ [Next]_vars => I'
  BY ClientStep, FirstStep
<1>3. I => (starts <= 1 => ToldInTurn)
  BY DEF FirstSession
<1> QED BY <1>1, <1>2, <1>3, PTL DEF Spec

-----------------------------------------------------------------------------
(* UProductionSubsystem: one way to the next connection.                   *)

ProductionInv == ProductionTypeOK /\ QueueInv

(* A timer is pending exactly if no socket has anything left to say; the   *)
(* socket that has is the one in use, and what waits fits what is shown.   *)
Running ==
    /\ \A s \in Sockets : Busy(s) => connection = {s}
    /\ retryTimers \in {0, 1} /\ (firstTimer => retryTimers = 0)
    /\ firstTimer \/ retryTimers = 1 <=> \A s \in Sockets : ~Busy(s)
    /\ shown => Announced /\ \E s \in Sockets : Busy(s)
    /\ ~shown => ToAnnounce

AttemptInv ==
    /\ phase # "running" => ~firstTimer /\ retryTimers = 0
    /\ phase = "created" => ~shown /\ \A s \in Sockets : ~Busy(s)
    /\ phase = "running" => Running

(* Nothing waits before the game instance starts. *)
LEMMA ProductionStarts == ProductionInit => ProductionInv /\ AttemptInv
<1> SUFFICES ASSUME ProductionInit PROVE ProductionInv /\ AttemptInv
  OBVIOUS
<1>1. callbacks = [s \in Sockets |-> <<>>] /\ ws = [s \in Sockets |-> "unused"]
  BY DEF ProductionInit, WInit
<1>2. WTypeOK /\ QueueInv /\ \A s \in Sockets : ~Busy(s)
  BY <1>1 DEF WTypeOK, QueueInv, Busy, Live
<1>3. ProductionTypeOK
  <2>1. firstTimer \in BOOLEAN /\ shown \in BOOLEAN
    BY Zenon DEF ProductionInit
  <2> QED BY <1>2, <2>1 DEF ProductionInit, ProductionTypeOK
<1> QED BY <1>2, <1>3 DEF ProductionInit, ProductionInv, AttemptInv

(* A step that leaves the sockets alone leaves alone what is known of them. *)
LEMMA SocketsRest ==
    ASSUME UNCHANGED wvars
    PROVE  /\ Announced' <=> Announced
           /\ ToAnnounce' <=> ToAnnounce
           /\ SocketInv => SocketInv'
           /\ \A s \in Sockets : Busy(s)' <=> Busy(s)
  BY DEF wvars, Announced, ToAnnounce, SocketInv, WTypeOK, QueueInv, Busy, Live

(* A timer that is due finds no socket with anything left to say, so it    *)
(* connects, and the new socket is the only busy one. *)
LEMMA TimerStep ==
    ASSUME ProductionInv, AttemptInv, phase = "running", NEW s \in Sockets,
           FirstTimer(s) \/ RetryTimer(s)
    PROVE  ProductionInv' /\ AttemptInv'
<1>0. /\ SocketInv /\ connection \subseteq Sockets /\ Running /\ retryTimers \in Nat
      /\ firstTimer \in BOOLEAN /\ shown \in BOOLEAN /\ phase' = "running" /\ shown' = shown
  BY DEF ProductionInv, ProductionTypeOK, SocketInv, AttemptInv, FirstTimer, RetryTimer
<1>1. /\ \A r \in Sockets : ~Busy(r)
      /\ ~shown
  BY <1>0 DEF Running, FirstTimer, RetryTimer
<1>2. Connect(s) /\ firstTimer' = FALSE /\ retryTimers' = 0
  <2>1. ~(\E open \in connection : IsOpen(open))
    BY <1>0, <1>1 DEF Busy, Live, IsOpen
  <2>2. CASE FirstTimer(s)
    BY <1>0, <2>2 DEF FirstTimer, Running
  <2>3. CASE RetryTimer(s)
    <3>1. retryTimers = 1 /\ ~firstTimer
      BY <1>0, <2>3 DEF RetryTimer, Running
    <3> QED BY <1>0, <2>1, <2>3, <3>1 DEF RetryTimer
  <2> QED BY <2>2, <2>3
<1>3. connection' = {s} /\ CloseAndConnect(connection, {s})
  BY <1>2 DEF Connect
<1>4. SocketInv' /\ ToAnnounce' /\ Live(s)' /\ \A r \in Sockets \ {s} : ~Busy(r)'
  BY <1>0, <1>1, <1>3, ConnectStep
<1>5. Busy(s)'
  BY <1>4 DEF Busy
<1>6. ProductionInv'
  <2>1. firstTimer' \in BOOLEAN /\ shown' \in BOOLEAN
    BY <1>0, <1>2, Zenon
  <2> QED BY <1>0, <1>2, <1>3, <1>4, <2>1, Zenon DEF ProductionInv, ProductionTypeOK, SocketInv
<1>7. Running'
  BY <1>0, <1>1, <1>2, <1>3, <1>4, <1>5 DEF Running
<1> QED BY <1>0, <1>6, <1>7 DEF AttemptInv

(* A callback is about the socket in use; a message only comes after its   *)
(* connect; the last one is followed by one timer. *)
LEMMA ProductionCallbackStep ==
    ASSUME ProductionInv, AttemptInv, NEW s \in Sockets, ProductionCallback(s)
    PROVE  /\ ProductionInv' /\ AttemptInv'
           /\ OnMessage(s) => shown /\ connection = {s}
<1>0. /\ SocketInv /\ connection \subseteq Sockets /\ Running /\ retryTimers \in Nat
      /\ firstTimer \in BOOLEAN /\ shown \in BOOLEAN /\ phase = "running"
  BY DEF ProductionInv, ProductionTypeOK, SocketInv, AttemptInv, ProductionCallback
<1>1. PICK cb :
        /\ CalledBack(s, cb) /\ Return(s) /\ ws' = ws
        /\ UNCHANGED <<phase, firstTimer, connection>>
        /\ \/ cb = "connected" /\ shown' = TRUE /\ retryTimers' = retryTimers
           \/ cb \in Messages /\ shown' = shown /\ retryTimers' = retryTimers
           \/ cb \in Endings /\ shown' = FALSE /\ retryTimers' = retryTimers + 1
        /\ OnMessage(s) => cb \in Messages
  <2>1. CASE OnConnected(s) /\ ~OnMessage(s)
    BY <2>1 DEF OnConnected
  <2>2. CASE OnMessage(s)
    BY <2>2 DEF OnMessage, ownVars
  <2>3. CASE OnEnded(s) /\ ~OnMessage(s)
    BY <2>3 DEF OnEnded
  <2> QED BY <2>1, <2>2, <2>3 DEF ProductionCallback
<1>2. /\ SocketInv' /\ Busy(s)
      /\ \A r \in Sockets : (Live(r)' <=> Live(r)) /\ (Busy(r)' => Busy(r))
      /\ Announced => Announced' /\ cb \notin {"connected", "error"}
      /\ ToAnnounce => cb \notin Messages
      /\ Busy(s)' <=> cb \notin Endings
      /\ cb = "connected" => /\ ws[s] # "connecting"
                             /\ \A i \in DOMAIN callbacks'[s] :
                                   callbacks'[s][i] \notin {"connected", "error"}
  BY <1>0, <1>1, ReturnStep
<1>3. /\ connection = {s} /\ ~firstTimer /\ retryTimers = 0
      /\ \A r \in Sockets \ {s} : ~Busy(r) /\ ~Busy(r)'
  <2>1. connection = {s} /\ ~firstTimer /\ retryTimers = 0
    BY <1>0, <1>2 DEF Running
  <2>2. ASSUME NEW r \in Sockets \ {s} PROVE ~Busy(r)
    <3>1. connection # {r}
      BY <2>1
    <3> QED BY <1>0, <3>1 DEF Running
  <2> QED BY <1>2, <2>1, <2>2
<1>4. OnMessage(s) => shown /\ connection = {s}
  BY <1>0, <1>1, <1>2, <1>3 DEF Running
<1>5. shown' \in BOOLEAN
  <2>1. shown' = TRUE \/ shown' = FALSE \/ shown' = shown
    BY <1>1
  <2> QED BY <1>0, <2>1, Zenon
<1>6. retryTimers' \in Nat /\ firstTimer' \in BOOLEAN /\ connection' \subseteq Sockets
  <2>1. retryTimers' \in Nat
    BY <1>0, <1>1
  <2> QED BY <1>0, <1>1, <2>1, Zenon
<1>7. ProductionInv'
  BY <1>0, <1>1, <1>2, <1>5, <1>6, Zenon DEF ProductionInv, ProductionTypeOK, SocketInv
<1>8. Running'
  <2>1. CASE cb = "connected" /\ shown' = TRUE /\ retryTimers' = retryTimers
    <3>1. ws' = ws /\ ws[s] # "connecting"
      BY <1>1, <1>2, <2>1
    <3>2. /\ \A r \in Sockets \ {s} : callbacks'[r] = <<>> /\ ws'[r] # "connecting"
          /\ DOMAIN << >> = {}
      BY <1>3 DEF Busy, Live
    <3>3. Announced'
      BY <1>2, <2>1, <3>1, <3>2 DEF Announced
    <3>4. Busy(s)'
      BY <1>2, <2>1 DEF Endings
    <3> QED BY <1>1, <1>3, <2>1, <3>3, <3>4 DEF Running
  <2>2. CASE cb \in Messages /\ shown' = shown /\ retryTimers' = retryTimers
    <3>1. shown /\ Announced'
      BY <1>0, <1>2, <2>2 DEF Running
    <3>2. Busy(s)'
      BY <1>2, <2>2, SocketAssumption
    <3> QED BY <1>1, <1>3, <2>2, <3>1, <3>2 DEF Running
  <2>3. CASE cb \in Endings /\ shown' = FALSE /\ retryTimers' = retryTimers + 1
    <3>1. retryTimers' = 1 /\ ~firstTimer' /\ ~shown' /\ \A r \in Sockets : ~Busy(r)'
      BY <1>1, <1>2, <1>3, <2>3
    <3>2. /\ \A r \in Sockets : callbacks'[r] = <<>> /\ ws'[r] # "open"
          /\ DOMAIN << >> = {}
      BY <3>1 DEF Busy, Live
    <3>3. ToAnnounce'
      BY <3>2 DEF ToAnnounce
    <3> QED BY <3>1, <3>3 DEF Running
  <2> QED BY <1>1, <2>1, <2>2, <2>3
<1> QED BY <1>0, <1>1, <1>4, <1>7, <1>8 DEF AttemptInv

(* Ending the game instance leaves only the sockets' own rules to keep. *)
LEMMA DeinitializeStep ==
    ASSUME ProductionInv, Deinitialize
    PROVE  ProductionInv' /\ AttemptInv'
<1>0. SocketInv /\ connection \subseteq Sockets /\ shown \in BOOLEAN
  BY DEF ProductionInv, ProductionTypeOK, SocketInv
<1>1. /\ phase' = "ended" /\ firstTimer' = FALSE /\ retryTimers' = 0
      /\ connection' = connection /\ shown' = shown
      /\ CloseAndConnect({s \in connection : IsOpen(s)}, {})
  BY DEF Deinitialize
<1>2. SocketInv'
  BY <1>0, <1>1, CloseStep
<1>3. firstTimer' \in BOOLEAN /\ retryTimers' \in Nat
  BY <1>1
<1> QED BY <1>0, <1>1, <1>2, <1>3, Zenon DEF ProductionInv, ProductionTypeOK, SocketInv, AttemptInv

(* Every step keeps exactly one way to the next connection. *)
LEMMA ProductionStep ==
    ASSUME ProductionInv, AttemptInv, [ProductionNext]_productionVars
    PROVE  ProductionInv' /\ AttemptInv'
<1>0. /\ SocketInv /\ connection \subseteq Sockets /\ retryTimers \in Nat
      /\ firstTimer \in BOOLEAN /\ shown \in BOOLEAN
  BY DEF ProductionInv, ProductionTypeOK, SocketInv
<1>1. CASE InitializeSubsystem
  <2>1. /\ phase = "created" /\ phase' = "running" /\ firstTimer' = TRUE
        /\ UNCHANGED wvars /\ UNCHANGED <<retryTimers, connection, shown>>
    BY <1>1 DEF InitializeSubsystem, wvars
  <2>2. /\ retryTimers = 0 /\ ~shown /\ \A s \in Sockets : ~Busy(s)
        /\ ToAnnounce
    BY <2>1, AllIdle DEF AttemptInv
  <2>3. Running'
    BY <2>1, <2>2, SocketsRest DEF Running
  <2>4. firstTimer' \in BOOLEAN
    BY <2>1
  <2> QED BY <1>0, <2>1, <2>3, <2>4, SocketsRest, Zenon
          DEF ProductionInv, ProductionTypeOK, SocketInv, AttemptInv
<1>2. CASE Deinitialize
  BY <1>2, DeinitializeStep
<1>3. ASSUME NEW s \in Sockets, FirstTimer(s) \/ RetryTimer(s)
      PROVE  ProductionInv' /\ AttemptInv'
  <2>1. CASE phase = "running"
    BY <1>3, <2>1, TimerStep
  <2>2. CASE phase # "running"
    BY <1>0, <1>3, <2>2 DEF AttemptInv, FirstTimer, RetryTimer
  <2> QED BY <2>1, <2>2
<1>4. ASSUME NEW s \in Sockets, ProductionCallback(s) PROVE ProductionInv' /\ AttemptInv'
  BY <1>4, ProductionCallbackStep
<1>5. CASE Network /\ UNCHANGED ownVars
  <2>1. /\ SocketInv'
        /\ Announced => Announced'
        /\ ToAnnounce => ToAnnounce'
        /\ \A s \in Sockets : (Live(s)' => Live(s)) /\ (Busy(s)' <=> Busy(s))
    BY <1>0, <1>5, NetworkStep
  <2>2. UNCHANGED <<phase, firstTimer, retryTimers, connection, shown>>
    BY <1>5 DEF ownVars
  <2>3. Running => Running'
    BY <2>1, <2>2 DEF Running
  <2> QED BY <1>0, <2>1, <2>2, <2>3, Zenon
          DEF ProductionInv, ProductionTypeOK, SocketInv, AttemptInv
<1>6. CASE UNCHANGED productionVars
  <2>1. UNCHANGED wvars /\ UNCHANGED <<phase, firstTimer, retryTimers, connection, shown>>
    BY <1>6 DEF productionVars, ownVars
  <2>2. Running => Running'
    BY <2>1, SocketsRest DEF Running
  <2> QED BY <1>0, <2>1, <2>2, SocketsRest, Zenon
          DEF ProductionInv, ProductionTypeOK, SocketInv, AttemptInv
<1> QED BY <1>1, <1>2, <1>3, <1>4, <1>5, <1>6 DEF ProductionNext, Timer

(* A socket will set a timer exactly if it has anything left to say. *)
LEMMA UnendedIsBusy ==
    ASSUME SocketInv
    PROVE  Unended = {s \in Sockets : Busy(s)}
<1> SUFFICES ASSUME NEW s \in Sockets, ~Live(s)
             PROVE  callbacks[s] # <<>> <=> \E i \in DOMAIN callbacks[s] : callbacks[s][i] \in Endings
  BY DEF Unended, Busy
<1>1. callbacks[s] \in Seq(Callbacks) /\ ws[s] \in {"unused", "over"}
  BY DEF SocketInv, WTypeOK, Live
<1>2. CASE callbacks[s] = <<>>
  <2>1. DOMAIN << >> = {}
    OBVIOUS
  <2> QED BY <1>2, <2>1
<1>3. CASE callbacks[s] # <<>>
  <2>1. callbacks[s][Len(callbacks[s])] \in Endings
    BY <1>1, <1>3 DEF SocketInv, QueueInv
  <2>2. Len(callbacks[s]) \in DOMAIN callbacks[s]
    BY <1>1, <1>3, Dropped
  <2> QED BY <1>3, <2>1, <2>2
<1> QED BY <1>2, <1>3

(* The invariant counts one way to the next connection, and knows what the *)
(* widgets show when nothing waits. *)
LEMMA KeepsUp == ProductionInv /\ AttemptInv => DashboardKeepsUp
<1> SUFFICES ASSUME ProductionInv, AttemptInv, phase = "running"
             PROVE  /\ Cardinality(Unended) + retryTimers + (IF firstTimer THEN 1 ELSE 0) = 1
                    /\ (\A s \in Sockets : callbacks[s] = <<>>) =>
                          (shown <=> \E s \in connection : IsOpen(s))
  BY DEF DashboardKeepsUp, OneAttempt, ShownIsTrue
<1>0. SocketInv /\ Running /\ connection \subseteq Sockets /\ Unended = {s \in Sockets : Busy(s)}
  BY UnendedIsBusy DEF ProductionInv, ProductionTypeOK, SocketInv, AttemptInv
<1>1. CASE \A s \in Sockets : ~Busy(s)
  <2>1. Unended = {} /\ Cardinality(Unended) = 0
    <3>1. Unended = {}
      BY <1>0, <1>1
    <3>2. Cardinality({}) = 0
      BY FS_EmptySet, Zenon
    <3> QED BY <3>1, <3>2
  <2>2. (firstTimer /\ retryTimers = 0) \/ (~firstTimer /\ retryTimers = 1)
    BY <1>0, <1>1 DEF Running
  <2>3. ~shown /\ \A s \in connection : ~IsOpen(s)
    BY <1>0, <1>1 DEF Running, Busy, Live, IsOpen
  <2> QED BY <2>1, <2>2, <2>3
<1>2. ASSUME NEW s \in Sockets, Busy(s)
      PROVE  /\ Cardinality(Unended) + retryTimers + (IF firstTimer THEN 1 ELSE 0) = 1
             /\ (\A r \in Sockets : callbacks[r] = <<>>) =>
                   (shown <=> \E r \in connection : IsOpen(r))
  <2>1. connection = {s} /\ ~firstTimer /\ retryTimers = 0
    BY <1>0, <1>2 DEF Running
  <2>2. Unended = {s}
    <3>1. \A r \in Sockets : Busy(r) => r = s
      BY <1>0, <2>1 DEF Running
    <3> QED BY <1>0, <1>2, <3>1
  <2>3. Cardinality({s}) = 1
    BY FS_Singleton
  <2>4. ASSUME callbacks[s] = <<>> PROVE shown <=> IsOpen(s)
    <3>1. ws[s] \in {"connecting", "open"}
      BY <1>2, <2>4 DEF Busy, Live
    <3>2. shown => Announced
      BY <1>0 DEF Running
    <3>3. ~shown => ToAnnounce
      BY <1>0 DEF Running
    <3> QED BY <2>4, <3>1, <3>2, <3>3 DEF Announced, ToAnnounce, IsOpen
  <2> QED BY <1>2, <2>1, <2>2, <2>3, <2>4
<1> QED BY <1>1, <1>2

(* The variables of the subsystem stay in their domains. *)
THEOREM ProductionTypeCorrect == ProductionSpec => []ProductionTypeOK
<1> DEFINE I == ProductionInv /\ AttemptInv
<1>1. ProductionInit => I
  BY ProductionStarts
<1>2. I /\ [ProductionNext]_productionVars => I'
  BY ProductionStep
<1>3. I => ProductionTypeOK
  BY DEF ProductionInv
<1> QED BY <1>1, <1>2, <1>3, PTL DEF ProductionSpec

(* Through any number of failures, losses and retries the dashboard has    *)
(* exactly one timer or connection that leads to its next connection, and  *)
(* shows the connection as it is when no callback waits. *)
THEOREM DashboardSafety == ProductionSpec => []DashboardKeepsUp
<1> DEFINE I == ProductionInv /\ AttemptInv
<1>1. ProductionInit => I
  BY ProductionStarts
<1>2. I /\ [ProductionNext]_productionVars => I'
  BY ProductionStep
<1>3. I => DashboardKeepsUp
  BY KeepsUp
<1> QED BY <1>1, <1>2, <1>3, PTL DEF ProductionSpec

(* OnMessage hands an update on only while the widgets show a connection,  *)
(* and only from the socket in use. *)
THEOREM UpdateSafety == ProductionSpec => UpdatesAreCurrent
<1> DEFINE I == ProductionInv /\ AttemptInv
           A == \A s \in Sockets : OnMessage(s) /\ phase = "running" => shown /\ connection = {s}
<1>1. ProductionInit => I
  BY ProductionStarts
<1>2. I /\ [ProductionNext]_productionVars => I'
  BY ProductionStep
<1>3. I /\ [ProductionNext]_productionVars => [A]_productionVars
  BY ProductionCallbackStep DEF ProductionCallback
<1> QED BY <1>1, <1>2, <1>3, PTL DEF ProductionSpec, UpdatesAreCurrent
=============================================================================
