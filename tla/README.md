# A verification project for the Digital Twin's communication code

The repository is an Unreal Engine project. Its C++ is of two kinds: the
dashboard's own `UProductionSubsystem` (`Source/DtProject`), and
ObjectDeliverer (`Content/ObjectDeliverer`), the plugin that sends messages
over TCP, TLS, UDP, WebSocket, shared memory or a log file. Everything else is
assets and blueprints. This directory models the parts of that code whose
correctness depends on interleavings, on how a byte stream is cut, or on what
happens when a connection is lost; TLC checks the models on small instances and
TLAPS proves what matters most for instances of any size.

Paths below are relative to
`src/Content/ObjectDeliverer/Source/ObjectDeliverer/Private` unless they start
with `src/` or `Source/`.

## Inventory

| Component | State it keeps | Operations | How it interacts | What is hard |
|---|---|---|---|---|
| Packet rules (`PacketRule/`) | receive mode, announced body size, left-over bytes | MakeSendPacket, GetWantSize, NotifyReceiveData | called by every protocol, on the sending and on the receiving thread | framing over a stream cut anywhere |
| Socket receive loops (`Protocol/ProtocolTcpIpSocket.cpp`, `ProtocolTcpIpSocketTls.cpp`, `ProtocolUdpSocket.cpp`, `Utils/ODGrowBuffer.cpp`) | ReceiveBuffer | read what is pending, feed the rule | own thread per connection | partial packets |
| ObjectDelivererManager | CurrentProtocol, ConnectedList, IsDestorying | Start, Close, Send, the event handlers | receives events from protocol threads, runs the user's delegates on the game thread or on the raising one | events that race with Close and Start |
| TCP server and its client sockets | ListenerSocket, ConnectedSockets, IsClosing; per client InnerSocket, bIsClosing, a debounce counter | OnListen, ReceivedData, DisconnectedClient, Start, Close | listen thread, a polling thread per client, game thread | accept, loss and Close in any order; joining threads that are calling back |
| TCP client | the same, with a connect thread | TryConnect, AutoConnect, Close | reconnects from its own polling thread | a thread that has to wait for itself |
| TLS server, client, socket; OpenSslConnection | SSL objects, send queue, worker; settings of the handshake | handshake, queued send, receive, With... calls | a worker owns the SSL object; connect and listen threads go through the handshakes | handshake against Close, who takes the socket away, writers that do not read, which certificate is admitted |
| UDP sender, receiver | a buffer and a rule per remote end | receive, create per sender | receiver thread | datagrams lost, doubled, overtaken; Close against the thread's copy of the socket |
| WebSocket client | WebSocket, bIsManualClose, bIsReconnecting | Start, Close, callbacks, TryReconnect | callbacks on the game thread, a reconnect thread | flags shared by the two |
| Shared memory | one slot, a counter of one byte | Send, polling read | two processes under a named mutex | lost writes, counter that wraps |
| Log writer, reader | file position, time of the next record | write, timed read | reader thread | a log that breaks off; time against the reader's Start |
| ProductionSubsystem | WebSocket, timers | Connect, OnMessage, OnClosed, OnError | the engine's timers and callbacks, on the game thread | timers that multiply or close a connection being opened |
| JSON serializer, delivery boxes | the form chosen per class | object to JSON and back | called on the sending and on the receiving thread; two boxes must be set up alike | circular references, a form chosen at both ends |
| Certificate generator | files; the umask of the process | GenerateSelfSigned, GenerateSignedByCA | the library of OpenSSL, the file system | a write that fails, two calls at once |
| Protocol reflection, factories, logger, utilities, editor module | none that matters | conversions, menu entries | | |

`PROJECT.json` lists every component with its sources and its status, and under
`hazards` the places where this code can go wrong in ways a test hardly
reaches.

## Modules

| Module | Models |
|---|---|
| `PacketRule` | the four rules as operators on byte sequences: `MakeSendPacket`, `GetWantSize`, and what SizeBody and Terminate keep between two calls |
| `MessageChannel` | the abstract specification: a FIFO channel of whole messages |
| `PacketStream` | a sender, a stream and the receive loop of a socket with its rule; refines `MessageChannel` |
| `DelivererManager` | the manager: events become tasks, a task changes ConnectedList and then calls the delegates |
| `TcpIpServer` | the TCP server, its client sockets and their remote ends, composed with `DelivererManager` |
| `TcpIpServerProofs` | its theorems |
| `TcpIpClient` | the TCP client: connect thread, polling thread, retry and automatic reconnection, composed with `DelivererManager` |
| `TcpIpClientProofs` | its theorems |
| `LossyChannel` | the abstract specification: messages may be lost, but come in order and once |
| `SharedMemory` | the slot of shared memory, its counter, the processes that write and poll it; refines `LossyChannel` |
| `SharedMemoryProofs` | its theorems, the refinement among them |
| `WebSocket` | the engine's `IWebSocket` (external) |
| `ProductionSubsystem` | the dashboard's connection, over `WebSocket` |
| `WebSocketClient` | the WebSocket protocol with automatic reconnection, over `WebSocket` |
| `WebSocketProofs` | the theorems of the two users of `WebSocket` |
| `TlsConnection`, `TlsConnectionProofs` | both ends of a TLS connection: send queue, worker, loss, Close; and its theorems |
| `TlsClient` | the TLS client: connect thread, handshake, stability window, worker, Close |
| `TlsServer` | the TLS server: listen thread, handshakes one at a time, workers, Start and Close |
| `TlsProofs` | the theorems of the TLS client and of the TLS server |
| `TlsPolicy` | what a TLS client and server admit, from the calls that set them up |
| `UdpReceiver` | UDP senders, the network and the receiver |
| `LogReplay` | the log writer, its file, and the reader |
| `CertificateFiles` | the files of the certificate generator, calls that fail or overlap |
| `SafetyOnlyProofs` | the theorems of `CertificateFiles`, `UdpReceiver`, `TlsPolicy` and `JsonBox` |
| `JsonBox` | the JSON delivery boxes of both ends |
| `GrowBuffer` | ODGrowBuffer, the array under the receive loops |
| `StreamProofs` | the theorems of `GrowBuffer`, `PacketRule` with `PacketStream`, and `LogReplay` |
| `MC*` | constants of the instances TLC checks; `MCStreams`, `MCConnections` and `MCSafetyOnly` put several components into one run |

`PROJECT.json` maps every definition to the lines it stands for. A definition
whose comment begins with "Mutant" is the definition that follows it with a
plausible bug: each property is checked to fail when one of them takes the
place of the original.

### The packet stream

The state is the wire, the socket's `ReceiveBuffer` (`buf`), the rule's state
(`rs`) and the position of the receive thread. `Receive(n)` is one `Recv`, of
any number of pending bytes. `Drained`, `NotifySize`, `NotifyBody`,
`NotifyWhole`, `NotifyTerminate` are the turns of the loop
`while (ReceiveBuffer.GetLength() > 0)`; `ScanFound` and `ScanDone` those of
the loop in `UPacketRuleTerminate::NotifyReceiveData`. `keepsPartial` says
which of the two socket loops runs: the TLS and UDP loops append to the buffer,
the plain TCP loop gives it the size of what is pending and receives over it.
A behaviour starts in one of `Setups`: a rule, a loop, and the bodies that are
sent. A byte has `ByteBase` values, 3 in the instances, so that a body of two or three bytes already
needs a second digit of the size header. The senders' precondition is
`Framable`: a body whose length the header can carry and is not 0, a body in
which the terminator does not appear early. `Carried` says which setups the
code is made for: such bodies, and for a rule that waits for a number of bytes a
loop that keeps what is left over. TLC evaluates that the setups of `Streams`
are carried; `TcpSplitPacket` is about one that is not.

### The TCP server

A critical section without a blocking call is one step; the steps of
`OnListen`, of `DisconnectedClient` and of `Close` between such sections are
separate actions, because other threads run in between. The listen thread goes
`loop`, `turn`, `accepted` (the polling thread runs, the client is not listed),
`added`, `loop`. A polling thread goes `loop`, `wait` (it uses the FSocket it
copied), and when the connection is gone `lost`, `dropped` (CloseInnerSocket
done), `erase`, `erased`, `exited`. The game thread goes through `close`,
`joinListen`, `takeSockets`, `closeSockets` and, in Start, `open`.
`PollEmpty` covers both the readable socket without data that a platform may
report and a peer that is gone; `PollError` every place where the code gives
the connection up at once. With `IsEventWithGameThread` an event is queued for
the game thread, without it the raising thread is busy with its own task until
the delegates have returned (`Free`). `toldIn`, `session` and `told`
are history.

Only the game thread calls Start and Close. A delegate that calls Close from a
polling thread would wait for itself; that use is outside the model.

### The TCP client

Start and Close are executed by a caller: the game thread, or with
AutoConnectAfterDisconnect the polling thread that reports a loss. `call` says
where a caller is: Close goes `close`, `joinConnect`, `closeCloses`,
`closeJoins`, `closeEnds`; Start goes `start`, `startCloses`, `startJoins`,
`startEnds` (it closes what is left of the last connection) and then `create`,
`spawn`. The connect thread goes `loop`, `state` (it looks at
InnerSocket), `connect`, `connected`, `adopt` (OnConnected), `report`; the
polling thread `loop`, `wait`, and after a loss `lost`, `dropped`, `reported`,
`restarts`. A name of a socket or of a thread is used again once nothing
refers to it, so that the number of attempts is unbounded.

Whether AutoConnectAfterDisconnect is set is chosen at the beginning. With it
the polling thread that lost the connection waits in Start for the end of
CurrentThread, which it is itself (on the platforms where such a wait does not
fail at once). The user's Close can run into the same steps;
`CallsReturn` and `LossIsReported` include that case. The properties of what is
left after a Close are about a client without it, because a Start that races
with a Close clears IsClosing and undoes it. A behaviour with automatic
reconnection has one Start by the user, and Start is called again only after
Close.

### Shared memory

What is done under the named mutex is one step: `Send` (RequestSend) counts
NowCounter up and writes the slot, `Look` compares the counter and copies the
slot, `Wipe` is Start's Memset. `Deliver` gives the copy to the packet rule,
outside the mutex. A message is its index in the order of sending. `sent` and
`received` are history and the state of `LossyChannel`; `lag` is a ghost that
counts the messages a process has not looked at as long as each was written by
a process that had seen the one before. `UnreadIsNoticed` says exactly when the
counter may fail to show a new message: it has come round; another process has
wiped the slot in its Start; or a writer had not looked, counted on from an old
value, and so perhaps wrote the value that is already there.

### The WebSocket users

`WebSocket` states what both users assume of the engine: callbacks run later on
the game thread, in order for each socket, a socket lives with its delegates
until its closing has been reported, and exactly one ending callback comes per
connection, also after the user's Close. A name of a socket is reused once the
connection it stood for is over and all its callbacks have run, so behaviours
are unbounded although there are three names.

`ProductionSubsystem` has one action per timer and callback. In
`WebSocketClient` the reconnect thread has three steps (look at bIsManualClose,
create the socket, clear bIsReconnecting), Close two (set the flags; join and
close), and callbacks come only outside Close, since they share the thread.

### TLS

`TlsConnection` has, per end, the user's thread in Send (`RequestSend` decides,
`Enqueue` waits for SendQueueMutex), the worker of `FSSLWorkerThread` and the
thread in Close. The worker goes `loop`, `write` (it holds the mutex while what
is queued goes out, in as many partial writes as the wire takes), `read`, and
after a loss `notify`, `claim` (OnSslDisconnected sets IsSelfClose or finds it
set), `drop`, `report`, `exited`. Close goes `take`, `join`, `shutdown`,
`socket`, `closed`. The wire of one direction holds `WireSize` units, and what
was not read when a socket is destroyed may be lost (`Kept`). `ReadNothing`,
`ReadEmpty` and `ReadEnd` are the three outcomes of an SSL_read without data:
it would block, the socket is readable and gives nothing (counted, as in plain
TCP), or the connection is over. LoopCount counts up to `StartupGrace`, before
which the code does not look for a loss.

`TlsClient` and `TlsServer` are about the life of connections and keep of each
worker only its reaction to a loss, and that it may be held up in a write. The
client's connect thread goes `loop`, `create` (if there is no socket), `state`,
`recreate` and `remade` (if the socket has an error), `connect`, `connected`,
`configure`, `handshake`, `adopt`, rounds of the stability window (the half
second in which the connection must stay up), `dispatch`, or `reject` and back
to `loop`; Close goes `look` (is there a session), `interrupt`, `joinConnect`,
`flags`, `take`, `joinWorker`, `base`. AutoConnectAfterDisconnect is off.

A round of the window is four steps: `watch` (IsClosing), `judge` (is the
connection up), `inspect` (is there an InnerSocket), `ask` (what is the state of
that FSocket). The code holds no lock from the third to the fourth, and the
worker of a connection that is lost in the meantime destroys the FSocket
(`WorkerDrops`): the connect thread then asks an FSocket that is gone. The model
reaches that state; it gives the question either answer and goes on, although
the program may not. `SocketOutlivesHandshake` therefore promises less of the
window than of the connect and the handshake: that it is the worker, after a
loss, and not Close, that takes the FSocket from under the connect thread.

In the server the listen thread goes `loop`, `look`, `handshake`, `connected`
(the worker is started), `add`, `report`; Close goes `joinListen`, `take`,
`closeClients`. A worker with something to send is in `write` until its client
has read it or has gone. It does not look at bStopWorker there, and Close waits
for it. Only the clients in `Readers` are sure to read, and `EveryPeerIsAnswered`
has the exception `HeldUp`, a Close that waits for the worker of another one:
without the exception TLC finds such a Close waiting for ever. (Send of the server itself is not modelled. It waits for the same mutex as
the worker's queue, under ConnectedSocketsCriticalSection, and so as long as the
worker writes.)

`TlsPolicy` takes the calls of a client's factory in any order: the name to
expect, a pinned public key, a trusted authority, self-signed certificates, a
client certificate and the minimum protocol. `settings` are the members they leave, and the
operators below compute what ConfigureClient, the handshake and the checks after it make
of every peer. `asked` is a ghost of what the caller asked for, and
`AdmittedAsAsked` compares the two. `ServerRules` are the settings of a server,
its own certificate and key among them, that the client may meet.

### UDP, log, certificates, JSON

`UdpReceiver`: `flight` is the network, a set of datagrams with a duplicate
each, from which any may be taken or lost next. The thread goes `loop`,
`wait` (on its copy of InnerSocket), and handles one datagram at a time: it
finds or makes the client's box, appends, and lets the rule take what it
wants. `received` and `reports` are history and begin anew with each Start: a
report that was buffered before it would stand out. What the network still has
when Close comes is not the old session's: the code does not tell it from what
is sent later, nor does the model.

`LogReplay`: time is counted in ticks. A record is the time at which it was
written; `torn` says that the last one is only partly in the file. A pass of
the reader's thread begins at the record due next and goes on through the file
until one is not due; the end of the file ends the thread.

`CertificateFiles`: one action per file read, created, written or deleted, in
the order of the code, each with the outcome that it fails. A key pair is the number
of its generation, so that a certificate and a key can be seen to belong together.
The note is written and deleted too, but nothing is promised of it; and a key file
that exists with wide access before a call keeps that access, in the code and
beyond the model, where every key file is made by a call.

`JsonBox`: one operator per function of the serializer and the deserializer.
The objects are those of `heap`, of a base class or of a class derived from it, with a property
for each way the code treats one: a number, a string, a date, a struct, a set, a map, a
reference, an array of references, an array of dates. `ExchangeValue` replaces
a value of the message by one of another kind, as a peer of another version
would send it. The JSON of an object that a reference leads to is a node, named by the
object and by what VisitedObjects holds when UObjectToJsonObject is called for it;
`json` has the JSON of each node, and `MadeOf` is what the receiver makes of each, a
recursive function, as JsonObjectToUObject calls itself through
JsonValueToFObjectProperty. What the two ends promise is the recursive function
`Arrives`, which knows nothing of JSON but that its numbers are doubles. A number
is a 64-bit integer and JSON has it as `AsDouble`: above `MaxExact` (2^53, 4 in the
instance) an odd number becomes an even one. `AsDouble` is right up to twice
that bound, and for the negative numbers as far as they are exact. A set counts
what is in it: two numbers that become one double are one element.

## Runs

| Run | Instance | Shows |
|---|---|---|
| `Streams` | `PacketStream`: three messages over SizeBody with a header of two bytes, in either byte order, left-over bytes kept (TLS, UDP), Terminate with both receive loops, FixedLength; bytes below 3, bodies of 0 to 3 bytes. `TlsConnection`: one end speaks, a message of two units, a wire of one. `LogReplay`: two records, times up to 2, two replays | BytesConserved and the refinement of MessageChannel; StreamIntact, TlsSocketOutlivesUse, ClosedEndIsQuiet, LossIsNoticed; ReplaysTheLog |
| `Connections` | `ProductionSubsystem` and `WebSocketClient`: three names for web sockets, two callbacks waiting per socket, one Start of the client. `TlsClient`: RetryConnect, two names for sockets, two Starts, two losses. `TlsServer`: two clients, which may be silent in the handshake or leave, and one of which need not read what it is sent; two Starts | DashboardKeepsUp, UpdatesAreCurrent, Reconnects; OneReconnect, SocketsAreAccountedFor, ToldInTurn, AttemptConnects; SocketOutlivesHandshake, TlsClosedIsQuiet, RetriesUntilSecure; TlsServerClosesAll, EveryPeerIsAnswered |
| `SafetyOnly` | `UdpReceiver`: two senders with two datagrams each, two Starts. `TlsPolicy`: three calls, two keys, two authorities (one of the system's), one host name, one minimum protocol to ask for, servers that offer it or TLS 1.3. `CertificateFiles`: two names, three key pairs. `JsonBox`: two objects of either class, every form and expected class; the message refers to itself, to the other object or to nothing, its list and its map too, and the other object refers to either of the two; numbers, one of which a double does not hold | UdpReceiverIsSound, AdmittedAsAsked, CertificatesAreSound, ObjectsArrive |
| `TcpServerGame` | two clients, two sessions, events on the game thread | SocketOutlivesUse, ClosedIsQuiet, ServedIsListed, ListMatchesHeard, LossIsReported |
| `TcpServerInline` | two clients, one piece of data from either, one session, events on the raising thread | SilentOnceClosed; LossIsLast in place of ListMatchesHeard (which needs the game thread); CloseReturns. SocketOutlivesUse and ClosedIsQuiet are proved for both ways of executing events |
| `TcpClient` | RetryConnect, two sessions (one with automatic reconnection), one piece of data, three names for sockets, two for connect threads, events on the raising thread | SocketOutlivesUse, ClosedIsQuiet, CallsReturn, RetriesUntilConnected, LossIsReported |
| `SharedSlot` | two processes, two Starts each, four messages, a counter of 4 values | UnreadIsNoticed, UnmappedIsUnused, NoticeableIsDelivered, refinement of LossyChannel |

`Streams`, `Connections` and `SafetyOnly` check several components that share
no state. The variable `subject` of their MC module says which one a behaviour
is about. The variables of the others keep a value in which their component is
at rest: no step that its fairness speaks of is enabled, so the fairness of all of
them together is that of the subject.

Why the bounds are enough. Two clients are the least with which the loss of one
can disturb the other, and threads of different clients share nothing but
ConnectedSockets, ConnectedList and IsClosing. Two sessions are the least with
a Close followed by a Start; nothing but the ghosts distinguishes a third from
the second. The debounce limit is 2 where the code has 3 or 20: what matters is
that it can be missed and reached. Three messages put one in the rule, one in
the buffer and one on the wire. Three names for sockets let a client have one
that is being closed, one that is lost and one that connects; two connect threads
are the one that ends and the one that begins. Four messages are enough for a
counter of 4 values, which never is 0 again, to come round to the value a
process has seen; the theorems about the slot are for any counter.

A message of two units over a wire of one makes every write of a TLS connection
a partial one and fills the wire while it is under way. Two names for sockets
let the TLS client make a new one while the worker of the last still reports its
loss, which can happen twice. The TLS server's
handshakes come one at a time, so that two clients are enough for one to wait
behind another. Three calls are enough to set and unset what a pinned key, an
authority and a certificate that signs itself are judged by, in any order. Two datagrams of two senders can overtake
each other, and a duplicate can arrive in the next session. With three key pairs
two calls can replace an authority's files while a third certificate is being
signed. Two objects are the least that form a circle that is not a loop.

Deadlock is not checked: with no user and no peer acting, the system may stop
(that Close itself cannot get stuck is `CloseReturns`).

### Runs that disagree with the documentation

Each checks what a comment or a test of the repository says, and TLC finds it
violated by what the code does; `findings` in `PROJECT.json` quotes the line.

| Run | What happens |
|---|---|
| `TcpSplitPacket` | On plain TCP a packet that arrives in two pieces is lost with the SizeBody or FixedLength rule: the second `Recv` overwrites the left-over bytes. |
| `TcpServerZombie` | A client lost while it is being accepted is not found by DisconnectedClient and then listed for ever; IsConnected stays true. |
| `TcpClientAutoConnect` | After a loss AutoConnectAfterDisconnect makes no attempt: the polling thread calls Start, which waits for that thread. |
| `TlsSendBlocks` | Send of a TLS connection, which "returns immediately", waits for ever when both workers are in a write that the peer does not read from. |
| `WebSocketStranded` | A loss reported before bIsReconnecting is cleared is ignored; the client never reconnects. |

Reading the code for the models showed more that a user should know of. No run
is about it, either because the documentation promises nothing or because the
property of a run is stated for the other cases.

In the models:

- Events raised before a Close are executed after the next Start.
- A Close of the TCP client while it is connecting leaves an open connection
  behind if the attempt then succeeds, because bIsClosing is still set from
  Start.
- Data of a TCP client may be reported before the client is.
- Two processes that write to the shared memory without having looked can
  leave equal counters, and the second message goes unnoticed.
- A second Start of the WebSocket client after a Close: the late report of the
  old socket's closing makes a reconnect that overwrites the new socket without
  closing it. `Connections` therefore has one Start of it; with two,
  `SocketsAreAccountedFor` fails for that reason.
- A TLS connection lost within the stability window may be reported lost
  without having been reported connected, and the connect thread may ask its
  FSocket for its state when the worker has just destroyed it.
- Close of the TLS server waits for a worker that writes to a client that does
  not read, for as long as it does not.
- 64-bit integers beyond 2^53 arrive by JSON as the nearest double.
- The certificate of the first TLS server of a process stays in SSL_CERT_FILE
  and is trusted by every later client of the process.
- An array of dates is written as one string; a member of a struct that cannot
  be read stops the ones after it.

Outside the models:

- A SizeBody packet without a body makes GetWantSize 0, which means "whatever
  is there"; a body longer than the header can count is sent with a truncated
  header. The instances send neither.
- A packet rule is not reset when a socket reconnects
  (`ProtocolTcpIpSocket.cpp:104` clears the buffer only), and a plain send
  that gives up leaves a part of a packet in the stream
  (`ProtocolSocketBase.cpp:80`).
- Two threads that send share BufferForSend of one rule; the WebSocket
  client's Send reads the socket without a lock.
- A delegate that calls Close on the thread that raised the event waits for
  itself; Start with another protocol drops the old one without closing it.
- The WebSocket client ignores ReconnectDelay; Deinitialize of the dashboard
  while it connects leaves the socket to the engine.
- A second Start of the TCP client without Close overwrites ConnectThread.
  AutoConnectAfterDisconnect of the TLS client overlaps two connect threads.
- Send of the TLS server writes to every client under
  ConnectedSocketsCriticalSection.
- The number of days of a certificate is turned into seconds in 32 bits; a note
  from an earlier call stays if the new one cannot be written.
- A reader of an empty log polls for ever; a log record smaller than what the
  rule wants is never handed over, and keeps the ones after it.

## Fairness

Invariants and action properties do not depend on it. In `PacketStream` the receive thread polls at a
fixed interval while the connection lives, so pending bytes are read and fed to
the rule. In `TcpIpServer` every thread that can run runs (`FODWorkerThread`
loops until stopped), tasks of the game thread are executed between the user's
calls, and a Close that has begun goes on; which of several outcomes a poll has
is not subject to fairness, so `LossIsReported` holds although a lost
connection may look like a readable socket without data each time. In the
TCP client a connect thread that goes on trying is assumed to get a socket and a
connection some time (strong fairness of these two outcomes, an assumption about
the network, needed by `RetriesUntilConnected` alone). A process that has
started its polling thread goes on polling the shared memory.

In `TlsConnection` the threads run, and a thread that waits for SendQueueMutex gets it some time
(strong fairness of `Enqueue`): the worker sleeps without it in every turn. In
`TlsClient` a worker in its loop need not end, since it may be in a write to a
server that does not read, unless its connection is gone; and the same
assumption about the network as for plain TCP covers sockets, connects, handshakes and the stability window; `RetriesUntilSecure`
alone needs it. In `TlsServer` a handshake ends, by the client's answer or by
its timeout. No client owes an answer, and only those in `Readers` owe it to read
what they are sent. Strong fairness of `AcceptPeer` for each client stands for
the backlog, which is first in, first out. In `LogReplay` time
passes. The modules of `SafetyOnly` state no fairness and no liveness. In the
WebSocket modules the engine runs due timers and waiting callbacks. The user,
the peers and otherwise the network owe nothing.

## Proofs

Every invariant and every safety property that a run checks is proved. The
theorems hold for any values of the constants: any number of clients, sockets,
processes, names, sessions, messages and callbacks, any bytes and any of the
limits. But for some of the types, no invariant is inductive as it stands. Each
proof has a strengthening, which TLC checked on a small instance first, and one
lemma for each group of actions that keeps it.

Five theorems are of a kind that no run states: `CloseWaitsBriefly`,
`ClientWaitsBriefly`, `TlsCloseWaitsBriefly`, `TlsServerCloseWaitsBriefly` and
`ConnectionCloseWaitsBriefly`. They are what a proof can say of `CloseReturns`,
`CallsReturn` and `EveryPeerIsAnswered`. Whether Close returns is a matter of
fairness. But a thread that Close waits for could also keep it waiting by what
it does itself, going round its loop again because nobody told it, or because a
peer or a failing attempt makes it. So each of these theorems ranks the states
of the threads by the steps they are from their end (`ListenLeft`, `PollLeft`,
`ConnectLeft`, `WorkerLeft`), and says that while such a thread is waited for no
step of anybody takes it anywhere but nearer to it. The number of steps is
bounded, by 5 for a listen thread over TCP for instance, however many clients
there are, and for the worker of a TLS connection by what was queued when Close
took the connection. That such a thread can take its next step is read off the guards of
its actions, since ENABLED is out of reach: none of them waits for the caller of
Close. A thread waits for the delegates of its own events, the connect thread of
the TLS client, in `reject`, for a worker, which the theorem covers, and the
worker of a TLS connection, in a write, for the peer to read. How long that takes
is not bounded by anything: it is what `TlsSendBlocks` is about, and the
exception in `EveryPeerIsAnswered`.

### The TCP server (`TcpIpServerProofs`)

For both ways of executing events: `TypeCorrect` (`TypeOK`, in place of a run),
`SocketSafety`, `CloseSafety`, `LossComesLast`, `CloseSilences`,
`ListIsWhatWasHeard`, `ServedClientsAreListed`, `CloseWaitsBriefly`.

`TypeOK` needs that an executor that calls delegates still has its task, and
that a thread that goes on polling is below the debounce limit.
`SocketOutlivesUse` follows from `PollInv`, which ties the state of a socket to
its polling thread: open or shut down while the thread is in its loop,
destroyed once the thread has dropped it. `ClosedIsQuiet` needs two more parts:
`CloseInv` says what each step of Close leaves behind for the following ones,
and `HeldInv` that a client whose thread runs or whose socket is open is always
in the hands of the listen thread, in ConnectedSockets or in SocketsToClose, so
that Close cannot miss it. `CloseWaitsBriefly` adds `JoinInv`: the client whose
thread is waited for has been told and its socket shut down.

The other four relate the threads to what the user has heard. `NewPeerInv`: an
end that was not accepted yet is known to nobody. `LossInv`: data and losses of a
client are executed by one executor, and a loss is the last event its thread
raises. `CallInv`: the flags of the manager follow the game thread's calls.
`QueueInv`: a thread that is not at the top of its loop has no event left to
execute, and one that has ended none but its loss. `ListInv`: ConnectedList is
ahead of what the user heard by the one event whose delegates are being called.
`ServedInv`: a client that is served is in ConnectedList or its connect is on its
way, and one whose loss was raised is not served and will not be.

### The TCP client (`TcpIpClientProofs`)

`ClientTypeCorrect` (`ClientTypeOK`, the types and the names in use) for any
client. Without AutoConnectAfterDisconnect, `ClientSocketSafety`
(`SocketOutlivesUse`), `ClientCloseSafety` (`ClosedIsQuiet`) and
`ClientWaitsBriefly`. `CallInv` says that only the game thread makes calls, `ConnInv`, `PollInv` and `ThreadInv` who owns InnerSocket: the
connect thread while the client counts as closing, the polling thread from
OnConnected until it has closed it, and then the caller of CloseSocket. With
automatic reconnection a polling thread calls Start while others run, and may
wait for itself; the properties are stated for a client without it, for the
reason given above, and so are these theorems.

### Web sockets (`WebSocketProofs`)

`ReconnectSafety` (`OneReconnect`) of the client: bIsReconnecting is clear while
Close waits for the thread. `ClientTypeCorrect`. `ClientSocketsAreAccountedFor`
and `ClientTellsInTurn` are about the client until its second Start
(`starts <= 1`): with a second one the late report of the old socket's closing
starts a reconnect that overwrites the new socket, as said above. `FirstSession`,
the strengthening: only the socket of the client is live, no other has
anything left to say, a thread that will make a socket does so when nobody has,
and the callbacks that wait fit what the user was told last.

Of the dashboard: `ProductionTypeCorrect`, `DashboardSafety`
(`DashboardKeepsUp`) and `UpdateSafety` (`UpdatesAreCurrent`). `AttemptInv`: a
timer is pending exactly if no socket has anything left to say, the socket that
has is the one in use, and the callbacks that wait fit what the widgets show.
Both users need `QueueInv` of the engine's sockets: the callbacks of one socket
wait in order, a connect first and one ending last.

### TLS (`TlsConnectionProofs`, `TlsProofs`, `SafetyOnlyProofs`)

`TlsConnectionProofs`, for any number and length of messages, any size of the
socket buffers, whichever ends send: `ConnectionTypeCorrect`, `StreamSafety`
(`StreamIntact`), `TlsSocketSafety` (`TlsSocketOutlivesUse`), `ClosedEndSafety`
(`ClosedEndIsQuiet`) and `ConnectionCloseWaitsBriefly`. `ThreadInv` ties a destroyed FSocket, a
closer past its join and a reported loss to a worker that has left its loop; the
two theorems before the last follow from it. The last rests on `JoinInv`: when
Close waits for the worker, a thread in Send has not got as far as the queue,
and will find no connection. `StreamIntact` needs `ChainInv`: what an end
has received, what is on the wire to it, what the other worker is still writing
and what is queued there are consecutive. Each part holds only as long as
somebody can tell: the wire while the reader's socket is open, the writer while
its worker is in its loop and the network lives. A write that fails drops the
rest of a message and breaks the chain, but only after the reader or the network
is gone; and close_notify comes behind the last unit because only Close says it,
when its worker has ended (`ByeInv`).

`TlsProofs`, of the client: `TlsClientTypeCorrect`, `HandshakeSafety`
(`SocketOutlivesHandshake`), `TlsClientCloseSafety` (`TlsClosedIsQuiet`). An
FSocket is left exactly while InnerSocket points at it (`OneFSocket`), so the
properties come down to who may clear that pointer when: `ConnectInv`,
`WindowInv`, `SslWorkerInv` and `TlsCloseInv` say it for the connect thread, up to
the window and in it, the worker of a lost connection and Close. Of the server: `TlsServerTypeCorrect` and
`TlsCloseSafety` (`TlsServerClosesAll`). As for the TCP server, a client whose
worker runs or whose socket is open is always in the hands of the listen thread,
in ConnectedSockets or with Close; Close empties the three in the order in
which a client moves through them. `TlsCloseWaitsBriefly` and
`TlsServerCloseWaitsBriefly`: a connect thread in the stability window, which
looks at the connection again and again, does so no more once IsClosing is set,
and neither end starts a worker while one is waited for.

`SafetyOnlyProofs`: `PolicySafety` (`AdmittedAsAsked`), for any number of calls in any
order. `PolicyInv` says of each setting that it is what the last call that
speaks of it left; from there a case for each thing a peer may present shows that the
checks of the code decide as asked.

### Shared memory (`SharedMemoryProofs`)

For any size of the counter: `SlotTypeCorrect` (`TypeOK`), `MappingSafety`
(`UnmappedIsUnused`), `SlotIsChannel` (`Spec => ImplementsChannel`, the
refinement) and `CounterTells` (`UnreadIsNoticed`). The refinement needs
`OrderInv`: whenever the counter tells a process to look, the message in the
slot is not its own and is younger than everything it was handed. This holds
across a restart, where NowCounter goes back to 0, because Start wipes the slot
first and because the mapping shows that no polling thread is left from before.
`CounterTells` needs `CountInv`, which says how far the counter is ahead of the
one a process has seen.

### Streams (`StreamProofs`)

The receive loop with its rule, for any byte values, bodies, terminators, sizes
and number of messages, and wherever the stream is cut:

- `StreamIsChannel`: if all setups are `Carried`, `StreamSpec => Channel!Spec`.
  This is the refinement of `MessageChannel` without its fairness: each step is
  a Send, a Deliver or invisible.
- `MessagesInOrder`: the same as an invariant, `DeliveredInOrder`.
- `BytesAreConserved` (`BytesConserved`), also for the rule that divides
  nothing with either loop (`Works`), and `StreamTypesHold`.

The strengthening is `StreamInv`. `InStep`: the messages delivered are the first
ones sent, and the bytes in flight, from the header in hand to the end of the
wire, are exactly the packets of the others; a header in hand is that of the
next. `LeftOver`: only Terminate keeps bytes of its own, and a loop that
overwrites what is left over has nothing left over when it does. That last part is
what the plain TCP loop breaks with the other rules. A step that delivers takes the
first packet off. For SizeBody this needs that the header, read back, is the
length that was written (`HeaderRoundTrip`, in either byte order and for any
number of byte values), and for Terminate that the first terminator in the
bytes at hand is the one that ends the next body, however many bytes have come
(`TerminatorEnds`).

`FlattenSeq` is defined by recursion over the list of packets. What is needed
of it (it takes lists apart as the packets are) is shown without an induction
theorem: among the lengths for which a claim fails there would be a least one
(`Least`, from the library's theorem on minimal elements), and its predecessor
shows that it does not fail.

`GrowBuffer`: the theorems justify that `PacketStream` takes `ReceiveBuffer` for
a sequence, for any size of a packet, any content and whatever the array
still holds from before: `SetLengthKeeps`, `AddAppends` (`Add` is
concatenation) and `RemoveDrops` (`RemoveRangeFromStart` takes a prefix off).
The last is stated for a start of 0, which all callers give: for another start
the code counts the bytes before it out of the new size. `GrowBufferIsItsContent`
in `MCStreams` compares the same operations, and `CopyFrom` and `Clear`, with
operations on sequences, which TLC evaluates for small buffers.

`LogReplay`: `ReplayIsInTime` (`ReplayInTime`, the safety part of
`ReplaysTheLog`). `LogInv` says where the reader is in the file, which record it
waits for and from when it counts the time; that the file does not change
under the reader; and that the position never passes the last whole record.

### UDP and certificates (`SafetyOnlyProofs`)

`UdpSafety` (`UdpReceiverIsSound`), for any senders, datagrams and Starts and any
network. `BufferInv` says how what is buffered of an end point and the state of
its rule go together, and that of each datagram taken since Start the packet was
reported or its body is in what the thread is handling; `SessionInv` which
FSocket the thread holds a copy of.

`CertificateSafety` (`CertificatesAreSound`), for any set of names, any number of
calls and any writes that fail. `CallInv` says at each step of a call which of
its two files are already the call's own, and `UmaskInv` that one call at a time
narrows the umask and remembers what it was.

### JSON (`SafetyOnlyProofs`)

`JsonSafety` (`ObjectsArrive`), for any number of objects that refer to each other in
any way, any forms, any expected class and any classes that convert names. The
argument goes up in four steps.

- A value: what is read of the JSON of a property is what was written, numbers as
  a double holds them
  (`ValueReadsBack`, with one lemma for each kind of property).
- An object: if the nodes its references lead to are read as promised, so is the
  object (`OneLevel`), whichever of the two classes is written and read.
- All nodes (`NodesArrive`). A node's rank is the number of objects it does not lie
  within, and what it refers to has a lower one (`RankFalls`): among the nodes
  read wrong there would be one of least rank, and it is not wrong. The same rank
  shows first that `Arrives` and `MadeOf` are what their recursive definitions
  say (`ArrivesIs`, `MadeOfIs`), that is, that writing and reading end.
- The message (`MessageArrives`): each case of what is sent and what is expected,
  with the value that was exchanged.

`JsonInv` says that the message under way is what was written, but for the value
exchanged, and that nothing is exchanged or received before it is sent.

### What the proofs assume, and what stays with TLC

The proofs assume only the named assumptions on the constants, which TLC
evaluates in every run, the hypotheses that `StreamProofs` states on the setups,
and two of `JsonSafety`: that the sender's objects hold what their classes have
(`IsHeap`), which the engine sees to, and that `Null` is not a function, so that no
object is taken for it, which TLC takes for granted of a model value.

Out of their reach, and checked by TLC alone, is liveness, that is
`LossIsReported`, `CloseReturns`, `CallsReturn`, `RetriesUntilConnected`,
`NoticeableIsDelivered`, `LossIsNoticed`, `ReplaysTheLog`, `Reconnects`,
`AttemptConnects`, `RetriesUntilSecure`, `EveryPeerIsAnswered` and the fairness in
`ImplementsChannel` of the stream.

The type invariant of every component is proved, that of the manager with the
TCP server; the configurations leave them out in favour of properties that relate
several variables.

## Not modelled, and the plan

Next come: what the TCP client keeps with automatic reconnection, and the
WebSocket client after a second Start, beyond their types.

Parts of modelled components that are left out:

- Send of the TCP and TLS servers and of the WebSocket client, and of the
  manager, which forwards it; a send over plain TCP that gives up in the middle.
- AutoConnectAfterDisconnect of the TLS client, and its blocking TCP connect.
- Name lookup, which is done before anything else happens.
- Recv of `FOpenSslConnection`, which nothing calls.
- In JSON, enums, booleans, texts and colours, each converted by itself.

Left out altogether: protocol reflection, which hands a message straight back;
factories, which set fields; the logger; string, object and property-name
utilities over engine types; the editor module; blueprints and other assets,
whose logic is binary. The models have no clock but that of `LogReplay`: every
other question of how long something takes is outside them.
