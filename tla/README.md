# Verification of shapeware

TLA+ models of the services in this repository, the TLC configurations that
check them on small instances, and TLAPS proofs of their central properties
for all instances. Paths are relative to the repository (`src/...`).

## The system

shapeware is a set of components for the shape framework. The framework
activates, wires and deactivates them; each is an object with its own threads
that offers an interface from `src/include`.

| Component | State | Operations | Hard behaviour |
|---|---|---|---|
| MqttService (requests) | client handle, three maps token → context, map topic → handler | subscribe, unsubscribe, publish; result callbacks, delivered, msgarrvd on Paho threads | results before the context is filed, reuse of tokens, clients replaced while requests are open |
| MqttService (topic matching) | the filters with a handler | msgarrvd | `#` and `+`, several tests for one handler |
| MqttService (connection) | `m_connected`, the disconnect promise | create, connect, disconnect, destroy | 5 s timeout against a late callback, automatic reconnect with a clean session |
| TaskQueue | queue, flag `m_taskPushed`, `m_runWorkerThread` | pushToQueue, stopQueue, destructor, worker thread | lost wakeups, stop during processing, an unsynchronised read |
| MqMessageService | two queue handles, `m_connected` | sendMessage, listen thread, sendTo in a TaskQueue worker, deactivate | two threads reconnect one handle, handles closed under the worker |
| ZeroMqService | required and actual socket state, one message slot, `m_runThd` | open, close, sendMessage, deactivate, workerReq, workerRep | two mutexes for one flag, timeouts, errors in the middle of a round, a notification without the mutex |
| AwsFleetProv | four official files, `m_isProvisioned`, promises on the worker's stack | activate, launchProvisioning, deactivate, worker with the dialogue over MQTT | crash between files, waits without timeout, callbacks after the stack is gone, repeated answers |
| WebsocketCppService | map of connections, server thread, acceptor | start, stop, sendMessage, callbacks of the server thread | unlocked iteration, stop against callbacks, connections that open behind it |
| WebsocketCppClientService | `m_connected`, connection handle, client thread | connect, close, deactivate, callbacks of the client thread | waits on a state another thread changes outside the mutex, callbacks of earlier connections |
| CommandService, CommandLineService | command table, reading thread | addCommand, removeCommand, help, quit | join of a thread that reads the terminal |
| CppRestService, CurlRestApiService, SyslogLogger, examples, startup | none of interest | one library call each | none |

MqttService is used by AwsFleetProv; TaskQueue by MqMessageService; the
command services call each other through `ICommandService`. `PROJECT.json`
lists every component with its status, and under `hazards` what in the code is
hard to test, at its line.

## Modules

| Module | Models |
|---|---|
| `MqttRequests` | the request side of `src/MqttService/MqttService.cpp` |
| `MqttRequestsProofs` | theorems about it |
| `MqttConnection` | its connection: create, connect, disconnect, destroy and the Paho callbacks of them |
| `MqttConnectionProofs` | theorems about it |
| `MqttTopicMatch` | the matching in `msgarrvd` and `src/include/mqtt_utils.h`, against the broker's; no state, extended by `MqttRequests` |
| `FifoExecutor` | abstract specification: what the class comment of TaskQueue promises |
| `LossyChannel` | abstract specification: what sendMessage() of ZeroMqService and of MqMessageService promises (in order, at most once, possibly not at all) |
| `TaskQueue` | `src/MqMessageService/TaskQueue.h` |
| `TaskQueueProofs` | theorems about it, the refinement of `FifoExecutor` included |
| `ZeroMqService` | `src/ZeroMqService/ZeroMqService.cpp`, both workers |
| `ZeroMqServiceProofs` | theorems about it |
| `MqMessageService` | `src/MqMessageService/MqMessageService.cpp` on Linux, over `FifoExecutor` |
| `MqMessageServiceProofs` | theorems about it |
| `AwsFleetProv` | `src/AwsFleetProv/AwsFleetProv.cpp` with the files it leaves and the service it talks to |
| `AwsFleetProvProofs` | theorems about it |
| `WebsocketCppService` | `src/WebsocketCppService`: `WsServer.h` and the service over it |
| `WebsocketCppServiceProofs` | theorems about it |
| `WebsocketCppClientService` | `src/WebsocketCppClientService/WebsocketCppClientService.cpp` |
| `WebsocketCppClientServiceProofs` | theorems about it |
| `MC*` | one per specification, with the symmetry where there is one |

A definition whose name ends in `_Something` below a comment "Mutant" is a
deliberately wrong version of the definition it precedes. No specification
uses them; they show that the property they are meant for can fail.

### MqttRequests

`subscribe()`, `unsubscribe()` and `publish()` are two steps each: `HandOver`
is everything up to the Paho call (Paho has the request and a token), the
action with the function's name is the critical section that follows, which
files the context under the token. `Reject` is a call that Paho or the null
handle refuses. The result callbacks are one step, as each runs under one
mutex. `contextMap` holds the three token maps, indexed by the kind of
request; `m_onMessageHndlMap` is the handler map, from the filters of
`MqttTopicMatch`. A message may come on any topic that one of the filters in
`brokerSub` makes the broker forward; `msgarrvd` looks at every entry of the map,
the one that filter is for and the others. `create`/`destroy` change the client
handle; `destroy` leaves the maps alone, as in the code. `deactivate()` makes
the same changes as `destroy()`. Handlers are represented by the request that
passed them; `calls`, `deliveries` and `received` record their invocations, the
last with how often each of the three tests of `msgarrvd` invoked them.

What is assumed of Paho and the broker (marked external in the map): a token
is unique among the outstanding requests of one client, and may be used again
afterwards; each request is answered at most once, by the client it was handed
to, at any time after the hand-over, and with its own token; the confirmation
of a QoS 1 message comes before its success; a QoS 0 message has no
confirmation; the broker serves the (un)subscribes of a client in the order
sent; a lost connection makes it forget them, since the session is clean.
Failures may come at any time and in any order. Handlers do not call back into
the service (they would lock the mutex again).

### MqttTopicMatch

Topics, filters and the three tests as operators; `MqttRequests` has the state. A
topic is the sequence of its levels. The `#` branch compares characters; a
`#` the broker accepts is a level of its own, so the comparison succeeds
exactly when the levels before it agree and the topic has at least one more.
`Forwards` is the broker's rule; names in `Reserved` begin with `$`, and a topic
that begins with one is out of reach of filters that begin with a wildcard
(`OutOfReach`), which `msgarrvd` does not know. `Unsupported` names where the two
disagree. Empty levels are left out.

### TaskQueue

One action per critical section: `pushToQueue`, `stopQueue` and `destructor`
release the mutex before `notify_all`, which is a step of its own. The worker's
`wait(lck, pred)` is: lock, evaluate, park atomically with the release (that is
what the standard guarantees), wake on notification or spuriously, evaluate
again. The read of `m_runWorkerThread` in the outer loop is not synchronised;
the model lets it return `TRUE` after a stop. Callers make no call once the
destructor has begun, as for any C++ object.

### ZeroMqService

`m_mux` is explicit (`muxHeld`), since the worker holds it across steps that
others observe. The waits of the worker are split into predicate, block and
wake, because `deactivate()` writes and notifies without the mutex. Sections
under `m_muxReady` are one step. `sock` abstracts the socket to whether it may
send (`ready`) or owes or is owed a reply (`busy`). sendMessage() keeps a single
message, so a second call may replace one that was not sent yet; the model
keeps that, and `NewestKept` and `ImplementsChannel` say what is still promised.
A call of open() or close() that finds its state required already (`Required`)
returns without waiting: after a reply timeout open() is required while the worker
has closed the socket and has yet to make another, and `DoneOnReturn` says so.
`ZmqError` is the
exception from any of the calls that can throw. Messages are numbered as they
are accepted. Assumed: nobody is in a call of the interface when
`deactivate()` begins, and callbacks do not call back.

### MqMessageService

The TaskQueue between `sendMessage()` and `sendTo()` is an instance of
`FifoExecutor`, which `TaskQueueProofs` shows it implements. `sendTo()` runs in
two threads, the queue's worker and, when reading fails, the listen thread;
its steps are the test of `m_connected` (`Check`), the closing and the opening
under `m_connectMtx` (`LockAndClose`, `OpenAndUnlock`), the read of the handle
outside it (`Load`), and the write with its failure path. Descriptors are
numbers of the process: a number that is closed may be given to another
component (`ForeignOpen`), and closing it again closes theirs. `using` is the
handle a thread has passed to `mq_send`. `pthread_cancel` may take effect
wherever the listen thread is (`ListenCancelled`); unwinding its stack releases
the mutex. A message that is read goes to the registered handler and changes
nothing here. `activate()` is the initial state: the listen thread runs and
the queue exists. `openMqRead()` keeps the descriptor of a queue it had to
replace open (`replaced`).

### MqttConnection

A call of `disconnect()` is `Reset` (its first line, which replaces
`m_disconnect_promise_uptr`), `GetFuture`, `AskPaho` (MQTTAsync_disconnect) and
`WaitReturns` or `WaitTimesOut` (the 5 s). `destroy()` begins with a
`disconnect()`, and `Finish` includes the rest of it; the same action stands
for `deactivate()`. Promises are numbered like the calls that made them:
`retrieved`, `satisfied` and `broken` are the states of `std::promise` that
matter, `value` what it was set to. `onDisconnect` and `onDisconnectFailure` set
the promise there is at that moment; setting one twice throws in a Paho thread
(`terminated`). Nothing protects the promise: two threads may be in
`disconnect()` at once. `overtaken` records that `connect()` or `disconnect()`
was called while another was in progress or unanswered; the properties except
exactly those behaviours. Paho (external) accepts a disconnect of a connected
client only, answers when it likes or never, and reconnects by itself until it
is told to disconnect.

### AwsFleetProv

`worker` is the program counter of `worker()` and `makeProvisioning()`; `frame`
numbers the runs, so that a callback can be told from one of a run that is
over. A dialogue has two stages (keys, register), each with the same steps:
subscribe twice, await both, publish, await the result, await the answer. The
promises are local variables of the try block (`Trying`) that the callbacks hold
references to; using one after the run has left the block, for the catch block or
for good, is `dangling`. `onConnect` refers to a local variable of `worker()`, too:
it takes `m_workMtx`, which the worker holds except in its first wait, and one that
gets it when its run is over is `late`. `connect()` may throw, and leaves the client
and the handler it registered behind.

`Request` hands a subscription or a publish to the client and files who waits for
its result. The code does the second after the first, so a result may come in
between, find nobody and be dropped: such requests are in `missed`, and their
promise is never set. Without a connection `subscribe()` and `unsubscribe()` throw
in the caller, while `publish()` only logs the failure and its promise stays unset.

`SaveKeys` and `SaveProvision` write the official files on the client's thread, one
step per open and close: opening truncates, the content is there when the file is
closed. `Crash` may come between any two steps and leaves only the files; the next
start is `activate`. A message handler that throws, at an answer it cannot parse or
a file it cannot open, is caught by nobody on the client's thread and ends the
process: that, too, is a `Crash` at that step. The generation of keys a file holds
is the number of the dialogue that obtained it. The connection can be lost
(`ConnectionLost`) and made again; the broker may deliver an answer again
(`MaxDuplicates`).

Assumed: MqttService is reduced to client, connection, message handlers and the
requests whose results are due or were dropped, as its own modules check it; the
context that a dropped result leaves behind is followed in `MqttRequests`, not
here, nor is the limit on pending contexts or a client that buffers messages while
it has no connection. `launchProvisioning()` is not called while another run is in
progress. With `inThread=false` the code does not forbid that: the second run takes
`m_workMtx` after the first, and then behaves as one that follows it, or while the
first waits for its connection, and then ends at once in `create()`, which throws
for the client there is. `deactivate()` waits for the thread, so a run in a
caller's own thread is taken to be over by then, as the calls of a component are
when the framework deactivates it. The provisioning service answers each request
at most with one verdict. The names in the files, the payloads and `modify()` are
left out.

### WebsocketCppService

One thread runs the io_service and hence the callbacks, one at a time; `server`
is what it is doing. `stop()` is split where other threads can come in:
`m_runThd` off, `stop_listening`, the copy of the map, one `close` per
connection, the clearing of the map, the join. A message handler or open/close
handler is the place `handler`, during which it may call `sendMessage()`; so may
any other thread (`Senders`). The iteration of `sendMessage()` is `CopyEntry`
and `send` per entry, without a mutex; a change of the map during it is recorded
in `spoiled` together with who made it. The order of the iteration is left
open. For a sender on another thread a change of the map under the iterator is
undefined behaviour: the model notes it and goes on, and no property says
anything of such a broadcast.

External: websocketpp's connection states and asio's `run()`, which returns
when nothing is left to wait for and from then on at once, since nobody calls
`restart`: after `stop()` a second `start()` accepts nobody. The plain and the
TLS server differ in what makes a handshake fail (`on_fail`). Assumed: the
owner calls `start()` and `stop()`, one after the other, and no handler does.

### WebsocketCppClientService

`connect()` makes a connection under `m_connectedMux` and waits until it has
left the state connecting (`EvaluatePredicate`, `SpuriousWakeup`). websocketpp
changes that state before it invokes `on_open` or `on_fail`, which take the
mutex and notify: the predicate may become true before the notification.
`AssignHandle` is the unlocked first line of `on_open`. `close()` and
`deactivate()` use the handle of the last connection opened. `hasty` records a
`connect()` while an earlier connection is on its way out, or a `close()`
before `on_open`: the code then clears the flag of the wrong connection or
closes the wrong one. `sendMessage()` and `sendPing()` change nothing here.

## Runs

| Run | Bounds | Shows |
|---|---|---|
| `mqtt_publish` | 3 publishes, 2 tokens, 2 clients, `m_bufferSize` 0 | results and confirmations reach the right handler once; misdelivery and loss only for the named causes |
| `mqtt_subscribe` | 3 (un)subscribes, 1 filter without wildcards, 2 tokens, 2 clients, 1 message | the handler map follows the broker; a handler that was retired stays silent |
| `mqtt_connection` | 2 threads, 3 disconnects | each disconnect waits for its own answer and leaves the client down, unless calls overtake each other |
| `topic_match` | an ordinary name and one that begins with `$`; 2 levels; 2 subscriptions, 1 message | agreement with the broker's rule but for three named disagreements, one invocation per message |
| `task_queue` | 2 pushers, 3 pushes, 2 tasks, 1 stopper | FIFO without loss, no lost wakeup, progress, refinement |
| `zmq_safety` | both socket types, 2 clients, 3 messages, 3 requests, timeouts and errors | sockets used in turn; messages go out as `LossyChannel` allows; freshness of replies; deactivate() reaches the worker but in one window |
| `zmq_live` | both socket types, 1 client, 2 messages, 2 requests, no faults | open() and close() return, with the socket open or closed as they say; the newest message is kept |
| `zmq_close_hangs` | the same with timeouts | a violation: close() after a reply timeout may wait for ever |
| `mq_message` | 2 messages, 3 descriptor numbers, 1 foreign open | refinement of `LossyChannel`; no descriptor leaked or closed twice; a write to a foreign descriptor only for the named causes; messages finish and deactivate() returns |
| `aws_prov` | 2 dialogues, 1 crash, 1 loss of the connection, 1 repeated answer | who is told that provisioning was done finds consistent files; callbacks of a dialogue come too late only after an exception, and onConnect only after a wait that timed out or a lost connection; a run that ends well leaves nothing behind; worker() returns but for the named causes |
| `ws_server` | 2 connections, 2 starts | the map agrees with the connections; ends are reported; broadcasts from handlers are undisturbed; stop() returns unless a connection opened behind its copy |
| `ws_client` | 2 callers, 3 connections | isConnected() and close() agree with the connection; connect() and deactivate() return |

The bounds are small on purpose and still reach every case: three requests on
two tokens make every token be reused, both by a later request of the same
client and by one of the next client; a buffer size of 0 puts the second
publish at the limit; three pushes from two threads overlap with the worker in
each of its states; three messages allow an overwrite while one is being sent
and another is pending; two levels allow a `+` before and after a fixed level, a
`#` at depth 1 and 2, and both wildcards together; two messages let the second be sent
over a channel the first has broken, and three descriptor numbers hold both
channels and one that is reused. Two handlers are enough for
`topic_match`: one makes the broker forward, the other may match by chance.
Three disconnects let a third meet the late answers of two; two dialogues let a
callback of the first come in the second, and a crash or a repeated answer of
the first spoil what the second finds; two connections allow one to open while
`stop()` closes the other, and two starts the second to meet what the first
left; three client connections let an earlier one end while a later one is
made and a third waits.

### Where code and documentation disagree

`findings` has one entry: `zmq_close_hangs`. Other disagreements met while
modelling are in the models, so that a property excepts them by name, and
listed as hazards:

- a context is filed after the hand-over to Paho, so a quick answer finds none;
  the context filed late then stays and is taken for that of a later request,
  which `MisdeliveryCause` and `DeliveryCause` allow for exactly that cause;
- `deactivate()` of ZeroMqService sets `m_runThd` and notifies without the
  mutex: a worker between its predicate and its wait misses it, which
  `StopReaches` allows for exactly that window;
- `connect()` of MqMessageService does not test `m_connected` again under its
  mutex, and may close the channel another thread has just opened;
- some messages the broker forwards find no handler (`a/#` against `a`, and a
  filter with both `+` and `#`), and a message on a `$`-topic is given to the
  handler of `#` or `+/...` when another filter made the broker forward it;
- open() of ZeroMqService returns at once when open is required already
  (`ZeroMqService.cpp:126`), also after a reply timeout, when the worker has closed
  the socket (lines 257 to 264) and has yet to make another: `DoneOnReturn` allows
  for exactly that;
- the promises of AwsFleetProv rely on results that MqttService drops when they
  come before their context is filed (`MqttService.cpp:511`): `WorkerReturns` names
  that as a cause for a wait without an end;
- WebsocketCppService assigns the property AutoStart to the port.

### Fairness

Threads that can run do run: weak fairness on the steps of the worker, on the
notification that follows a critical section, on the join and on the clients'
waiting. Nobody is obliged to call the interface. `m_processTaskFunc` and the
callbacks return. Spurious wakeups and faults are possible and never
guaranteed, so no liveness property depends on one. In
`MqMessageService` `mq_send` is assumed to return (the remote side reads its
queue) and a cancelled thread to end; nothing has to arrive or fail.
`zmq_live` has one client
and no faults: after a reply timeout close() does not always return
(`zmq_close_hangs`), and neither need an open() that another thread's close()
overtakes, since both wait on the one flag `m_socketOpened`.

`AwsFleetProv`: the worker and the client's thread run, and the service answers
what it was asked; no connection need come up, and a message may be lost with
the connection. The waits for promises have no timeout in the code, so
`WorkerReturns` names the three situations in which it waits for ever: the
connection was lost under the dialogue; or was made a second time, and the
client's thread sits in `onConnect` behind the mutex the worker holds; or the
result waited for came before MqttService had filed its context and was dropped
(`Unheard`). Weak fairness of the client's thread covers what is due to a filed
context, never what was dropped.
`WebsocketCppService` and `WebsocketCppClientService`: the threads run, a
handler stops sending some time, and websocketpp ends opening and closing
handshakes by its timeouts; the strong fairness of `HandshakeDone` or `on_fail`
stands for the opening timeout, as the server thread is busy with other events
in between. No peer need close. `MqttConnection` claims no liveness: the timeout
ends every wait.

## Proofs

`MqttRequestsProofs` proves, for any sets of requests, tokens and topics and
any bounds, every property of `MqttRequests` that a run checks. For `NeverTwice`,
`MisdeliveryCause`, `SilentLossCause` and `DeliveryCause`, none of which is
inductive, the invariant is `CorrelationInv`, which adds:

- `AnswersInv`: only requests handed over are answered, and those answered
  before their call returned are in `early`;
- `TokensInv`: outstanding requests have different tokens;
- `ContextsInv`: a filed context stands under its own kind and token, has not
  been used, and is unanswered unless its answer came early;
- `CallsInv`: a handler runs only after its call has returned;
- `KeptInv`: a request that waits for its answer still has its context, unless
  it was over the limit or lost the entry to a request of another client or
  one answered early.

`ContextsInv` is what makes `NeverTwice` go through: a callback erases what it
invokes, and no call files its context twice. `TokensInv` and `ContextsInv`
give `MisdeliveryCause`: two requests that share a token and a client cannot
both be outstanding, so a context found under a foreign token is stale. The
same two, with `KeptInv`, give `DeliveryCause`.

For `RetiredHandlerSilent` and `ForwardedHasHandler` it is `TopicInv`, about what
the two ends know of a topic:

- `BeforeInv`: calls that had returned before another began belong to no later
  client and, while unanswered, are ahead of it at the broker;
- `HandlerInv`: no returned call of the topic began after the subscribe() whose
  handler stands in the map had returned, which gives `RetiredHandlerSilent`;
- `NoHandlerInv`: where the map has no handler, an unsubscribe() returned after
  each subscribe() of the topic;
- `ServedInv`: of the calls that had returned before a served one began none
  waits for its answer;
- `SourceInv`: the broker forwards a topic for a subscribe() that no served
  unsubscribe() of that client came after.

If a forwarded topic had no handler, the unsubscribe() of `NoHandlerInv` would
have begun after the subscribe() of `SourceInv`, as they do not overlap, belong
to the same client and have been served, which `SourceInv` excludes.

`HandledExactly` rests on what the tests compute for any filter and topic of any
length: at most one of them succeeds (`TestsExclusive`: a wildcard is no name, and
where the `+` test meets a `#` it finds no equal level), and for a filter and a topic
that are not `Unsupported` one does exactly where the broker forwards
(`TestsComplete`). The two halves
together are `ForwardedIsHandled`, from subscribe() to onMessage: a message reaches
the handler of each settled filter that makes the broker forward it, once.

`TaskQueueProofs` proves `TypeOK`, `FifoNoLoss`, `NoLostWakeup` and the refinement of
`FifoExecutor`. The invariant adds `ControlInv` (the worker has a task exactly
while it processes one) and `WakeupInv`: while the worker is outside its inner
loop, a waiting task or a stop implies the wait predicate, and a parked worker
with a true predicate has a notification coming. Without the second half a
notification could be spent on a worker that was not parked yet.

`MqttConnectionProofs` proves `AnswersOwn` and `StaysDown` for any threads and
any number of calls. The invariant has three parts. `PromiseInv` holds always:
the promise there is belongs to the last call, and a call that waits has one.
`TurnInv`, as long as nothing was overtaken: one thread disconnects at a time,
Paho has no request but that of the last call, and then its promise is not
set yet. Without this, an answer could find the promise of a later call, and that
is what happens once a call overtakes. `DownInv`: from the request on Paho does
not reconnect, so that an answer that says success leaves the link down.

`WebsocketCppServiceProofs` proves `MapAgrees`, `CloseReported` and
`HandlerBroadcast` for any connections and any number of starts. The invariant
adds `OpeningInv` (a connection is reported open once, after its handshake, and
reported closed only when it is gone), `ThreadInv` (a server thread is started
only when there is none, so the callbacks stay on one thread) and
`BroadcastInv` (a broadcast of a handler lies within that handler, and copies
only entries whose connections are not gone). `HandlerBroadcast` rests on the
last two: what removes an entry runs on the thread the handler occupies.

`WebsocketCppClientServiceProofs` proves `ConnectedAgrees` for any callers and any
number of connections. The invariant adds `NumberInv` (connections are made in
turn) and, until a call has overtaken a callback, `OneAliveInv`: one connection
is alive at a time, `on_open` finds the flag not set, and from then on flag and
handle are that connection's until it ends. The first part is what a caller
that connects over a living connection breaks.

`ZeroMqServiceProofs` proves `InTurn`, `ImplementsChannel`, `StopReaches`,
`ReplyAfterRequest`, `NewestKept` and `DoneOnReturn` for any clients, both socket
types and any numbers of messages. The invariant adds `MuxInv` (who holds `m_mux`
and which socket type reaches which place of the worker), `ReqInv` and `RepInv`
(in which states the two sockets are at the places that send or receive, and why
the inner loop was left if they are not), and `SlotInv` (the slot holds the
newest message, and all that was sent is older than a pending one). With
`SlotInv` each step maps to one of `LossyChannel` or to none;
`SentOnceInOrder`, the same in terms of the messages, is proved only. For
`StopReaches` it is `StopInv` (from deactivate() on the flag both waits look at is
clear) with `FallsAsleep` (the worker goes to sleep only through its two waits and
only while that flag is set). `NewestKept` is proved with timeouts, under the
assumption that the library reports no errors. `DoneOnReturn` is proved under the
same assumption, with timeouts and for a single client, from `ReturnInv`, which
relates the flag that the client waits on, and `resetSocket`, to the socket.

`MqMessageServiceProofs` proves `ImplementsChannel`, `HandlesOwned` and
`CrossedCause` for any descriptors and any number of messages. The invariant
adds `PlaceInv` (the worker has a message exactly while it is in `sendTo()`, and
`m_connectMtx` is held exactly in the middle of `connect()`), `OrderInv` (messages
wait in their order, behind the one in work, and what is written is older, from
which both `WrittenInOrder` and the refinement of `LossyChannel` follow),
`OwnInv` (between closing and opening the remote handle all that is open
belongs to the local queue, so the next descriptor is not a second one) and
`CrossedInv`: the worker reads the handle without the mutex, which is no harm as
long as the listen thread is not in `sendTo()`.

`AwsFleetProvProofs` proves `ProvisionedInv`, `FramesAlive` and `CleanEnd` for
any numbers of dialogues, crashes, lost connections and repeated answers. The
invariant is a conjunction of seven parts:

- `PlaceInv`: where the worker and the client's thread can be together, and that
  a message handler stays registered while it writes files;
- `HandlerInv`: message handlers belong to the last dialogue, which either goes
  on or has left the client behind, so that `create()` lets no other begin in
  the same process;
- `PendingInv`: unless an exception ended a run, every request whose result is due
  or was dropped has its promise unset, and the run that made it is at the step
  before the wait or in the wait for it;
- `ConnectInv`: as long as no run gave up its connection and none was lost, a
  connection is made once, and its run waits until `onConnect` has told it;
- `KeysInv`: once the second stage can be reached the certificate files are
  there and complete, up to those that a repeated answer is writing again;
- `ProvisionInv`: the provision file is written over complete certificates of
  its own registered generation and is empty only while it is being written;
- `RenewInv`: what a finished run was told of stays true until a later dialogue
  has new keys, which is what `overwritten` records.

### What a wait still has coming

That a wait ends needs fairness and stays with TLC. What it rests on in every
state is an invariant: whoever waits, waits for something that is still on its
way. These halves are stated and proved in the modules of the proofs, for all
constants:

| Liveness (TLC) | What is proved | Along |
|---|---|---|
| `PushedIsProcessed`, `DestructorReturns` (TaskQueue) | `NoLostWakeup` | `WakeupInv` |
| `OpenReturns`, `CloseReturns` (ZeroMqService) | `CallsHeard`: no call is lost on a worker that sleeps or is about to. `CallsServed`, for one client and no faults: a client sleeps only while its predicate is false, and the worker is awake on its way to change that | `MuxInv`, as calls take the mutex the worker keeps from predicate to sleep; `ServedInv`, which says where the worker is when the flag and what is required differ |
| `PushedIsFinished` (MqMessageService) | `NoneForgotten`: a message is finished, in work or waiting, in the place of its number | by itself |
| `DeactivateReturns` (MqMessageService) | `DeactivateEnds`: nobody holds `m_connectMtx` who does not go on, and nobody is left behind | `PlaceInv`, and that nothing restarts a thread that has ended or a stopped queue |
| `WorkerReturns` (AwsFleetProv) | `AwaitedIsDue`: without a loss, a result waited for is due or was dropped before its context was filed, and an answer is on its way to the handler | `AskedInv` (a run asks for a thing once, and what is due or was dropped of earlier runs is not its own) and `DueInv` (what was asked for is due or dropped until its promise is set; a confirmed subscription is served) |
| `StopReturns` (WebsocketCppService) | `StopEnds`: when stop() waits nobody is accepted, and only connections opened behind its copy are left | `RestInv` (a thread ends only without connections) and `CopyInv` (what is not copied opened later) |
| `ConnectReturns` (WebsocketCppClientService) | `WaiterHeard`: a sleeping connect() has its connection in the making or its notification due | `NumberInv` and `ConInv` |
| `DeactivateReturns` (WebsocketCppClientService) | `DeactivateEnds`: no connection is left that would keep run() busy, unless calls overtook callbacks | `OneAliveInv` |

`CallsServed` does not hold with timeouts or errors, where `zmq_close_hangs` shows
the wait that does not end.

Only model-checked: liveness itself, as the step from "is on its way" to "comes"
is the fairness of the threads.

Assumptions of the proofs are the `ASSUME`s of the modules: bounds are natural
numbers, `None` and `NoTask` differ from the values they stand beside, the
sets of threads do not overlap.

## Not modelled

Parsing of properties, logging, payloads, TLS options and code under `#if 0` are
left out of every module. These components have no module:

- CommandService and CommandLineService: a table that is filled before the one
  thread that reads it starts, and a loop over lines of the terminal;
- TaskQueue2: used only by code under `#if 0`;
- CppRestService and CurlRestApiService: one library call per request and no
  state between requests;
- SyslogLogger, the launcher, the interfaces and JSON macros: no state machine;
- the examples: they show how the interfaces are called. What they register as
  handlers is taken to return and not to call back into the service that
  invokes it: MqttService, ZeroMqService and WebsocketCppClientService invoke
  handlers with a mutex held, and a call back would lock it again.

## What is left

- Liveness as such is checked by TLC on the instances above, not proved.
- `CallsServed` is for one client. Two clients share the one flag
  `m_socketOpened` and may undo each other's request, and then neither call
  need return.
- Three hazards of `PROJECT.json` have no property, for the reasons they note:
  handlers that call back into the service that holds its mutex, subscriptions
  the broker forgets on a clean reconnect, and an `mq_send` that blocks because
  the remote side does not read.
- The next result worth proving is a `CallsServed` for several clients and with
  faults that names, for each wait without an end, the timeout, error or call
  that caused it.
