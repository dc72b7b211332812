# Specifications of lotta

lotta is a C++17 network library in the reactor style: one `EventLoop` per
thread, non-blocking sockets served by callbacks, and functions handed from
thread to thread through the loop's queue. On it stand a TCP server and client and a small
HTTP server. These modules model all of them. TLC checks them on small
instances, and TLAPS proves for instances of any size all the safety properties
of those runs except the HTTP server's.

- Model-check: `tlc -config X.cfg M` for each pair in the table of runs.
- Prove: `tlapm M.tla` for `EventLoopProofs`, `EventLoopThreadProofs`,
  `TimerQueueProofs`, `ChannelDispatchProofs`, `BufferProofs`,
  `TcpConnectionProofs`, `TcpServerProofs` and `TcpClientProofs`.

Assertions are part of the program: the build has no build type, so `NDEBUG` is
not defined, and an assertion that fails aborts. The models say so explicitly
(`aborted`) where a handler may reach one.

## The system

| Component | State | Operations | Talks to |
|---|---|---|---|
| `EventLoop` | `quit_`, `looping_`, `doingFuncQueue_`, `funcQueue_` (mutex), wakeup eventfd, active channels | `loop`, `quit`, `exec`, `pushQueue`, `doFuncQueue`, `runAfter`, `runEvery`, `cancel` | everything; other threads enter only here |
| `EventLoopThread` | thread, `loop_` (mutex, condition) | constructor, `start`, `threadTask`, destructor | its `EventLoop` |
| `EventLoopPool` | loops, `idx_` | `start`, `getLoop` (round robin) | `TcpServer` |
| `PollPoller`, `Channel` | `pollFds_`, `channels_`; `events_`, `idxPoll_` | `poll`, `updateChannel`, `removeChannel`; `enable*`, `disable*`, `remove`, `handleEvent` | the kernel; owners' callbacks |
| `TimerQueue`, `Timer` | `timers_` by deadline, `cancelledTimers_`, a timerfd | `addTimer`, `cancel`, `handleTimer` | `EventLoop::exec`, a `Channel` |
| `Buffer` | vector, read index | `append`, `readFrom`, `retrieve*`, `discard`, `revoke` | `TcpConnection`, HTTP parser |
| `TcpConnection` | `state_`, channel, socket, `inBuf`, `outBuf_` | `send`, `shutdown`, `close`, `connEstablished`, `handleRead/Write/Close` | its loop, its owner through `rmConnCallback_` |
| `Acceptor`, `TcpServer` | listening channel, spare descriptor; `connections_` | `listen`, `handleAccept`; `start`, `newConnection`, `removeConn`, destructor | base loop accepts, pool loops serve |
| `Connector`, `TcpClient` | `state_`, channel, retry delay; `connection_` (mutex) | `start`, `retry`, `handleWrite/Error`; `connect`, `newConnection`, `removeConn` | loop, timers |
| HTTP | request, response, routes | `readBuffer`, `toString`, `route`, `msgCallback` | `TcpServer`, `Buffer` |

What is hard in it: a wakeup protocol with no lock around the decision to wake;
tasks that run later than the state they were based on was read; a poller whose
three structures index each other while channels come and go; timers cancelled
by the callbacks that run; partial writes against shutdown and close from other
threads; a map of connections that one thread keeps and others empty, and its
destruction while they do; an attempt to connect whose channel must not be
destroyed while it is served. `PROJECT.json` lists each of these hazards at its line, with the
properties that cover it.

What makes each component correct:

- *EventLoop*: what is submitted runs once, in order, and promptly; `quit` stops the loop.
- *EventLoopThread*: `start` hands out a live loop; the destructor returns.
- *PollPoller*: index, entry and map of a channel agree; no assertion fails; `poll` returns exactly the interested channels.
- *Channel*: its callbacks come in an order that the owners rely on; none runs on a destroyed channel, or on a descriptor that is another's by now.
- *TimerQueue*: a cancelled timer stays cancelled; the descriptor is armed for the earliest deadline; no timer is left behind.
- *Buffer*: first in, first out; memory bounded by what is unread.
- *TcpConnection*: the stream is the messages one after the other; buffered bytes are polled for; FIN last; no assertion fails.
- *TcpServer*: a connection is entered, established, closed and removed once each, in that order, whichever threads do it; no client waits for ever; the destructor closes what is left.
- *TcpClient, Connector*: until connected, exactly one thing keeps the attempts going; every descriptor opened is closed or passed on; the client keeps its connection until that is disconnected.
- *HTTP*: a whole request is understood; responses can be told apart; the connection is shut down when the request asks for it.

## The modules

Actions are named after the functions they model. Where a function is one
action, it is because everything it does happens on the loop's thread, with no
other thread touching what it reads; where another thread can see a step, the
function is several actions.

**`FunctionQueue`** — what `exec` and `pushQueue` promise: a FIFO of functions
each of which waits and then runs once, or runs at once (`RunInline`).

**`EventLoop`** — the code of `loop()` with one action per step visible from
outside: `TestQuit`, the returns of `poll` (`PollWakeup`, `PollIO`,
`PollTimeout`), `HandleWakeup`, `BeginCallback`/`ReturnCallback`,
`BeginDoFuncQueue` (sets `doingFuncQueue_`), `SwapFuncQueue` (under the mutex),
`RunFunction`/`ReturnFunction`, `EndDoFuncQueue`. `pc` is the place in `loop()`.
A call of `pushQueue` or `quit` is two actions: `Push` or `Quit`, then `Wakeup`,
which evaluates the test of `event_loop.cc:102` and writes the eventfd;
`pending` is the call of each thread in between. User code calls from worker
threads, channel callbacks and queued functions, which submit further functions
and quit. The owner may call `loop()` again after it stopped. `Queue` maps it to
`FunctionQueue`: what waits is the rest of the batch followed by `funcQueue_`.

**`EventLoopThread`** — extends `EventLoop` with the owner's thread (`start`,
uses, destructor), which is one of its `Workers`, and the body of `threadTask`, with
the mutex and the condition variable: `CheckStarted` is the predicate evaluated under
the mutex, with spurious wakeups. From when `start()` has returned (`Returned`) the
other workers call the loop as well (`WorkerCalls`), and the descriptors of
`Channels`, the timer's among them, may be ready. In `Looping` callbacks and functions
push, run functions at once and quit, as in `EventLoop`. A worker begins a call only
on a loop that lives; the rest of the call, `WorkerWakeup`, may come too late. The
destructor's unlocked read of `loop_` is a step of its own (`DtorReadsLoop`, then
`DtorQuits`).

**`TimerQueue`** (with `MCTimerQueue`) — deadlines in discrete time; `Tick`
advances the clock and expires the timerfd. `ResetTimerFd` models what
`timerfd_settime` does with a duration that is not positive: nothing.
`BeginHandleTimer`, `RunTimer` per callback and `EndHandleTimer` are
`handleTimer` with its callbacks in between, which add and cancel. Other
threads' calls go through `tasks`. `CancelGone` is a `cancel()` whose timer no longer
exists, the assertion of `timer_queue.cc:79`, which ends the program (`aborted`).
`cancelled` and `late` are history.

**`PollPoller`** — `pollFds_`, `channels_` and each
channel's `idxPoll_`, with descriptors reused as soon as they are free.
Channels follow the library's usage: enabled, partly disabled, and retired by
`disableEvents()` and `remove()`. Every assertion of `poll_poller.cc` is
evaluated; a failure sets `aborted`.

**`ChannelDispatch`** (with `MCChannelDispatch`) — extends `PollPoller` with the
turns of `loop()`: `PollEvents` fills `walk`, the active channels in the order of
their entries, and `revents`; `BeginEvent` and `EndEvent` bracket a channel's
`handleEvent`, whose callbacks come in the order of `Callback`; then the queued
functions run. Callbacks (`HandleRead`, `HandleWrite`, `HandleError` of
connections, `AttemptFails` and `AttemptWrites` of a `Connector`) and functions
leave a list of calls on channels in `todo`, which `RunCall` makes one at a time,
each an action of `PollPoller`. `owner` says who uses each descriptor, `gone`
which channels are destroyed: a connection's by whoever drops the last `ConnPtr`
(`Release`), an attempt's by the function that `removeChannel` queues
(`ResetChannel`). `Release` may come at any time after the close, in the connection's
own `handleEvent` as well: that is where `removeConn` drops the pointer of a client's
connection, or of a server's on its base loop. New connections and attempts
(`Accept`, `Connect`) come from functions and from the callbacks of the listening
channel and of the timer's, hence in the middle of the walk too. A constant says what
user code does: `ClosesOthers`, whether a callback closes a connection other than its
own.

**`Buffer`** — bytes are their positions in the stream of everything appended,
so that repeated or reordered bytes show. Capacity follows libstdc++'s growth.

**`TcpConnection`** — the loop's thread, `Workers` and the peer. A worker's
`send`, `shutdown` and `close` are a look at `state_`, a write of `state_` and a
push of the task, as separate steps; the tasks run in FIFO order, which is what
`EventLoop` is shown to provide. The socket has a send buffer of `Room` bytes;
`SendTask` and `HandleWrite` write as much as fits. `SendTask` keeps the code's
treatment of a failed write (see `NothingDropped`). `overtaken` records that a
task came after `handleClose`, or a `sendTask` after the FIN; `stray` that one
used the descriptor after `close()` had closed it.

**`ConnectionRegistry`** — what an owner promises about its connections: each is
accepted, opened, closed and forgotten, once and in that order, until the owner
leaves, when it may abandon them. Three modules implement it, each under a mapping
of its own (`Registry`): `TcpServer` for all of its connections; `TcpClient` for its
one, with the `close()` of other threads; `TcpConnection` for itself, with all their
calls. The phase is read from `state_` in `TcpServer`, and from the channel's
registration in the other two, where `close()` on another thread may take `state_`
back from *disconnected* to *disconnecting*.

**`TcpServer`** — the base loop (loop 0) with the `Acceptor` and
`connections_`, the loops of the pool, and the clients. Each loop has a queue of
functions, `tasks`; `exec` on the loop's own thread is part of the action that
calls it. `HandleAccept` takes a client from the backlog into `NewConnection`
(with `getLoop`'s round robin), or, out of descriptors, into `Refuse`.
`HandleClose` and `RunIoTask` run on the connection's loop and queue the removal
for the base loop, which `RunBaseTask` runs. The destructor is a step per
connection (`DtorClose`), then `DtorMembers`, then one `DtorJoin` per thread, and
the loops of the pool go on in between. A connection is owned by the map and by
the functions bound to it; it holds a descriptor as long as it is owned.
`failure` names the assertion, or the use of what is destroyed, that ended the
program.

**`TcpClient`** — `Connector` and `TcpClient` on one loop, which takes turns:
callbacks, then queued functions. `StartTask` has the outcomes of `connect(2)`;
`HandleError` and `HandleWrite` are the channel's callbacks, whose
`RemoveChannel` queues the channel's destruction; `Retry` closes the descriptor,
adds a timer with the present delay and doubles it. `fds` counts the descriptors
that are open. `Users` are threads that get the connection with
`conn()`, close it and drop it; the last owner destroys it (`Release`). `Close` tests
nothing, as `close()` does not: it may come twice, or after the peer's close, and then
takes the connection's `state_` back, and `HandleClose` fails its assertion.

**`HttpServer`** (with `MCHttpServer`) — text is a sequence of words, of which
separators are words of their own. `ReadBuffer`, `ReadHeaders` and
`RetrieveUntil` are the parser over them, exceptions included; `Set`, `SetBody`
and `Text` are the response, `MsgCallback` the server. A client sends messages,
which arrive in segments cut anywhere between words. A version line of fewer than
five `Characters` makes `slice.n - 5` wrap around (`request.cc:51`), and the warning
that follows reads past the buffer: the process dies of it (`crashed`) or answers 400.

## The runs

| Run | Instance | Shows |
|---|---|---|
| `event_loop` | 2 workers, 3 functions, 1 channel besides the wakeup | `NoLostWakeup`, `NoLostQuit` (the loop never sleeps on work it was told of), `QueueSpec` (implements `FunctionQueue`), `FunctionsRun`, `QuitStops` |
| `event_loop_thread` | owner and another thread, 2 functions, 1 channel besides the wakeup | `StartedLoopLives`, `StartReturns`, `ExecRuns`, `DtorReturnsIfLooping` |
| `event_loop_thread_quit` | the same | `DtorReturns` **violated** |
| `timer_queue` | a one-shot and a repeating timer (period 2), delays 0 and 2, 5 readings of the clock | `CancelIsFinal`, `ArmedForFirst`, `FiresUnlessLate` |
| `timer_queue_late` | the repeating timer alone | `RunsAgain` **violated** |
| `poll_poller` | an attempt, the connection it becomes, 2 accepted connections; 3 descriptors | `NoAssertFails`, `IndexConsistent`, `NoDanglingEvent`, `PollReturnsInterested`, `OwnDescriptorOnly`, `RefusedNotConnected` |
| `buffer` | capacity 3, chunks of at most 4, 9 bytes in all | `AppendIsFifo`, `GrowsOnlyIfNeeded` |
| `tcp_connection` | 1 worker, 3 messages of 2 bytes, a socket buffer of 3 | `PendingIsPolled`, `StreamIntact`, `FinLast`, `AssertsHold`, `WritesOwnSocket`, `RegistrySpec` (implements `ConnectionRegistry`), `ShutdownSendsFin` |
| `tcp_connection_drop` | the same | `NothingDropped` **violated** |
| `tcp_server` | 4 clients, 2 loops in the pool, 3 descriptors in the system (the process could have 4) | `AssertsHold`, `DtorClosesAll`, `RegistrySpec` (implements `ConnectionRegistry`), `ClientsServed`, `ConnectionsProgress` |
| `tcp_client` | 2 users, `connect()` called once, `close()` at most twice | `DescriptorsOwned`, `AssertsHold`, `Driven`, `RegistrySpec` (implements `ConnectionRegistry`), `Connects` |
| `http_server` | 4 requests and 3 malformed texts, one with a version line too short, 2 of them sent, 3 reads | `WholeRequestsUnderstood`, `ResponsesSeparable`, `ClosedAsAsked` |

Each passing run but `http_server`, whose state is text, also checks the module's
type invariant, by itself or as a conjunct of another property. The runs that end in a
violation state what a comment, a test or an assertion says of the code; the
findings in `PROJECT.json` quote the line and explain the counterexample.

Some properties are stated without an exception that the code needs. No run
checks them; these are the counterexamples that TLC finds:

| Property | Configuration | What the code does |
|---|---|---|
| `EventLoop!NoLostWakeup` | `OwnerPushesEarly = TRUE` | a function pushed by the loop's own thread before `loop()` writes no wakeup, and waits for the poll's timeout (`event_loop.cc:102`) |
| `EventLoopThread!DtorUsesLiveLoop` | `EventLoopThread.cfg` | a loop may end, of its own or by the destructor's `quit_ = true`, before the destructor's `quit()` has written its wakeup to it (`event_loop.cc:72-74`) |
| `PollPoller!NoAssertFails` | `PollPoller!Spec`, `RetireUnused = TRUE` | a channel that was never enabled cannot be removed, so an `Acceptor` that never listened aborts (`poll_poller.cc:73`) |
| `ChannelDispatch!OwnDescriptorOnly`, `NoAssertFails` | `ClosesOthers = TRUE` | a callback that closes another active connection leaves that one's turn to come, on a closed descriptor, or on one that was opened anew (`event_loop.cc:63-65`) |
| `ChannelDispatch!NotDestroyedInHandler` | `ChannelDispatch.cfg` | a connection closed by its peer may be destroyed by `removeConn`, in its own `handleEvent`, with the channel whose callbacks go on (`channel.cc:54-59`, `tcp_server.cc:105-112`, `tcp_client.cc:77-86`) |
| `Buffer!AppendIsAlwaysFifo` | `Buffer.cfg` | appending to a buffer that was drained while full returns what was read before (`buffer.h:190`) |
| `TcpServer!DestroyedDisconnected` | `TcpServer.cfg` | a loop of the pool may quit before it runs the destructor's closes, and the connections' destructors abort (`tcp_server.cc:53-56`) |
| `TcpClient!DestroyedDisconnected` | `TcpClient.cfg` | `~TcpClient` does not close its connection, whose destructor aborts (`tcp_client.cc:43-45`) |
| `TcpClient!AssertsHold` | `MaxCalls = 2` | a second `connect()` fails an assertion, at once or when the first one's retry is due, unless the first gave up (`connector.cc:50`) |

Why the bounds are enough. Two workers make every pairwise race between
submitters, and with it each submitter against the loop; three functions
allow one in the running batch, one queued behind it and one about to be pushed.
Three descriptors and four channels make the last entry of the vector the
removed one, its neighbour or neither, and make a descriptor be reused, within a
turn and across turns; an attempt and two connections make each of them the one
whose callback closes, the one before it and the one after it in the walk. Two
timers make batches of none, one and two, with the other cancelled, restarted or
later; with five readings the repeating timer is due twice. A vector of three
bytes is compacted, filled and regrown in nine bytes. Two-byte messages and a
room of three make each write whole, partial and refused. Four clients fill the three
descriptors and leave one to refuse; two loops make the round robin wrap around and
the pool's threads join one after the other while the other still runs. With fewer
descriptors in the system than in the process only ENFILE occurs, where the code
refuses a client; with EMFILE it does nothing, and `ClientsServed` would promise
nothing either. An owner and another thread of an `EventLoopThread` call its loop
against each other, its callbacks and its functions. Two
users of a client's connection make each the last to drop it, or not, and two calls
of `close()` come before, after or on both sides of the peer's. Two
messages and three reads make a request read whole, in pieces and together with
the next one. `Symmetry` is used only in
`MCChannelDispatch`, whose properties are safety properties that treat accepted
connections, and descriptors, alike.

Deadlock is checked everywhere. `TimerQueue`, `TcpConnection`, `TcpServer`,
`TcpClient` and `HttpServer` stutter explicitly where the model, or the program,
ends (`Horizon`, `Over`, `Done`).

### Fairness

- *EventLoop*: the loop's own steps are weakly fair (its thread is scheduled);
  a pending wakeup is written (the caller's thread is scheduled); user code
  returns (strongly fair: a callback that submits functions for ever would
  postpone the return, but functions are finitely many). `PollIO` and
  `PollTimeout` have no fairness: liveness holds without I/O and without the
  poll timeout of 5 seconds, which would otherwise hide every lost wakeup.
- *EventLoopThread*: the same for the loop's thread, the owner and the others;
  nothing makes anybody call the loop, or the owner the destructor.
- *TimerQueue*: time passes, the loop serves the descriptor and its queue.
- *TcpConnection*: the loop serves its queue and writable sockets, a call once
  begun goes on, the peer reads. Nobody has to call, and the peer need not close.
- *TcpServer*: each loop serves its queue, and the base loop the listening
  descriptor, which stays readable while a client waits. Which client it takes is
  the kernel's choice. Clients need not close, and nobody destroys the server.
- *TcpClient*: the loop takes its turns. A timer that stays due, and a descriptor
  that is reported, are served in the callbacks of some turn; those actions are
  enabled in every turn but not throughout it, hence strong fairness.
- *ChannelDispatch*, *Buffer*, *HttpServer*: safety only, no fairness.

## The proofs

`EventLoopProofs` proves, for any sets of workers, functions and channels:

- `TypeCorrect`: `Spec => []TypeOK`. Besides types, `TypeOK` says where in
  `loop()` the batch, the active channels and `doingFuncQueue_` are in use; it is
  inductive as it stands.
- `WakeupCorrect`: `~OwnerPushesEarly` implies `Spec => []NoLostWakeup`.
  `NoLostWakeup` is not inductive: it speaks of `poll` only, and a step to `poll`
  from `test` needs to know more. `WakeupInv` adds that (1) the loop's own thread
  is half-way through a push only in user code, (2) a queued function always has
  the eventfd readable, or a thread about to write it, or the loop bound to swap
  the queue before it next polls (`dispatch`, `callback`, `swap`). The second part is why
  `pushQueue` may skip the wakeup in a channel's callback, and why it must not in
  a queued function. A thread about to write keeps that intention
  (`WillWake`): `doingFuncQueue_` cannot change while the loop's own thread is
  inside `pushQueue`, and other threads always write.
- `QuitCorrect`: `Spec => []NoLostQuit`, by the same argument; any thread's
  `quit()` writes the eventfd, and the loop's own is made before `TestQuit`.
  (`NoLostQuit` has `TypeOK` as its first conjunct.)
- `ImplementsFunctionQueue`: `Spec => QueueSpec`. Initial states agree; `Push`
  is `Submit`, `ExecInline` is `RunInline`, `RunFunction` is `RunNext` (`HeadOfConcat`
  is the lemma about the head of the concatenation); the swap moves
  the whole queue into an empty batch and is a stuttering step, as is the rest.

`TcpServerProofs` proves, for any clients, any number of loops and any limits:

- `TypeCorrect`: `Spec => []TypeOK`, which is inductive as it stands. The round
  robin needs `TurnInPool` (the index stays below the number of loops, and is not
  used if there are none), the queues `QueuePreserved`.
- `AssertsCorrect`: `Spec => []AssertsHold`. It is not inductive: that no
  assertion fails now says nothing of what is queued. `HandoverInv` adds that,
  while the server lives, each queued function is in its queue once, is on the loop that
  has to run it, and finds its connection as it was when it was queued: in state
  *connecting* for a `connEstablished`, *disconnected* and in the map for a removal;
  and that connections not yet closed are in the map. It is inductive because a
  connection has at most one function queued, and only that function takes it
  further: `HandleClose` needs *connected*, which no queued function does.
  `QueueAppended` and `QueueShortened` say what a push and a pop keep of this.
- `ImplementsRegistry`: `Spec => RegistrySpec`, under the mapping `PhaseOf` and
  `connections`. `NewConnection` is `Accept`; a `connEstablished` in `RunIoTask`
  is `Open`; `HandleClose`, and a close queued by the destructor, is `Close`;
  `RunBaseTask` is `Forget`; `BeginDtor` is `Leave` and `DtorMembers`
  `Abandon`; all else stutters. `HandoverInv` is needed for `Forget`, whose
  connection must have closed.

- `DtorCorrect`: `Spec => []DtorClosesAll`. From `HandoverInv`: a connection that
  is not closed is in the map when the destructor begins, hence among those it
  still has to visit; a visit closes it or queues the close behind the
  `connEstablished` it may still wait for, and a queue loses only its head.

`EventLoopThreadProofs` extends `EventLoopProofs`: what owner and thread do to the
loop is what `EventLoop` lets threads do (`LoopStepsAreNext`), except for a wakeup
written to a loop that has died (`DeadWakeup`). It proves, for any threads, channels
and functions, with pushes and quits by all of them:

- `StartCorrect`: `ThreadSpec => []StartedLoopLives`. That nobody makes the loop quit
  before `start()` returns depends on what the loop may be running then.
  `StartInv` adds that until then it is `Unused`: nothing is queued, no callback or
  function runs and no call is under way (`LoopingUnused` shows that it can do
  nothing but poll); that there is a thread once `start()` has begun, and its loop is
  published once `start()` has returned; and that the thread leaves `loop()` only
  after a `quit()` that no later `loop()` has cleared.
  `ThreadTypeCorrect` is its first conjunct. That `start` does return
  (`StartReturns`) is liveness, and model-checked.
- `ThreadImplementsFunctionQueue`: `ThreadSpec => QueueSpec`, from the same lemma
  about steps (`NextQueueStep`) as `ImplementsFunctionQueue`; a wakeup of a dead loop
  changes nothing in the queue.
- `ThreadWakeupCorrect`, `ThreadQuitCorrect`: `NoLostWakeup` and `NoLostQuit` for
  `ThreadSpec`. `WakeupInv` is no invariant here: a wakeup written to a dead loop
  is lost, with its function. It holds until `loop()` returns (`ThreadWakeupInv`),
  as the loop is entered once, and nobody calls it before it exists.

`TimerQueueProofs` proves, for any timers, intervals, delays and readings of the
clock:

- `CancelledStaysOut`: `Spec => []CancelIsFinal`. That a cancelled timer is not in
  `timers_` is not inductive, as it may come back from two places. `TimerInv` says
  of the batch of `handleTimer` that those of its timers that are cancelled are in
  `cancelledTimers_` (`CancelledOK`), and of the queue of the loop that an
  `addTask` in it is the only one for its timer, which is in no other place and not
  cancelled (`AddsOK`): its `cancelTask` can only be behind it.
- `ArmedInTime`: `Spec => []ArmedForFirst`, inductive with the types, but for a
  case distinction on what `timerfd_settime` ignores (`AddTaskKeeps`,
  `EndHandleTimerKeeps`).

`ChannelDispatchProofs` proves, for any channels and descriptors, if no channel is
retired unused (`~RetireUnused`), first of `PollPoller` by itself:

- `IndexCorrect`, `NoPollerAssertFails`, `PollCorrect`: `IndexConsistent`,
  `NoAssertFails` and `PollReturnsInterested` for `Spec`. `PollInv` adds to the
  first two that a living channel has a descriptor that no other living one has,
  that only the channel being retired is registered and waits for nothing
  (`LivesOK`), and that the map leads to registered channels only (`MapOK`). So
  `idxPoll_` is a bijection between the registered channels and the entries
  (`EntriesDiffer`), which is what the swap with the last entry in
  `removeChannel` needs.

Then of the turns of the loop, if besides no callback closes a connection other
than its own (`~ClosesOthers`):

- `DispatchUsesPoller`: `DispatchSpec => Spec`, the callers' side of the poller's
  contract: everything that callbacks and queued functions do to channels is
  something `PollPoller` allows. `IndexCorrectInLoop`, `NoAssertFailsInLoop` and
  `PollCorrectInLoop` follow.
- `OwnDescriptorCorrect`, `RefusedCorrect`: `OwnDescriptorOnly` and
  `RefusedNotConnected` for `DispatchSpec`.
- `NoDanglingCorrect`: `NoDanglingEvent`, whenever connections are released, within
  their own `handleEvent` as well. `WalkOK` says why: the loop has still to call only
  channels that live, as what is closed in a turn is the channel being called.

The invariant is `AllInv`: `PollInv` with `DispatchInv`. The latter lists what the
running callback may have yet to call (`TodoOK`: the rest of one of six lists),
and says that events are pending only for channels that the loop has still to
call, and the important one (`Trusted`: input for a connection, an error
for an attempt) only for channels that live (`ReventsOK`). This is why a turn is
safe although callbacks close channels: the closing callback is the channel's
own, and what it leaves pending for itself finds the channel disabled.
`ReportedOK` says the same of an attempt: reported as failed, it is closed
before anything else happens to it.

`BufferProofs` proves, for any first capacity and any chunks:

- `TypeCorrect`: the index stays within the bytes, so `readable()` and
  `writable()` do not wrap around.
- `AppendCorrect`: `Spec => AppendIsFifo`, with the exception it states
  (`DrainedAndFull`), from lemmas on `SubSeq` of a concatenation.
- `GrowthBounded`: `Spec => GrowsOnlyIfNeeded`.

`TcpConnectionProofs` proves, for any workers, messages and socket buffer:

- `BufferedIsPolled`, `FinComesLast`, `OwnSocketOnly`, `NoAssertionFails`:
  `PendingIsPolled`, `FinLast`, `WritesOwnSocket` and `AssertsHold`. They are
  conjuncts, or consequences, of `ConnInv`. It adds that a registered channel waits for
  output exactly while bytes are buffered (`PolledOK`); that whoever is going to
  shut down, in a call or in the queue, has given up *connected* (`FinOK`), so that no
  `send` follows; that what is registered has its socket and its server
  (`LifeOK`); and that, unless a task was overtaken, whatever was established and is
  no longer registered is *disconnected* (`ClosedOK`).
- `StreamStaysIntact`: `StreamIntact` is an invariant of its own, which needs
  `ConnInv` for the types only. `CutProperties` says what a partial write does to the
  buffer; the position of a byte in the stream gives its message, so the proof
  needs no induction.
- `ImplementsRegistry`: `Spec => RegistrySpec`. `ConnEstablished` is `Accept`, straight
  to *open*; a `handleClose` of a registered channel, in `HandleRead`, `LoopCloses` or
  a task, is `Close`; the server's `Release` is `Forget`. A `handleClose` that finds
  the channel removed only fails its assertion, so nothing need be excepted as
  overtaken.

`TcpClientProofs` proves, for any users, if `connect()` is called at most once
(`MaxCalls <= 1`):

- `AssertsCorrect`, `DescriptorsCorrect`, `DrivenCorrect`: `AssertsHold`,
  `DescriptorsOwned` and `Driven`. `ClientInv` is a disjunction of the stages that a
  `connect()` goes through: `Fresh`, `Starting`, `Waiting` (for a retry, with the
  channel's destruction before it), `Trying`, `Made`, `Stuck`. Each says what is
  in the batch, the queue and the timers; the proof shows where each action leads.
  In `Made` any number of `close()` calls may be queued. `KeepsOK` says that the client
  keeps its connection while that is registered, and that one that is *disconnecting*,
  for the first time or again, is held by the function that will close it.
- `ImplementsRegistry`: `Spec => RegistrySpec`. `HandleWrite` is `Accept`, for which
  the stage `Trying` says that there is no connection yet; `PeerCloses` or the queued
  close of a user, whichever is first, is `Close`, and a later `handleClose` fails its
  assertion without another one (`HandleCloseIsClose`); the loop's end is `Leave`, and
  `Dtor` is `Abandon`.

The assumptions are those the modules name (the loop's thread is not a worker, the
owner of an `EventLoopThread` is one, the wakeup channel is not one of the others,
bounds are natural numbers, a socket's buffer and a vector are not empty; and, of
`EventLoopThread`, `~OwnerPushesEarly`, since `threadTask` submits nothing before
`loop()`), and `~OwnerPushesEarly` for `EventLoop`, `~RetireUnused`, `~ClosesOthers`
and `MaxCalls <= 1` where a theorem says so. Those four are conditions on the user's
code, and the instances of the runs meet them; the table of counterexamples above
shows what the program does without each.

Only model-checked are:

- the liveness properties, which rest on fairness and `ENABLED`, beyond the proof
  system: `FunctionsRun`, `QuitStops`, `StartReturns`, `ExecRuns`,
  `DtorReturnsIfLooping`, `FiresUnlessLate`, `ShutdownSendsFin`, `ClientsServed`,
  `ConnectionsProgress`, `Connects`;
- `HttpServer`: its parser and its text are recursive operators over data, of
  which the proof system can neither reason nor make an induction.

## Not modelled

- The value of the eventfd counter, errors of `read` and `write` on it, and
  `looping_`'s visibility to other threads.
- A channel's hang-up callback (`channel.cc:47-50`), which needs `POLLHUP`
  without `POLLIN`: sockets that wait for input report both.
- What a `read` or `write` on a descriptor that is another's by now does to that
  one: `OwnDescriptorOnly` and `WritesOwnSocket` stop at saying when it happens.
- Re-enabling a channel after `disableEvents()`: the library never does it, and
  the code would not poll for it again (`poll_poller.cc:58-60`).
- Deadlines equal to a reading of the clock, to the nanosecond.
- Executions after a call on freed memory: undefined, so the program counts as
  aborted from there. Two exceptions take the harmless outcome, so that the properties
  say what holds at best: a call on the loop of an `EventLoopThread` that has died has
  no effect, and a `handleEvent` whose connection was destroyed in it goes on with what
  the channel held.
- `send()` and `shutdown()` on a client's connection, which are those of
  `TcpConnection`.
- Socket options, address conversion, logging, formatting.
- `close()` called on a server's connection by a thread that keeps it: its races
  are those of `TcpConnection`, and the properties of `TcpServer` do not cover them.
- Other processes that take the spare descriptor while a client is refused
  (`acceptor.cc:57-59`).
- `Connector::toQuit_`, which nothing sets, and callbacks that replace the
  client's own, whose setters are private.
- The spelling of methods, versions and status lines.

## Plan

In order of importance; all are done.

1. `FunctionQueue`, `EventLoop`, `EventLoopProofs`: the core everything relies on.
2. `EventLoopThread`, composed with `EventLoop`.
3. `PollPoller`, `TimerQueue`: the loop's two data structures.
4. `Buffer`.
5. `TcpConnection` over the promise of `FunctionQueue`.
6. `ConnectionRegistry`, `TcpServer`, `TcpServerProofs`.
7. `TcpClient`, with `Connector`.
8. `HttpServer`.
9. `ChannelDispatch`: a channel's `handleEvent` with the order of its callbacks,
   composed with `loop()`'s walk over the active channels.
10. `TimerQueueProofs`, `EventLoopThreadProofs`, `BufferProofs`,
    `TcpConnectionProofs`, `ChannelDispatchProofs`, `TcpClientProofs`: each safety
    property of the runs as a theorem.
11. Further refinements: the client's connection, and a connection by itself, as
    `ConnectionRegistry`; `EventLoopThread` as `FunctionQueue`, with the wakeups of
    `EventLoop` while its loop lives.

What is left is beyond the proof system: the liveness properties, and the
recursive definitions of `HttpServer`.
