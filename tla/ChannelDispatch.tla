---------------------------- MODULE ChannelDispatch ----------------------------
(***************************************************************************)
(* One turn of EventLoop::loop after another: poll, then handleEvent of    *)
(* each active channel, then the queued functions, composed with the       *)
(* PollPoller whose structures the callbacks change on the way.            *)
(*                                                                         *)
(* Channels belong to Attempts of a Connector, to the connections these    *)
(* become (Dialled) and to connections a TcpServer accepts (Accepted).     *)
(* activeChannels_ holds bare pointers, and so does handleEvent, while     *)
(* callbacks close and destroy.  What a callback does to channels is a     *)
(* list of calls, todo, each an action of PollPoller.                      *)
(***************************************************************************)
EXTENDS PollPoller, FiniteSets

CONSTANTS
  Attempts, Dialled, Accepted,
  ClosesOthers          \* may a callback close another connection?

Conns == Dialled \cup Accepted

ASSUME KindsAssumption == Channels = Attempts \cup Conns /\ Attempts \cap Conns = {}
ASSUME DialledAssumption == Cardinality(Dialled) >= Cardinality(Attempts)
ASSUME UsesAssumption == ClosesOthers \in BOOLEAN

VARIABLES
  phase,                \* "events" or "functions"
  walk,                 \* active channels whose turn is still to come
  current,              \* the channel whose handleEvent runs, or None
  revents,              \* events of each channel not yet handled
  todo,                 \* what the code running has yet to do: <<call, channel>>
  resets,               \* attempts whose channel a queued function destroys
  gone,                 \* channels destroyed
  owner,                \* who uses each descriptor, None when it is closed
  broken,               \* channels with an error pending on their descriptor
  reported              \* history: attempts that this turn's poll reported as failed

dispatchVars == <<phase, walk, current, revents, todo, resets, gone, owner, broken, reported>>
allVars == <<vars, dispatchVars>>

DispatchInit ==
  /\ Init
  /\ phase = "functions"
  /\ walk = <<>> /\ current = None /\ todo = <<>>
  /\ revents = [c \in Channels |-> {}]
  /\ resets = {} /\ gone = {} /\ broken = {} /\ reported = {}
  /\ owner = [f \in Fds |-> None]

Idle == ~aborted /\ current = None /\ todo = <<>>
InFunctions == Idle /\ phase = "functions"

-----------------------------------------------------------------------------
(* loop() *)

(* A pending error is always reported, and every event waited for with it. *)
Reported(c, seen) == IF c \in broken THEN events[c] \cup {"err"} ELSE events[c] \cap seen

(* poll walks along pollFds_: the active channels, in the order of their   *)
(* entries.                                                                *)
Entries(ready) == {i \in DOMAIN pollFds : pollFds[i].fd \in ready}
InEntryOrder(ready) ==
  {order \in [1 .. Cardinality(Entries(ready)) -> Entries(ready)] :
     /\ Range(order) = Entries(ready)
     /\ \A j, k \in DOMAIN order : j < k => order[j] < order[k]}

PollEvents(seen) ==
  /\ InFunctions /\ resets = {}
  /\ phase' = "events"
  /\ LET ready == {f \in PolledFds : Reported(channels[f], seen[f]) # {}}
     IN /\ Poll(ready)
        /\ \E order \in InEntryOrder(ready) :
             walk' = [k \in DOMAIN order |-> channels[pollFds[order[k]].fd]]
        /\ revents' = [c \in Channels |->
             IF fd[c] \in ready /\ channels[fd[c]] = c THEN Reported(c, seen[fd[c]]) ELSE {}]
  /\ reported' = {a \in Attempts : "err" \in revents'[a]}
  /\ UNCHANGED <<current, todo, resets, gone, owner, broken>>

BeginEvent ==
  /\ Idle /\ walk # <<>>
  /\ current' = Head(walk) /\ walk' = Tail(walk)
  /\ UNCHANGED <<vars, phase, revents, todo, resets, gone, owner, broken, reported>>

EndEvent ==
  /\ current # None /\ todo = <<>> /\ revents[current] = {}
  /\ current' = None
  /\ UNCHANGED <<vars, phase, walk, revents, todo, resets, gone, owner, broken, reported>>

EndEvents ==
  /\ Idle /\ phase = "events" /\ walk = <<>>
  /\ phase' = "functions"
  /\ reported' = {}
  /\ UNCHANGED <<vars, walk, current, revents, todo, resets, gone, owner, broken>>

-----------------------------------------------------------------------------
(* handleEvent: the error callback, then read, then write. *)

CallbackWriteFirst(c) ==           \* mutant: errors are looked at last
  IF "in" \in revents[c] THEN "in" ELSE IF "out" \in revents[c] THEN "out" ELSE "err"
Callback(c) ==
  IF "err" \in revents[c] THEN "err" ELSE IF "in" \in revents[c] THEN "in" ELSE "out"

Calls(c, e) ==
  /\ ~aborted /\ current = c /\ todo = <<>>
  /\ e \in revents[c] /\ Callback(c) = e
  /\ revents' = [revents EXCEPT ![c] = @ \ {e}]

(* TcpConnection::handleClose, and close() with its reset of socket_. *)
HandleClose(c) == <<<<"disableEvents", c>>, <<"remove", c>>>>
Close(c) == HandleClose(c) \o <<<<"socketReset", c>>>>

(* handleError of a connection fetches, and so clears, the error. *)
HandleError(c) ==
  /\ c \in Conns
  /\ Calls(c, "err")
  /\ broken' = broken \ {c}
  /\ UNCHANGED <<vars, phase, walk, current, todo, resets, gone, owner, reported>>

(* User code: sends more than the socket takes, to any connection, or      *)
(* closes one.                                                             *)
Open == {c \in Conns : life[c] = "alive"}
MessageCallback(c) ==
  {<<<<"enableWriting", d>>>> : d \in Open}
    \cup {Close(d) : d \in IF ClosesOthers THEN Open ELSE Open \cap {c}}

(* handleRead: a message, or the end of the stream. *)
HandleRead(c) ==
  /\ c \in Conns
  /\ Calls(c, "in")
  /\ todo' \in {<<>>, HandleClose(c)} \cup MessageCallback(c)
  /\ UNCHANGED <<vars, phase, walk, current, resets, gone, owner, broken, reported>>

IsWritingAlways(c) == TRUE         \* mutant: handleWrite does not look
IsWriting(c) == "out" \in events[c]

(* handleWrite: a part of outBuf_ is written, or all that is left. *)
Drained(c) == {<<<<"disableWriting", c>>>> : e \in events[c] \cap {"out"}}
HandleWrite(c) ==
  /\ c \in Conns
  /\ Calls(c, "out")
  /\ IF IsWriting(c) THEN todo' \in {<<>>} \cup Drained(c) ELSE todo' = <<>>
  /\ UNCHANGED <<vars, phase, walk, current, resets, gone, owner, broken, reported>>

(* Connector::removeChannel: handleEvent goes on after it, so the channel  *)
(* is destroyed later.                                                     *)
ResetAtOnce(a) == gone' = gone \cup {a} /\ UNCHANGED resets   \* mutant
QueueReset(a) == resets' = resets \cup {a} /\ UNCHANGED gone

(* Connector::handleError, where retry closes the descriptor; a Connector  *)
(* is no longer Connecting once its channel was removed.                   *)
AttemptFails(a) ==
  /\ a \in Attempts
  /\ Calls(a, "err")
  /\ todo' = Close(a)
  /\ broken' = broken \ {a}
  /\ QueueReset(a)
  /\ UNCHANGED <<vars, phase, walk, current, owner, reported>>

(* Connector::handleWrite: the descriptor becomes that of a connection. *)
AttemptWrites(a) ==
  /\ a \in Attempts
  /\ Calls(a, "out")
  /\ IF life[a] = "alive"
       THEN /\ \E d \in Dialled :
                 /\ life[d] = "unborn"
                 /\ todo' = HandleClose(a) \o <<<<"construct", d, fd[a]>>, <<"enableReading", d>>>>
            /\ QueueReset(a)
       ELSE UNCHANGED <<todo, resets, gone>>
  /\ UNCHANGED <<vars, phase, walk, current, owner, broken, reported>>

-----------------------------------------------------------------------------
(* New connections and attempts: functions of the loop's thread, or        *)
(* callbacks of two channels that are not modelled, the server's listening *)
(* one (handleAccept) and the loop's timerfd (a retry's startTask), between*)
(* two callbacks of the walk.                                              *)

Starts(c, f, enable) ==
  /\ Idle
  /\ life[c] = "unborn" /\ owner[f] = None
  /\ owner' = [owner EXCEPT ![f] = c]
  /\ todo' = <<<<"construct", c, f>>, <<enable, c>>>>
  /\ UNCHANGED <<vars, phase, walk, current, revents, resets, gone, broken, reported>>

Accept(c, f) == c \in Accepted /\ Starts(c, f, "enableReading")
Connect(a, f) == a \in Attempts /\ Starts(a, f, "enableWriting")

(* The queued functions: the sends and closes of other threads, the reset  *)
(* of an attempt's channel.                                                *)
Function(calls) ==
  /\ InFunctions
  /\ todo' = calls
  /\ UNCHANGED <<vars, phase, walk, current, revents, resets, gone, owner, broken, reported>>

SendTask(c) ==
  /\ c \in Open /\ ~IsWriting(c)
  /\ Function(<<<<"enableWriting", c>>>>)
CloseTask(c) ==
  /\ c \in Open
  /\ Function(Close(c))

ResetChannel(a) ==
  /\ InFunctions
  /\ a \in resets
  /\ resets' = resets \ {a} /\ gone' = gone \cup {a}
  /\ UNCHANGED <<vars, phase, walk, current, revents, todo, owner, broken, reported>>

-----------------------------------------------------------------------------
(* The calls on channels; remove() is Retire. *)

Released(f, c) == IF owner[f] = c THEN [owner EXCEPT ![f] = None] ELSE owner

Call(op, c) ==
  \/ /\ op = "disableEvents"
     /\ UpdateChannel(c, {})           \* fails if c was closed before
     /\ retiring' = c
     /\ UNCHANGED <<fd, life, owner, broken>>
  \/ /\ op = "remove"
     /\ Retire(c)
     /\ broken' = broken \ {c}
     /\ UNCHANGED owner
  \/ /\ op = "construct"
     /\ Construct(c, Head(todo)[3])
     /\ owner' = [owner EXCEPT ![Head(todo)[3]] = c]
     /\ UNCHANGED broken
  \/ op = "enableReading" /\ Enable(c, "in") /\ UNCHANGED <<owner, broken>>
  \/ op = "enableWriting" /\ Enable(c, "out") /\ UNCHANGED <<owner, broken>>
  \/ op = "disableWriting" /\ Disable(c, "out") /\ UNCHANGED <<owner, broken>>
  \/ /\ op = "socketReset"
     /\ owner' = Released(fd[c], c)
     /\ UNCHANGED <<vars, broken>>

RunCall ==
  /\ ~aborted /\ todo # <<>>
  /\ todo' = Tail(todo)
  /\ Call(Head(todo)[1], Head(todo)[2])
  /\ UNCHANGED <<phase, walk, current, revents, resets, gone, reported>>

-----------------------------------------------------------------------------
(* The last ConnPtr of a connection that was closed is dropped, and its    *)
(* socket closed with it: by removeConn at the end of handleClose, on the  *)
(* loop of the client or the server, by the server's thread otherwise, or  *)
(* by user code that kept a copy, hence at any time.  Only the calls still *)
(* to be made for it hold one themselves.  If the connection's own         *)
(* handleEvent runs, its channel is gone before handleEvent looks for the  *)
(* next event: it goes on with what the memory held.                       *)
Release(c) ==
  /\ c \in Conns \ gone /\ life[c] = "dead"
  /\ \A i \in DOMAIN todo : todo[i][2] # c
  /\ gone' = gone \cup {c}
  /\ owner' = Released(fd[c], c)
  /\ UNCHANGED <<vars, phase, walk, current, revents, todo, resets, broken, reported>>

(* The peer refuses or resets. *)
Break(c) ==
  /\ life[c] = "alive" /\ events[c] # {} /\ c \notin broken
  /\ broken' = broken \cup {c}
  /\ UNCHANGED <<vars, phase, walk, current, revents, todo, resets, gone, owner, reported>>

DispatchNext ==
  \/ \E seen \in [PolledFds -> SUBSET Events] : PollEvents(seen)
  \/ BeginEvent \/ EndEvent \/ EndEvents
  \/ \E c \in Conns : HandleError(c) \/ HandleRead(c) \/ HandleWrite(c)
  \/ \E a \in Attempts : AttemptFails(a) \/ AttemptWrites(a) \/ ResetChannel(a)
  \/ \E f \in Fds, c \in Channels : Accept(c, f) \/ Connect(c, f)
  \/ \E c \in Conns : SendTask(c) \/ CloseTask(c) \/ Release(c)
  \/ \E c \in Channels : Break(c)
  \/ RunCall

DispatchSpec == DispatchInit /\ [][DispatchNext]_allVars

-----------------------------------------------------------------------------
(* No channel is destroyed while the loop is still to call it, nor is an   *)
(* attempt's inside its handleEvent: a failed attempt's survives           *)
(* handleError, and with it the handleWrite that follows                   *)
(* (event_loop.cc:63-65, channel.cc:43-60, connector.cc:138-146).          *)
NoDanglingEvent ==
  /\ gone \cap Range(walk) = {}
  /\ current \notin gone \cap Attempts

(* The same for connections.  Violated: removeConn drops the last ConnPtr  *)
(* in handleClose, while handleEvent is under way (tcp_connection.cc:73-80,*)
(* tcp_server.cc:105-112, tcp_client.cc:77-86).                            *)
NotDestroyedInHandler == current \notin gone

(* An attempt that poll reports as failed does not become a connection,    *)
(* though its descriptor is writable too, and handleWrite's own test for   *)
(* an error never holds: the error callback comes first and removes the    *)
(* channel (channel.cc:51-59, connector.cc:103-136).                       *)
RefusedNotConnected ==
  [][\A a \in reported : AttemptWrites(a) => UNCHANGED todo]_allVars

(* Handlers read and write the descriptor of their own connection: never   *)
(* one that was closed, and perhaps opened for another, since poll         *)
(* reported it (tcp_connection.cc:41-71, 132-138).                         *)
OwnDescriptorOnly ==
  [][\A c \in Conns :
       HandleRead(c) \/ (HandleWrite(c) /\ IsWriting(c)) => owner[fd[c]] = c]_allVars
=============================================================================
