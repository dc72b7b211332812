---------------------------- MODULE TcpConnection ----------------------------
(***************************************************************************)
(* lotta::TcpConnection: one connection, served by the thread of its       *)
(* EventLoop and used from there and from other threads, Workers.          *)
(*                                                                         *)
(* The socket is a byte stream with a send buffer of Room bytes that the   *)
(* peer drains; the peer may close at any time.  Messages have two bytes,  *)
(* so that a write can be whole, partial or refused.  What is received is  *)
(* left out: a message callback is user code on the loop's thread, which   *)
(* may call send, shutdown and close whenever no handler runs.  The loop   *)
(* keeps the promise of FunctionQueue: tasks run in FIFO order.            *)
(*                                                                         *)
(* A failed assertion, or a call on the destroyed connection, ends the     *)
(* program: aborted.                                                       *)
(***************************************************************************)
EXTENDS Naturals, Sequences, SequencesExt, FiniteSets

CONSTANTS
  Workers,              \* threads other than the loop's that have a ConnPtr
  Msgs,                 \* messages, each sent at most once
  Room                  \* bytes the send buffer of the socket holds

ASSUME RoomAssumption == Room \in Nat \ {0}

VARIABLES
  state,                \* state_
  events,               \* the events channel_ waits for
  registered,           \* is channel_ known to the poller?
  outBuf,               \* outBuf_
  socketOpen,           \* socket_ has not been reset
  inFlight,             \* bytes written that the peer has not read yet
  fin,                  \* shutdownWrite was called
  peerClosed,           \* the peer's FIN has arrived
  tasks,                \* tasks exec'd by Workers that have yet to run
  calls,                \* what each Worker has yet to do of its call
  owners,               \* who holds a ConnPtr: Workers, and "server"
  toSend,               \* messages nobody has sent yet
  mayClose,             \* bound: close() is called once
  alive,                \* not destroyed yet
  aborted,              \* has the program died of an assertion?
  accepted,             \* history: messages sendTask wrote or buffered
  dropped,              \* history: messages sendTask lost
  sent,                 \* history: bytes written to the socket
  stray,                \* history: did a task use the descriptor once closed?
  overtaken             \* history: did a call or a task come after the close,
                        \* or a sendTask after shutdownWrite?

userVars == <<tasks, calls, owners, toSend, mayClose>>
streamVars == <<outBuf, accepted, dropped, sent, inFlight>>
socketVars == <<socketOpen, stray>>
vars == <<state, events, registered, alive, aborted, overtaken, userVars,
          streamVars, socketVars, fin, peerClosed>>

BytesOf(m) == <<<<m, 1>>, <<m, 2>>>>

Init ==
  /\ state = "Connecting"
  /\ events = {}
  /\ registered = FALSE
  /\ outBuf = <<>>
  /\ socketOpen = TRUE
  /\ inFlight = 0
  /\ fin = FALSE
  /\ peerClosed = FALSE
  /\ tasks = <<>>
  /\ calls = [w \in Workers |-> <<"none">>]
  /\ owners = Workers \cup {"server"}
  /\ toSend = Msgs
  /\ mayClose = TRUE
  /\ alive = TRUE
  /\ aborted = FALSE
  /\ accepted = <<>>
  /\ dropped = {}
  /\ sent = <<>>
  /\ stray = FALSE
  /\ overtaken = FALSE

Running == alive /\ ~aborted
Established == state # "Connecting"
Writing == "out" \in events

Overtakes(condition) == overtaken' = (overtaken \/ condition)

-----------------------------------------------------------------------------
(* Channel and socket.  Waiting for events on a channel that was removed   *)
(* fails an assertion (poll_poller.cc:50).                                 *)
ChannelWaitsFor(new) ==
  IF registered THEN events' = new /\ UNCHANGED aborted
  ELSE aborted' = TRUE /\ UNCHANGED events

(* How many of n bytes a write takes: what fits, and none at all (an       *)
(* error) once the socket is shut down or closed.                          *)
Accepts(n) ==
  IF fin \/ ~socketOpen THEN 0
  ELSE IF n < Room - inFlight THEN n ELSE Room - inFlight

Write(bytes, n) ==
  /\ sent' = sent \o SubSeq(bytes, 1, n)
  /\ inFlight' = inFlight + n

-----------------------------------------------------------------------------
(* The tasks, on the loop's thread *)

LeftOfStart(bytes, n) ==           \* mutant: buffers the message from its start
  IF n < Len(bytes) THEN bytes ELSE <<>>
Left(bytes, n) == SubSeq(bytes, n + 1, Len(bytes))

EnablesIfBusy(left) ==             \* mutant: enableWriting only if outBuf_ was not empty
  left # <<>> /\ outBuf # <<>>
EnablesWriting(left) == left # <<>> /\ ~Writing

(* The result of the write, -1 for an error, is kept in an unsigned n: it  *)
(* never tests negative and is never less than the size of the message, of *)
(* which nothing is buffered then.                                         *)
SendTask(m) ==
  LET bytes == BytesOf(m)
      tried == ~Writing /\ outBuf = <<>>
      n == IF tried THEN Accepts(Len(bytes)) ELSE 0
  IN /\ stray' = (stray \/ (tried /\ ~socketOpen))
     /\ IF tried /\ n = 0
          THEN /\ dropped' = dropped \cup {m}
               /\ UNCHANGED <<outBuf, accepted, sent, inFlight, events, aborted>>
          ELSE /\ Write(bytes, n)
               /\ outBuf' = outBuf \o Left(bytes, n)
               /\ accepted' = Append(accepted, m)
               /\ IF EnablesWriting(Left(bytes, n))
                    THEN ChannelWaitsFor(events \cup {"out"})
                    ELSE UNCHANGED <<events, aborted>>
               /\ UNCHANGED dropped

ShutdownTask ==
  /\ fin' = (fin \/ ~Writing)
  /\ stray' = (stray \/ (~Writing /\ ~socketOpen))

ClosedStateKept == state           \* mutant: state_ is left as it was
ClosedState == "Disconnected"

(* disableEvents and remove; the server drops its ConnPtr later. *)
HandleClose ==
  /\ state' = ClosedState
  /\ IF registered
       THEN events' = {} /\ registered' = FALSE /\ UNCHANGED aborted
       ELSE aborted' = TRUE /\ UNCHANGED <<events, registered>>

SendInLoop(m) == SendTask(m) /\ UNCHANGED <<state, registered, fin, socketOpen>>

ShutdownInLoop ==
  /\ ShutdownTask
  /\ UNCHANGED <<state, events, registered, aborted, socketOpen, streamVars>>

CloseInLoop ==
  /\ HandleClose
  /\ socketOpen' = FALSE
  /\ UNCHANGED <<fin, stray, streamVars>>

(* doFuncQueue.  sendTask and shutdownTask are bound to a bare pointer.    *)
RunTask ==
  /\ ~aborted
  /\ tasks # <<>>
  /\ tasks' = Tail(tasks)
  /\ LET task == Head(tasks) IN
       /\ Overtakes(~registered \/ (task[1] = "send" /\ fin))
       /\ \/ alive /\ task[1] = "send" /\ SendInLoop(task[2])
          \/ alive /\ task[1] = "shutdown" /\ ShutdownInLoop
          \/ alive /\ task[1] = "close" /\ CloseInLoop
          \/ /\ ~alive
             /\ aborted' = TRUE
             /\ UNCHANGED <<state, events, registered, socketVars, fin, streamVars>>
  /\ UNCHANGED <<alive, peerClosed, calls, owners, toSend, mayClose>>

-----------------------------------------------------------------------------
(* The handlers, on the loop's thread *)

ConnEstablished ==
  /\ Running
  /\ state = "Connecting"
  /\ state' = "Connected"
  /\ registered' = TRUE
  /\ events' = {"in"}
  /\ UNCHANGED <<alive, aborted, overtaken, userVars, streamVars, socketVars, fin, peerClosed>>

(* handleRead, when it reads 0 bytes. *)
HandleRead ==
  /\ Running
  /\ peerClosed /\ "in" \in events
  /\ HandleClose
  /\ UNCHANGED <<alive, overtaken, userVars, streamVars, socketVars, fin, peerClosed>>

ShutsNever(n) == FALSE             \* mutant: forgets a shutdown that waits for outBuf_
ShutsEarly(n) ==                   \* mutant: shuts down with bytes left in outBuf_
  state = "Disconnecting"
ShutsAfter(n) == n = Len(outBuf) /\ state = "Disconnecting"

HandleWrite ==
  /\ Running
  /\ Writing /\ Accepts(Len(outBuf)) > 0
  /\ LET n == Accepts(Len(outBuf)) IN
       /\ Write(outBuf, n)
       /\ outBuf' = Left(outBuf, n)
       /\ events' = IF n = Len(outBuf) THEN events \ {"out"} ELSE events
       /\ fin' = (fin \/ ShutsAfter(n))
  /\ UNCHANGED <<state, registered, alive, aborted, overtaken, userVars,
                 accepted, dropped, socketVars, peerClosed>>

-----------------------------------------------------------------------------
MaySendAlways == TRUE              \* mutant: state_ is not looked at
MaySend == state = "Connected"

(* send, shutdown and close on the loop's thread: exec runs the task at    *)
(* once.  Code there knows of the close, and does not close twice.         *)

LoopSends(m) ==
  /\ Running /\ Established
  /\ m \in toSend
  /\ toSend' = toSend \ {m}
  /\ IF MaySend
       THEN SendInLoop(m)
       ELSE UNCHANGED <<state, events, registered, aborted, socketVars, fin, streamVars>>
  /\ UNCHANGED <<overtaken, alive, peerClosed, tasks, calls, owners, mayClose>>

LoopShutsDown ==
  /\ Running
  /\ state = "Connected"
  /\ state' = "Disconnecting"
  /\ ShutdownTask
  /\ UNCHANGED <<events, registered, alive, aborted, overtaken, userVars, streamVars,
                 socketOpen, peerClosed>>

LoopCloses ==
  /\ Running /\ Established
  /\ mayClose /\ registered
  /\ mayClose' = FALSE
  /\ CloseInLoop
  /\ UNCHANGED <<overtaken, alive, peerClosed, tasks, calls, owners, toSend>>

-----------------------------------------------------------------------------
(* The same on another thread, step by step: the look at state_, the       *)
(* change of state_, the push into the loop's queue.                       *)

CanCall(w) == Running /\ Established /\ w \in owners /\ calls[w] = <<"none">>

CallsNext(w, step) == calls' = [calls EXCEPT ![w] = step]

Push(w, task) ==
  /\ tasks' = Append(tasks, task)
  /\ CallsNext(w, <<"none">>)

loopVars == <<events, registered, alive, aborted, streamVars, socketVars, fin, peerClosed>>

BeginSend(w, m) ==
  /\ CanCall(w)
  /\ m \in toSend
  /\ toSend' = toSend \ {m}
  /\ IF MaySend THEN CallsNext(w, <<"send", m>>) ELSE UNCHANGED calls
  /\ UNCHANGED <<state, overtaken, loopVars, tasks, owners, mayClose>>

BeginShutdown(w) ==
  /\ CanCall(w)
  /\ state = "Connected"
  /\ CallsNext(w, <<"disconnecting", "shutdown">>)
  /\ UNCHANGED <<state, overtaken, loopVars, tasks, owners, toSend, mayClose>>

BeginClose(w) ==
  /\ CanCall(w)
  /\ mayClose
  /\ mayClose' = FALSE
  /\ CallsNext(w, <<"disconnecting", "close">>)
  /\ UNCHANGED <<state, overtaken, loopVars, tasks, owners, toSend>>

SetDisconnecting(w) ==
  /\ ~aborted
  /\ calls[w][1] = "disconnecting"
  /\ state' = "Disconnecting"
  /\ Overtakes(~registered)
  /\ CallsNext(w, <<calls[w][2]>>)
  /\ UNCHANGED <<loopVars, tasks, owners, toSend, mayClose>>

PushTask(w) ==
  /\ ~aborted
  /\ calls[w][1] \in {"send", "shutdown", "close"}
  /\ Push(w, calls[w])
  /\ UNCHANGED <<state, overtaken, loopVars, owners, toSend, mayClose>>

ReleaseOnShutdown(o) ==            \* mutant: rmConnCallback_ runs when state_ changes
  /\ ~aborted
  /\ o \in owners
  /\ IF o = "server" THEN state \in {"Disconnecting", "Disconnected"} ELSE calls[o] = <<"none">>
  /\ owners' = owners \ {o}
  /\ UNCHANGED <<state, overtaken, loopVars, tasks, calls, toSend, mayClose>>

(* A ConnPtr is dropped: by a worker between calls, by the server in       *)
(* removeConn, which handleClose has asked for.                            *)
Release(o) ==
  /\ ~aborted
  /\ o \in owners
  /\ IF o = "server" THEN Established /\ ~registered ELSE calls[o] = <<"none">>
  /\ owners' = owners \ {o}
  /\ UNCHANGED <<state, overtaken, loopVars, tasks, calls, toSend, mayClose>>

(* The destructor, once nobody owns the connection: not even a close task. *)
Destroy ==
  /\ Running
  /\ owners = {} /\ ~Contains(tasks, <<"close">>)
  /\ alive' = FALSE
  /\ aborted' = (state # "Disconnected")
  /\ UNCHANGED <<state, events, registered, overtaken, userVars, streamVars,
                 socketVars, fin, peerClosed>>

-----------------------------------------------------------------------------
(* The peer *)

PeerReads ==
  /\ inFlight > 0
  /\ inFlight' = inFlight - 1
  /\ UNCHANGED <<state, events, registered, alive, aborted, overtaken, userVars,
                 outBuf, accepted, dropped, sent, socketVars, fin, peerClosed>>

PeerCloses ==
  /\ Established /\ ~peerClosed
  /\ peerClosed' = TRUE
  /\ UNCHANGED <<state, events, registered, alive, aborted, overtaken, userVars,
                 streamVars, socketVars, fin>>

(* The connection or the program is gone. *)
Over == (aborted \/ ~alive) /\ UNCHANGED vars

LoopStep == RunTask \/ HandleWrite

WorkerStep(w) == SetDisconnecting(w) \/ PushTask(w)

Next ==
  \/ ConnEstablished \/ HandleRead \/ LoopStep
  \/ \E m \in Msgs : LoopSends(m)
  \/ LoopShutsDown \/ LoopCloses
  \/ \E w \in Workers :
       \/ \E m \in Msgs : BeginSend(w, m)
       \/ BeginShutdown(w) \/ BeginClose(w) \/ WorkerStep(w)
  \/ \E o \in owners : Release(o)
  \/ Destroy
  \/ PeerReads \/ PeerCloses
  \/ Over

(* The loop serves its queue and its sockets, a call once begun goes on,   *)
(* and the peer reads what it is sent.  Nobody has to call, or to close.   *)
Spec ==
  /\ Init /\ [][Next]_vars
  /\ WF_vars(RunTask) /\ WF_vars(HandleWrite)
  /\ \A w \in Workers : WF_vars(WorkerStep(w))
  /\ WF_vars(PeerReads)

-----------------------------------------------------------------------------
(* Types; and the channel waits for events only while it is registered     *)
(* (tcp_connection.cc:73-95).                                              *)
TypeOK ==
  /\ state \in {"Connecting", "Connected", "Disconnecting", "Disconnected"}
  /\ events \subseteq {"in", "out"}
  /\ registered \in BOOLEAN /\ socketOpen \in BOOLEAN /\ stray \in BOOLEAN
  /\ fin \in BOOLEAN /\ peerClosed \in BOOLEAN /\ mayClose \in BOOLEAN
  /\ alive \in BOOLEAN /\ aborted \in BOOLEAN /\ overtaken \in BOOLEAN
  /\ inFlight \in 0 .. Room
  /\ owners \subseteq Workers \cup {"server"}
  /\ registered <=> events # {}

(* Buffered bytes are never forgotten: while the channel is registered it  *)
(* waits for POLLOUT exactly when outBuf_ holds something                  *)
(* (tcp_connection.cc:53-71, 101-119).                                     *)
PendingIsPolled == TypeOK /\ (registered => (Writing <=> outBuf # <<>>))

(* What was written, then what is buffered, is the accepted messages one   *)
(* after the other: none cut, repeated or interleaved by partial writes    *)
(* (tcp_connection.cc:53-71, 101-119).                                     *)
StreamIntact ==
  LET stream == sent \o outBuf IN
    /\ Len(stream) = 2 * Len(accepted)
    /\ \A i \in DOMAIN accepted, k \in 1 .. 2 :
         stream[2 * (i - 1) + k] = BytesOf(accepted[i])[k]

(* The FIN comes after all that was accepted, unless a sendTask was still  *)
(* in the queue when the loop's thread shut down, or ran after the close   *)
(* (tcp_connection.cc:53-71, 121-130).                                     *)
FinLast == fin /\ ~overtaken => outBuf = <<>> \/ ~registered

(* No handler or task writes to or shuts down the descriptor after close() *)
(* has closed it, when it may be another connection's, unless another      *)
(* thread's task was queued behind the close (tcp_connection.cc:97-138).   *)
WritesOwnSocket == stray => overtaken

(* No assertion fails, unless a call or a task from another thread comes   *)
(* after handleClose (tcp_connection.cc:37, 73-81, 116).                   *)
AssertsHold == aborted => overtaken

(* What its server sees of the connection: new until it is established,    *)
(* open while its channel is registered, closed from then on.  It opens    *)
(* once and closes once, though close(), shutdown() and the peer race, and *)
(* the server does not drop it before (tcp_connection.cc:73-95, 132-138).  *)
Phase == IF ~Established THEN "new" ELSE IF registered THEN "open" ELSE "closed"

Registry == INSTANCE ConnectionRegistry WITH
  Clients <- {"peer"},
  phase <- [c \in {"peer"} |-> Phase],
  known <- IF Established /\ "server" \in owners THEN {"peer"} ELSE {},
  leaving <- FALSE
RegistrySpec == Registry!Spec

(* shutdown() ends in a FIN, however much is still buffered, unless the    *)
(* connection closes first (tcp_connection.cc:53-71, 121-130).             *)
ShutdownSendsFin == state = "Disconnecting" ~> (fin \/ ~registered)

(* send() loses no message on a connection that stays open: errno is       *)
(* examined so that EAGAIN buffers the message (tcp_connection.cc:106-109).*)
(* Violated: n < 0 is never true of an unsigned n.                         *)
NothingDropped == dropped # {} => ~registered \/ overtaken
=============================================================================
