------------------------------- MODULE TcpClient -------------------------------
(***************************************************************************)
(* lotta::TcpClient with its Connector: one EventLoop connects to a        *)
(* server, retries with growing delays, and then has one connection, which *)
(* other threads, Users, reach through conn().                             *)
(*                                                                         *)
(* The loop takes turns: the callbacks of one poll, then the functions of  *)
(* doFuncQueue.  A turn is shorter than the shortest delay, one second, so *)
(* that a timer added in a turn expires in a later one.  toQuit_ is never  *)
(* true in the code and is left out; the client has its default callbacks, *)
(* as the functions that set them are private.  What Users send, and       *)
(* shutdown(), are TcpConnection's matter; close() is modelled here.       *)
(*                                                                         *)
(* A failed assertion ends the program.                                    *)
(***************************************************************************)
EXTENDS Naturals, Sequences, FiniteSets, SequencesExt

CONSTANTS
  Users,                \* threads other than the loop's that use the client
  MaxCalls,             \* bound: connect() is called so often
  MaxCloses             \* bound: close() is called so often

ASSUME MaxCallsAssumption == MaxCalls \in Nat
ASSUME MaxClosesAssumption == MaxCloses \in Nat

kInitRetrySec == 1
kMaxRetrySec == 30

VARIABLES
  state,                \* state_ of the Connector
  channel,              \* channel_: "null", "watching" for writability, or
                        \* "removed" from the poller
  retryTimeoutSec,      \* retryTimeoutSec_
  fds,                  \* descriptors it opened and has not closed or passed on
  timers,               \* delays of the startTasks given to runAfter
  due,                  \* how many of them were added in earlier turns
  turn,                 \* "callbacks", "functions"; "stopped", "gone"
  batch,                \* functions this turn has yet to run
  funcQueue,            \* functions for the next doFuncQueue
  conn,                 \* state_ of the connection, "none" before it is made
  registered,           \* is its channel_ known to the poller?
  connection,           \* does connection_ hold it?
  holders,              \* Users that hold it
  up,                   \* does the server accept connections?
  calls,                \* calls of connect() left
  closes,               \* calls of close() left
  gaveUp,               \* history: connect(2) failed in a way not retried
  failure               \* what has failed, or "none"

connectorVars == <<state, channel, retryTimeoutSec, fds, timers, gaveUp>>
connVars == <<conn, registered, connection, holders>>
loopVars == <<turn, batch, funcQueue, due>>
vars == <<connectorVars, connVars, loopVars, up, calls, closes, failure>>

Init ==
  /\ state = "Disconnected"
  /\ channel = "null"
  /\ retryTimeoutSec = kInitRetrySec
  /\ fds = 0
  /\ timers = <<>> /\ due = 0
  /\ turn = "callbacks"
  /\ batch = <<>> /\ funcQueue = <<>>
  /\ conn = "none" /\ registered = FALSE /\ connection = FALSE /\ holders = {}
  /\ up \in BOOLEAN
  /\ calls = MaxCalls /\ closes = MaxCloses
  /\ gaveUp = FALSE
  /\ failure = "none"

Running == failure = "none" /\ turn # "gone"
InCallback == Running /\ turn = "callbacks"

-----------------------------------------------------------------------------
(* The Connector *)

Doubled == IF 2 * retryTimeoutSec < kMaxRetrySec THEN 2 * retryTimeoutSec ELSE kMaxRetrySec

WithoutTimer(pending) == pending        \* mutant: runAfter is not called
WithTimer(pending) == Append(pending, retryTimeoutSec)

LeftOpen(open) == open                  \* mutant: the descriptor is not closed
Closed(open) == open - 1

(* retry; pending are the timers it adds to, open the descriptors.  *)
Retry(pending, open) ==
  /\ fds' = Closed(open)
  /\ state' = "Disconnected"
  /\ timers' = WithTimer(pending)
  /\ retryTimeoutSec' = Doubled

(* startTask, with the outcomes of connect(2): under way, refused at once, *)
(* or an error that ends the attempts, with the descriptor, if socket(2)   *)
(* made one, left open.                                                    *)
StartTask(pending) ==
  IF state # "Disconnected"
    THEN /\ failure' = "startTask"
         /\ timers' = pending
         /\ UNCHANGED <<state, channel, retryTimeoutSec, fds, gaveUp>>
    ELSE \/ /\ state' = "Connecting"
            /\ IF channel = "null"
                 THEN channel' = "watching" /\ UNCHANGED failure
                 ELSE failure' = "connected" /\ UNCHANGED channel
            /\ fds' = fds + 1
            /\ timers' = pending
            /\ UNCHANGED <<retryTimeoutSec, gaveUp>>
         \/ /\ ~up
            /\ Retry(pending, fds + 1)
            /\ UNCHANGED <<channel, gaveUp, failure>>
         \/ /\ gaveUp' = TRUE
            /\ fds' \in {fds, fds + 1}
            /\ timers' = pending
            /\ UNCHANGED <<state, channel, retryTimeoutSec, failure>>

(* removeChannel: the channel is destroyed by a function of this turn, as  *)
(* its handleEvent is under way.                                           *)
RemoveChannelKeeps ==                   \* mutant: the reset is not queued
  /\ channel' = "removed"
  /\ UNCHANGED funcQueue
RemoveChannelEnabled ==                 \* mutant: disableEvents() is not called
  /\ UNCHANGED channel
  /\ funcQueue' = Append(funcQueue, "reset")
RemoveChannel ==
  /\ channel' = "removed"
  /\ funcQueue' = Append(funcQueue, "reset")

(* start: at once on the loop's thread, queued by any other. *)
ConnectInLoop ==
  /\ InCallback
  /\ calls > 0 /\ calls' = calls - 1
  /\ StartTask(timers)
  /\ UNCHANGED <<connVars, loopVars, up, closes>>

Connect ==
  /\ Running
  /\ calls > 0 /\ calls' = calls - 1
  /\ funcQueue' = Append(funcQueue, "start")
  /\ UNCHANGED <<connectorVars, connVars, turn, batch, due, up, closes, failure>>

TimerExpires(i) ==
  /\ InCallback
  /\ i \in 1 .. due
  /\ StartTask(RemoveAt(timers, i))
  /\ due' = due - 1
  /\ UNCHANGED <<connVars, turn, batch, funcQueue, up, calls, closes>>

(* POLLERR: handleError, and then, as the descriptor is writable too,      *)
(* handleWrite, which returns because the state is not Connecting.         *)
HandleError ==
  /\ InCallback
  /\ channel = "watching" /\ state = "Connecting"
  /\ ~up
  /\ RemoveChannel
  /\ Retry(timers, fds)
  /\ UNCHANGED <<connVars, turn, batch, due, up, calls, closes, gaveUp, failure>>

(* handleWrite with the client's newConnection and connEstablished. *)
NewConnectionForgets ==                 \* mutant: connection_ is not assigned
  /\ conn' = "connected" /\ registered' = TRUE
  /\ UNCHANGED <<connection, holders>>
NewConnection ==
  /\ conn' = "connected" /\ registered' = TRUE
  /\ connection' = TRUE
  /\ UNCHANGED holders

(* Who has a ConnPtr after a step; the connection is destroyed with the    *)
(* last of them.                                                           *)
Orphaned == ~connection' /\ holders' = {} /\ "close" \notin Range(batch' \o funcQueue')
Release ==
  failure' = IF Orphaned /\ conn' \in {"connected", "disconnecting"} THEN "~TcpConnection" ELSE failure

HandleWrite ==
  /\ InCallback
  /\ channel = "watching" /\ state = "Connecting"
  /\ up
  /\ RemoveChannel
  /\ state' = "Connected"
  /\ fds' = fds - 1
  /\ NewConnection
  /\ UNCHANGED batch
  /\ Release
  /\ UNCHANGED <<retryTimeoutSec, timers, gaveUp, turn, due, up, calls, closes>>

-----------------------------------------------------------------------------
(* The connection *)

(* conn() *)
GetConn(u) ==
  /\ Running
  /\ connection
  /\ holders' = holders \cup {u}
  /\ UNCHANGED <<connectorVars, conn, registered, connection, loopVars, up, calls, closes, failure>>

DropConn(u) ==
  /\ Running
  /\ u \in holders
  /\ holders' = holders \ {u}
  /\ UNCHANGED <<conn, registered, connection, batch, funcQueue>>
  /\ Release
  /\ UNCHANGED <<connectorVars, turn, due, up, calls, closes>>

(* close(), whatever the connection's state_ is; the function holds a      *)
(* ConnPtr.                                                                *)
Close(u) ==
  /\ Running
  /\ u \in holders
  /\ closes > 0 /\ closes' = closes - 1
  /\ conn' = "disconnecting"
  /\ funcQueue' = Append(funcQueue, "close")
  /\ UNCHANGED <<connectorVars, registered, connection, holders, turn, batch, due,
                 up, calls, failure>>

(* handleClose, with the client's removeConn; a second one fails an        *)
(* assertion, as the channel was removed.                                  *)
HandleClose ==
  /\ conn' = "disconnected" /\ registered' = FALSE
  /\ IF registered
       THEN connection' = FALSE /\ UNCHANGED failure
       ELSE failure' = "handleClose" /\ UNCHANGED connection

PeerCloses ==
  /\ InCallback
  /\ registered
  /\ HandleClose
  /\ UNCHANGED <<connectorVars, loopVars, holders, up, calls, closes>>

-----------------------------------------------------------------------------
(* The loop *)

BeginFunctions ==
  /\ InCallback
  /\ turn' = "functions"
  /\ batch' = funcQueue /\ funcQueue' = <<>>
  /\ UNCHANGED <<connectorVars, connVars, due, up, calls, closes, failure>>

RunFunction ==
  /\ Running
  /\ turn = "functions" /\ batch # <<>>
  /\ batch' = Tail(batch)
  /\ \/ /\ Head(batch) = "start"
        /\ StartTask(timers)
        /\ UNCHANGED connVars
     \/ /\ Head(batch) = "reset"
        /\ channel' = "null"
        /\ UNCHANGED <<state, retryTimeoutSec, fds, timers, gaveUp, connVars, failure>>
     \/ /\ Head(batch) = "close"
        /\ HandleClose
        /\ UNCHANGED <<connectorVars, holders>>
  /\ UNCHANGED <<turn, funcQueue, due, up, calls, closes>>

(* The next turn begins, unless the loop was told to quit. *)
EndTurn ==
  /\ Running
  /\ turn = "functions" /\ batch = <<>>
  /\ turn' \in {"callbacks", "stopped"}
  /\ due' = Len(timers)
  /\ UNCHANGED <<connectorVars, connVars, batch, funcQueue, up, calls, closes, failure>>

ServerChanges ==
  /\ Running
  /\ up' = ~up
  /\ UNCHANGED <<connectorVars, connVars, loopVars, calls, closes, failure>>

(* The loop is over: ~TcpClient destroys connection_, and then connector_, *)
(* whose destructor removes a channel that is not null, and closes its     *)
(* descriptor.                                                             *)
Dtor ==
  /\ Running
  /\ turn = "stopped"
  /\ turn' = "gone"
  /\ connection' = FALSE
  /\ failure' = IF connection /\ holders = {} /\ conn # "disconnected"
                     /\ "close" \notin Range(funcQueue)
                  THEN "~TcpConnection"
                  ELSE IF channel = "removed" THEN "~Connector" ELSE "none"
  /\ fds' = IF channel = "watching" THEN fds - 1 ELSE fds
  /\ UNCHANGED <<state, channel, retryTimeoutSec, timers, gaveUp, conn, registered, holders,
                 batch, funcQueue, due, up, calls, closes>>

Over == ~Running /\ UNCHANGED vars

Next ==
  \/ ConnectInLoop \/ Connect
  \/ \E i \in 1 .. due : TimerExpires(i)
  \/ HandleError \/ HandleWrite \/ PeerCloses
  \/ \E u \in Users : GetConn(u) \/ DropConn(u) \/ Close(u)
  \/ BeginFunctions \/ RunFunction \/ EndTurn
  \/ ServerChanges \/ Dtor \/ Over

(* The loop takes its turns, timers expire and the poller reports what a   *)
(* watched descriptor has come to; nobody has to call, or to stop the loop.*)
Spec ==
  /\ Init /\ [][Next]_vars
  /\ WF_vars(BeginFunctions) /\ WF_vars(RunFunction) /\ WF_vars(EndTurn)
  /\ SF_vars(\E i \in 1 .. due : TimerExpires(i))
  /\ SF_vars(HandleWrite) /\ SF_vars(HandleError)

-----------------------------------------------------------------------------
(* Types; the delays are those of the back-off (connector.cc:98-100).      *)
Delays == {1, 2, 4, 8, 16, 30}

TypeOK ==
  /\ state \in {"Disconnected", "Connecting", "Connected"}
  /\ channel \in {"null", "watching", "removed"}
  /\ retryTimeoutSec \in Delays /\ fds \in Nat
  /\ timers \in Seq(Delays) /\ due \in 0 .. Len(timers)
  /\ turn \in {"callbacks", "functions", "stopped", "gone"}
  /\ \A q \in {batch, funcQueue} : q \in Seq({"start", "reset", "close"})
  /\ conn \in {"none", "connected", "disconnecting", "disconnected"}
  /\ registered \in BOOLEAN /\ connection \in BOOLEAN /\ up \in BOOLEAN /\ gaveUp \in BOOLEAN
  /\ holders \subseteq Users
  /\ calls \in 0 .. MaxCalls /\ closes \in 0 .. MaxCloses
  /\ failure \in {"none", "startTask", "connected", "handleClose", "~TcpConnection", "~Connector"}

(* Every descriptor an attempt opens is watched, or has been closed or     *)
(* passed on to the connection, the destructor's included; only connect(2) *)
(* failing in a way that is not retried leaks one (connector.cc:30-136).   *)
DescriptorsOwned ==
  /\ TypeOK
  /\ LET watched == IF channel = "watching" /\ turn # "gone" THEN 1 ELSE 0
     IN fds = watched \/ (gaveUp /\ fds = watched + 1)

(* If connect() is called once, each attempt finds the Connector           *)
(* disconnected and the channel of the one before destroyed, the           *)
(* destructor finds no channel half-way to it, and the client keeps its    *)
(* connection until it is disconnected (connector.cc:50, 84, 138-145,      *)
(* tcp_client.cc:57-86).                                                   *)
AssertsHold ==
  /\ failure \notin {"startTask", "connected", "~Connector"}
  /\ failure = "~TcpConnection" => turn = "gone"

(* Until it has connected, exactly one thing keeps the Connector going: a  *)
(* queued start, a descriptor that is watched or a timer.  None is lost    *)
(* and no two attempts are under way at once (connector.cc:82-136).        *)
Drivers ==
  {<<"start", i>> : i \in {j \in DOMAIN (batch \o funcQueue) : (batch \o funcQueue)[j] = "start"}}
    \cup {<<"timer", i>> : i \in DOMAIN timers}
    \cup (IF channel = "watching" THEN {<<"channel", 0>>} ELSE {})

Driven ==
  Cardinality(Drivers) = IF calls = MaxCalls \/ gaveUp \/ state = "Connected" THEN 0 ELSE 1

(* To its one connection the client is what a server is to each of many:   *)
(* it opens and closes once, though close() may be called again and then   *)
(* takes its state_ back, is kept until it is closed, and abandoned only   *)
(* when the client is destroyed (tcp_client.cc:43-86,                      *)
(* tcp_connection.cc:73-81, 132-138).  It is open while its channel is     *)
(* known to the poller.                                                    *)
Phase == IF conn = "none" THEN "new" ELSE IF registered THEN "open" ELSE "closed"

Registry == INSTANCE ConnectionRegistry WITH
  Clients <- {"server"},
  phase <- [c \in {"server"} |-> Phase],
  known <- IF connection THEN {"server"} ELSE {},
  leaving <- turn \in {"stopped", "gone"}
RegistrySpec == Registry!Spec

(* A client that was told to connect does so once the server stays up,     *)
(* however often it was refused before (connector.cc:91-101).              *)
Connects ==
  (calls < MaxCalls /\ <>[]up)
    ~> (state = "Connected" \/ gaveUp \/ turn \in {"stopped", "gone"} \/ ~Running)

(* The connection is disconnected when it is destroyed, as ~TcpConnection  *)
(* asserts (tcp_connection.cc:37), when the client is destroyed after its  *)
(* loop, as in tests/tcp_client.cc:15-28.  Violated: ~TcpClient does not   *)
(* close it (tcp_client.cc:43-45).                                         *)
DestroyedDisconnected == failure # "~TcpConnection"
=============================================================================
