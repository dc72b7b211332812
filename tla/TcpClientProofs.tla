---------------------------- MODULE TcpClientProofs ----------------------------
(***************************************************************************)
(* If connect() is called once, as the Connector requires: its assertions  *)
(* hold, exactly one thing keeps it going until it has connected, and its  *)
(* descriptors are all accounted for, for any number of users.             *)
(***************************************************************************)
EXTENDS TcpClient, FiniteSetTheorems, SequenceTheorems, TLAPS

(* How far the Connector is. *)

Queued(q, f) == \E i \in DOMAIN q : q[i] = f

Empty == batch = <<>> /\ funcQueue = <<>>

Fresh ==
  /\ calls = MaxCalls
  /\ state = "Disconnected" /\ channel = "null" /\ fds = 0 /\ timers = <<>>
  /\ conn = "none" /\ ~gaveUp /\ Empty

Starting ==
  /\ calls # MaxCalls
  /\ state = "Disconnected" /\ channel = "null" /\ fds = 0 /\ timers = <<>>
  /\ conn = "none" /\ ~gaveUp
  /\ \/ batch = <<>> /\ funcQueue = <<"start">>
     \/ batch = <<"start">> /\ funcQueue = <<>> /\ turn = "functions"

(* Refused: one timer; the channel, if there was one, is destroyed before  *)
(* the timer can expire.                                                   *)
Waiting ==
  /\ calls # MaxCalls
  /\ state = "Disconnected" /\ fds = 0 /\ \E delay \in Delays : timers = <<delay>>
  /\ conn = "none" /\ ~gaveUp
  /\ \/ channel = "null" /\ Empty
     \/ /\ channel = "removed" /\ due = 0
        /\ \/ turn = "callbacks" /\ batch = <<>> /\ funcQueue = <<"reset">>
           \/ turn = "functions" /\ batch = <<"reset">> /\ funcQueue = <<>>

Trying ==
  /\ calls # MaxCalls
  /\ state = "Connecting" /\ channel = "watching" /\ timers = <<>>
  /\ fds = IF turn = "gone" THEN 0 ELSE 1
  /\ conn = "none" /\ ~gaveUp /\ Empty

(* The connection is made; its channel and the attempt's are known to the  *)
(* poller no longer than the queues tell.                                  *)
Made ==
  /\ calls # MaxCalls
  /\ state = "Connected" /\ fds = 0 /\ timers = <<>>
  /\ conn # "none" /\ ~gaveUp
  /\ \A i \in DOMAIN batch : batch[i] # "start"
  /\ \A i \in DOMAIN funcQueue : funcQueue[i] # "start"
  /\ \/ channel = "null"
     \/ /\ channel = "removed"
        /\ \/ turn = "callbacks" /\ Queued(funcQueue, "reset")
           \/ turn = "functions" /\ Queued(batch, "reset")

Stuck ==
  /\ calls # MaxCalls
  /\ state = "Disconnected" /\ channel = "null" /\ fds \in {0, 1} /\ timers = <<>>
  /\ conn = "none" /\ gaveUp /\ Empty

(* The client keeps its connection while it is open.  One that was closed  *)
(* is disconnecting again only if close() was called once more, and then a *)
(* function holds it.                                                      *)
KeepsOK ==
  /\ turn # "functions" => batch = <<>>
  /\ conn = "none" => ~registered /\ ~connection /\ holders = {}
  /\ conn = "connected" => registered
  /\ registered /\ turn # "gone" => connection
  /\ conn = "disconnecting" => Queued(batch, "close") \/ Queued(funcQueue, "close")

ClientInv ==
  /\ TypeOK /\ AssertsHold /\ KeepsOK
  /\ Fresh \/ Starting \/ Waiting \/ Trying \/ Made \/ Stuck
-----------------------------------------------------------------------------
LEMMA DoubledOK == retryTimeoutSec \in Delays => Doubled \in Delays
BY DEF Delays, Doubled, kMaxRetrySec

LEMMA OneTimer ==
  ASSUME NEW delay \in Delays
  PROVE  /\ <<delay>> \in Seq(Delays) /\ Len(<<delay>>) = 1 /\ <<delay>> # <<>>
         /\ Append(<<>>, delay) = <<delay>> /\ RemoveAt(<<delay>>, 1) = <<>>
BY DEF RemoveAt

LEMMA InitClientInv == Init => ClientInv
<1> SUFFICES ASSUME Init PROVE ClientInv
  OBVIOUS
<1>1. /\ timers \in Seq(Delays) /\ Len(timers) = 0
      /\ batch \in Seq({"start", "reset", "close"}) /\ funcQueue \in Seq({"start", "reset", "close"})
  BY DEF Init
<1>2. registered \in BOOLEAN /\ connection \in BOOLEAN /\ up \in BOOLEAN /\ gaveUp \in BOOLEAN
  BY DEF Init
<1>3. TypeOK
  BY <1>1, <1>2, MaxCallsAssumption, MaxClosesAssumption DEF Init, TypeOK, Delays, kInitRetrySec
<1> QED
  BY <1>3 DEF Init, ClientInv, AssertsHold, KeepsOK, Fresh, Empty

(* An attempt is made when nothing else is under way: it is under way      *)
(* then, will be repeated, or has failed for good.                         *)
LEMMA StartTaskInv ==
  ASSUME ClientInv, failure = "none", turn \in {"callbacks", "functions"},
         state = "Disconnected", channel = "null", fds = 0, conn = "none", ~gaveUp,
         StartTask(<<>>),
         batch' = <<>>, funcQueue' = <<>>, due' = 0,
         calls' \in 0 .. MaxCalls, calls' # MaxCalls,
         UNCHANGED <<connVars, turn, up, closes>>
  PROVE  ClientInv'
<1>1. UNCHANGED <<conn, registered, connection, holders>>
  BY DEF connVars
<1>t. /\ retryTimeoutSec \in Delays
      /\ batch' \in Seq({"start", "reset", "close"}) /\ funcQueue' \in Seq({"start", "reset", "close"})
      /\ Doubled \in Delays
      /\ \A delay \in Delays : Append(<<>>, delay) = <<delay>> /\ <<delay>> \in Seq(Delays)
                               /\ Len(<<delay>>) = 1
      /\ <<>> \in Seq(Delays) /\ Len(<<>>) = 0
  BY DoubledOK, OneTimer DEF ClientInv, TypeOK
<1>2. \/ /\ state' = "Connecting" /\ channel' = "watching" /\ fds' = 1 /\ timers' = <<>>
         /\ UNCHANGED <<retryTimeoutSec, gaveUp, failure>>
      \/ /\ state' = "Disconnected" /\ fds' = 0 /\ timers' = <<retryTimeoutSec>>
         /\ retryTimeoutSec' = Doubled
         /\ UNCHANGED <<channel, gaveUp, failure>>
      \/ /\ gaveUp' = TRUE /\ fds' \in {0, 1} /\ timers' = <<>>
         /\ UNCHANGED <<state, channel, retryTimeoutSec, failure>>
  BY <1>t DEF StartTask, Retry, Closed, WithTimer
<1>3. gaveUp' \in BOOLEAN /\ connection' \in BOOLEAN /\ up' \in BOOLEAN /\ registered' \in BOOLEAN
  BY <1>1, <1>2 DEF ClientInv, TypeOK
<1>4. timers' \in Seq(Delays) /\ due' \in 0 .. Len(timers') /\ retryTimeoutSec' \in Delays /\ fds' \in Nat
  <2>1. timers' = <<>> \/ timers' = <<retryTimeoutSec>>
    BY <1>2
  <2>2. timers' \in Seq(Delays) /\ Len(timers') \in {0, 1}
    BY <1>t, <2>1
  <2>3. due' \in 0 .. Len(timers')
    BY <2>2
  <2> QED
    BY <1>2, <1>t, <2>2, <2>3
<1>5. TypeOK'
  BY <1>1, <1>2, <1>3, <1>4, <1>t DEF ClientInv, TypeOK
<1>6. AssertsHold' /\ KeepsOK'
  BY <1>1, <1>2 DEF ClientInv, AssertsHold, KeepsOK
<1>7. Trying' \/ Waiting' \/ Stuck'
  BY <1>1, <1>2, <1>t DEF Trying, Waiting, Stuck, Empty
<1> QED
  BY <1>5, <1>6, <1>7 DEF ClientInv

Functions == {"start", "reset", "close"}

LEMMA ConnectInLoopInv == ASSUME MaxCalls <= 1, ClientInv, ConnectInLoop PROVE ClientInv'
<1>1. /\ failure = "none" /\ turn = "callbacks" /\ calls > 0 /\ calls' = calls - 1
      /\ StartTask(timers)
      /\ UNCHANGED <<connVars, turn, batch, funcQueue, due, up, closes>>
  BY DEF ConnectInLoop, InCallback, Running, loopVars
<1>2. calls = MaxCalls /\ calls' = 0 /\ calls' # MaxCalls
  BY <1>1, MaxCallsAssumption DEF ClientInv, TypeOK
<1>3. Fresh
  BY <1>1, <1>2 DEF ClientInv, Starting, Waiting, Trying, Made, Stuck, TypeOK
<1>4. due = 0
  BY <1>3 DEF Fresh, ClientInv, TypeOK
<1> QED
  BY <1>1, <1>2, <1>3, <1>4, MaxCallsAssumption, StartTaskInv DEF Fresh, Empty

LEMMA ConnectInv == ASSUME MaxCalls <= 1, ClientInv, Connect PROVE ClientInv'
<1>1. /\ failure = "none" /\ turn # "gone" /\ calls > 0 /\ calls' = calls - 1
      /\ funcQueue' = Append(funcQueue, "start")
      /\ UNCHANGED <<state, channel, retryTimeoutSec, fds, timers, gaveUp,
                     conn, registered, connection, holders, turn, batch, due, up, closes, failure>>
  BY DEF Connect, Running, connectorVars, connVars
<1>2. calls = MaxCalls /\ calls' = 0 /\ calls' # MaxCalls
  BY <1>1, MaxCallsAssumption DEF ClientInv, TypeOK
<1>3. Fresh
  BY <1>1, <1>2 DEF ClientInv, Starting, Waiting, Trying, Made, Stuck, TypeOK
<1>4. funcQueue' = <<"start">> /\ funcQueue' \in Seq(Functions)
  BY <1>1, <1>3 DEF Fresh, Empty, Functions
<1>5. gaveUp' \in BOOLEAN /\ connection' \in BOOLEAN /\ up' \in BOOLEAN /\ registered' \in BOOLEAN
  BY <1>1 DEF ClientInv, TypeOK
<1>6. TypeOK'
  BY <1>1, <1>2, <1>4, <1>5, MaxCallsAssumption DEF ClientInv, TypeOK, Functions
<1>7. Starting' /\ AssertsHold' /\ KeepsOK'
  BY <1>1, <1>2, <1>3, <1>4 DEF Fresh, Empty, Starting, ClientInv, AssertsHold, KeepsOK
<1> QED
  BY <1>6, <1>7 DEF ClientInv

(* A timer expires only when it is the one thing that is under way. *)
LEMMA TimerExpiresInv == ASSUME ClientInv, NEW i \in 1 .. due, TimerExpires(i) PROVE ClientInv'
<1>1. /\ failure = "none" /\ turn = "callbacks"
      /\ StartTask(RemoveAt(timers, i)) /\ due' = due - 1
      /\ UNCHANGED <<connVars, turn, batch, funcQueue, up, calls, closes>>
  BY DEF TimerExpires, InCallback, Running
<1>2. due \in Nat /\ due # 0 /\ due <= Len(timers)
  BY DEF ClientInv, TypeOK
<1>3. Waiting
  BY <1>2 DEF ClientInv, Fresh, Starting, Trying, Made, Stuck
<1>4. PICK delay \in Delays : timers = <<delay>>
  BY <1>3 DEF Waiting
<1>5. due = 1 /\ i = 1 /\ RemoveAt(timers, i) = <<>>
  BY <1>2, <1>4, OneTimer
<1>6. calls \in 0 .. MaxCalls
  BY DEF ClientInv, TypeOK
<1> QED
  BY <1>1, <1>3, <1>5, <1>6, StartTaskInv DEF Waiting, Empty

LEMMA HandleErrorInv == ASSUME ClientInv, HandleError PROVE ClientInv'
<1>1. /\ failure = "none" /\ turn = "callbacks" /\ channel = "watching"
      /\ channel' = "removed" /\ funcQueue' = Append(funcQueue, "reset")
      /\ fds' = fds - 1 /\ state' = "Disconnected"
      /\ timers' = Append(timers, retryTimeoutSec) /\ retryTimeoutSec' = Doubled
      /\ UNCHANGED <<conn, registered, connection, holders, turn, batch, due, up, calls, closes, gaveUp, failure>>
  BY DEF HandleError, InCallback, Running, RemoveChannel, Retry, Closed, WithTimer, connVars
<1>2. Trying
  BY <1>1 DEF ClientInv, Fresh, Starting, Waiting, Made, Stuck
<1>3. retryTimeoutSec \in Delays /\ retryTimeoutSec' \in Delays
  BY <1>1, DoubledOK DEF ClientInv, TypeOK
<1>4. /\ timers' = <<retryTimeoutSec>> /\ timers' \in Seq(Delays) /\ Len(timers') = 1
      /\ fds' = 0 /\ due' = 0
      /\ funcQueue' = <<"reset">> /\ funcQueue' \in Seq(Functions) /\ batch' = <<>>
  BY <1>1, <1>2, <1>3, OneTimer DEF Trying, Empty, Functions, ClientInv, TypeOK
<1>5. gaveUp' \in BOOLEAN /\ connection' \in BOOLEAN /\ up' \in BOOLEAN /\ registered' \in BOOLEAN
  BY <1>1 DEF ClientInv, TypeOK
<1>6. TypeOK'
  BY <1>1, <1>3, <1>4, <1>5 DEF ClientInv, TypeOK, Functions
<1>7. Waiting' /\ AssertsHold' /\ KeepsOK'
  BY <1>1, <1>2, <1>3, <1>4 DEF Trying, Waiting, ClientInv, AssertsHold, KeepsOK
<1> QED
  BY <1>6, <1>7 DEF ClientInv

LEMMA HandleWriteInv == ASSUME ClientInv, HandleWrite PROVE ClientInv'
<1>1. /\ failure = "none" /\ turn = "callbacks" /\ channel = "watching"
      /\ channel' = "removed" /\ funcQueue' = Append(funcQueue, "reset")
      /\ fds' = fds - 1 /\ state' = "Connected"
      /\ conn' = "connected" /\ registered' = TRUE /\ connection' = TRUE /\ Release
      /\ UNCHANGED <<holders, retryTimeoutSec, timers, gaveUp, turn, batch, due, up, calls, closes>>
  BY DEF HandleWrite, InCallback, Running, RemoveChannel, NewConnection
<1>2. Trying
  BY <1>1 DEF ClientInv, Fresh, Starting, Waiting, Made, Stuck
<1>3. failure' = "none"
  BY <1>1 DEF Release, Orphaned
<1>4. fds' = 0 /\ funcQueue' = <<"reset">> /\ funcQueue' \in Seq(Functions) /\ batch' = <<>>
  BY <1>1, <1>2 DEF Trying, Empty, Functions
<1>5. gaveUp' \in BOOLEAN /\ connection' \in BOOLEAN /\ up' \in BOOLEAN /\ registered' \in BOOLEAN
  BY <1>1 DEF ClientInv, TypeOK
<1>6. TypeOK'
  BY <1>1, <1>3, <1>4, <1>5 DEF ClientInv, TypeOK, Functions
<1>7. Made' /\ AssertsHold' /\ KeepsOK'
  BY <1>1, <1>2, <1>3, <1>4 DEF Trying, Made, Empty, Queued, ClientInv, AssertsHold, KeepsOK
<1> QED
  BY <1>6, <1>7 DEF ClientInv

(* Steps that leave the Connector and the queues alone. *)
LEMMA SameStage ==
  ASSUME ClientInv,
         UNCHANGED <<state, channel, fds, timers, gaveUp, conn, turn, batch, funcQueue, due, calls>>
  PROVE  (Fresh \/ Starting \/ Waiting \/ Trying \/ Made \/ Stuck)'
BY DEF ClientInv, Fresh, Starting, Waiting, Trying, Made, Stuck, Empty

LEMMA QueuedInRange ==
  ASSUME NEW p \in Seq(Functions), NEW q \in Seq(Functions), NEW f,
         Queued(p, f) \/ Queued(q, f)
  PROVE  f \in Range(p \o q)
<1> DEFINE r == p \o q
<1>1. /\ Len(p) \in Nat /\ Len(q) \in Nat /\ DOMAIN r = 1 .. Len(p) + Len(q)
      /\ DOMAIN p = 1 .. Len(p) /\ DOMAIN q = 1 .. Len(q)
      /\ \A i \in DOMAIN p : r[i] = p[i]
      /\ \A i \in DOMAIN q : r[Len(p) + i] = q[i]
  OBVIOUS
<1> HIDE DEF r
<1>2. \E i \in DOMAIN r : r[i] = f
  <2>1. CASE Queued(p, f)
    BY <1>1, <2>1 DEF Queued
  <2>2. CASE Queued(q, f)
    <3>1. PICK i \in DOMAIN q : q[i] = f
      BY <2>2 DEF Queued
    <3>2. Len(p) + i \in DOMAIN r /\ r[Len(p) + i] = f
      BY <1>1, <3>1
    <3> QED
      BY <3>2
  <2> QED
    BY <2>1, <2>2
<1> QED
  BY <1>2 DEF Range, r

LEMMA UsersInv ==
  ASSUME ClientInv, NEW u \in Users, GetConn(u) \/ DropConn(u) PROVE ClientInv'
<1>1. /\ failure = "none" /\ turn # "gone"
      /\ UNCHANGED <<state, channel, retryTimeoutSec, fds, timers, gaveUp,
                     conn, registered, connection, turn, batch, funcQueue, due, up, calls, closes>>
      /\ (connection /\ holders' = holders \cup {u}) \/ holders' = holders \ {u}
      /\ UNCHANGED failure \/ Release
  BY DEF GetConn, DropConn, Running, connectorVars, loopVars
<1>2. failure' = "none"
  <2>1. CASE conn = "disconnecting"
    <3>1. "close" \in Range(batch' \o funcQueue')
      BY <1>1, <2>1, QueuedInRange DEF ClientInv, TypeOK, KeepsOK, Functions
    <3> QED
      BY <1>1, <3>1 DEF Release, Orphaned
  <2>2. CASE conn # "disconnecting"
    BY <1>1, <2>2 DEF Release, Orphaned, ClientInv, KeepsOK
  <2> QED
    BY <2>1, <2>2
<1>3. gaveUp' \in BOOLEAN /\ connection' \in BOOLEAN /\ up' \in BOOLEAN /\ registered' \in BOOLEAN
  BY <1>1 DEF ClientInv, TypeOK
<1>4. TypeOK'
  BY <1>1, <1>2, <1>3 DEF ClientInv, TypeOK
<1>5. AssertsHold' /\ KeepsOK'
  BY <1>1, <1>2 DEF ClientInv, AssertsHold, KeepsOK
<1> QED
  BY <1>1, <1>4, <1>5, SameStage DEF ClientInv

LEMMA CloseInv == ASSUME ClientInv, NEW u \in Users, Close(u) PROVE ClientInv'
<1>1. /\ failure = "none" /\ turn # "gone" /\ u \in holders /\ conn' = "disconnecting"
      /\ closes > 0 /\ closes' = closes - 1
      /\ funcQueue' = Append(funcQueue, "close")
      /\ UNCHANGED <<state, channel, retryTimeoutSec, fds, timers, gaveUp,
                     registered, connection, holders, turn, batch, due, up, calls, failure>>
  BY DEF Close, Running, connectorVars
<1>2. Made /\ conn # "none"
  <2>1. conn # "none"
    BY <1>1 DEF ClientInv, KeepsOK
  <2> QED
    BY <2>1 DEF ClientInv, Fresh, Starting, Waiting, Trying, Stuck
<1>3. funcQueue' \in Seq(Functions) /\ closes' \in 0 .. MaxCloses
  BY <1>1, MaxClosesAssumption DEF ClientInv, TypeOK, Functions
<1>4. gaveUp' \in BOOLEAN /\ connection' \in BOOLEAN /\ up' \in BOOLEAN /\ registered' \in BOOLEAN
  BY <1>1 DEF ClientInv, TypeOK
<1>5. TypeOK'
  BY <1>1, <1>3, <1>4 DEF ClientInv, TypeOK, Functions
<1>6. /\ DOMAIN funcQueue' = 1 .. Len(funcQueue) + 1 /\ DOMAIN funcQueue = 1 .. Len(funcQueue)
      /\ \A i \in DOMAIN funcQueue : funcQueue'[i] = funcQueue[i]
      /\ Len(funcQueue) \in Nat /\ funcQueue'[Len(funcQueue) + 1] = "close"
  BY <1>1 DEF ClientInv, TypeOK, Functions
<1>7. Queued(funcQueue', "close") /\ (Queued(funcQueue, "reset") => Queued(funcQueue', "reset"))
  BY <1>6 DEF Queued
<1>8. \A i \in DOMAIN funcQueue' : funcQueue'[i] # "start"
  BY <1>2, <1>6 DEF Made
<1>9. Made'
  BY <1>1, <1>2, <1>7, <1>8 DEF Made
<1>10. AssertsHold' /\ KeepsOK'
  BY <1>1, <1>7 DEF ClientInv, AssertsHold, KeepsOK
<1> QED
  BY <1>5, <1>9, <1>10 DEF ClientInv

(* handleClose, of the peer's close or of close(). *)
LEMMA HandleCloseInv ==
  ASSUME ClientInv, failure = "none", HandleClose, UNCHANGED <<holders, up, closes, gaveUp>>
  PROVE  /\ conn' = "disconnected" /\ failure' \in {"none", "handleClose"}
         /\ registered' = FALSE /\ connection' \in BOOLEAN /\ up' \in BOOLEAN /\ gaveUp' \in BOOLEAN
BY DEF HandleClose, ClientInv, TypeOK

LEMMA PeerClosesInv == ASSUME ClientInv, PeerCloses PROVE ClientInv'
<1>1. /\ failure = "none" /\ registered /\ HandleClose
      /\ UNCHANGED <<state, channel, retryTimeoutSec, fds, timers, gaveUp,
                     holders, turn, batch, funcQueue, due, up, calls, closes>>
  BY DEF PeerCloses, InCallback, Running, connectorVars, loopVars
<1>2. /\ conn' = "disconnected" /\ failure' \in {"none", "handleClose"}
      /\ registered' = FALSE /\ connection' \in BOOLEAN /\ up' \in BOOLEAN /\ gaveUp' \in BOOLEAN
  BY <1>1, HandleCloseInv
<1>3. Made
  BY <1>1 DEF ClientInv, KeepsOK, Fresh, Starting, Waiting, Trying, Stuck
<1>4. TypeOK'
  BY <1>1, <1>2 DEF ClientInv, TypeOK
<1>5. Made'
  BY <1>1, <1>2, <1>3 DEF Made
<1>6. AssertsHold' /\ KeepsOK'
  BY <1>1, <1>2 DEF ClientInv, AssertsHold, KeepsOK
<1> QED
  BY <1>4, <1>5, <1>6 DEF ClientInv

LEMMA BeginFunctionsInv == ASSUME ClientInv, BeginFunctions PROVE ClientInv'
<1>1. /\ failure = "none" /\ turn = "callbacks" /\ turn' = "functions"
      /\ batch' = funcQueue /\ funcQueue' = <<>>
      /\ UNCHANGED <<state, channel, retryTimeoutSec, fds, timers, gaveUp,
                     conn, registered, connection, holders, due, up, calls, closes, failure>>
  BY DEF BeginFunctions, InCallback, Running, connectorVars, connVars
<1>2. gaveUp' \in BOOLEAN /\ connection' \in BOOLEAN /\ up' \in BOOLEAN /\ registered' \in BOOLEAN
  BY <1>1 DEF ClientInv, TypeOK
<1>3. batch' \in Seq(Functions) /\ funcQueue' \in Seq(Functions)
  BY <1>1 DEF ClientInv, TypeOK, Functions
<1>4. TypeOK'
  BY <1>1, <1>2, <1>3 DEF ClientInv, TypeOK, Functions
<1>5. AssertsHold' /\ KeepsOK'
  BY <1>1 DEF ClientInv, AssertsHold, KeepsOK
<1>6. (Fresh \/ Starting \/ Waiting \/ Trying \/ Made \/ Stuck)'
  <2>1. CASE Fresh \/ Trying \/ Stuck
    BY <1>1, <2>1 DEF Fresh, Trying, Stuck, Empty
  <2>2. CASE Starting \/ Waiting
    BY <1>1, <2>2 DEF Starting, Waiting, Empty
  <2>3. CASE Made
    BY <1>1, <2>3 DEF Made
  <2> QED
    BY <2>1, <2>2, <2>3 DEF ClientInv
<1> QED
  BY <1>4, <1>5, <1>6 DEF ClientInv

LEMMA Shorter ==
  \A f \in Functions : Head(<<f>>) = f /\ Tail(<<f>>) = <<>>
BY DEF Functions

LEMMA TailQueued ==
  ASSUME NEW q \in Seq(Functions), q # <<>>
  PROVE  /\ Tail(q) \in Seq(Functions) /\ Head(q) = q[1] /\ 1 \in DOMAIN q
         /\ \A i \in DOMAIN Tail(q) : \E j \in DOMAIN q : Tail(q)[i] = q[j]
         /\ \A f : Queued(q, f) /\ Head(q) # f => Queued(Tail(q), f)
<1> DEFINE t == Tail(q)
<1>1. /\ Len(q) \in Nat \ {0} /\ DOMAIN q = 1 .. Len(q) /\ DOMAIN t = 1 .. Len(q) - 1
      /\ t \in Seq(Functions) /\ Head(q) = q[1]
      /\ \A i \in 1 .. Len(q) - 1 : t[i] = q[i + 1]
  OBVIOUS
<1> HIDE DEF t
<1>2. \A i \in DOMAIN t : \E j \in DOMAIN q : t[i] = q[j]
  <2> SUFFICES ASSUME NEW i \in DOMAIN t PROVE \E j \in DOMAIN q : t[i] = q[j]
    OBVIOUS
  <2>1. i + 1 \in DOMAIN q /\ t[i] = q[i + 1]
    BY <1>1
  <2> QED
    BY <2>1
<1>3. ASSUME NEW f, Queued(q, f), Head(q) # f PROVE Queued(t, f)
  <2>1. PICK j \in DOMAIN q : q[j] = f
    BY <1>3 DEF Queued
  <2>2. j - 1 \in DOMAIN t /\ t[j - 1] = q[j]
    BY <1>1, <1>3, <2>1
  <2> QED
    BY <2>1, <2>2 DEF Queued
<1> QED
  BY <1>1, <1>2, <1>3 DEF t

LEMMA RunFunctionInv == ASSUME ClientInv, RunFunction PROVE ClientInv'
<1>1. /\ failure = "none" /\ turn = "functions" /\ batch # <<>> /\ batch' = Tail(batch)
      /\ UNCHANGED <<turn, funcQueue, due, up, calls, closes>>
  BY DEF RunFunction, Running
<1>2. calls \in 0 .. MaxCalls /\ batch \in Seq(Functions)
  BY DEF ClientInv, TypeOK, Functions
<1>q. /\ batch' \in Seq(Functions) /\ Head(batch) = batch[1] /\ 1 \in DOMAIN batch
      /\ \A i \in DOMAIN batch' : \E j \in DOMAIN batch : batch'[i] = batch[j]
      /\ \A f : Queued(batch, f) /\ Head(batch) # f => Queued(batch', f)
  BY <1>1, <1>2, TailQueued
<1>3. \/ Starting /\ batch = <<"start">>
      \/ Waiting /\ batch = <<"reset">>
      \/ Made /\ Head(batch) \in {"reset", "close"}
  <2>1. Made => Head(batch) # "start"
    BY <1>q DEF Made
  <2>2. Head(batch) \in Functions
    BY <1>2, <1>q
  <2> QED
    BY <1>1, <2>1, <2>2 DEF ClientInv, Fresh, Starting, Waiting, Trying, Stuck, Empty, Functions
<1>4. CASE Starting /\ batch = <<"start">>
  <2>1. StartTask(timers) /\ timers = <<>> /\ UNCHANGED connVars
    BY <1>4, Shorter DEF RunFunction, Starting, Functions
  <2>2. due = 0
    BY <2>1 DEF ClientInv, TypeOK
  <2>3. batch' = <<>> /\ funcQueue' = <<>>
    BY <1>1, <1>4 DEF Starting
  <2> QED
    BY <1>1, <1>2, <1>4, <2>1, <2>2, <2>3, StartTaskInv DEF Starting
<1>5. CASE Head(batch) = "reset" /\ (Waiting \/ Made)
  <2>1. /\ channel' = "null"
        /\ UNCHANGED <<state, retryTimeoutSec, fds, timers, gaveUp, conn, registered, connection,
                       holders, failure>>
    BY <1>5 DEF RunFunction, connVars
  <2>2. gaveUp' \in BOOLEAN /\ connection' \in BOOLEAN /\ up' \in BOOLEAN /\ registered' \in BOOLEAN
    BY <1>1, <2>1 DEF ClientInv, TypeOK
  <2>3. TypeOK'
    BY <1>1, <1>q, <2>1, <2>2 DEF ClientInv, TypeOK, Functions
  <2>4. AssertsHold' /\ KeepsOK'
    BY <1>1, <1>5, <1>q, <2>1 DEF ClientInv, AssertsHold, KeepsOK
  <2>5. CASE Waiting
    <3>1. batch = <<"reset">> /\ batch' = <<>> /\ funcQueue' = <<>>
      BY <1>1, <2>5, Shorter DEF Waiting, Functions, Empty
    <3>2. Waiting'
      BY <1>1, <2>1, <2>5, <3>1 DEF Waiting, Empty
    <3> QED
      BY <2>3, <2>4, <3>2 DEF ClientInv
  <2>6. CASE Made
    <3>1. Made'
      BY <1>1, <1>q, <2>1, <2>6 DEF Made
    <3> QED
      BY <2>3, <2>4, <3>1 DEF ClientInv
  <2> QED
    BY <1>5, <2>5, <2>6
<1>6. CASE Made /\ Head(batch) = "close"
  <2>1. /\ HandleClose
        /\ UNCHANGED <<state, channel, retryTimeoutSec, fds, timers, gaveUp, holders>>
    BY <1>6 DEF RunFunction, connectorVars
  <2>2. /\ conn' = "disconnected" /\ failure' \in {"none", "handleClose"}
        /\ registered' = FALSE /\ connection' \in BOOLEAN /\ up' \in BOOLEAN /\ gaveUp' \in BOOLEAN
    BY <1>1, <2>1, HandleCloseInv
  <2>3. TypeOK'
    BY <1>1, <1>q, <2>1, <2>2 DEF ClientInv, TypeOK, Functions
  <2>4. AssertsHold' /\ KeepsOK'
    BY <1>1, <2>2 DEF AssertsHold, KeepsOK
  <2>5. channel = "removed" => Queued(batch', "reset")
    BY <1>1, <1>6, <1>q DEF Made
  <2>6. Made'
    BY <1>1, <1>6, <1>q, <2>1, <2>2, <2>5 DEF Made
  <2> QED
    BY <2>3, <2>4, <2>6 DEF ClientInv
<1> QED
  BY <1>3, <1>4, <1>5, <1>6, Shorter DEF Functions

LEMMA EndTurnInv == ASSUME ClientInv, EndTurn PROVE ClientInv'
<1>1. /\ failure = "none" /\ turn = "functions" /\ batch = <<>>
      /\ turn' \in {"callbacks", "stopped"} /\ due' = Len(timers)
      /\ UNCHANGED <<state, channel, retryTimeoutSec, fds, timers, gaveUp,
                     conn, registered, connection, holders, batch, funcQueue, up, calls, closes, failure>>
  BY DEF EndTurn, Running, connectorVars, connVars
<1>2. gaveUp' \in BOOLEAN /\ connection' \in BOOLEAN /\ up' \in BOOLEAN /\ registered' \in BOOLEAN
  BY <1>1 DEF ClientInv, TypeOK
<1>3. due' \in 0 .. Len(timers')
  BY <1>1 DEF ClientInv, TypeOK
<1>4. TypeOK'
  BY <1>1, <1>2, <1>3 DEF ClientInv, TypeOK
<1>5. AssertsHold' /\ KeepsOK'
  BY <1>1 DEF ClientInv, AssertsHold, KeepsOK
<1>6. (Fresh \/ Starting \/ Waiting \/ Trying \/ Made \/ Stuck)'
  <2>1. ~Queued(batch, "reset")
    BY <1>1 DEF Queued
  <2> QED
    BY <1>1, <2>1 DEF ClientInv, Fresh, Starting, Waiting, Trying, Made, Stuck, Empty
<1> QED
  BY <1>4, <1>5, <1>6 DEF ClientInv

LEMMA ServerChangesInv == ASSUME ClientInv, ServerChanges PROVE ClientInv'
<1>1. /\ up' \in BOOLEAN
      /\ UNCHANGED <<state, channel, retryTimeoutSec, fds, timers, gaveUp,
                     conn, registered, connection, holders, turn, batch, funcQueue, due, calls, closes, failure>>
  BY DEF ServerChanges, connectorVars, connVars, loopVars
<1>2. gaveUp' \in BOOLEAN /\ connection' \in BOOLEAN /\ registered' \in BOOLEAN
  BY <1>1 DEF ClientInv, TypeOK
<1>3. TypeOK' /\ AssertsHold' /\ KeepsOK'
  BY <1>1, <1>2 DEF ClientInv, TypeOK, AssertsHold, KeepsOK
<1> QED
  BY <1>1, <1>3, SameStage DEF ClientInv

(* The destructor finds no channel half-way to its own. *)
LEMMA DtorInv == ASSUME ClientInv, Dtor PROVE ClientInv'
<1>1. /\ turn = "stopped" /\ turn' = "gone" /\ connection' = FALSE
      /\ failure' \in {"none", "~TcpConnection", IF channel = "removed" THEN "~Connector" ELSE "none"}
      /\ fds' = IF channel = "watching" THEN fds - 1 ELSE fds
      /\ UNCHANGED <<state, channel, retryTimeoutSec, timers, gaveUp, conn, registered, holders,
                     batch, funcQueue, due, up, calls, closes>>
  BY DEF Dtor
<1>2. channel # "removed"
  BY <1>1 DEF ClientInv, Fresh, Starting, Waiting, Trying, Made, Stuck
<1>3. fds' \in Nat
  BY <1>1 DEF ClientInv, TypeOK, Fresh, Starting, Waiting, Trying, Made, Stuck
<1>4. gaveUp' \in BOOLEAN /\ connection' \in BOOLEAN /\ up' \in BOOLEAN /\ registered' \in BOOLEAN
  BY <1>1 DEF ClientInv, TypeOK
<1>5. TypeOK'
  BY <1>1, <1>2, <1>3, <1>4 DEF ClientInv, TypeOK
<1>6. AssertsHold' /\ KeepsOK'
  BY <1>1, <1>2 DEF ClientInv, AssertsHold, KeepsOK
<1>7. (Fresh \/ Starting \/ Waiting \/ Trying \/ Made \/ Stuck)'
  BY <1>1, <1>2 DEF ClientInv, Fresh, Starting, Waiting, Trying, Made, Stuck, Empty
<1> QED
  BY <1>5, <1>6, <1>7 DEF ClientInv

-----------------------------------------------------------------------------
LEMMA NextClientInv == ASSUME MaxCalls <= 1, ClientInv, [Next]_vars PROVE ClientInv'
<1>1. ASSUME Over \/ UNCHANGED vars PROVE ClientInv'
  <2>1. UNCHANGED <<connectorVars, connVars, loopVars, up, calls, closes, failure>>
    BY <1>1 DEF Over, vars
  <2>2. UNCHANGED <<state, channel, retryTimeoutSec, fds, timers, gaveUp, conn, registered, connection, holders,
                    turn, batch, funcQueue, due, up, calls, closes, failure>>
    BY <2>1 DEF connectorVars, connVars, loopVars
  <2>3. gaveUp' \in BOOLEAN /\ connection' \in BOOLEAN /\ up' \in BOOLEAN /\ registered' \in BOOLEAN
    BY <2>2 DEF ClientInv, TypeOK
  <2>4. TypeOK' /\ AssertsHold' /\ KeepsOK'
    BY <2>2, <2>3 DEF ClientInv, TypeOK, AssertsHold, KeepsOK
  <2> QED
    BY <2>2, <2>4, SameStage DEF ClientInv
<1> QED
  BY <1>1, ConnectInLoopInv, ConnectInv, TimerExpiresInv, HandleErrorInv, HandleWriteInv,
    PeerClosesInv, UsersInv, CloseInv, BeginFunctionsInv, RunFunctionInv, EndTurnInv,
    ServerChangesInv, DtorInv DEF Next

(* The invariant that the results below rest on: the stages the Connector  *)
(* goes through, with what the queues hold in each.                        *)
THEOREM ClientInvariant == ASSUME MaxCalls <= 1 PROVE Spec => []ClientInv
BY InitClientInv, NextClientInv, PTL DEF Spec

(* No assertion of the Connector fails, and the client keeps its           *)
(* connection until it is disconnected (connector.cc:50, 84, 138-145,      *)
(* tcp_client.cc:57-86).                                                   *)
THEOREM AssertsCorrect == ASSUME MaxCalls <= 1 PROVE Spec => []AssertsHold
<1>1. ClientInv => AssertsHold
  BY DEF ClientInv
<1> QED
  BY <1>1, ClientInvariant, PTL

(* Every descriptor is watched, closed or passed on, unless connect(2)     *)
(* failed in a way that is not retried (connector.cc:30-136).              *)
THEOREM DescriptorsCorrect == ASSUME MaxCalls <= 1 PROVE Spec => []DescriptorsOwned
<1>1. ClientInv => DescriptorsOwned
  BY DEF ClientInv, DescriptorsOwned, Fresh, Starting, Waiting, Trying, Made, Stuck
<1> QED
  BY <1>1, ClientInvariant, PTL

LEMMA DriversIs ==
  ASSUME ClientInv
  PROVE  Driven
<1> DEFINE queued == batch \o funcQueue
           starts == {<<"start", i>> : i \in {j \in DOMAIN queued : queued[j] = "start"}}
           watched == IF channel = "watching" THEN {<<"channel", 0>>} ELSE {}
<1>1. Drivers = starts \cup {<<"timer", i>> : i \in DOMAIN timers} \cup watched
  BY DEF Drivers
<1>2. Cardinality({}) = 0 /\ \A x : Cardinality({x}) = 1
  BY FS_EmptySet, FS_Singleton
<1>3. /\ batch \in Seq(Functions) /\ funcQueue \in Seq(Functions)
      /\ batch = <<>> => queued = funcQueue
      /\ funcQueue = <<>> => queued = batch
  BY ConcatEmptySeq DEF ClientInv, TypeOK, Functions
<1> HIDE DEF queued
<1>5. CASE Fresh
  <2>1. queued = <<>>
    BY <1>3, <1>5 DEF Fresh, Empty
  <2>2. Drivers = {}
    BY <1>1, <1>5, <2>1 DEF Fresh
  <2> QED
    BY <1>2, <1>5, <2>2 DEF Driven, Fresh
<1>6. CASE Starting
  <2>1. queued = <<"start">>
    BY <1>3, <1>6 DEF Starting
  <2>2. starts = {<<"start", 1>>}
    BY <2>1
  <2>3. Drivers = {<<"start", 1>>}
    BY <1>1, <1>6, <2>2 DEF Starting
  <2> QED
    BY <1>2, <1>6, <2>3 DEF Driven, Starting
<1>7. CASE Waiting
  <2>1. queued = <<>> \/ queued = <<"reset">>
    BY <1>3, <1>7 DEF Waiting, Empty
  <2>2. starts = {}
    BY <2>1
  <2>3. DOMAIN timers = {1}
    BY <1>7 DEF Waiting
  <2>4. Drivers = {<<"timer", 1>>}
    BY <1>1, <1>7, <2>2, <2>3 DEF Waiting
  <2> QED
    BY <1>2, <1>7, <2>4 DEF Driven, Waiting
<1>8. CASE Trying
  <2>1. queued = <<>>
    BY <1>3, <1>8 DEF Trying, Empty
  <2>2. Drivers = {<<"channel", 0>>}
    BY <1>1, <1>8, <2>1 DEF Trying
  <2> QED
    BY <1>2, <1>8, <2>2 DEF Driven, Trying
<1>9. CASE Made
  <2>1. "start" \notin Range(batch) \cup Range(funcQueue)
    BY <1>9 DEF Made, Range
  <2>2. starts = {}
    <3> SUFFICES ASSUME NEW i \in DOMAIN queued PROVE queued[i] # "start"
      OBVIOUS
    <3>1. queued[i] \in Range(batch) \cup Range(funcQueue)
      BY DEF ClientInv, TypeOK, Range, queued
    <3> QED
      BY <2>1, <3>1
  <2>3. Drivers = {}
    BY <1>1, <1>9, <2>2 DEF Made
  <2> QED
    BY <1>2, <1>9, <2>3 DEF Driven, Made
<1>10. CASE Stuck
  <2>1. queued = <<>>
    BY <1>3, <1>10 DEF Stuck, Empty
  <2>2. Drivers = {}
    BY <1>1, <1>10, <2>1 DEF Stuck
  <2> QED
    BY <1>2, <1>10, <2>2 DEF Driven, Stuck
<1> QED
  BY <1>5, <1>6, <1>7, <1>8, <1>9, <1>10 DEF ClientInv

(* One thing keeps the Connector going until it has connected, and no two  *)
(* attempts are under way at once (connector.cc:82-136).                   *)
THEOREM DrivenCorrect == ASSUME MaxCalls <= 1 PROVE Spec => []Driven
BY DriversIs, ClientInvariant, PTL

-----------------------------------------------------------------------------
(* The registry *)

(* The client forgets its connection as that closes, and a second close    *)
(* stops at an assertion.                                                  *)
LEMMA HandleCloseIsClose ==
  ASSUME ClientInv, conn # "none", HandleClose, UNCHANGED turn
  PROVE  [Registry!Next]_(Registry!rvars)
<1>1. CASE ~registered
  BY <1>1 DEF HandleClose, Phase, Registry!rvars
<1>2. CASE registered
  <2>1. Phase = "open" /\ Phase' = "closed" /\ ~connection'
    BY <1>2 DEF HandleClose, Phase
  <2>2. Registry!Close("server")
    BY <2>1 DEF Registry!Close
  <2> QED
    BY <2>2 DEF Registry!Next
<1> QED
  BY <1>1, <1>2

LEMMA NextRegistryStep ==
  ASSUME ClientInv, [Next]_vars PROVE [Registry!Next]_(Registry!rvars)
<1>1. ASSUME UNCHANGED <<conn, registered, connection, turn>> PROVE UNCHANGED Registry!rvars
  BY <1>1 DEF Registry!rvars, Phase
<1>2. CASE HandleWrite
  <2>1. /\ turn = "callbacks" /\ turn' = turn /\ state = "Connecting"
        /\ conn' = "connected" /\ registered' /\ connection'
    BY <1>2 DEF HandleWrite, InCallback, NewConnection
  <2>2. conn = "none"
    BY <2>1 DEF ClientInv, Fresh, Starting, Waiting, Trying, Made, Stuck
  <2>3. Phase = "new" /\ Phase' = "open"
    BY <2>1, <2>2 DEF Phase
  <2>4. Registry!Accept("server", "open")
    BY <2>1, <2>3 DEF Registry!Accept
  <2> QED
    BY <2>4 DEF Registry!Next
<1>3. ASSUME NEW u \in Users, Close(u) PROVE UNCHANGED Registry!rvars
  <2>1. conn # "none" /\ conn' # "none"
    BY <1>3 DEF Close, ClientInv, KeepsOK
  <2>2. Phase' = Phase /\ UNCHANGED <<connection, turn>>
    BY <1>3, <2>1 DEF Close, Phase
  <2> QED
    BY <2>2 DEF Registry!rvars
<1>4. CASE PeerCloses
  BY <1>4, HandleCloseIsClose DEF PeerCloses, loopVars, ClientInv, KeepsOK
<1>5. CASE RunFunction
  <2>1. \/ HandleClose /\ Head(batch) = "close"
        \/ UNCHANGED <<conn, registered, connection>>
    BY <1>5 DEF RunFunction, connVars
  <2>2. turn' = turn /\ turn = "functions" /\ batch # <<>>
    BY <1>5 DEF RunFunction
  <2>3. Head(batch) = "close" => conn # "none"
    BY <2>2, Shorter DEF ClientInv, Fresh, Starting, Waiting, Trying, Made, Stuck, Empty, Functions
  <2> QED
    BY <1>1, <2>1, <2>2, <2>3, HandleCloseIsClose
<1>6. CASE BeginFunctions \/ EndTurn
  <2>1. /\ UNCHANGED <<conn, registered, connection>>
        /\ turn \notin {"stopped", "gone"}
        /\ turn' \in {"callbacks", "functions", "stopped"}
    BY <1>6 DEF BeginFunctions, EndTurn, InCallback, connVars
  <2>2. CASE turn' = "stopped"
    <3>1. Registry!Leave
      BY <2>1, <2>2 DEF Registry!Leave, Phase
    <3> QED
      BY <3>1 DEF Registry!Next
  <2>3. CASE turn' # "stopped"
    BY <2>1, <2>3 DEF Registry!rvars, Phase
  <2> QED
    BY <2>2, <2>3
<1>7. CASE Dtor
  <2>1. /\ turn = "stopped" /\ turn' = "gone"
        /\ UNCHANGED <<conn, registered>> /\ connection' = FALSE
    BY <1>7 DEF Dtor
  <2>2. Registry!Abandon
    BY <2>1 DEF Registry!Abandon, Phase
  <2> QED
    BY <2>2 DEF Registry!Next
<1>8. CASE \/ ConnectInLoop \/ Connect \/ (\E i \in 1 .. due : TimerExpires(i))
           \/ HandleError \/ (\E u \in Users : GetConn(u) \/ DropConn(u))
           \/ ServerChanges \/ Over \/ UNCHANGED vars
  BY <1>1, <1>8 DEF ConnectInLoop, Connect, TimerExpires, HandleError, GetConn, DropConn,
    ServerChanges, Over, vars, connVars, loopVars
<1> QED
  BY <1>1, <1>2, <1>3, <1>4, <1>5, <1>6, <1>7, <1>8 DEF Next

(* The connection opens once and closes once, is kept until it is closed,  *)
(* and is abandoned only by ~TcpClient, whoever closes it first            *)
(* (tcp_client.cc:43-86).                                                  *)
THEOREM ImplementsRegistry == ASSUME MaxCalls <= 1 PROVE Spec => RegistrySpec
<1>1. Init => Registry!Init
  BY DEF Init, Registry!Init, Phase
<1> QED
  BY <1>1, ClientInvariant, NextRegistryStep, PTL DEF Spec, RegistrySpec, Registry!Spec
=============================================================================
