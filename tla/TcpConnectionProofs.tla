-------------------------- MODULE TcpConnectionProofs --------------------------
(***************************************************************************)
(* For any workers, messages and send buffer: what is buffered is polled   *)
(* for, the stream is intact, the FIN comes last, the connection stays     *)
(* with its own descriptor, and no assertion fails, unless a call from     *)
(* another thread was overtaken.                                           *)
(***************************************************************************)
EXTENDS TcpConnection, SequenceTheorems, TLAPS

Bytes == Msgs \X {1, 2}
Tasks == {<<"send", m>> : m \in Msgs} \cup {<<"shutdown">>, <<"close">>}
Steps ==
  {<<"none">>, <<"disconnecting", "shutdown">>, <<"disconnecting", "close">>} \cup Tasks

DataOK ==
  /\ outBuf \in Seq(Bytes) /\ sent \in Seq(Bytes) /\ accepted \in Seq(Msgs)
  /\ tasks \in Seq(Tasks)
  /\ calls \in [Workers -> Steps]
  /\ toSend \subseteq Msgs

(* While it is registered the channel waits for input, and for output when *)
(* there is some.                                                          *)
PolledOK == registered => "in" \in events /\ (Writing <=> outBuf # <<>>)

(* Before connEstablished nothing has happened; afterwards the connection  *)
(* is registered as long as it is Connected, and what is registered has    *)
(* its socket and its server.                                              *)
LifeOK ==
  /\ ~Established =>
       /\ ~registered /\ outBuf = <<>> /\ tasks = <<>> /\ socketOpen
       /\ "server" \in owners
       /\ \A w \in Workers : calls[w] = <<"none">>
  /\ state = "Connected" => registered
  /\ registered => socketOpen /\ "server" \in owners
  /\ ~alive => owners = {}

(* Who shuts down has given up Connected before, so that no send follows. *)
ShutsDown ==
  \/ fin
  \/ <<"shutdown">> \in Range(tasks)
  \/ \E w \in Workers : calls[w] = <<"shutdown">>
FinOK == ShutsDown => state \in {"Disconnecting", "Disconnected"}

(* What overtaking excuses. *)
ClosedOK ==
  ~overtaken =>
    /\ ~aborted /\ ~stray
    /\ Established /\ ~registered => state = "Disconnected"
    /\ fin => outBuf = <<>> \/ ~registered

ConnInv == TypeOK /\ DataOK /\ PolledOK /\ LifeOK /\ FinOK /\ ClosedOK
-----------------------------------------------------------------------------
LEMMA InitConnInv == Init => ConnInv
<1> SUFFICES ASSUME Init PROVE ConnInv
  OBVIOUS
<1> USE DEF Init
<1>1. TypeOK
  <2>1. /\ registered \in BOOLEAN /\ socketOpen \in BOOLEAN /\ stray \in BOOLEAN
        /\ fin \in BOOLEAN /\ peerClosed \in BOOLEAN /\ mayClose \in BOOLEAN
        /\ alive \in BOOLEAN /\ aborted \in BOOLEAN /\ overtaken \in BOOLEAN
    OBVIOUS
  <2>2. /\ registered <=> events # {}
        /\ events \subseteq {"in", "out"}
        /\ owners \subseteq Workers \cup {"server"}
    OBVIOUS
  <2>3. inFlight \in 0 .. Room
    BY RoomAssumption
  <2> QED
    BY <2>1, <2>2, <2>3 DEF TypeOK
<1>2. DataOK /\ Range(tasks) = {}
  BY EmptySeq DEF DataOK, Steps, Range
<1>3. PolledOK /\ LifeOK /\ ClosedOK
  BY DEF PolledOK, LifeOK, ClosedOK, Established
<1>4. FinOK
  BY <1>2 DEF FinOK, ShutsDown
<1> QED
  BY <1>1, <1>2, <1>3, <1>4 DEF ConnInv

(* A write takes no more than there is, and than there is room for. *)
LEMMA AcceptsBound ==
  ASSUME TypeOK, NEW n \in Nat
  PROVE  Accepts(n) \in 0 .. n /\ inFlight + Accepts(n) \in 0 .. Room
BY RoomAssumption DEF TypeOK, Accepts

(* Cutting bytes in two: both parts are bytes, of the lengths they should  *)
(* have.                                                                   *)
LEMMA CutProperties ==
  ASSUME NEW s \in Seq(Bytes), NEW n \in 0 .. Len(s)
  PROVE  /\ SubSeq(s, 1, n) \in Seq(Bytes) /\ Len(SubSeq(s, 1, n)) = n
         /\ \A i \in 1 .. n : SubSeq(s, 1, n)[i] = s[i]
         /\ Left(s, n) \in Seq(Bytes) /\ Len(Left(s, n)) = Len(s) - n
         /\ \A i \in 1 .. Len(s) - n : Left(s, n)[i] = s[n + i]
         /\ Left(s, n) = <<>> <=> n = Len(s)
<1>1. Len(s) \in Nat /\ \A i \in 1 .. Len(s) : s[i] \in Bytes
  BY ElementOfSeq
<1>2. SubSeq(s, 1, n) \in Seq(Bytes) /\ SubSeq(s, n + 1, Len(s)) \in Seq(Bytes)
  BY <1>1, SubSeqProperties
<1>3. Len(SubSeq(s, 1, n)) = n /\ Len(SubSeq(s, n + 1, Len(s))) = Len(s) - n
  BY <1>1, SubSeqProperties
<1>4. /\ \A i \in 1 .. n : SubSeq(s, 1, n)[i] = s[i]
      /\ \A i \in 1 .. Len(s) - n : SubSeq(s, n + 1, Len(s))[i] = s[n + i]
  BY <1>1, SubSeqProperties
<1>5. ASSUME NEW t \in Seq(Bytes) PROVE t = <<>> <=> Len(t) = 0
  BY EmptySeq
<1>6. SubSeq(s, n + 1, Len(s)) = <<>> <=> n = Len(s)
  <2> DEFINE t == SubSeq(s, n + 1, Len(s))
  <2>1. t \in Seq(Bytes) /\ Len(t) = Len(s) - n
    BY <1>2, <1>3
  <2> HIDE DEF t
  <2>2. t = <<>> <=> n = Len(s)
    BY <1>1, <1>5, <2>1
  <2> QED
    BY <2>2 DEF t
<1> QED
  BY <1>2, <1>3, <1>4, <1>6 DEF Left

LEMMA MessageBytes ==
  ASSUME NEW m \in Msgs
  PROVE  BytesOf(m) \in Seq(Bytes) /\ Len(BytesOf(m)) = 2
BY DEF BytesOf, Bytes

(* sendTask buffers what it does not write, and waits for output if it     *)
(* buffers the first bytes; on a registered channel nothing fails.         *)
LEMMA SendTaskKeeps ==
  ASSUME TypeOK, DataOK, PolledOK, NEW m \in Msgs, SendTask(m), UNCHANGED registered
  PROVE  /\ outBuf' \in Seq(Bytes) /\ sent' \in Seq(Bytes) /\ accepted' \in Seq(Msgs)
         /\ inFlight' \in 0 .. Room
         /\ events' \subseteq {"in", "out"} /\ (registered <=> events' # {})
         /\ PolledOK'
         /\ aborted' \in BOOLEAN /\ stray' \in BOOLEAN
         /\ registered => aborted' = aborted
         /\ socketOpen => stray' = stray
<1> DEFINE bytes == BytesOf(m)
           tried == ~Writing /\ outBuf = <<>>
           n == IF tried THEN Accepts(Len(bytes)) ELSE 0
<1>1. bytes \in Seq(Bytes) /\ Len(bytes) = 2
  BY MessageBytes
<1>2. n \in 0 .. Len(bytes) /\ inFlight + n \in 0 .. Room
  <2>1. Accepts(2) \in 0 .. 2 /\ inFlight + Accepts(2) \in 0 .. Room
    BY AcceptsBound
  <2> QED
    BY <1>1, <2>1, RoomAssumption DEF TypeOK
<1>3. /\ SubSeq(bytes, 1, n) \in Seq(Bytes) /\ Left(bytes, n) \in Seq(Bytes)
      /\ Left(bytes, n) = <<>> <=> n = 2
  <2> HIDE DEF bytes, n
  <2>1. /\ SubSeq(bytes, 1, n) \in Seq(Bytes) /\ Left(bytes, n) \in Seq(Bytes)
        /\ Left(bytes, n) = <<>> <=> n = Len(bytes)
    BY <1>1, <1>2, CutProperties
  <2> QED
    BY <1>1, <2>1
<1>4. stray' = (stray \/ (tried /\ ~socketOpen))
  BY DEF SendTask
<1>5. stray' \in BOOLEAN /\ (socketOpen => stray' = stray)
  BY <1>4 DEF TypeOK
<1> HIDE DEF bytes
<1>6. CASE tried /\ n = 0
  <2>1. UNCHANGED <<outBuf, accepted, sent, inFlight, events, aborted>>
    BY <1>6 DEF SendTask, bytes
  <2> QED
    BY <1>5, <2>1 DEF TypeOK, DataOK, PolledOK, Writing
<1>7. CASE ~(tried /\ n = 0)
  <2>1. /\ sent' = sent \o SubSeq(bytes, 1, n)
        /\ inFlight' = inFlight + n
        /\ outBuf' = outBuf \o Left(bytes, n)
        /\ accepted' = Append(accepted, m)
        /\ IF EnablesWriting(Left(bytes, n))
             THEN ChannelWaitsFor(events \cup {"out"})
             ELSE UNCHANGED <<events, aborted>>
    BY <1>7 DEF SendTask, Write, bytes
  <2>2. /\ sent' \in Seq(Bytes) /\ outBuf' \in Seq(Bytes) /\ accepted' \in Seq(Msgs)
        /\ outBuf' = <<>> <=> outBuf = <<>> /\ Left(bytes, n) = <<>>
    BY <1>3, <2>1, ConcatProperties, ConcatEqualIffEmpty, AppendProperties DEF DataOK
  <2>3. /\ events' \subseteq {"in", "out"} /\ (registered <=> events' # {})
        /\ aborted' \in BOOLEAN /\ (registered => aborted' = aborted)
    BY <2>1 DEF TypeOK, ChannelWaitsFor
  <2>4. ASSUME registered PROVE "in" \in events' /\ ("out" \in events' <=> outBuf' # <<>>)
    <3>1. "in" \in events /\ ("out" \in events <=> outBuf # <<>>)
      BY <2>4 DEF PolledOK, Writing
    <3>2. Left(bytes, n) = <<>> => outBuf = <<>>
      BY <1>1, <1>3, <3>1 DEF Writing
    <3> QED
      BY <2>1, <2>2, <2>4, <3>1, <3>2 DEF EnablesWriting, Writing, ChannelWaitsFor
  <2> QED
    BY <1>2, <1>5, <2>1, <2>2, <2>3, <2>4 DEF PolledOK, Writing
<1> QED
  BY <1>6, <1>7
(* handleClose leaves the channel unregistered, whatever it finds; only on *)
(* a registered channel does no assertion fail.                            *)
LEMMA HandleCloseKeeps ==
  ASSUME TypeOK, HandleClose
  PROVE  /\ state' = "Disconnected" /\ ~registered' /\ events' = {}
         /\ registered' \in BOOLEAN /\ aborted' \in BOOLEAN
         /\ registered => aborted' = aborted
BY DEF TypeOK, HandleClose, ClosedState

(* handleWrite takes bytes from the front of outBuf_, and stops waiting    *)
(* for output, and shuts down, when none is left.                          *)
LEMMA HandleWriteKeeps ==
  ASSUME TypeOK, DataOK, PolledOK, HandleWrite
  PROVE  /\ outBuf' \in Seq(Bytes) /\ sent' \in Seq(Bytes)
         /\ inFlight' \in 0 .. Room
         /\ events' \subseteq {"in", "out"} /\ (registered <=> events' # {})
         /\ PolledOK'
         /\ registered
         /\ fin' \in BOOLEAN
         /\ fin' => fin \/ (state = "Disconnecting" /\ outBuf' = <<>>)
<1> DEFINE n == Accepts(Len(outBuf))
<1>1. registered /\ Writing
  BY DEF TypeOK, HandleWrite, Writing
<1>2. Len(outBuf) \in Nat /\ n \in 0 .. Len(outBuf) /\ inFlight + n \in 0 .. Room
  BY AcceptsBound, LenProperties DEF DataOK
<1>3. /\ sent' = sent \o SubSeq(outBuf, 1, n)
      /\ inFlight' = inFlight + n
      /\ outBuf' = Left(outBuf, n)
      /\ events' = IF n = Len(outBuf) THEN events \ {"out"} ELSE events
      /\ fin' = (fin \/ ShutsAfter(n))
      /\ registered' = registered
  BY DEF HandleWrite, Write
<1> HIDE DEF n
<1>4. /\ SubSeq(outBuf, 1, n) \in Seq(Bytes) /\ outBuf' \in Seq(Bytes)
      /\ outBuf' = <<>> <=> n = Len(outBuf)
  BY <1>2, <1>3, CutProperties DEF DataOK
<1>5. sent' \in Seq(Bytes)
  BY <1>3, <1>4, ConcatProperties DEF DataOK
<1>6. /\ events' \subseteq {"in", "out"} /\ "in" \in events'
      /\ "out" \in events' <=> outBuf' # <<>>
  BY <1>1, <1>3, <1>4 DEF TypeOK, PolledOK, Writing
<1>7. fin' \in BOOLEAN /\ (fin' => fin \/ (state = "Disconnecting" /\ outBuf' = <<>>))
  BY <1>3, <1>4 DEF TypeOK, ShutsAfter
<1> QED
  BY <1>1, <1>2, <1>3, <1>4, <1>5, <1>6, <1>7 DEF PolledOK, Writing
LEMMA QueueProperties ==
  ASSUME tasks \in Seq(Tasks)
  PROVE  /\ \A task \in Tasks :
              /\ Append(tasks, task) \in Seq(Tasks)
              /\ Range(Append(tasks, task)) = Range(tasks) \cup {task}
         /\ tasks # <<>> =>
              /\ Head(tasks) \in Tasks /\ Head(tasks) \in Range(tasks)
              /\ Tail(tasks) \in Seq(Tasks) /\ Range(Tail(tasks)) \subseteq Range(tasks)
<1>1. ASSUME NEW task \in Tasks
      PROVE  /\ Append(tasks, task) \in Seq(Tasks)
             /\ Range(Append(tasks, task)) = Range(tasks) \cup {task}
  <2>1. /\ Append(tasks, task) \in Seq(Tasks)
        /\ Len(Append(tasks, task)) = Len(tasks) + 1
        /\ \A i \in 1 .. Len(tasks) : Append(tasks, task)[i] = tasks[i]
        /\ Append(tasks, task)[Len(tasks) + 1] = task
        /\ Len(tasks) \in Nat
    BY AppendProperties, LenProperties
  <2>2. DOMAIN tasks = 1 .. Len(tasks) /\ DOMAIN Append(tasks, task) = 1 .. Len(tasks) + 1
    BY <2>1, LenProperties
  <2> QED
    BY <2>1, <2>2 DEF Range
<1>2. ASSUME tasks # <<>>
      PROVE  /\ Head(tasks) \in Tasks /\ Head(tasks) \in Range(tasks)
             /\ Tail(tasks) \in Seq(Tasks) /\ Range(Tail(tasks)) \subseteq Range(tasks)
  <2>1. /\ Head(tasks) \in Tasks /\ Tail(tasks) \in Seq(Tasks)
        /\ Len(Tail(tasks)) = Len(tasks) - 1
        /\ \A i \in 1 .. Len(Tail(tasks)) : Tail(tasks)[i] = tasks[i + 1]
        /\ Len(tasks) \in Nat \ {0} /\ Head(tasks) = tasks[1]
    BY <1>2, HeadTailProperties, EmptySeq
  <2>2. DOMAIN tasks = 1 .. Len(tasks) /\ DOMAIN Tail(tasks) = 1 .. Len(tasks) - 1
    BY <2>1, LenProperties
  <2> QED
    BY <2>1, <2>2 DEF Range
<1> QED
  BY <1>1, <1>2

LEMMA NextConnInv == ConnInv /\ [Next]_vars => ConnInv'
<1> SUFFICES ASSUME ConnInv, [Next]_vars PROVE ConnInv'
  OBVIOUS
<1> USE DEF ConnInv, Established, Running
<1>1. CASE ConnEstablished
  <2> USE <1>1 DEF ConnEstablished, userVars, streamVars, socketVars
  <2>1. TypeOK' /\ DataOK'
    BY DEF TypeOK, DataOK
  <2>2. PolledOK'
    BY DEF PolledOK, LifeOK, Writing
  <2>3. LifeOK'
    BY DEF LifeOK
  <2>4. FinOK' /\ ClosedOK'
    BY DEF FinOK, ClosedOK, ShutsDown, TypeOK
  <2> QED
    BY <2>1, <2>2, <2>3, <2>4
<1>2. CASE HandleRead
  <2> USE <1>2 DEF HandleRead, userVars, streamVars, socketVars
  <2>1. registered /\ HandleClose
    BY DEF TypeOK
  <2>2. /\ state' = "Disconnected" /\ ~registered' /\ events' = {}
        /\ registered' \in BOOLEAN /\ aborted' = aborted
    BY <2>1, HandleCloseKeeps
  <2>3. TypeOK' /\ DataOK'
    BY <2>2 DEF TypeOK, DataOK
  <2>4. PolledOK' /\ LifeOK'
    BY <2>1, <2>2 DEF PolledOK, LifeOK
  <2>5. FinOK' /\ ClosedOK'
    BY <2>1, <2>2 DEF FinOK, ClosedOK, ShutsDown
  <2> QED
    BY <2>3, <2>4, <2>5
<1>3. CASE HandleWrite
  <2> USE <1>3 DEF HandleWrite, userVars, socketVars
  <2>1. /\ outBuf' \in Seq(Bytes) /\ sent' \in Seq(Bytes)
        /\ inFlight' \in 0 .. Room
        /\ events' \subseteq {"in", "out"} /\ (registered <=> events' # {})
        /\ PolledOK'
        /\ registered
        /\ fin' \in BOOLEAN
        /\ fin' => fin \/ (state = "Disconnecting" /\ outBuf' = <<>>)
    BY HandleWriteKeeps
  <2>2. UNCHANGED <<state, registered, alive, aborted, overtaken, tasks, calls, owners,
                    toSend, mayClose, accepted, socketOpen, stray, peerClosed>>
    OBVIOUS
  <2>3. TypeOK' /\ DataOK'
    BY <2>1, <2>2 DEF TypeOK, DataOK
  <2>4. LifeOK' /\ FinOK'
    BY <2>1, <2>2 DEF LifeOK, FinOK, ShutsDown
  <2>5. outBuf # <<>>
    BY <2>1 DEF PolledOK
  <2>6. ClosedOK'
    BY <2>1, <2>2, <2>5 DEF ClosedOK
  <2> QED
    BY <2>1, <2>3, <2>4, <2>6
<1>4. ASSUME NEW m \in Msgs, LoopSends(m) PROVE ConnInv'
  <2> USE <1>4 DEF LoopSends
  <2>1. UNCHANGED <<state, registered, socketOpen, fin, overtaken, alive, peerClosed, tasks,
                    calls, owners, mayClose>>
    BY DEF SendInLoop, socketVars
  <2>2. toSend' \subseteq Msgs
    BY DEF DataOK
  <2>3. CASE MaySend
    <3>1. registered /\ socketOpen /\ ~fin
      BY <2>3 DEF MaySend, LifeOK, FinOK, ShutsDown
    <3>2. SendTask(m)
      BY <2>3 DEF SendInLoop
    <3>3. /\ outBuf' \in Seq(Bytes) /\ sent' \in Seq(Bytes) /\ accepted' \in Seq(Msgs)
          /\ inFlight' \in 0 .. Room
          /\ events' \subseteq {"in", "out"} /\ (registered <=> events' # {})
          /\ PolledOK'
          /\ aborted' = aborted /\ stray' = stray
      BY <2>1, <3>1, <3>2, SendTaskKeeps
    <3>4. TypeOK' /\ DataOK'
      BY <2>1, <2>2, <3>3 DEF TypeOK, DataOK
    <3>5. LifeOK' /\ FinOK' /\ ClosedOK'
      BY <2>1, <2>3, <3>1, <3>3 DEF LifeOK, FinOK, ShutsDown, ClosedOK, MaySend
    <3> QED
      BY <3>3, <3>4, <3>5
  <2>4. CASE ~MaySend
    <3>1. UNCHANGED <<events, aborted, stray, outBuf, accepted, sent, inFlight>>
      BY <2>4 DEF socketVars, streamVars
    <3> QED
      BY <2>1, <2>2, <3>1
      DEF TypeOK, DataOK, PolledOK, Writing, LifeOK, FinOK, ShutsDown, ClosedOK
  <2> QED
    BY <2>3, <2>4
<1>5. CASE LoopShutsDown
  <2> USE <1>5 DEF LoopShutsDown, userVars, streamVars
  <2>1. registered /\ socketOpen
    BY DEF LifeOK
  <2>2. /\ fin' = (fin \/ ~Writing) /\ stray' = stray
        /\ state' = "Disconnecting"
    BY <2>1 DEF ShutdownTask, TypeOK
  <2>3. TypeOK' /\ DataOK'
    BY <2>2 DEF TypeOK, DataOK
  <2>4. PolledOK' /\ LifeOK' /\ FinOK'
    BY <2>1, <2>2 DEF PolledOK, Writing, LifeOK, FinOK
  <2>5. fin' => outBuf' = <<>> \/ fin
    BY <2>1, <2>2 DEF PolledOK
  <2>6. ClosedOK'
    BY <2>1, <2>2, <2>5 DEF ClosedOK
  <2> QED
    BY <2>3, <2>4, <2>6
<1>6. CASE LoopCloses
  <2> USE <1>6 DEF LoopCloses, CloseInLoop
  <2>1. /\ state' = "Disconnected" /\ ~registered' /\ events' = {}
        /\ registered' \in BOOLEAN /\ aborted' = aborted
    BY HandleCloseKeeps
  <2>2. /\ socketOpen' = FALSE
        /\ UNCHANGED <<fin, stray, outBuf, accepted, sent, inFlight, overtaken, alive,
                       peerClosed, tasks, calls, owners, toSend>>
    BY DEF streamVars
  <2>3. TypeOK' /\ DataOK'
    BY <2>1, <2>2 DEF TypeOK, DataOK
  <2>4. PolledOK' /\ LifeOK' /\ FinOK' /\ ClosedOK'
    BY <2>1, <2>2 DEF PolledOK, LifeOK, FinOK, ShutsDown, ClosedOK
  <2> QED
    BY <2>3, <2>4
<1>7. CASE RunTask
  <2> USE <1>7 DEF RunTask
  <2> DEFINE task == Head(tasks)
  <2>1. /\ task \in Tasks /\ task \in Range(tasks)
        /\ tasks' \in Seq(Tasks) /\ Range(tasks') \subseteq Range(tasks)
    BY QueueProperties DEF DataOK
  <2>2. /\ UNCHANGED <<alive, peerClosed, calls, owners, toSend, mayClose>>
        /\ state # "Connecting"
    BY DEF LifeOK
  <2>3. /\ overtaken' = (overtaken \/ ~registered \/ (task[1] = "send" /\ fin))
        /\ overtaken' \in BOOLEAN
    BY DEF Overtakes, TypeOK
  <2>4. CASE alive /\ task[1] = "send" /\ SendInLoop(task[2])
    <3>1. PICK m \in Msgs : task = <<"send", m>>
      BY <2>1, <2>4 DEF Tasks
    <3>2. SendTask(m) /\ UNCHANGED <<state, registered, fin, socketOpen>>
      BY <2>4, <3>1 DEF SendInLoop
    <3>3. /\ outBuf' \in Seq(Bytes) /\ sent' \in Seq(Bytes) /\ accepted' \in Seq(Msgs)
          /\ inFlight' \in 0 .. Room
          /\ events' \subseteq {"in", "out"} /\ (registered <=> events' # {})
          /\ PolledOK'
          /\ aborted' \in BOOLEAN /\ stray' \in BOOLEAN
          /\ registered => aborted' = aborted
          /\ socketOpen => stray' = stray
      BY <3>2, SendTaskKeeps
    <3>4. TypeOK' /\ DataOK'
      BY <2>1, <2>2, <2>3, <3>2, <3>3 DEF TypeOK, DataOK
    <3>5. LifeOK' /\ FinOK'
      BY <2>1, <2>2, <3>2 DEF LifeOK, FinOK, ShutsDown
    <3>6. ClosedOK'
      BY <2>2, <2>3, <2>4, <3>2, <3>3 DEF LifeOK, ClosedOK
    <3> QED
      BY <3>3, <3>4, <3>5, <3>6
  <2>5. CASE alive /\ task[1] = "shutdown" /\ ShutdownInLoop
    <3>1. /\ UNCHANGED <<state, events, registered, aborted, socketOpen, outBuf, accepted,
                         sent, inFlight>>
          /\ fin' = (fin \/ ~Writing)
          /\ stray' = (stray \/ (~Writing /\ ~socketOpen))
      BY <2>5 DEF ShutdownInLoop, ShutdownTask, streamVars
    <3>2. task = <<"shutdown">>
      BY <2>1, <2>5 DEF Tasks
    <3>3. TypeOK' /\ DataOK' /\ PolledOK'
      BY <2>1, <2>2, <2>3, <3>1 DEF TypeOK, DataOK, PolledOK, Writing
    <3>4. LifeOK' /\ FinOK'
      BY <2>1, <2>2, <3>1, <3>2 DEF LifeOK, FinOK, ShutsDown
    <3>5. ClosedOK'
      BY <2>2, <2>3, <3>1 DEF LifeOK, PolledOK, ClosedOK
    <3> QED
      BY <3>3, <3>4, <3>5
  <2>6. CASE alive /\ task[1] = "close" /\ CloseInLoop
    <3>1. /\ state' = "Disconnected" /\ ~registered' /\ events' = {}
          /\ registered' \in BOOLEAN /\ aborted' \in BOOLEAN
          /\ registered => aborted' = aborted
      BY <2>6, HandleCloseKeeps DEF CloseInLoop
    <3>2. /\ socketOpen' = FALSE
          /\ UNCHANGED <<fin, stray, outBuf, accepted, sent, inFlight>>
      BY <2>6 DEF CloseInLoop, streamVars
    <3>3. TypeOK' /\ DataOK' /\ PolledOK'
      BY <2>1, <2>2, <2>3, <3>1, <3>2 DEF TypeOK, DataOK, PolledOK
    <3>4. LifeOK' /\ FinOK'
      BY <2>1, <2>2, <3>1, <3>2 DEF LifeOK, FinOK, ShutsDown
    <3>5. ClosedOK'
      BY <2>2, <2>3, <3>1, <3>2 DEF ClosedOK
    <3> QED
      BY <3>3, <3>4, <3>5
  <2>7. CASE /\ ~alive /\ aborted' = TRUE
             /\ UNCHANGED <<state, events, registered, socketVars, fin, streamVars>>
    <3>1. /\ UNCHANGED <<state, events, registered, socketOpen, stray, fin, outBuf, accepted,
                         sent, inFlight>>
          /\ aborted' = TRUE /\ ~registered
      BY <2>7 DEF socketVars, streamVars, LifeOK
    <3>2. TypeOK' /\ DataOK' /\ PolledOK'
      BY <2>1, <2>2, <2>3, <3>1 DEF TypeOK, DataOK, PolledOK
    <3>3. LifeOK' /\ FinOK'
      BY <2>1, <2>2, <3>1 DEF LifeOK, FinOK, ShutsDown
    <3>4. ClosedOK'
      BY <2>2, <2>3, <3>1 DEF ClosedOK
    <3> QED
      BY <3>2, <3>3, <3>4
  <2> QED
    BY <2>4, <2>5, <2>6, <2>7
<1>8. ASSUME NEW w \in Workers, NEW m \in Msgs, BeginSend(w, m) PROVE ConnInv'
  <2> USE <1>8 DEF BeginSend, loopVars, streamVars, socketVars
  <2>1. /\ calls' \in [Workers -> Steps] /\ toSend' \subseteq Msgs
        /\ \A v \in Workers : calls'[v] = <<"shutdown">> => calls[v] = <<"shutdown">>
    BY DEF DataOK, Steps, Tasks, CallsNext
  <2>2. TypeOK' /\ DataOK' /\ PolledOK'
    BY <2>1 DEF TypeOK, DataOK, PolledOK, Writing
  <2>3. LifeOK' /\ FinOK' /\ ClosedOK'
    BY <2>1 DEF CanCall, LifeOK, FinOK, ShutsDown, ClosedOK
  <2> QED
    BY <2>2, <2>3
<1>9. ASSUME NEW w \in Workers, BeginShutdown(w) PROVE ConnInv'
  <2> USE <1>9 DEF BeginShutdown, loopVars, streamVars, socketVars
  <2>1. /\ calls' \in [Workers -> Steps]
        /\ \A v \in Workers : calls'[v] = <<"shutdown">> => calls[v] = <<"shutdown">>
    BY DEF DataOK, Steps, Tasks, CallsNext
  <2>2. TypeOK' /\ DataOK' /\ PolledOK'
    BY <2>1 DEF TypeOK, DataOK, PolledOK, Writing
  <2>3. LifeOK' /\ FinOK' /\ ClosedOK'
    BY <2>1 DEF LifeOK, FinOK, ShutsDown, ClosedOK
  <2> QED
    BY <2>2, <2>3
<1>10. ASSUME NEW w \in Workers, BeginClose(w) PROVE ConnInv'
  <2> USE <1>10 DEF BeginClose, loopVars, streamVars, socketVars
  <2>1. /\ calls' \in [Workers -> Steps]
        /\ \A v \in Workers : calls'[v] = <<"shutdown">> => calls[v] = <<"shutdown">>
    BY DEF DataOK, Steps, Tasks, CallsNext
  <2>2. TypeOK' /\ DataOK' /\ PolledOK'
    BY <2>1 DEF TypeOK, DataOK, PolledOK, Writing
  <2>3. LifeOK' /\ FinOK' /\ ClosedOK'
    BY <2>1 DEF CanCall, LifeOK, FinOK, ShutsDown, ClosedOK
  <2> QED
    BY <2>2, <2>3
<1>11. ASSUME NEW w \in Workers, SetDisconnecting(w) PROVE ConnInv'
  <2> USE <1>11 DEF SetDisconnecting, loopVars, streamVars, socketVars
  <2>1. calls[w] \in {<<"disconnecting", "shutdown">>, <<"disconnecting", "close">>}
    BY DEF DataOK, Steps, Tasks
  <2>2. state # "Connecting" /\ calls' \in [Workers -> Steps]
    BY <2>1 DEF DataOK, Steps, Tasks, CallsNext, LifeOK
  <2>3. state' = "Disconnecting" /\ overtaken' = (overtaken \/ ~registered)
    BY DEF Overtakes
  <2>4. TypeOK' /\ DataOK' /\ PolledOK'
    BY <2>2, <2>3 DEF TypeOK, DataOK, PolledOK, Writing
  <2>5. LifeOK' /\ FinOK' /\ ClosedOK'
    BY <2>2, <2>3 DEF LifeOK, FinOK, ClosedOK
  <2> QED
    BY <2>4, <2>5
<1>12. ASSUME NEW w \in Workers, PushTask(w) PROVE ConnInv'
  <2> USE <1>12 DEF PushTask, loopVars, streamVars, socketVars
  <2>1. calls[w] \in Tasks
    BY DEF DataOK, Steps
  <2>2. tasks' \in Seq(Tasks) /\ Range(tasks') = Range(tasks) \cup {calls[w]}
    BY <2>1, QueueProperties DEF DataOK, Push
  <2>3. /\ calls' \in [Workers -> Steps] /\ state # "Connecting"
        /\ \A v \in Workers : calls'[v] = <<"shutdown">> => calls[v] = <<"shutdown">>
    BY <2>1 DEF DataOK, Steps, Tasks, Push, CallsNext, LifeOK
  <2>4. TypeOK' /\ DataOK' /\ PolledOK'
    BY <2>2, <2>3 DEF TypeOK, DataOK, PolledOK, Writing
  <2>5. LifeOK' /\ FinOK' /\ ClosedOK'
    BY <2>2, <2>3 DEF LifeOK, FinOK, ShutsDown, ClosedOK
  <2> QED
    BY <2>4, <2>5
<1>13. ASSUME NEW o \in owners, Release(o) PROVE ConnInv'
  <2> USE <1>13 DEF Release, loopVars, streamVars, socketVars
  <2>1. TypeOK' /\ DataOK' /\ PolledOK'
    BY DEF TypeOK, DataOK, PolledOK, Writing
  <2>2. LifeOK' /\ FinOK' /\ ClosedOK'
    BY DEF LifeOK, FinOK, ShutsDown, ClosedOK
  <2> QED
    BY <2>1, <2>2
<1>14. CASE Destroy
  <2> USE <1>14 DEF Destroy, userVars, streamVars, socketVars
  <2>1. ~registered /\ state # "Connecting"
    BY DEF LifeOK
  <2>2. TypeOK' /\ DataOK' /\ PolledOK'
    BY DEF TypeOK, DataOK, PolledOK, Writing
  <2>3. LifeOK' /\ FinOK'
    BY <2>1 DEF LifeOK, FinOK, ShutsDown
  <2>4. ClosedOK'
    BY <2>1 DEF ClosedOK
  <2> QED
    BY <2>2, <2>3, <2>4
<1>15. CASE PeerReads
  <2> USE <1>15 DEF PeerReads, userVars, socketVars
  <2>1. inFlight' \in 0 .. Room
    BY RoomAssumption DEF TypeOK
  <2>2. TypeOK' /\ PolledOK'
    BY <2>1 DEF TypeOK, PolledOK, Writing
  <2>3. DataOK'
    BY DEF DataOK
  <2>4. LifeOK' /\ FinOK' /\ ClosedOK'
    BY DEF LifeOK, FinOK, ShutsDown, ClosedOK
  <2> QED
    BY <2>2, <2>3, <2>4
<1>16. CASE PeerCloses
  <2> USE <1>16 DEF PeerCloses, userVars, streamVars, socketVars
  <2>1. TypeOK' /\ PolledOK'
    BY DEF TypeOK, PolledOK, Writing
  <2>2. DataOK'
    BY DEF DataOK
  <2>3. LifeOK' /\ FinOK' /\ ClosedOK'
    BY DEF LifeOK, FinOK, ShutsDown, ClosedOK
  <2> QED
    BY <2>1, <2>2, <2>3
<1>17. CASE UNCHANGED vars
  BY <1>17 DEF vars, userVars, streamVars, socketVars,
    TypeOK, DataOK, PolledOK, Writing, LifeOK, FinOK, ShutsDown, ClosedOK
<1> QED
  BY <1>1, <1>2, <1>3, <1>4, <1>5, <1>6, <1>7, <1>8, <1>9, <1>10, <1>11, <1>12, <1>13,
     <1>14, <1>15, <1>16, <1>17 DEF Next, LoopStep, WorkerStep, Over

-----------------------------------------------------------------------------
(* The stream *)

(* stream spells the messages of msgs, two bytes each. *)
Spells(stream, msgs) ==
  /\ Len(stream) = 2 * Len(msgs)
  /\ \A i \in DOMAIN msgs, k \in 1 .. 2 :
       stream[2 * (i - 1) + k] = BytesOf(msgs[i])[k]

(* The bytes of one more message after a stream spell that message too.    *)
LEMMA SpellsOneMore ==
  ASSUME NEW s \in Seq(Bytes), NEW msgs \in Seq(Msgs), NEW m \in Msgs, Spells(s, msgs)
  PROVE  Spells(s \o BytesOf(m), Append(msgs, m))
<1> DEFINE b == BytesOf(m)
           more == Append(msgs, m)
<1>1. b \in Seq(Bytes) /\ Len(b) = 2
  BY MessageBytes
<1>2. /\ more \in Seq(Msgs) /\ Len(more) = Len(msgs) + 1
      /\ \A i \in 1 .. Len(msgs) : more[i] = msgs[i]
      /\ more[Len(msgs) + 1] = m
  BY AppendProperties
<1>3. Len(s) = 2 * Len(msgs) /\ Len(msgs) \in Nat /\ DOMAIN msgs = 1 .. Len(msgs)
  BY DEF Spells
<1>4. DOMAIN more = 1 .. Len(msgs) + 1
  BY <1>2
<1> HIDE DEF b, more
<1>5. /\ s \o b \in Seq(Bytes) /\ Len(s \o b) = Len(s) + 2
      /\ \A i \in 1 .. Len(s) + 2 : (s \o b)[i] = IF i <= Len(s) THEN s[i] ELSE b[i - Len(s)]
  <2>1. /\ s \o b \in Seq(Bytes) /\ Len(s \o b) = Len(s) + Len(b)
        /\ \A i \in 1 .. Len(s) + Len(b) :
             (s \o b)[i] = IF i <= Len(s) THEN s[i] ELSE b[i - Len(s)]
    BY <1>1, ConcatProperties
  <2> QED
    BY <1>1, <2>1
<1>6. ASSUME NEW i \in 1 .. Len(msgs) + 1, NEW k \in 1 .. 2
      PROVE  (s \o b)[2 * (i - 1) + k] = BytesOf(more[i])[k]
  <2>1. CASE i <= Len(msgs)
    <3>1. 2 * (i - 1) + k \in 1 .. Len(s)
      BY <1>3, <2>1
    <3>2. i \in 1 .. Len(msgs)
      BY <2>1, <1>3
    <3>3. s[2 * (i - 1) + k] = BytesOf(msgs[i])[k]
      BY <1>3, <3>2 DEF Spells
    <3> QED
      BY <1>2, <1>3, <1>5, <3>1, <3>2, <3>3
  <2>2. CASE i = Len(msgs) + 1
    <3>1. 2 * (i - 1) + k = Len(s) + k
      BY <1>3, <2>2
    <3>2. (s \o b)[Len(s) + k] = b[k]
      BY <1>3, <1>5
    <3> QED
      BY <1>2, <2>2, <3>1, <3>2 DEF b
  <2>3. i <= Len(msgs) \/ i = Len(msgs) + 1
    BY <1>3
  <2> QED
    BY <2>1, <2>2, <2>3
<1>7. Len(s \o b) = 2 * Len(more)
  BY <1>2, <1>3, <1>5
<1>8. Spells(s \o b, more)
  BY <1>4, <1>6, <1>7 DEF Spells
<1> QED
  BY <1>8 DEF b, more

(* The two parts of a cut make the whole again. *)
LEMMA CutRejoins ==
  ASSUME NEW s \in Seq(Bytes), NEW n \in 0 .. Len(s)
  PROVE  SubSeq(s, 1, n) \o Left(s, n) = s
<1> DEFINE a == SubSeq(s, 1, n)
           b == Left(s, n)
<1>1. /\ a \in Seq(Bytes) /\ Len(a) = n
      /\ \A i \in 1 .. n : a[i] = s[i]
      /\ b \in Seq(Bytes) /\ Len(b) = Len(s) - n
      /\ \A i \in 1 .. Len(s) - n : b[i] = s[n + i]
  BY CutProperties
<1> HIDE DEF a, b
<1>2. /\ a \o b \in Seq(Bytes) /\ Len(a \o b) = Len(s)
      /\ \A i \in 1 .. Len(s) : (a \o b)[i] = IF i <= n THEN a[i] ELSE b[i - n]
  BY <1>1, ConcatProperties
<1>3. \A i \in 1 .. Len(s) : (a \o b)[i] = s[i]
  BY <1>1, <1>2
<1>4. a \o b = s
  BY <1>2, <1>3, SeqEqual
<1> QED
  BY <1>4 DEF a, b

LEMMA JoinsAssociate ==
  ASSUME NEW s \in Seq(Bytes), NEW t \in Seq(Bytes), NEW u \in Seq(Bytes)
  PROVE  (s \o t) \o u = s \o (t \o u)
BY ConcatAssociative

(* sendTask puts the message at the end of the stream, or drops it. *)
LEMMA SendTaskSpells ==
  ASSUME TypeOK, DataOK, StreamIntact, NEW m \in Msgs, SendTask(m)
  PROVE  StreamIntact'
<1> DEFINE bytes == BytesOf(m)
           tried == ~Writing /\ outBuf = <<>>
           n == IF tried THEN Accepts(Len(bytes)) ELSE 0
<1>1. Spells(sent \o outBuf, accepted)
  BY DEF StreamIntact, Spells
<1>2. bytes \in Seq(Bytes) /\ Len(bytes) = 2
  BY MessageBytes
<1>3. n \in 0 .. Len(bytes)
  <2>1. Accepts(2) \in 0 .. 2
    BY AcceptsBound
  <2> QED
    BY <1>2, <2>1
<1>4. CASE tried /\ n = 0
  BY <1>4, <1>1 DEF SendTask, StreamIntact, Spells
<1>5. CASE ~(tried /\ n = 0)
  <2> DEFINE front == SubSeq(bytes, 1, n)
             back == Left(bytes, n)
  <2>1. /\ sent' = sent \o front
        /\ outBuf' = outBuf \o back
        /\ accepted' = Append(accepted, m)
    BY <1>5 DEF SendTask, Write
  <2>2. outBuf # <<>> => n = 0
    OBVIOUS
  <2> HIDE DEF bytes, tried, n
  <2>3. /\ front \in Seq(Bytes) /\ back \in Seq(Bytes) /\ front \o back = bytes
        /\ Len(front) = n
    BY <1>2, <1>3, CutProperties, CutRejoins
  <2> HIDE DEF front, back
  <2>4. sent' \o outBuf' = (sent \o outBuf) \o bytes
    <3>1. CASE outBuf = <<>>
      <4>1. outBuf \o back = back /\ sent \o outBuf = sent
        BY <2>3, <3>1, ConcatEmptySeq DEF DataOK
      <4>2. (sent \o front) \o back = sent \o (front \o back)
        BY <2>3, JoinsAssociate DEF DataOK
      <4> QED
        BY <2>1, <2>3, <4>1, <4>2
    <3>2. CASE outBuf # <<>>
      <4>1. front = <<>>
        BY <2>2, <2>3, <3>2, EmptySeq
      <4>2. sent \o front = sent /\ front \o back = back
        BY <2>3, <4>1, ConcatEmptySeq DEF DataOK
      <4>3. sent \o (outBuf \o back) = (sent \o outBuf) \o back
        BY <2>3, JoinsAssociate DEF DataOK
      <4> QED
        BY <2>1, <2>3, <4>2, <4>3
    <3> QED
      BY <3>1, <3>2
  <2>5. sent \o outBuf \in Seq(Bytes) /\ accepted \in Seq(Msgs)
    BY ConcatProperties DEF DataOK
  <2>6. Spells((sent \o outBuf) \o bytes, Append(accepted, m))
    BY <1>1, <2>5, SpellsOneMore DEF bytes
  <2> QED
    <3>1. Spells(sent' \o outBuf', accepted')
      BY <2>1, <2>4, <2>6
    <3> QED
      BY <3>1 DEF StreamIntact, Spells
<1> QED
  BY <1>4, <1>5

(* handleWrite moves bytes along the stream and changes none. *)
LEMMA HandleWriteSpells ==
  ASSUME TypeOK, DataOK, StreamIntact, HandleWrite
  PROVE  StreamIntact'
<1> DEFINE n == Accepts(Len(outBuf))
<1>1. n \in 0 .. Len(outBuf)
  BY AcceptsBound DEF DataOK
<1>2. sent' = sent \o SubSeq(outBuf, 1, n) /\ outBuf' = Left(outBuf, n)
  BY DEF HandleWrite, Write
<1>3. accepted' = accepted
  BY DEF HandleWrite
<1> HIDE DEF n
<1>4. /\ SubSeq(outBuf, 1, n) \in Seq(Bytes) /\ Left(outBuf, n) \in Seq(Bytes)
      /\ SubSeq(outBuf, 1, n) \o Left(outBuf, n) = outBuf
  BY <1>1, CutProperties, CutRejoins DEF DataOK
<1>5. (sent \o SubSeq(outBuf, 1, n)) \o Left(outBuf, n)
        = sent \o (SubSeq(outBuf, 1, n) \o Left(outBuf, n))
  BY <1>4, JoinsAssociate DEF DataOK
<1>6. sent' \o outBuf' = sent \o outBuf
  BY <1>2, <1>4, <1>5
<1> QED
  BY <1>3, <1>6 DEF StreamIntact

LEMMA NextStreamIntact == ConnInv /\ StreamIntact /\ [Next]_vars => StreamIntact'
<1> SUFFICES ASSUME ConnInv, StreamIntact, [Next]_vars
             PROVE  StreamIntact'
  OBVIOUS
<1>1. TypeOK /\ DataOK
  BY DEF ConnInv
<1>2. ASSUME UNCHANGED streamVars PROVE StreamIntact'
  BY <1>2 DEF StreamIntact, streamVars
<1>3. CASE RunTask
  <2>1. \/ Head(tasks)[1] = "send" /\ SendInLoop(Head(tasks)[2])
        \/ ShutdownInLoop \/ CloseInLoop \/ UNCHANGED streamVars
    BY <1>3, Zenon DEF RunTask
  <2>2. tasks # <<>> => Head(tasks) \in Tasks
    BY <1>1, HeadTailProperties DEF DataOK
  <2>3. ASSUME Head(tasks) \in Tasks, Head(tasks)[1] = "send" PROVE Head(tasks)[2] \in Msgs
    BY <2>3 DEF Tasks
  <2> QED
    BY <1>1, <1>2, <1>3, <2>1, <2>2, <2>3, SendTaskSpells
    DEF RunTask, SendInLoop, ShutdownInLoop, CloseInLoop
<1>4. CASE HandleWrite
  BY <1>1, <1>4, HandleWriteSpells
<1>5. ASSUME NEW m \in Msgs, LoopSends(m) PROVE StreamIntact'
  BY <1>1, <1>2, <1>5, SendTaskSpells DEF LoopSends, SendInLoop
<1>6. CASE ~RunTask /\ ~HandleWrite /\ \A m \in Msgs : ~LoopSends(m)
  <2>1. UNCHANGED <<outBuf, accepted, sent>>
    BY <1>6 DEF Next, LoopStep, WorkerStep, Over, vars, streamVars, loopVars,
      ConnEstablished, HandleRead, LoopShutsDown, LoopCloses, CloseInLoop, BeginSend,
      BeginShutdown, BeginClose, SetDisconnecting, PushTask, Release, Destroy,
      PeerReads, PeerCloses
  <2> QED
    BY <2>1 DEF StreamIntact
<1> QED
  BY <1>3, <1>4, <1>5, <1>6
-----------------------------------------------------------------------------
(* The invariant that the results below rest on: how buffer, channel,      *)
(* socket, state and queued tasks agree (tcp_connection.cc:33-138).        *)
THEOREM ConnInvariant == Spec => []ConnInv
<1> QED
  BY InitConnInv, NextConnInv, PTL DEF Spec

(* Buffered bytes are never forgotten: sendTask waits for POLLOUT when it  *)
(* starts to buffer, and handleWrite stops waiting only when nothing is    *)
(* left (tcp_connection.cc:53-71, 101-119).                                *)
THEOREM BufferedIsPolled == Spec => []PendingIsPolled
<1>1. ConnInv => PendingIsPolled
  BY DEF ConnInv, PolledOK, PendingIsPolled
<1> QED
  BY <1>1, ConnInvariant, PTL

(* The written and the buffered bytes spell the accepted messages in their *)
(* order, however the socket cut the writes (tcp_connection.cc:53-71,      *)
(* 101-119).                                                               *)
THEOREM StreamStaysIntact == Spec => []StreamIntact
<1>1. Init => StreamIntact
  <2> SUFFICES ASSUME Init PROVE StreamIntact
    OBVIOUS
  <2>1. sent \o outBuf = <<>> /\ accepted = <<>>
    BY EmptySeq, ConcatEmptySeq DEF Init
  <2>2. Len(<<>>) = 0 /\ DOMAIN accepted = {}
    BY <2>1
  <2> QED
    BY <2>1, <2>2 DEF StreamIntact
<1> QED
  BY <1>1, ConnInvariant, NextStreamIntact, PTL DEF Spec

(* The FIN follows all that was accepted, unless another thread's task was *)
(* overtaken: shutdownTask leaves a channel that writes alone, and         *)
(* handleWrite shuts down only when outBuf_ is empty                       *)
(* (tcp_connection.cc:53-71, 121-130).                                     *)
THEOREM FinComesLast == Spec => []FinLast
<1>1. ConnInv => FinLast
  BY DEF ConnInv, ClosedOK, FinLast
<1> QED
  BY <1>1, ConnInvariant, PTL

(* Handlers and the loop's own calls never use a closed descriptor: only a *)
(* task another thread queued behind the close does                        *)
(* (tcp_connection.cc:97-138).                                             *)
THEOREM OwnSocketOnly == Spec => []WritesOwnSocket
<1>1. ConnInv => WritesOwnSocket
  BY DEF ConnInv, ClosedOK, TypeOK, WritesOwnSocket
<1> QED
  BY <1>1, ConnInvariant, PTL

(* No assertion of the connection or its channel fails, the destructor's   *)
(* included, unless a call from another thread comes after handleClose     *)
(* (tcp_connection.cc:37, 73-81, 116).                                     *)
THEOREM NoAssertionFails == Spec => []AssertsHold
<1>1. ConnInv => AssertsHold
  BY DEF ConnInv, ClosedOK, TypeOK, AssertsHold
<1> QED
  BY <1>1, ConnInvariant, PTL

-----------------------------------------------------------------------------
(* The registry *)

(* handleClose closes a registered connection, and only asserts otherwise. *)
LEMMA HandleCloseClosesOnce ==
  ASSUME TypeOK, Established, HandleClose
  PROVE  Phase' = IF registered THEN "closed" ELSE Phase
BY DEF TypeOK, Established, HandleClose, ClosedState, Phase

(* Every step that the server could notice is one of the registry's.       *)
LEMMA NextRegistryStep == ConnInv /\ [Next]_vars => [Registry!Next]_(Registry!rvars)
<1> SUFFICES ASSUME ConnInv, [Next]_vars PROVE [Registry!Next]_(Registry!rvars)
  OBVIOUS
<1> USE DEF ConnInv
<1>1. ASSUME UNCHANGED <<Established, registered, owners>> PROVE UNCHANGED Registry!rvars
  BY <1>1 DEF Phase, Registry!rvars
<1>2. ASSUME Established, HandleClose, UNCHANGED owners
      PROVE  [Registry!Next]_(Registry!rvars)
  <2>1. Phase' = (IF registered THEN "closed" ELSE Phase) /\ Established'
    BY <1>2, HandleCloseClosesOnce DEF HandleClose, ClosedState, Established
  <2>2. CASE registered
    <3>1. Phase = "open"
      BY <1>2, <2>2 DEF Phase
    <3>2. Registry!Close("peer")
      BY <1>2, <2>1, <2>2, <3>1 DEF Registry!Close
    <3> QED
      BY <3>2 DEF Registry!Next
  <2>3. CASE ~registered
    BY <1>2, <2>1, <2>3 DEF Registry!rvars
  <2> QED
    BY <2>2, <2>3
<1>3. CASE ConnEstablished
  <2>1. /\ Phase = "new" /\ Phase' = "open"
        /\ ~Established /\ Established' /\ "server" \in owners /\ "server" \in owners'
    BY <1>3 DEF ConnEstablished, Established, Phase, LifeOK, userVars
  <2>2. Registry!Accept("peer", "open")
    BY <2>1 DEF Registry!Accept
  <2> QED
    BY <2>2 DEF Registry!Next
<1>4. CASE Release("server")
  <2>1. Established /\ ~registered /\ owners' = owners \ {"server"}
    BY <1>4 DEF Release
  <2>2. Phase = "closed" /\ Established' /\ Phase' = Phase
    BY <1>4, <2>1 DEF Release, Phase, Established, loopVars
  <2>3. Registry!Forget("peer")
    BY <2>1, <2>2 DEF Registry!Forget
  <2> QED
    BY <2>3 DEF Registry!Next
<1>5. ASSUME NEW o \in owners \ {"server"}, Release(o) PROVE UNCHANGED Registry!rvars
  <2>1. UNCHANGED <<Established, registered>> /\ ("server" \in owners' <=> "server" \in owners)
    BY <1>5 DEF Release, Established, loopVars
  <2> QED
    BY <2>1 DEF Phase, Registry!rvars
<1>6. CASE HandleRead
  <2>1. Established
    BY <1>6 DEF HandleRead, TypeOK, LifeOK
  <2> QED
    BY <1>2, <1>6, <2>1 DEF HandleRead, userVars
<1>7. CASE LoopCloses
  BY <1>2, <1>7 DEF LoopCloses, CloseInLoop
<1>8. CASE RunTask
  <2>1. Established /\ owners' = owners
    BY <1>8 DEF RunTask, LifeOK
  <2>2. CloseInLoop \/ UNCHANGED <<state, registered>>
    BY <1>8 DEF RunTask, SendInLoop, ShutdownInLoop
  <2> QED
    BY <1>1, <1>2, <2>1, <2>2 DEF CloseInLoop, Established
<1>9. CASE \/ HandleWrite \/ LoopShutsDown \/ Destroy \/ PeerReads \/ PeerCloses \/ Over
           \/ \E m \in Msgs : LoopSends(m)
           \/ \E w \in Workers : \/ \E m \in Msgs : BeginSend(w, m)
                                \/ BeginShutdown(w) \/ BeginClose(w) \/ WorkerStep(w)
           \/ UNCHANGED vars
  <2>1. CASE \E w \in Workers : SetDisconnecting(w)
    <3>1. Established /\ Established'
      BY <2>1 DEF SetDisconnecting, Established, LifeOK
    <3> QED
      BY <1>1, <2>1, <3>1 DEF SetDisconnecting, loopVars
  <2>2. CASE LoopShutsDown
    BY <1>1, <2>2 DEF LoopShutsDown, Established, userVars
  <2>3. CASE ~LoopShutsDown /\ \A w \in Workers : ~SetDisconnecting(w)
    <3>1. UNCHANGED <<state, registered, owners>>
      BY <1>9, <2>3 DEF HandleWrite, Destroy, PeerReads, PeerCloses, Over, LoopSends,
        SendInLoop, BeginSend, BeginShutdown, BeginClose, WorkerStep, PushTask, vars,
        userVars, loopVars
    <3> QED
      BY <1>1, <3>1 DEF Established
  <2> QED
    BY <2>1, <2>2, <2>3
<1> QED
  BY <1>3, <1>4, <1>5, <1>6, <1>7, <1>8, <1>9 DEF Next, LoopStep

(* The connection opens once and closes once, however shutdown(), close()  *)
(* and the peer race, and whatever was overtaken: a second handleClose     *)
(* stops at an assertion; and its server keeps it until it is closed       *)
(* (tcp_connection.cc:73-95, 132-138).                                     *)
THEOREM ImplementsRegistry == Spec => RegistrySpec
<1>1. Init => Registry!Init
  BY DEF Init, Registry!Init, Phase, Established
<1> QED
  BY <1>1, ConnInvariant, NextRegistryStep, PTL DEF Spec, RegistrySpec, Registry!Spec
=============================================================================
