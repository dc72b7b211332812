--------------------------- MODULE TcpServerProofs ---------------------------
(***************************************************************************)
(* For any clients, any number of loops and any limits: the server's state *)
(* is well formed, none of its assertions fails while it lives, and it     *)
(* implements ConnectionRegistry.                                          *)
(***************************************************************************)
EXTENDS TcpServer, SequenceTheorems, TLAPS

Tasks == {"establish", "close", "remove"} \X Clients

(* The pool's index stays within the pool (event_loop_pool.cc:36-37).      *)
LEMMA TurnInPool ==
  ASSUME TypeOK
  PROVE  /\ Turn \in Nat /\ (Turn = 0 \/ Turn < ThreadNum)
         /\ ChosenLoop \in Loops
         /\ ThreadNum # 0 => ChosenLoop \in IoLoops
<1>1. CASE ThreadNum = 0
  BY <1>1 DEF TypeOK, Turn, ChosenLoop, Loops
<1>2. CASE ThreadNum # 0
  <2>1. ThreadNum \in Nat /\ ThreadNum > 0
    BY <1>2, ThreadNumAssumption
  <2>2. idx \in Nat /\ idx < ThreadNum
    BY <2>1 DEF TypeOK
  <2>3. (idx + 1) % ThreadNum \in 0 .. ThreadNum - 1
    BY <2>1, <2>2
  <2>4. ChosenLoop = idx + 1 /\ idx + 1 \in IoLoops
    BY <1>2, <2>1, <2>2 DEF ChosenLoop, IoLoops
  <2> QED
    BY <1>2, <2>1, <2>3, <2>4 DEF Turn, Loops
<1> QED
  BY <1>1, <1>2

(* The functions queued for each loop stay functions of the three kinds.   *)
LEMMA QueuePreserved ==
  ASSUME tasks \in [Loops -> Seq(Tasks)], NEW l \in Loops, NEW t \in Tasks
  PROVE  /\ [tasks EXCEPT ![l] = Append(@, t)] \in [Loops -> Seq(Tasks)]
         /\ tasks[l] # <<>> =>
              /\ [tasks EXCEPT ![l] = Tail(@)] \in [Loops -> Seq(Tasks)]
              /\ Head(tasks[l]) \in Tasks
<1>1. Append(tasks[l], t) \in Seq(Tasks)
  BY AppendProperties
<1>2. ASSUME tasks[l] # <<>> PROVE Tail(tasks[l]) \in Seq(Tasks) /\ Head(tasks[l]) \in Tasks
  BY <1>2, HeadTailProperties
<1> QED
  BY <1>1, <1>2

-----------------------------------------------------------------------------
(* The state stays well formed whatever the loops, the clients and the     *)
(* destructor do (tcp_server.cc:51-112).                                   *)
LEMMA InitTypeOK == Init => TypeOK
<1> SUFFICES ASSUME Init PROVE TypeOK
  OBVIOUS
<1>1. tasks \in [Loops -> Seq(Tasks)]
  BY EmptySeq DEF Init
<1> QED
  BY <1>1 DEF Init, TypeOK, Tasks, Loops

LEMMA NextTypeOK == TypeOK /\ [Next]_vars => TypeOK'
<1> SUFFICES ASSUME TypeOK, [Next]_vars PROVE TypeOK'
  OBVIOUS
<1> USE DEF TypeOK, Tasks
<1>1. CASE Start
  BY <1>1 DEF Start
<1>2. ASSUME NEW c \in Clients, Connect(c) PROVE TypeOK'
  BY <1>2 DEF Connect
<1>3. ASSUME NEW c \in Clients, HandleAccept(c) PROVE TypeOK'
  <2>1. c \in Backlog /\ conn[c] = "waiting"
    BY <1>3 DEF HandleAccept, Backlog
  <2>2. CASE Refuse(c)
    BY <1>3, <2>1, <2>2 DEF HandleAccept, Refuse
  <2>3. CASE NewConnection(c)
    <3>1. tasks' \in [Loops -> Seq(Tasks)]
      BY <2>3, QueuePreserved, TurnInPool DEF NewConnection
    <3>2. idx' \in Nat /\ (idx' = 0 \/ idx' < ThreadNum)
      BY <2>3, TurnInPool DEF NewConnection
    <3>3. loopOf' \in [Clients -> Loops]
      BY <2>3, TurnInPool DEF NewConnection
    <3> QED
      BY <1>3, <2>1, <2>3, <3>1, <3>2, <3>3 DEF HandleAccept, NewConnection
  <2> QED
    BY <1>3, <2>2, <2>3 DEF HandleAccept
<1>4. ASSUME NEW c \in Clients, HandleClose(c) PROVE TypeOK'
  <2>1. tasks' \in [Loops -> Seq(Tasks)]
    <3>1. <<"remove", c>> \in Tasks /\ Base \in Loops
      BY DEF Loops
    <3>2. [tasks EXCEPT ![Base] = Append(@, <<"remove", c>>)] \in [Loops -> Seq(Tasks)]
      BY <3>1, QueuePreserved
    <3> QED
      BY <1>4, <3>2 DEF HandleClose, RemoveConn
  <2>2. connections' \subseteq connections /\ toClose' \subseteq connections'
    <3>1. CASE loopOf[c] = Base
      <4>1. toClose = {} /\ toClose' = {}
        BY <1>4, <3>1 DEF HandleClose
      <4> QED
        BY <1>4, <3>1, <4>1 DEF HandleClose, RemoveConn, Erase
    <3>2. CASE loopOf[c] # Base
      BY <1>4, <3>2 DEF HandleClose, RemoveConn
    <3> QED
      BY <3>1, <3>2
  <2>3. /\ conn' \in [Clients -> {"absent", "waiting", "refused", "connecting", "connected",
                               "disconnected"}]
        /\ \A d \in connections' : conn'[d] \in {"connecting", "connected", "disconnected"}
    BY <1>4, <2>2 DEF HandleClose
  <2>4. connections' \subseteq {d \in Clients : conn'[d] \in {"connecting", "connected", "disconnected"}}
    BY <2>2, <2>3
  <2> QED
    BY <1>4, <2>1, <2>2, <2>3, <2>4 DEF HandleClose
<1>5. ASSUME NEW c \in Clients, DtorClose(c) PROVE TypeOK'
  <2>1. tasks' \in [Loops -> Seq(Tasks)]
    <3>1. <<"close", c>> \in Tasks /\ loopOf[c] \in Loops
      OBVIOUS
    <3>2. [tasks EXCEPT ![loopOf[c]] = Append(@, <<"close", c>>)] \in [Loops -> Seq(Tasks)]
      BY <3>1, QueuePreserved
    <3> QED
      BY <1>5, <3>2 DEF DtorClose, QueueClose
  <2> QED
    BY <1>5, <2>1 DEF DtorClose
<1>6. ASSUME NEW l \in IoLoops, RunIoTask(l) PROVE TypeOK'
  <2> DEFINE op == Head(tasks[l])[1]
             c == Head(tasks[l])[2]
             rest == [tasks EXCEPT ![l] = Tail(@)]
  <2>1. l \in Loops /\ Base \in Loops /\ l # Base
    BY ThreadNumAssumption DEF Loops, IoLoops, Base
  <2>2. rest \in [Loops -> Seq(Tasks)] /\ Head(tasks[l]) \in Tasks
    BY <1>6, <2>1, QueuePreserved DEF RunIoTask
  <2>3. c \in Clients
    BY <2>2
  <2>4. [rest EXCEPT ![Base] = Append(@, <<"remove", c>>)] \in [Loops -> Seq(Tasks)]
    BY <2>1, <2>2, <2>3, AppendProperties
  <2>5. tasks' \in [Loops -> Seq(Tasks)]
    BY <1>6, <2>2, <2>4 DEF RunIoTask
  <2>6. /\ conn' \in [Clients -> {"absent", "waiting", "refused", "connecting", "connected",
                               "disconnected"}]
        /\ \A d \in Clients : conn[d] \in {"connecting", "connected", "disconnected"} =>
             conn'[d] \in {"connecting", "connected", "disconnected"}
    BY <1>6, <2>3 DEF RunIoTask
  <2>7. failure' \in {"none", "connEstablished", "handleClose"}
    BY <1>6 DEF RunIoTask, Running
  <2> HIDE DEF op, c, rest
  <2> QED
    BY <1>6, <2>5, <2>6, <2>7 DEF RunIoTask
<1>7. ASSUME NEW l \in IoLoops, DtorJoin(l) PROVE TypeOK'
  <2>1. tasks' \in [Loops -> Seq(Tasks)]
    BY <1>7, EmptySeq DEF DtorJoin
  <2> QED
    BY <1>7, <2>1 DEF DtorJoin
<1>8. CASE RunBaseTask
  <2>1. tasks' \in [Loops -> Seq(Tasks)]
    BY <1>8, QueuePreserved DEF RunBaseTask, Loops
  <2> QED
    BY <1>8, <2>1 DEF RunBaseTask, Erase
<1>9. CASE BeginDtor
  BY <1>9 DEF BeginDtor
<1>10. CASE DtorMembers
  BY <1>10 DEF DtorMembers
<1>11. CASE UNCHANGED vars
  BY <1>11 DEF vars
<1> QED
  BY <1>1, <1>2, <1>3, <1>4, <1>5, <1>6, <1>7, <1>8, <1>9, <1>10, <1>11 DEF Next, Over

-----------------------------------------------------------------------------
(* A queue to which something new is appended has it, and still no         *)
(* duplicates; a queue without duplicates loses its head for good.         *)
LEMMA AppendRange ==
  ASSUME NEW S, NEW q \in Seq(S), NEW t \in S
  PROVE  /\ Range(Append(q, t)) = Range(q) \cup {t}
         /\ IsInjective(q) /\ t \notin Range(q) => IsInjective(Append(q, t))
<1>1. /\ Append(q, t) \in Seq(S) /\ Len(Append(q, t)) = Len(q) + 1
      /\ \A i \in 1 .. Len(q) : Append(q, t)[i] = q[i]
      /\ Append(q, t)[Len(q) + 1] = t
      /\ Len(q) \in Nat /\ DOMAIN q = 1 .. Len(q)
      /\ DOMAIN Append(q, t) = 1 .. Len(q) + 1
  BY AppendProperties
<1>2. Range(Append(q, t)) = Range(q) \cup {t}
  BY <1>1 DEF Range
<1>3. ASSUME IsInjective(q), t \notin Range(q) PROVE IsInjective(Append(q, t))
  BY <1>1, <1>3 DEF Range, IsInjective
<1> QED
  BY <1>2, <1>3

LEMMA TailRange ==
  ASSUME NEW S, NEW q \in Seq(S), q # <<>>, IsInjective(q)
  PROVE  /\ Head(q) \in Range(q)
         /\ IsInjective(Tail(q))
         /\ Range(Tail(q)) = Range(q) \ {Head(q)}
<1>1. /\ Tail(q) \in Seq(S) /\ Len(Tail(q)) = Len(q) - 1
      /\ Head(q) = q[1]
      /\ \A i \in 1 .. Len(Tail(q)) : Tail(q)[i] = q[i + 1]
      /\ Len(q) \in Nat \ {0} /\ DOMAIN q = 1 .. Len(q)
      /\ DOMAIN Tail(q) = 1 .. Len(q) - 1
  BY HeadTailProperties, EmptySeq
<1>2. IsInjective(Tail(q))
  BY <1>1 DEF IsInjective
<1>3. Range(Tail(q)) \subseteq Range(q) \ {Head(q)}
  BY <1>1 DEF Range, IsInjective
<1>4. ASSUME NEW i \in 1 .. Len(q), q[i] # Head(q) PROVE q[i] \in Range(Tail(q))
  <2>1. i - 1 \in DOMAIN Tail(q) /\ Tail(q)[i - 1] = q[i]
    BY <1>1, <1>4
  <2> QED
    BY <2>1 DEF Range
<1>5. Range(q) \ {Head(q)} \subseteq Range(Tail(q))
  BY <1>1, <1>4 DEF Range
<1>6. Head(q) \in Range(q)
  BY <1>1 DEF Range
<1> QED
  BY <1>2, <1>3, <1>5, <1>6

-----------------------------------------------------------------------------
(* While the server lives, what is queued will find its connection as it   *)
(* left it: the step of each actor disturbs only its own connection        *)
(* (tcp_server.cc:87-112).                                                 *)
QueuesOK == \A l \in Loops : IsInjective(tasks[l]) /\ \A task \in Range(tasks[l]) : TaskOK(l, task)
MapOK == \A c \in Clients : conn[c] \in {"connecting", "connected"} => c \in connections

LEMMA InitHandoverInv == Init => HandoverInv
<1> SUFFICES ASSUME Init PROVE HandoverInv
  OBVIOUS
<1>1. ASSUME NEW l \in Loops PROVE tasks[l] = <<>> /\ Range(tasks[l]) = {} /\ IsInjective(tasks[l])
  <2>1. tasks[l] = <<>>
    BY DEF Init
  <2> QED
    BY <2>1 DEF Range, IsInjective
<1> QED
  BY <1>1 DEF Init, HandoverInv

(* Tasks of other connections stay as they were. *)
LEMMA TaskOKStable ==
  ASSUME NEW l \in Loops, NEW task \in Tasks, NEW c, TaskOK(l, task), task[2] # c,
         \A d \in Clients : d # c => conn'[d] = conn[d] /\ loopOf'[d] = loopOf[d]
                                   /\ (d \in connections => d \in connections')
  PROVE  TaskOK(l, task)'
  BY DEF TaskOK, Tasks, IoLoops

(* A function is queued: it and those before it have to be fit to run.     *)
LEMMA QueueAppended ==
  ASSUME TypeOK, QueuesOK, NEW k \in Loops, NEW t \in Tasks,
         tasks' = [tasks EXCEPT ![k] = Append(@, t)],
         t \notin Range(tasks[k]), TaskOK(k, t)',
         \A l \in Loops : \A task \in Range(tasks[l]) : TaskOK(l, task)'
  PROVE  QueuesOK'
<1>1. tasks \in [Loops -> Seq(Tasks)]
  BY DEF TypeOK, Tasks
<1>2. /\ tasks'[k] = Append(tasks[k], t) /\ tasks[k] \in Seq(Tasks)
      /\ \A l \in Loops : l # k => tasks'[l] = tasks[l]
  BY <1>1
<1>3. IsInjective(tasks[k])
  BY DEF QueuesOK
<1>4. Range(tasks'[k]) = Range(tasks[k]) \cup {t} /\ IsInjective(tasks'[k])
  BY <1>2, <1>3, AppendRange
<1>5. ASSUME NEW l \in Loops
      PROVE  IsInjective(tasks'[l]) /\ \A task \in Range(tasks'[l]) : TaskOK(l, task)'
  <2>1. CASE l = k
    BY <1>4, <2>1
  <2>2. CASE l # k
    BY <1>2, <2>2 DEF QueuesOK
  <2> QED
    BY <2>1, <2>2
<1> QED
  BY <1>5 DEF QueuesOK

(* A function is run: the others have to stay fit to run.                  *)
LEMMA QueueShortened ==
  ASSUME TypeOK, QueuesOK, NEW k \in Loops, tasks[k] # <<>>,
         tasks' = [tasks EXCEPT ![k] = Tail(@)],
         \A l \in Loops : \A task \in Range(tasks[l]) :
            ~(l = k /\ task = Head(tasks[k])) => TaskOK(l, task)'
  PROVE  QueuesOK'
<1>1. tasks \in [Loops -> Seq(Tasks)]
  BY DEF TypeOK, Tasks
<1>2. /\ tasks'[k] = Tail(tasks[k]) /\ tasks[k] \in Seq(Tasks)
      /\ \A l \in Loops : l # k => tasks'[l] = tasks[l]
  BY <1>1
<1>3. IsInjective(tasks[k])
  BY DEF QueuesOK
<1>4. Range(tasks'[k]) = Range(tasks[k]) \ {Head(tasks[k])} /\ IsInjective(tasks'[k])
  BY <1>2, <1>3, TailRange
<1>5. ASSUME NEW l \in Loops
      PROVE  IsInjective(tasks'[l]) /\ \A task \in Range(tasks'[l]) : TaskOK(l, task)'
  <2>1. CASE l = k
    BY <1>4, <2>1
  <2>2. CASE l # k
    BY <1>2, <2>2 DEF QueuesOK
  <2> QED
    BY <2>1, <2>2
<1> QED
  BY <1>5 DEF QueuesOK

LEMMA NextHandoverInv == TypeOK /\ HandoverInv /\ [Next]_vars => HandoverInv'
<1> SUFFICES ASSUME TypeOK, HandoverInv, [Next]_vars, server' \in {"idle", "up"}
             PROVE  failure' = "none" /\ QueuesOK' /\ MapOK'
  BY DEF HandoverInv, QueuesOK, MapOK
<1>t. /\ tasks \in [Loops -> Seq(Tasks)]
      /\ \A l \in Loops : Range(tasks[l]) \subseteq Tasks
      /\ Base \in Loops
      /\ conn \in [Clients -> {"absent", "waiting", "refused", "connecting", "connected",
                               "disconnected"}]
      /\ loopOf \in [Clients -> Loops]
  BY RangeOfSeq DEF TypeOK, Tasks, Loops
<1>h. ASSUME server \in {"idle", "up"} PROVE failure = "none" /\ QueuesOK /\ MapOK
  BY <1>h DEF HandoverInv, QueuesOK, MapOK
<1>1. CASE Start \/ UNCHANGED vars
  <2>1. server \in {"idle", "up"} /\ UNCHANGED <<conn, loopOf, connections, tasks, failure>>
    BY <1>1 DEF Start, vars
  <2> QED
    BY <1>h, <2>1 DEF QueuesOK, MapOK, TaskOK
<1>2. ASSUME NEW c \in Clients, Connect(c) PROVE failure' = "none" /\ QueuesOK' /\ MapOK'
  <2>1. /\ server \in {"idle", "up"} /\ UNCHANGED <<loopOf, connections, tasks, failure>>
        /\ conn[c] = "absent" /\ conn' = [conn EXCEPT ![c] = "waiting"]
    BY <1>2 DEF Connect, Listening
  <2>2. ASSUME NEW l \in Loops, NEW task \in Range(tasks[l]) PROVE TaskOK(l, task)'
    <3>1. TaskOK(l, task) /\ task \in Tasks
      BY <1>h, <1>t, <2>1 DEF QueuesOK
    <3>2. task[2] # c
      BY <2>1, <3>1 DEF TaskOK
    <3> QED
      BY <1>t, <2>1, <3>1, <3>2, TaskOKStable
  <2> QED
    BY <1>h, <1>t, <2>1, <2>2 DEF QueuesOK, MapOK
<1>3. ASSUME NEW c \in Clients, HandleAccept(c) PROVE failure' = "none" /\ QueuesOK' /\ MapOK'
  <2>1. server \in {"idle", "up"} /\ UNCHANGED failure /\ conn[c] = "waiting"
    BY <1>3 DEF HandleAccept, Listening, Backlog
  <2>2. ASSUME NEW l \in Loops, NEW task \in Range(tasks[l]) PROVE TaskOK(l, task) /\ task \in Tasks /\ task[2] # c
    <3>1. TaskOK(l, task) /\ task \in Tasks
      BY <1>h, <1>t, <2>1 DEF QueuesOK
    <3> QED
      BY <2>1, <3>1 DEF TaskOK
  <2>3. CASE Refuse(c)
    <3>1. ASSUME NEW l \in Loops, NEW task \in Range(tasks[l]) PROVE TaskOK(l, task)'
      BY <1>t, <2>2, <2>3, TaskOKStable DEF Refuse
    <3> QED
      BY <1>h, <1>t, <2>1, <2>3, <3>1 DEF QueuesOK, MapOK, Refuse
  <2>4. CASE NewConnection(c)
    <3>1. /\ connections' = connections \cup {c}
          /\ loopOf' = [loopOf EXCEPT ![c] = ChosenLoop]
          /\ conn' = [conn EXCEPT ![c] = IF ThreadNum = 0 THEN "connected" ELSE "connecting"]
      BY <2>4 DEF NewConnection
    <3>2. ASSUME NEW l \in Loops, NEW task \in Range(tasks[l]) PROVE TaskOK(l, task)'
      BY <1>t, <2>2, <3>1, TaskOKStable
    <3>3. MapOK'
      BY <1>h, <1>t, <2>1, <3>1 DEF MapOK
    <3>4. CASE ThreadNum = 0
      BY <1>h, <2>1, <2>4, <3>2, <3>3, <3>4 DEF NewConnection, QueuesOK
    <3>5. CASE ThreadNum # 0
      <4>1. PICK k \in IoLoops : k = ChosenLoop
        BY <3>5, TurnInPool
      <4>2. k \in Loops /\ <<"establish", c>> \in Tasks
        BY <4>1 DEF Loops, Tasks
      <4>3. tasks' = [tasks EXCEPT ![k] = Append(@, <<"establish", c>>)]
        BY <2>4, <3>5, <4>1 DEF NewConnection
      <4>4. conn'[c] = "connecting" /\ loopOf'[c] = k
        BY <1>t, <3>1, <3>5, <4>1
      <4>5. TaskOK(k, <<"establish", c>>)'
        BY <4>1, <4>4 DEF TaskOK, IoLoops
      <4>6. <<"establish", c>> \notin Range(tasks[k])
        BY <2>2, <4>2
      <4>7. QueuesOK'
        BY <1>h, <2>1, <3>2, <4>2, <4>3, <4>5, <4>6, QueueAppended
      <4> QED
        BY <1>h, <2>1, <3>3, <4>7
    <3> QED
      BY <3>4, <3>5
  <2> QED
    BY <1>3, <2>3, <2>4 DEF HandleAccept
<1>4. ASSUME NEW c \in Clients, HandleClose(c) PROVE failure' = "none" /\ QueuesOK' /\ MapOK'
  <2>1. /\ server \in {"idle", "up"} /\ UNCHANGED <<loopOf, failure>>
        /\ conn[c] = "connected" /\ conn' = [conn EXCEPT ![c] = "disconnected"]
    BY <1>4 DEF HandleClose
  <2>2. ASSUME NEW l \in Loops, NEW task \in Range(tasks[l]) PROVE TaskOK(l, task) /\ task \in Tasks /\ task[2] # c
    <3>1. TaskOK(l, task) /\ task \in Tasks
      BY <1>h, <1>t, <2>1 DEF QueuesOK
    <3> QED
      BY <2>1, <3>1 DEF TaskOK
  <2>3. \A d \in connections : d # c => d \in connections'
    BY <1>4 DEF HandleClose, RemoveConn, Erase
  <2>4. ASSUME NEW l \in Loops, NEW task \in Range(tasks[l]) PROVE TaskOK(l, task)'
    BY <1>t, <2>1, <2>2, <2>3, TaskOKStable
  <2>5. MapOK'
    BY <1>h, <1>t, <2>1, <2>3 DEF MapOK
  <2>6. CASE loopOf[c] = Base
    BY <1>4, <1>h, <2>1, <2>4, <2>5, <2>6 DEF HandleClose, RemoveConn, QueuesOK
  <2>7. CASE loopOf[c] # Base
    <3>1. <<"remove", c>> \in Tasks /\ <<"remove", c>> \notin Range(tasks[Base])
      BY <1>t, <2>2 DEF Tasks
    <3>2. connections' = connections /\ tasks' = [tasks EXCEPT ![Base] = Append(@, <<"remove", c>>)]
      BY <1>4, <2>7 DEF HandleClose, RemoveConn
    <3>3. c \in connections /\ conn'[c] = "disconnected"
      BY <1>h, <1>t, <2>1 DEF MapOK
    <3>4. TaskOK(Base, <<"remove", c>>)'
      BY <3>2, <3>3 DEF TaskOK, Base
    <3>5. QueuesOK'
      BY <1>h, <1>t, <2>1, <2>4, <3>1, <3>2, <3>4, QueueAppended
    <3> QED
      BY <1>h, <2>1, <2>5, <3>5
  <2> QED
    BY <2>6, <2>7
<1>5. ASSUME NEW l \in IoLoops, RunIoTask(l) PROVE failure' = "none" /\ QueuesOK' /\ MapOK'
  <2>1. /\ server \in {"idle", "up"} /\ UNCHANGED <<loopOf, connections>>
        /\ tasks[l] # <<>> /\ l \in Loops /\ l # Base
    BY <1>5, ThreadNumAssumption DEF RunIoTask, Loops, IoLoops, Base
  <2>2. tasks[l] \in Seq(Tasks) /\ IsInjective(tasks[l])
    BY <1>h, <1>t, <2>1 DEF QueuesOK
  <2>3. Head(tasks[l]) \in Range(tasks[l])
    BY <2>1, <2>2, TailRange
  <2>4. TaskOK(l, Head(tasks[l])) /\ Head(tasks[l]) \in Tasks
    BY <1>h, <1>t, <2>1, <2>3 DEF QueuesOK
  <2>5. PICK c \in Clients : Head(tasks[l]) = <<"establish", c>> /\ conn[c] = "connecting" /\ loopOf[c] = l
    BY <2>1, <2>4 DEF TaskOK, Tasks
  <2>6. /\ conn' = [conn EXCEPT ![c] = "connected"]
        /\ tasks' = [tasks EXCEPT ![l] = Tail(@)]
        /\ UNCHANGED failure
    BY <1>5, <2>5 DEF RunIoTask
  <2>7. ASSUME NEW k \in Loops, NEW task \in Range(tasks[k]), ~(k = l /\ task = Head(tasks[l]))
        PROVE  TaskOK(k, task)'
    <3>1. TaskOK(k, task) /\ task \in Tasks
      BY <1>h, <1>t, <2>1 DEF QueuesOK
    <3>2. task[2] # c
      BY <2>5, <2>7, <3>1 DEF TaskOK, Tasks
    <3> QED
      BY <1>t, <2>1, <2>6, <3>1, <3>2, TaskOKStable
  <2>8. QueuesOK'
    BY <1>h, <2>1, <2>6, <2>7, QueueShortened
  <2>9. MapOK'
    BY <1>h, <1>t, <2>1, <2>5, <2>6 DEF MapOK
  <2> QED
    BY <1>h, <2>1, <2>6, <2>8, <2>9
<1>6. CASE RunBaseTask
  <2>1. /\ server \in {"idle", "up"} /\ UNCHANGED <<conn, loopOf>> /\ server # "gone"
        /\ tasks[Base] # <<>> /\ tasks' = [tasks EXCEPT ![Base] = Tail(@)]
    BY <1>6 DEF RunBaseTask
  <2>2. tasks[Base] \in Seq(Tasks) /\ IsInjective(tasks[Base])
    BY <1>h, <1>t, <2>1 DEF QueuesOK
  <2>3. Head(tasks[Base]) \in Range(tasks[Base])
    BY <2>1, <2>2, TailRange
  <2>4. TaskOK(Base, Head(tasks[Base])) /\ Head(tasks[Base]) \in Tasks
    BY <1>h, <1>t, <2>1, <2>3 DEF QueuesOK
  <2>5. PICK c \in Clients : Head(tasks[Base]) = <<"remove", c>> /\ conn[c] = "disconnected" /\ c \in connections
    BY <2>4, ThreadNumAssumption DEF TaskOK, Tasks, IoLoops, Base
  <2>6. connections' = connections \ {c} /\ failure' = "none"
    BY <1>6, <2>1, <2>5 DEF RunBaseTask, Erase
  <2>7. ASSUME NEW k \in Loops, NEW task \in Range(tasks[k]), ~(k = Base /\ task = Head(tasks[Base]))
        PROVE  TaskOK(k, task)'
    <3>1. TaskOK(k, task) /\ task \in Tasks
      BY <1>h, <1>t, <2>1 DEF QueuesOK
    <3>2. task[2] # c
      BY <2>5, <2>7, <3>1 DEF TaskOK, Tasks
    <3> QED
      BY <1>t, <2>1, <2>6, <3>1, <3>2, TaskOKStable
  <2>8. QueuesOK'
    BY <1>h, <1>t, <2>1, <2>7, QueueShortened
  <2>9. MapOK'
    BY <1>h, <2>1, <2>5, <2>6 DEF MapOK
  <2> QED
    BY <2>6, <2>8, <2>9
<1>7. server' \notin {"closing", "joining", "gone"}
  OBVIOUS
<1>8. ASSUME NEW c \in Clients PROVE ~DtorClose(c)
  BY <1>7 DEF DtorClose
<1>9. ASSUME NEW l \in IoLoops PROVE ~DtorJoin(l)
  BY <1>7 DEF DtorJoin
<1>10. ~DtorMembers /\ ~BeginDtor
  BY <1>7 DEF DtorMembers, BeginDtor
<1>11. CASE Over
  BY <1>1, <1>11 DEF Over
<1> QED
  BY <1>1, <1>2, <1>3, <1>4, <1>5, <1>6, <1>8, <1>9, <1>10, <1>11 DEF Next

(* No step takes the server's state out of its types                       *)
(* (tcp_server.cc:31-112, event_loop_pool.cc:18-39).                       *)
THEOREM TypeCorrect == Spec => []TypeOK
  BY InitTypeOK, NextTypeOK, PTL DEF Spec

(* Until ~TcpServer begins, each connection is established, closed and     *)
(* removed at most once, and so no assertion fails (tcp_server.cc:110,     *)
(* tcp_connection.cc:91).                                                  *)
THEOREM AssertsCorrect == Spec => []AssertsHold
<1>1. TypeOK /\ HandoverInv => AssertsHold
  BY DEF HandoverInv, AssertsHold
<1> QED
  BY InitTypeOK, NextTypeOK, InitHandoverInv, NextHandoverInv, <1>1, PTL DEF Spec

-----------------------------------------------------------------------------
(* What is in a queue stays when something is appended, and when something *)
(* else is taken off its front.                                            *)
LEMMA QueueKeeps ==
  ASSUME NEW q \in Seq(Tasks), NEW t \in Tasks, NEW u
  PROVE  /\ Contains(Append(q, t), t)
         /\ Contains(q, u) => Contains(Append(q, t), u)
         /\ q # <<>> /\ Contains(q, u) /\ Head(q) # u => Contains(Tail(q), u)
<1>1. /\ Len(Append(q, t)) = Len(q) + 1 /\ Len(q) \in Nat
      /\ \A i \in 1 .. Len(q) : Append(q, t)[i] = q[i]
      /\ Append(q, t)[Len(q) + 1] = t
  BY AppendProperties
<1>2. Contains(Append(q, t), t) /\ (Contains(q, u) => Contains(Append(q, t), u))
  BY <1>1 DEF Contains
<1>3. ASSUME q # <<>>, Contains(q, u), Head(q) # u PROVE Contains(Tail(q), u)
  <2>1. /\ Len(Tail(q)) = Len(q) - 1 /\ Head(q) = q[1]
        /\ \A i \in 1 .. Len(Tail(q)) : Tail(q)[i] = q[i + 1]
    BY <1>3, HeadTailProperties
  <2>2. PICK i \in 1 .. Len(q) : q[i] = u
    BY <1>3 DEF Contains
  <2>3. i - 1 \in 1 .. Len(Tail(q)) /\ Tail(q)[i - 1] = u
    BY <1>1, <1>3, <2>1, <2>2
  <2> QED
    BY <2>3 DEF Contains
<1> QED
  BY <1>2, <1>3

Undone(c) == conn[c] \in {"connecting", "connected"}
Covered(c) == c \in toClose \/ Queued("close", c, loopOf[c])

LEMMA NextDtorClosesAll ==
  TypeOK /\ HandoverInv /\ DtorClosesAll /\ [Next]_vars => DtorClosesAll'
<1> SUFFICES ASSUME TypeOK, HandoverInv, DtorClosesAll, [Next]_vars,
                    server' \in {"closing", "joining", "gone"}, failure' = "none",
                    NEW c \in Clients, Undone(c)'
             PROVE  Covered(c)'
  BY DEF DtorClosesAll, Undone, Covered
<1>t. /\ tasks \in [Loops -> Seq(Tasks)] /\ Base \in Loops /\ IoLoops \subseteq Loops
      /\ conn \in [Clients -> {"absent", "waiting", "refused", "connecting", "connected",
                               "disconnected"}]
      /\ loopOf \in [Clients -> Loops]
  BY DEF TypeOK, Tasks, Loops
<1>h. ASSUME server \in {"closing", "joining", "gone"}, failure = "none", Undone(c)
      PROVE  Covered(c)
  BY <1>h DEF DtorClosesAll, Undone, Covered
<1>1. ASSUME UNCHANGED <<server, failure, conn, loopOf, toClose, tasks>> PROVE Covered(c)'
  BY <1>1, <1>h DEF Undone, Covered, Queued
<1>2. ASSUME NEW d \in Clients, Connect(d) \/ HandleAccept(d) PROVE Covered(c)'
  BY <1>2 DEF Connect, HandleAccept, Listening
<1>3. ASSUME NEW d \in Clients, HandleClose(d) PROVE Covered(c)'
  <2>1. /\ UNCHANGED <<server, failure, loopOf, toClose>>
        /\ conn' = [conn EXCEPT ![d] = "disconnected"]
        /\ tasks' = tasks \/ tasks' = [tasks EXCEPT ![Base] = Append(@, <<"remove", d>>)]
    BY <1>3 DEF HandleClose, RemoveConn
  <2>2. Covered(c)
    BY <1>h, <1>t, <2>1 DEF Undone
  <2>3. <<"remove", d>> \in Tasks
    BY DEF Tasks
  <2>4. Contains(tasks[loopOf[c]], <<"close", c>>) => Contains(tasks'[loopOf[c]], <<"close", c>>)
    <3>1. tasks[Base] \in Seq(Tasks) /\ loopOf[c] \in Loops
      BY <1>t
    <3>2. Contains(tasks[Base], <<"close", c>>)
            => Contains(Append(tasks[Base], <<"remove", d>>), <<"close", c>>)
      BY <2>3, <3>1, QueueKeeps
    <3> QED
      BY <1>t, <2>1, <3>1, <3>2
  <2> QED
    BY <2>1, <2>2, <2>4 DEF Covered, Queued
<1>4. ASSUME NEW d \in Clients, DtorClose(d) PROVE Covered(c)'
  <2>1. /\ UNCHANGED <<server, conn, loopOf>> /\ failure = "none"
        /\ server = "closing" /\ toClose' = toClose \ {d}
        /\ tasks' = [tasks EXCEPT ![loopOf[d]] = Append(@, <<"close", d>>)]
    BY <1>4 DEF DtorClose, QueueClose, Running
  <2>2. Covered(c)
    BY <1>h, <2>1 DEF Undone
  <2>3. <<"close", d>> \in Tasks /\ loopOf[d] \in Loops
    BY <1>t DEF Tasks
  <2>4. ASSUME c # d, Queued("close", c, loopOf[c]) PROVE Queued("close", c, loopOf[c])'
    BY <1>t, <2>1, <2>3, <2>4, QueueKeeps DEF Queued
  <2>5. Queued("close", d, loopOf[d])'
    BY <1>t, <2>1, <2>3, QueueKeeps DEF Queued
  <2> QED
    BY <2>1, <2>2, <2>4, <2>5 DEF Covered
<1>5. ASSUME NEW l \in IoLoops, RunIoTask(l) PROVE Covered(c)'
  <2>1. /\ UNCHANGED <<server, loopOf, toClose>> /\ failure = "none"
        /\ tasks[l] # <<>> /\ l \in Loops /\ l # Base
    BY <1>5, ThreadNumAssumption DEF RunIoTask, Running, Loops, IoLoops, Base
  <2>2. PICK d \in Clients, op \in {"establish", "close", "remove"} : Head(tasks[l]) = <<op, d>>
    <3>1. Head(tasks[l]) \in Tasks
      BY <1>t, <2>1, HeadTailProperties
    <3> QED
      BY <3>1 DEF Tasks
  <2> DEFINE rest == [tasks EXCEPT ![l] = Tail(@)]
  <2>3. rest \in [Loops -> Seq(Tasks)]
    BY <1>t, <2>1, HeadTailProperties
  <2>4. ASSUME Contains(tasks[loopOf[c]], <<"close", c>>), <<op, d>> # <<"close", c>>
        PROVE  Contains(rest[loopOf[c]], <<"close", c>>)
    <3>1. CASE loopOf[c] = l
      BY <1>t, <2>1, <2>2, <2>4, <3>1, QueueKeeps
    <3>2. CASE loopOf[c] # l
      BY <1>t, <2>1, <2>4, <3>2
    <3> QED
      BY <3>1, <3>2
  <2>5. CASE op = "establish"
    <3>1. /\ conn[d] = "connecting" /\ conn' = [conn EXCEPT ![d] = "connected"]
          /\ tasks' = rest
      BY <1>5, <2>2, <2>5 DEF RunIoTask
    <3>2. Covered(c)
      BY <1>h, <1>t, <2>1, <3>1 DEF Undone
    <3> QED
      BY <2>1, <2>4, <2>5, <3>1, <3>2 DEF Covered, Queued
  <2>6. CASE op = "close"
    <3>1. /\ conn' = [conn EXCEPT ![d] = "disconnected"]
          /\ tasks' = [rest EXCEPT ![Base] = Append(@, <<"remove", d>>)]
      BY <1>5, <2>2, <2>6 DEF RunIoTask
    <3>2. c # d /\ Covered(c)
      BY <1>h, <1>t, <2>1, <3>1 DEF Undone
    <3>3. <<"remove", d>> \in Tasks
      BY DEF Tasks
    <3> HIDE DEF rest
    <3>4. \A u : Contains(rest[loopOf[c]], u) => Contains(tasks'[loopOf[c]], u)
      BY <1>t, <2>3, <3>1, <3>3, QueueKeeps
    <3> QED
      BY <2>1, <2>4, <3>2, <3>4 DEF Covered, Queued
  <2> QED
    BY <1>5, <2>2, <2>5, <2>6 DEF RunIoTask
<1>6. CASE RunBaseTask
  BY <1>6 DEF RunBaseTask
<1>7. CASE BeginDtor
  <2>1. /\ server = "up" /\ toClose' = connections
        /\ UNCHANGED <<conn, loopOf, connections, tasks, failure>>
    BY <1>7 DEF BeginDtor
  <2>2. c \in connections
    BY <2>1 DEF HandoverInv, Undone
  <2> QED
    BY <2>1, <2>2 DEF Covered
<1>8. CASE DtorMembers
  <2>1. server = "closing" /\ UNCHANGED <<conn, loopOf, toClose, tasks, failure>>
    BY <1>8 DEF DtorMembers
  <2> QED
    BY <1>h, <2>1 DEF Undone, Covered, Queued
<1>9. ASSUME NEW l \in IoLoops, DtorJoin(l) PROVE Covered(c)'
  <2>1. /\ server = "joining" /\ failure = "none" /\ UNCHANGED <<conn, loopOf, toClose>>
        /\ tasks' = [tasks EXCEPT ![l] = <<>>]
        /\ ~ \E d \in OpenConns : loopOf[d] = l /\ conn[d] # "disconnected"
    BY <1>9 DEF DtorJoin, Running
  <2>2. Queued("close", c, loopOf[c])
    BY <1>h, <2>1 DEF Undone, Covered, TypeOK
  <2>3. c \in OpenConns /\ conn[c] # "disconnected"
    BY <1>t, <2>1, <2>2 DEF OpenConns, Owned, Undone
  <2>4. loopOf[c] # l
    BY <2>1, <2>3
  <2> QED
    BY <1>t, <2>1, <2>2, <2>4 DEF Covered, Queued
<1> QED
  BY <1>1, <1>2, <1>3, <1>4, <1>5, <1>6, <1>7, <1>8, <1>9 DEF Next, Start, Over, vars

(* ~TcpServer forgets nobody: until a loop of the pool is joined, every    *)
(* connection not closed is still to be visited or has its close queued on *)
(* its own loop, behind what establishes it (tcp_server.cc:51-57).         *)
THEOREM DtorCorrect == Spec => []DtorClosesAll
<1>1. Init => DtorClosesAll
  BY DEF Init, DtorClosesAll
<1> QED
  BY <1>1, InitTypeOK, NextTypeOK, InitHandoverInv, NextHandoverInv, NextDtorClosesAll,
     PTL DEF Spec

-----------------------------------------------------------------------------
(* A server accepts, opens, closes and forgets its connections in that     *)
(* order; only its destruction forgets one that is open                    *)
(* (tcp_server.cc:51-112, tcp_connection.cc:73-95).                        *)
THEOREM ImplementsRegistry == Spec => RegistrySpec
<1>1. Init => Registry!Init
  BY DEF Init, Registry!Init, PhaseOf
<1>2. TypeOK /\ HandoverInv /\ [Next]_vars => [Registry!Next]_(Registry!rvars)
  <2> SUFFICES ASSUME TypeOK, HandoverInv, [Next]_vars
               PROVE  Registry!Next \/ UNCHANGED Registry!rvars
    OBVIOUS
  <2> DEFINE P == [c \in Clients |-> PhaseOf[conn[c]]]
             leaving == server \notin {"idle", "up"}
  <2>t. /\ conn \in [Clients -> {"absent", "waiting", "refused", "connecting", "connected",
                               "disconnected"}]
        /\ tasks \in [Loops -> Seq(Tasks)]
        /\ Base \in Loops
    BY DEF TypeOK, Tasks, Loops
  <2>s. ASSUME P' = P, connections' = connections, leaving' = leaving
        PROVE  UNCHANGED Registry!rvars
    BY <2>s DEF Registry!rvars
  <2>p. ASSUME NEW c \in Clients, NEW v, conn' = [conn EXCEPT ![c] = v]
        PROVE  P' = [P EXCEPT ![c] = PhaseOf[v]]
    BY <2>t, <2>p
  <2>f. /\ PhaseOf["absent"] = "new" /\ PhaseOf["waiting"] = "new" /\ PhaseOf["refused"] = "new"
        /\ PhaseOf["connecting"] = "accepted" /\ PhaseOf["connected"] = "open"
        /\ PhaseOf["disconnected"] = "closed"
    BY DEF PhaseOf
  <2>1. CASE Start \/ UNCHANGED vars
    BY <2>1, <2>s DEF Start, vars
  <2>2. ASSUME NEW c \in Clients, Connect(c) PROVE UNCHANGED Registry!rvars
    <3>1. P' = P
      BY <2>t, <2>2, <2>p, <2>f DEF Connect
    <3> QED
      BY <2>2, <2>s, <3>1 DEF Connect
  <2>3. ASSUME NEW c \in Clients, HandleAccept(c) PROVE Registry!Next \/ UNCHANGED Registry!rvars
    <3>1. conn[c] = "waiting" /\ ~leaving /\ ~leaving'
      BY <2>3 DEF HandleAccept, Backlog, Listening
    <3>2. CASE Refuse(c)
      <4>1. P' = P
        BY <2>t, <2>p, <3>1, <3>2, <2>f DEF Refuse
      <4> QED
        BY <2>s, <3>1, <3>2, <4>1 DEF Refuse
    <3>3. CASE NewConnection(c)
      <4>1. PICK v \in {"connecting", "connected"} : conn' = [conn EXCEPT ![c] = v]
        BY <3>3 DEF NewConnection
      <4>2. P[c] = "new" /\ P' = [P EXCEPT ![c] = PhaseOf[v]] /\ PhaseOf[v] \in {"accepted", "open"}
        BY <2>f, <2>p, <3>1, <4>1
      <4>3. connections' = connections \cup {c}
        BY <3>3 DEF NewConnection
      <4>4. Registry!Accept(c, PhaseOf[v])
        BY <3>1, <4>2, <4>3 DEF Registry!Accept
      <4> QED
        BY <4>2, <4>4 DEF Registry!Next
    <3> QED
      BY <2>3, <3>2, <3>3 DEF HandleAccept
  <2>4. ASSUME NEW c \in Clients, HandleClose(c) PROVE Registry!Next
    <3>c. conn[c] = "connected" /\ conn' = [conn EXCEPT ![c] = "disconnected"]
      BY <2>4 DEF HandleClose
    <3>1. P[c] = "open" /\ P' = [P EXCEPT ![c] = PhaseOf["disconnected"]] /\ leaving' = leaving
      BY <2>4, <2>f, <2>p, <3>c DEF HandleClose
    <3>2. connections' \in {connections, connections \ {c}}
      BY <2>4 DEF HandleClose, RemoveConn, Erase
    <3>3. Registry!Close(c)
      BY <2>f, <3>1, <3>2 DEF Registry!Close
    <3> QED
      BY <3>3 DEF Registry!Next
  <2>5. ASSUME NEW l \in IoLoops, RunIoTask(l) PROVE Registry!Next \/ UNCHANGED Registry!rvars
    <3>1. tasks[l] # <<>> /\ l \in Loops /\ connections' = connections /\ leaving' = leaving
      BY <2>5 DEF RunIoTask, Loops
    <3>2. PICK op \in {"establish", "close", "remove"}, c \in Clients : Head(tasks[l]) = <<op, c>>
      BY <2>t, <3>1, HeadTailProperties DEF Tasks
    <3>3. CASE conn' = conn
      BY <2>s, <3>1, <3>3
    <3>4. CASE conn[c] = "connecting" /\ conn' = [conn EXCEPT ![c] = "connected"]
      <4>1. P[c] = "accepted" /\ P' = [P EXCEPT ![c] = PhaseOf["connected"]]
        BY <2>f, <2>p, <3>4
      <4>2. Registry!Open(c)
        BY <2>f, <3>1, <4>1 DEF Registry!Open
      <4> QED
        BY <4>2 DEF Registry!Next
    <3>5. CASE conn[c] = "connected" /\ conn' = [conn EXCEPT ![c] = "disconnected"]
      <4>1. P[c] = "open" /\ P' = [P EXCEPT ![c] = PhaseOf["disconnected"]]
        BY <2>f, <2>p, <3>5
      <4>2. Registry!Close(c)
        BY <2>f, <3>1, <4>1 DEF Registry!Close
      <4> QED
        BY <4>2 DEF Registry!Next
    <3> QED
      BY <2>5, <3>2, <3>3, <3>4, <3>5 DEF RunIoTask
  <2>6. CASE RunBaseTask
    <3>1. UNCHANGED <<server, conn>> /\ tasks[Base] # <<>>
      BY <2>6 DEF RunBaseTask
    <3>2. CASE server = "gone"
      BY <2>6, <2>s, <3>1, <3>2 DEF RunBaseTask
    <3>3. CASE server # "gone"
      <4>1. server \in {"idle", "up"}
        BY <2>6, <3>3 DEF RunBaseTask
      <4>2. /\ IsInjective(tasks[Base]) /\ tasks[Base] \in Seq(Tasks)
            /\ \A task \in Range(tasks[Base]) : TaskOK(Base, task)
        BY <2>t, <4>1 DEF HandoverInv
      <4>3. TaskOK(Base, Head(tasks[Base])) /\ Head(tasks[Base]) \in Tasks
        BY <3>1, <4>2, TailRange, HeadTailProperties
      <4>4. PICK c \in Clients : Head(tasks[Base]) = <<"remove", c>> /\ conn[c] = "disconnected"
        BY <4>3, ThreadNumAssumption DEF TaskOK, Tasks, IoLoops, Base
      <4>5. connections' = connections \ {c}
        BY <2>6, <3>3, <4>4 DEF RunBaseTask, Erase
      <4>6. P[c] = "closed" /\ P' = P /\ leaving' = leaving
        BY <2>f, <3>1, <4>4
      <4>7. Registry!Forget(c)
        BY <4>5, <4>6 DEF Registry!Forget
      <4> QED
        BY <4>7 DEF Registry!Next
    <3> QED
      BY <3>2, <3>3
  <2>7. CASE BeginDtor
    BY <2>7 DEF BeginDtor, Registry!Leave, Registry!Next
  <2>8. ASSUME NEW c \in Clients, DtorClose(c) PROVE UNCHANGED Registry!rvars
    BY <2>8, <2>s DEF DtorClose, QueueClose
  <2>9. CASE DtorMembers
    BY <2>9 DEF DtorMembers, Registry!Abandon, Registry!Next
  <2>10. ASSUME NEW l \in IoLoops, DtorJoin(l) PROVE UNCHANGED Registry!rvars
    BY <2>10, <2>s DEF DtorJoin
  <2> QED
    BY <2>1, <2>2, <2>3, <2>4, <2>5, <2>6, <2>7, <2>8, <2>9, <2>10 DEF Next, Over
<1> QED
  BY <1>1, <1>2, InitTypeOK, NextTypeOK, InitHandoverInv, NextHandoverInv,
     PTL DEF Spec, RegistrySpec, Registry!Spec
=============================================================================
