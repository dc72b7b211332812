------------------------------- MODULE TcpServer -------------------------------
(***************************************************************************)
(* lotta::TcpServer with its Acceptor and its EventLoopPool: the base loop *)
(* accepts connections and keeps them in a map, the loops of the pool, or  *)
(* the base loop if there are none, serve them.                            *)
(*                                                                         *)
(* Loops are numbered, the base loop is 0.  Each keeps the promise of      *)
(* FunctionQueue for the functions exec'd by other threads (tasks), and    *)
(* exec on a loop's own thread is part of the action that calls it.  A     *)
(* TcpConnection is reduced to its state_ and its shared_ptrs: the map and *)
(* the tasks bound to it; it is destroyed, and its descriptor closed, when *)
(* the last of them goes.  The name of a connection is the connection.     *)
(*                                                                         *)
(* The server is destroyed on the base loop's thread, after start().  What *)
(* fails, an assertion or a use of the destroyed server, ends the program. *)
(***************************************************************************)
EXTENDS Naturals, Sequences, FiniteSets, SequencesExt

CONSTANTS
  Clients,              \* clients that connect, each once
  ThreadNum,            \* threadNum_
  SystemLimit,          \* connections the system has descriptors for (ENFILE)
  ProcessLimit          \* connections the process may have open (EMFILE)

ASSUME ThreadNumAssumption == ThreadNum \in Nat
ASSUME LimitAssumption == SystemLimit \in Nat /\ ProcessLimit \in Nat

Base == 0
IoLoops == 1 .. ThreadNum
Loops == {Base} \cup IoLoops

VARIABLES
  server,               \* "idle", "up", then the destructor: "closing" the
                        \* connections, "joining" the pool; "gone"
  conn,                 \* state_ of each connection; "absent", "waiting" in
                        \* the backlog and "refused" before there is one
  loopOf,               \* loop_ of each connection, Base before there is one
  connections,          \* connections_
  idx,                  \* idx_ of the pool
  tasks,                \* functions queued for each loop
  toClose,              \* connections_ the destructor has yet to visit
  stopped,              \* loops of the pool whose thread has ended
  failure               \* what has failed, or "none"

vars == <<server, conn, loopOf, connections, idx, tasks, toClose, stopped, failure>>

Init ==
  /\ server = "idle"
  /\ conn = [c \in Clients |-> "absent"]
  /\ loopOf = [c \in Clients |-> Base]
  /\ connections = {}
  /\ idx = 0
  /\ tasks = [l \in Loops |-> <<>>]
  /\ toClose = {}
  /\ stopped = {}
  /\ failure = "none"

Running == failure = "none"

(* Who has a shared_ptr to c, and which connections have a descriptor. *)
Queued(op, c, l) == Contains(tasks[l], <<op, c>>)
Owned(c) ==
  \/ c \in connections
  \/ \E op \in {"establish", "close", "remove"}, l \in Loops : Queued(op, c, l)
OpenConns == {c \in Clients : Owned(c)}

Listening == server = "up"
Backlog == {c \in Clients : conn[c] = "waiting"}

-----------------------------------------------------------------------------
(* start, with the pool's start and the Acceptor's listen. *)
Start ==
  /\ Running
  /\ server = "idle"
  /\ server' = "up"
  /\ UNCHANGED <<conn, loopOf, connections, idx, tasks, toClose, stopped, failure>>

Connect(c) ==
  /\ Running /\ Listening
  /\ conn[c] = "absent"
  /\ conn' = [conn EXCEPT ![c] = "waiting"]
  /\ UNCHANGED <<server, loopOf, connections, idx, tasks, toClose, stopped, failure>>

-----------------------------------------------------------------------------
(* getLoop: round robin *)

Turn == IF ThreadNum = 0 THEN idx ELSE (idx + 1) % ThreadNum
ChosenLoop == IF ThreadNum = 0 THEN Base ELSE idx + 1

(* newConnection: connEstablished runs at once on the base loop, and is    *)
(* queued for any other.                                                   *)
NewConnectionUnregistered(c) ==         \* mutant: not entered in connections_
  /\ loopOf' = [loopOf EXCEPT ![c] = ChosenLoop]
  /\ idx' = Turn
  /\ conn' = [conn EXCEPT ![c] = IF ThreadNum = 0 THEN "connected" ELSE "connecting"]
  /\ tasks' = IF ThreadNum = 0 THEN tasks
              ELSE [tasks EXCEPT ![ChosenLoop] = Append(@, <<"establish", c>>)]
  /\ UNCHANGED connections

NewConnection(c) ==
  /\ connections' = connections \cup {c}
  /\ loopOf' = [loopOf EXCEPT ![c] = ChosenLoop]
  /\ idx' = Turn
  /\ conn' = [conn EXCEPT ![c] = IF ThreadNum = 0 THEN "connected" ELSE "connecting"]
  /\ tasks' = IF ThreadNum = 0 THEN tasks
              ELSE [tasks EXCEPT ![ChosenLoop] = Append(@, <<"establish", c>>)]

(* Out of descriptors: with EMFILE nothing happens, with ENFILE the spare  *)
(* one is given up to accept the client and close it.                      *)
Exhausted == Cardinality(OpenConns) >= SystemLimit
AtProcessLimit == Cardinality(OpenConns) >= ProcessLimit

RefuseNone(c) == FALSE                  \* mutant: no spare descriptor
Refuse(c) ==
  /\ conn' = [conn EXCEPT ![c] = "refused"]
  /\ UNCHANGED <<loopOf, connections, idx, tasks>>

HandleAccept(c) ==
  /\ Running /\ Listening
  /\ c \in Backlog
  /\ ~AtProcessLimit
  /\ IF Exhausted THEN Refuse(c) ELSE NewConnection(c)
  /\ UNCHANGED <<server, toClose, stopped, failure>>

-----------------------------------------------------------------------------
(* removeConn's function, on the base loop; it erases by name. *)
EraseAll(c) == {}                       \* mutant: not by name
Erase(c) == connections \ {c}

RemoveConnNever(c) == UNCHANGED <<connections, tasks>>   \* mutant: not called by handleClose
RemoveConn(c) ==
  IF loopOf[c] = Base
    THEN connections' = Erase(c) /\ UNCHANGED tasks
    ELSE tasks' = [tasks EXCEPT ![Base] = Append(@, <<"remove", c>>)] /\ UNCHANGED connections

(* handleClose on the connection's loop: the peer closes, or a callback    *)
(* calls close().                                                          *)
HandleClose(c) ==
  /\ Running
  /\ loopOf[c] \notin stopped
  /\ loopOf[c] = Base => server = "up"
  /\ conn[c] = "connected"
  /\ conn' = [conn EXCEPT ![c] = "disconnected"]
  /\ RemoveConn(c)
  /\ UNCHANGED <<server, loopOf, idx, toClose, stopped, failure>>

(* A loop of the pool runs the next function queued for it.  A close finds *)
(* connections that the peer has closed: disableEvents() then fails an     *)
(* assertion, as the channel was removed.                                  *)
RunIoTask(l) ==
  /\ Running
  /\ l \in IoLoops \ stopped
  /\ tasks[l] # <<>>
  /\ LET op == Head(tasks[l])[1]
         c == Head(tasks[l])[2]
         rest == [tasks EXCEPT ![l] = Tail(@)]
     IN \/ /\ op = "establish"
           /\ IF conn[c] = "connecting"
                THEN conn' = [conn EXCEPT ![c] = "connected"] /\ UNCHANGED failure
                ELSE failure' = "connEstablished" /\ UNCHANGED conn
           /\ tasks' = rest
        \/ /\ op = "close"
           /\ IF conn[c] = "connected"
                THEN /\ conn' = [conn EXCEPT ![c] = "disconnected"]
                     /\ tasks' = [rest EXCEPT ![Base] = Append(@, <<"remove", c>>)]
                     /\ UNCHANGED failure
                ELSE /\ failure' = "handleClose"
                     /\ tasks' = rest
                     /\ UNCHANGED conn
  /\ UNCHANGED <<server, loopOf, connections, idx, toClose, stopped>>

(* The base loop runs the next removeConn: assert(n == 1).  Its server may *)
(* have been destroyed.                                                    *)
RunBaseTask ==
  /\ Running
  /\ server \in {"up", "gone"}
  /\ tasks[Base] # <<>>
  /\ tasks' = [tasks EXCEPT ![Base] = Tail(@)]
  /\ LET c == Head(tasks[Base])[2] IN
       IF server = "gone"
         THEN failure' = "server" /\ UNCHANGED connections
         ELSE /\ connections' = Erase(c)
              /\ failure' = IF c \in connections THEN "none" ELSE "removeConn"
  /\ UNCHANGED <<server, conn, loopOf, idx, toClose, stopped>>

-----------------------------------------------------------------------------
(* The destructor: a close for each connection, queued for its loop; then  *)
(* the members go, connections_ first and the pool, which ends and joins   *)
(* its threads one after the other, last.                                  *)

BeginDtor ==
  /\ Running
  /\ server = "up"
  /\ server' = "closing"
  /\ toClose' = connections
  /\ UNCHANGED <<conn, loopOf, connections, idx, tasks, stopped, failure>>

QueueCloseIfUp(c) ==                    \* mutant: only what is established is closed
  IF conn[c] = "connected"
    THEN tasks' = [tasks EXCEPT ![loopOf[c]] = Append(@, <<"close", c>>)]
    ELSE UNCHANGED tasks
QueueClose(c) == tasks' = [tasks EXCEPT ![loopOf[c]] = Append(@, <<"close", c>>)]

(* On the base loop handleClose runs at once, and removeConn erases the    *)
(* element the iteration is at: undefined.                                 *)
DtorClose(c) ==
  /\ Running
  /\ server = "closing"
  /\ c \in toClose
  /\ toClose' = toClose \ {c}
  /\ IF loopOf[c] = Base
       THEN failure' = "iterator" /\ UNCHANGED tasks
       ELSE QueueClose(c) /\ UNCHANGED failure
  /\ UNCHANGED <<server, conn, loopOf, connections, idx, stopped>>

DtorMembers ==
  /\ Running
  /\ server = "closing" /\ toClose = {}
  /\ connections' = {}
  /\ server' = IF ThreadNum = 0 THEN "gone" ELSE "joining"
  /\ UNCHANGED <<conn, loopOf, idx, tasks, toClose, stopped, failure>>

(* quit() and join(): the loop may end before it swaps its queue again, so *)
(* that what is left in it is dropped; a connection destroyed with it must *)
(* be disconnected.                                                        *)
DtorJoin(l) ==
  /\ Running
  /\ server = "joining"
  /\ l \in IoLoops \ stopped
  /\ \A k \in IoLoops \ stopped : l <= k
  /\ stopped' = stopped \cup {l}
  /\ server' = IF stopped' = IoLoops THEN "gone" ELSE server
  /\ tasks' = [tasks EXCEPT ![l] = <<>>]
  /\ failure' = IF \E c \in OpenConns : loopOf[c] = l /\ conn[c] # "disconnected"
                  THEN "~TcpConnection" ELSE "none"
  /\ UNCHANGED <<conn, loopOf, connections, idx, toClose>>

(* The server is gone, or the program. *)
Over == (server = "gone" \/ ~Running) /\ UNCHANGED vars

Next ==
  \/ Start
  \/ \E c \in Clients : Connect(c) \/ HandleAccept(c) \/ HandleClose(c) \/ DtorClose(c)
  \/ \E l \in IoLoops : RunIoTask(l) \/ DtorJoin(l)
  \/ RunBaseTask
  \/ BeginDtor \/ DtorMembers
  \/ Over

(* The loops serve their queues and the listening descriptor; clients need *)
(* neither connect nor close, and nobody has to destroy the server.        *)
Spec ==
  /\ Init /\ [][Next]_vars
  /\ WF_vars(\E c \in Clients : HandleAccept(c))
  /\ \A l \in IoLoops : WF_vars(RunIoTask(l))
  /\ WF_vars(RunBaseTask)

-----------------------------------------------------------------------------
(* Types; and connections_ holds only connections whose construction has   *)
(* finished (tcp_server.cc:87-96).                                         *)
TypeOK ==
  /\ server \in {"idle", "up", "closing", "joining", "gone"}
  /\ conn \in [Clients -> {"absent", "waiting", "refused", "connecting", "connected",
                           "disconnected"}]
  /\ loopOf \in [Clients -> Loops]
  /\ connections \subseteq {c \in Clients : conn[c] \in {"connecting", "connected", "disconnected"}}
  /\ idx \in Nat /\ (idx = 0 \/ idx < ThreadNum)
  /\ tasks \in [Loops -> Seq({"establish", "close", "remove"} \X Clients)]
  /\ toClose \subseteq connections /\ (toClose # {} => server = "closing")
  /\ stopped \subseteq IoLoops
  /\ failure \in {"none", "connEstablished", "handleClose", "removeConn", "server",
                  "iterator", "~TcpConnection"}

(* As long as the server lives no assertion fails: a connection is         *)
(* established once, closed once and removed once, though its loop and the *)
(* server's run on different threads (tcp_server.cc:110,                   *)
(* tcp_connection.cc:91).                                                  *)
AssertsHold ==
  /\ TypeOK
  /\ failure # "none" => server \notin {"idle", "up"}

(* What makes AssertsHold inductive: while the server lives, each queued   *)
(* function is queued once, on the loop that has to run it, and finds the  *)
(* connection in the state and in the map as when it was queued.           *)
TaskOK(l, task) ==
  \/ /\ task[1] = "establish"
     /\ l \in IoLoops /\ loopOf[task[2]] = l
     /\ conn[task[2]] = "connecting"
  \/ /\ task[1] = "remove"
     /\ l = Base
     /\ conn[task[2]] = "disconnected"
     /\ task[2] \in connections

HandoverInv ==
  server \in {"idle", "up"} =>
    /\ failure = "none"
    /\ \A l \in Loops : IsInjective(tasks[l]) /\ \A task \in Range(tasks[l]) : TaskOK(l, task)
    /\ \A c \in Clients : conn[c] \in {"connecting", "connected"} => c \in connections

(* Once the destructor has begun, a connection that is not closed, still   *)
(* waiting to be established perhaps, is to be visited or has its close    *)
(* queued on its own loop; none outlives the server (tcp_server.cc:51-57). *)
DtorClosesAll ==
  server \in {"closing", "joining", "gone"} /\ failure = "none" =>
    \A c \in Clients : conn[c] \in {"connecting", "connected"} =>
      c \in toClose \/ Queued("close", c, loopOf[c])

(* Accepted, open, closed, forgotten: the map keeps each connection until  *)
(* it has closed, and nothing reopens (tcp_server.cc:51-112).              *)
PhaseOf ==
  [absent |-> "new", waiting |-> "new", refused |-> "new",
   connecting |-> "accepted", connected |-> "open", disconnected |-> "closed"]

Registry == INSTANCE ConnectionRegistry WITH
  phase <- [c \in Clients |-> PhaseOf[conn[c]]],
  known <- connections,
  leaving <- server \notin {"idle", "up"}
RegistrySpec == Registry!Spec

(* A client does not wait in the backlog for ever: when the system is out  *)
(* of descriptors it is refused.  Only at the process's own limit does     *)
(* nothing happen (acceptor.cc:45-62).                                     *)
ClientsServed ==
  \A c \in Clients : conn[c] = "waiting" ~> (conn[c] # "waiting" \/ AtProcessLimit \/ server # "up")

(* An accepted connection is established, and the map forgets one that has *)
(* closed, so that its descriptor is freed (tcp_server.cc:102-111).        *)
ConnectionsProgress ==
  \A c \in Clients :
    /\ conn[c] = "connecting" ~> (conn[c] # "connecting" \/ server # "up")
    /\ (conn[c] = "disconnected" /\ c \in connections) ~> (~Owned(c) \/ server # "up")

(* Every connection is disconnected before it is destroyed, as             *)
(* ~TcpConnection asserts (tcp_connection.cc:37) and ~TcpServer sees to    *)
(* by a close for each (tcp_server.cc:53-56).  Violated: a loop of the     *)
(* pool may quit before it runs what the destructor queued for it.         *)
DestroyedDisconnected == failure # "~TcpConnection"
=============================================================================
