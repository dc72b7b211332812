------------------------- MODULE EventLoopThreadProofs -------------------------
(***************************************************************************)
(* For any threads, functions and channels: the thread, its loop and the   *)
(* pointer to it agree, start() returns a loop that lives, and what        *)
(* EventLoop promises, the order of its functions and the wakeups of       *)
(* pushQueue and quit, it keeps on a thread of its own too, whoever calls  *)
(* it and whenever that thread ends.                                       *)
(***************************************************************************)
EXTENDS EventLoopThread, EventLoopProofs

(* Before start() returns nobody has called the loop, which does nothing   *)
(* but poll.  A loop that nobody made quit is still running on its thread. *)
(* A call is under way only once there is a loop.                          *)
Unused ==
  /\ ~quit /\ ~wakeupFd /\ funcQueue = <<>> /\ functions = <<>> /\ activeChannels = {}
  /\ pc \notin {"callback", "function"}
  /\ \A t \in Threads : pending[t] = "none"

StartInv ==
  /\ ThreadTypeOK
  /\ owner = "idle" => thread = "none"
  /\ ~Returned => Unused
  /\ owner \in {"starting", "waiting", "woken"} => thread # "none"
  /\ owner = "started" => thread \notin {"none", "constructing", "publish"}
  /\ pc = "stopped" => quit
  /\ thread \in {"unpublish", "destroy", "exited"} => pc = "stopped"
  /\ \A w \in Workers : pending[w] # "none" => thread \notin {"none", "constructing"}

(* A wakeup sent to a loop that has died, by a call that began before. *)
DeadWakeup(w) ==
  /\ ~Alive
  /\ pending[w] # "none"
  /\ pending' = [pending EXCEPT ![w] = "none"]
  /\ UNCHANGED <<pc, quit, doingFuncQueue, wakeupFd, activeChannels, queueVars>>
  /\ UNCHANGED threadVars

(* What the threads do to the EventLoop is what EventLoop lets threads do; *)
(* but a wakeup sent to a loop that has died has no effect.                *)
LEMMA LoopStepsAreNext ==
  ASSUME ThreadTypeOK, [ThreadNext]_allVars
  PROVE  [Next]_vars \/ \E w \in Workers : DeadWakeup(w)
<1>1. Owner \in Workers /\ Workers \subseteq Threads /\ Loop \in Threads
  BY OwnerAssumption DEF Threads
<1>2. ASSUME NEW w \in Workers, WorkerCalls(w) PROVE Next
  BY <1>1, <1>2 DEF WorkerCalls, Next
<1>3. CASE DtorQuits
  BY <1>1, <1>3 DEF DtorQuits, Next, Call
<1>4. ASSUME NEW w \in Workers, WorkerWakeup(w) PROVE Next \/ DeadWakeup(w)
  <2>1. CASE Alive
    BY <1>1, <1>4, <2>1 DEF WorkerWakeup, Next
  <2>2. CASE ~Alive
    BY <1>4, <2>2 DEF WorkerWakeup, DeadWakeup
  <2> QED
    BY <2>1, <2>2
<1>5. CASE Enter
  BY <1>5 DEF Enter, Next
<1>6. CASE Looping
  BY <1>1, <1>6 DEF Looping, Next
<1>7. CASE \/ Start \/ CheckStarted \/ Join \/ SpuriousWakeup \/ DtorReadsLoop
           \/ Construct \/ Publish \/ Notify \/ LoopReturns \/ Unpublish \/ Destroy
  BY <1>7 DEF Start, CheckStarted, Join, SpuriousWakeup, DtorReadsLoop, Construct,
     Publish, Notify, LoopReturns, Unpublish, Destroy
<1>8. CASE UNCHANGED allVars
  BY <1>8 DEF allVars
<1> QED
  BY <1>2, <1>3, <1>4, <1>5, <1>6, <1>7, <1>8 DEF ThreadNext, OwnerCode, ThreadTask

LEMMA InitStartInv == ThreadInit => StartInv
<1> SUFFICES ASSUME ThreadInit PROVE StartInv
  OBVIOUS
<1>1. Workers \subseteq Threads
  BY DEF Threads
<1>2. TypeOK /\ Unused
  BY InitTypeOK DEF ThreadInit, Init, Unused
<1> QED
  BY <1>1, <1>2 DEF ThreadInit, StartInv, ThreadTypeOK, Init

(* A wakeup of a loop that has died forgets the call it came from. *)
LEMMA NextThreadTypeOK == ThreadTypeOK /\ [ThreadNext]_allVars => TypeOK'
<1> SUFFICES ASSUME ThreadTypeOK, [ThreadNext]_allVars PROVE TypeOK'
  OBVIOUS
<1>1. CASE [Next]_vars
  BY <1>1, NextTypeOK DEF ThreadTypeOK
<1>2. ASSUME NEW w \in Workers, DeadWakeup(w) PROVE TypeOK'
  BY <1>2 DEF DeadWakeup, ThreadTypeOK, TypeOK, queueVars
<1> QED
  BY <1>1, <1>2, LoopStepsAreNext

(* Without calls from outside, loop() does nothing but poll. *)
LEMMA LoopingUnused ==
  ASSUME StartInv, ~Returned, Looping
  PROVE  Unused' /\ pc' # "stopped" /\ pc # "created"
<1>1. Unused /\ UNCHANGED threadVars /\ thread = "looping" /\ Loop \in Threads
  BY DEF StartInv, Looping, Threads
<1>2. pc \notin {"callback", "function"} /\ pending[Loop] = "none"
  BY <1>1 DEF Unused
<1>3. \/ TestQuit \/ BeginDoFuncQueue \/ SwapFuncQueue \/ EndDoFuncQueue \/ PollTimeout
  BY <1>1, <1>2, WakeAssumption
  DEF Looping, LoopStep, InUserCode, Unused, PollWakeup, HandleWakeup, BeginCallback,
    RunFunction, ReturnCallback, ReturnFunction, LoopAt, Wakeup
<1>4. pc # "created"
  BY <1>3 DEF TestQuit, BeginDoFuncQueue, SwapFuncQueue, EndDoFuncQueue, PollTimeout, PollReturns,
    LoopAt
<1> QED
  BY <1>1, <1>3, <1>4
  DEF Unused, TestQuit, BeginDoFuncQueue, SwapFuncQueue, EndDoFuncQueue, PollTimeout, PollReturns,
    LoopAt, queueVars

LEMMA NextStartInv == StartInv /\ [ThreadNext]_allVars => StartInv'
<1> SUFFICES ASSUME StartInv, [ThreadNext]_allVars PROVE StartInv'
  OBVIOUS
<1>1. TypeOK' /\ TypeOK
  BY NextThreadTypeOK DEF StartInv, ThreadTypeOK
<1>w. Owner \in Workers /\ Loop \notin Workers /\ Workers \subseteq Threads
  BY OwnerAssumption, LoopAssumption DEF Threads
<1>2. \A w \in Workers, x, u \in Workers :
        pending' = [pending EXCEPT ![w] = x] => pending'[u] = IF u = w THEN x ELSE pending[u]
  BY <1>1, <1>w DEF TypeOK
<1>3. CASE UNCHANGED allVars
  BY <1>1, <1>3 DEF StartInv, ThreadTypeOK, Unused, Returned, allVars, vars, threadVars, queueVars
<1>4. CASE Start
  BY <1>1, <1>4, <1>w DEF StartInv, ThreadTypeOK, Unused, Returned, Start, vars, queueVars
<1>5. CASE CheckStarted \/ SpuriousWakeup \/ DtorReadsLoop \/ Join
  BY <1>1, <1>5 DEF StartInv, ThreadTypeOK, Unused, Returned, CheckStarted, SpuriousWakeup,
    DtorReadsLoop, Join, vars, queueVars
<1>6. CASE DtorQuits
  <2>1. CASE Alive
    BY <1>1, <1>2, <1>6, <1>w, <2>1
    DEF StartInv, ThreadTypeOK, Unused, Returned, DtorQuits, Quit, Alive, vars, queueVars
  <2>2. CASE ~Alive
    BY <1>1, <1>6, <2>2
    DEF StartInv, ThreadTypeOK, Unused, Returned, DtorQuits, vars, queueVars
  <2> QED
    BY <2>1, <2>2
<1>7. ASSUME NEW w \in Workers, WorkerWakeup(w) PROVE StartInv'
  <2>1. /\ pending[w] # "none" /\ pending' = [pending EXCEPT ![w] = "none"]
        /\ UNCHANGED <<pc, quit, owner, thread, loopSet>>
    BY <1>7 DEF WorkerWakeup, Wakeup, threadVars
  <2>2. Returned
    BY <1>w, <2>1 DEF StartInv, Unused
  <2> QED
    BY <1>1, <1>2, <2>1, <2>2 DEF StartInv, ThreadTypeOK, Returned
<1>8. ASSUME NEW w \in Workers, WorkerCalls(w) PROVE StartInv'
  <2>1. Returned /\ Alive /\ UNCHANGED <<owner, thread, loopSet>>
    BY <1>8 DEF WorkerCalls, Returned, threadVars
  <2>2. /\ quit => quit'
        /\ pc' = pc
        /\ \E x : pending' = [pending EXCEPT ![w] = x]
    BY <1>8 DEF WorkerCalls, Call, Push, Quit
  <2>3. thread \notin {"none", "constructing", "exited"}
    BY <2>1 DEF Alive
  <2>4. pc' = "stopped" => quit'
    BY <2>2 DEF StartInv
  <2> QED
    BY <1>1, <2>1, <2>2, <2>3, <2>4 DEF StartInv, ThreadTypeOK, Returned, Alive
<1>9. CASE Construct \/ Publish \/ Notify \/ LoopReturns \/ Unpublish \/ Destroy
  BY <1>1, <1>9 DEF StartInv, ThreadTypeOK, Unused, Returned, Construct, Publish, Notify,
    LoopReturns, Unpublish, Destroy, vars, queueVars
<1>10. CASE Enter
  BY <1>1, <1>10 DEF StartInv, ThreadTypeOK, Unused, Returned, Enter, EnterLoop, queueVars
<1>11. CASE Looping /\ ~Returned
  <2>1. thread = "looping" /\ UNCHANGED <<owner, thread, loopSet>>
    BY <1>11 DEF Looping, threadVars
  <2> QED
    BY <1>1, <1>11, <2>1, LoopingUnused DEF StartInv, ThreadTypeOK, Returned
<1>12. CASE Looping /\ Returned
  <2>1. thread = "looping" /\ UNCHANGED <<owner, thread, loopSet>>
    BY <1>12 DEF Looping, threadVars
  <2>2. pc' = "stopped" => quit'
    BY <1>12
    DEF StartInv, Looping, LoopStep, TestQuit, PollWakeup, PollIO, PollTimeout, PollReturns,
      HandleWakeup, BeginCallback, BeginDoFuncQueue, SwapFuncQueue, RunFunction, ReturnCallback,
      ReturnFunction, EndDoFuncQueue, LoopAt, Call, Push, Quit, ExecInline, Wakeup
  <2> QED
    BY <1>1, <1>12, <2>1, <2>2 DEF StartInv, ThreadTypeOK, Returned
<1> QED
  BY <1>3, <1>4, <1>5, <1>6, <1>7, <1>8, <1>9, <1>10, <1>11, <1>12
  DEF ThreadNext, OwnerCode, ThreadTask, allVars

LEMMA StartInvHolds == ThreadSpec => []StartInv
  BY InitStartInv, NextStartInv, PTL DEF ThreadSpec

(* loop_ is set exactly while the loop on the thread's stack is published, *)
(* and loop() runs only then or at its end (event_loop_thread.cc:36-47).   *)
THEOREM ThreadTypeCorrect == ThreadSpec => []ThreadTypeOK
<1>1. StartInv => ThreadTypeOK
  BY DEF StartInv
<1> QED
  BY <1>1, StartInvHolds, PTL

(* However often the wait in start() is woken for nothing, start() returns *)
(* a loop that exists, and that loop lives until somebody makes it quit    *)
(* (event_loop_thread.cc:26-47, event_loop.cc:55-76).                      *)
THEOREM StartCorrect == ThreadSpec => []StartedLoopLives
<1>1. StartInv => StartedLoopLives
  BY DEF StartInv, StartedLoopLives, ThreadTypeOK, Unused, Returned, Alive
<1> QED
  BY <1>1, StartInvHolds, PTL

-----------------------------------------------------------------------------
(* The functions handed over run in order, and once, on the thread's loop  *)
(* too; its death loses those that still wait, and runs none of them twice *)
(* (event_loop_thread.cc:36-47, event_loop.cc:88-118).                     *)
THEOREM ThreadImplementsFunctionQueue == ThreadSpec => QueueSpec
<1>1. ThreadInit => Queue!Init
  BY DEF ThreadInit, Init, Queue!Init
<1>2. StartInv /\ [ThreadNext]_allVars => [Queue!Next]_(Queue!fvars)
  <2> SUFFICES ASSUME StartInv, [ThreadNext]_allVars PROVE [Queue!Next]_(Queue!fvars)
    OBVIOUS
  <2>1. CASE [Next]_vars
    BY <2>1, NextQueueStep DEF StartInv, ThreadTypeOK
  <2>2. ASSUME NEW w \in Workers, DeadWakeup(w) PROVE UNCHANGED Queue!fvars
    BY <2>2 DEF DeadWakeup, queueVars, Queue!fvars
  <2> QED
    BY <2>1, <2>2, LoopStepsAreNext DEF StartInv
<1> QED
  BY <1>1, <1>2, StartInvHolds, PTL DEF ThreadSpec, QueueSpec, Queue!Spec

-----------------------------------------------------------------------------
(* What wakes the loop holds until loop() returns; a wakeup sent after the *)
(* loop has died has no effect.                                            *)
ThreadWakeupInv ==
  /\ pc # "stopped" => WakeupInv
  /\ NoLostQuit

LEMMA NextThreadWakeupInv ==
  StartInv /\ ThreadWakeupInv /\ [ThreadNext]_allVars => ThreadWakeupInv'
<1> SUFFICES ASSUME StartInv, ThreadWakeupInv, [ThreadNext]_allVars
             PROVE ThreadWakeupInv'
  OBVIOUS
<1> USE DEF ThreadWakeupInv
<1>1. TypeOK /\ TypeOK'
  BY NextThreadTypeOK DEF StartInv, ThreadTypeOK
<1>2. CASE pc = "stopped"
  (* loop() is not entered a second time. *)
  <2>1. thread \in {"looping", "unpublish", "destroy", "exited"}
    BY <1>2 DEF StartInv, ThreadTypeOK
  <2>2. pc' = "stopped"
    BY <1>2, <2>1
    DEF ThreadNext, OwnerCode, ThreadTask, Start, CheckStarted, SpuriousWakeup,
      DtorReadsLoop, Join, DtorQuits, WorkerWakeup, WorkerCalls, Call, Construct, Publish,
      Notify, Enter, LoopReturns, Unpublish, Destroy, Looping, LoopStep, TestQuit,
      PollWakeup, PollIO, PollTimeout, PollReturns, HandleWakeup, BeginCallback,
      ReturnCallback, BeginDoFuncQueue, SwapFuncQueue, RunFunction, ReturnFunction,
      EndDoFuncQueue, LoopAt, InUserCode, Push, Quit, ExecInline, Wakeup, threadVars,
      allVars, vars
  <2> QED
    BY <1>1, <2>2 DEF NoLostQuit
<1>3. CASE pc # "stopped" /\ [Next]_vars
  BY <1>1, <1>3, NextWakeupInv, NextNoLostQuit
<1>4. ASSUME NEW w \in Workers, pc # "stopped", DeadWakeup(w) PROVE FALSE
  (* A loop that has not stopped is alive once anybody can call it. *)
  BY <1>4 DEF DeadWakeup, StartInv, ThreadTypeOK, Alive
<1> QED
  BY <1>2, <1>3, <1>4, LoopStepsAreNext DEF StartInv

LEMMA ThreadWakeupInvHolds == ThreadSpec => [](StartInv /\ ThreadWakeupInv)
<1>1. ThreadInit => ThreadWakeupInv
  BY InitWakeupInv, InitTypeOK DEF ThreadInit, ThreadWakeupInv, NoLostQuit, Init
<1> QED
  BY <1>1, InitStartInv, NextStartInv, NextThreadWakeupInv, PTL DEF ThreadSpec

(* No function is left waiting for the poll timeout, from the first one    *)
(* on, pushed before loop() is entered even, whether another thread, a     *)
(* callback or a function pushes it (event_loop_thread.cc:26-47,           *)
(* event_loop.cc:96-105).                                                  *)
THEOREM ThreadWakeupCorrect == ThreadSpec => []NoLostWakeup
<1>1. StartInv /\ ThreadWakeupInv => NoLostWakeup
  BY WakeupInvSuffices, TaskAssumption DEF StartInv, ThreadTypeOK, ThreadWakeupInv, NoLostWakeup
<1> QED
  BY <1>1, ThreadWakeupInvHolds, PTL

(* A quit_ that loop() keeps is seen without the poll timeout, whether the *)
(* destructor, another thread, a callback or a function set it             *)
(* (event_loop_thread.cc:17-24, event_loop.cc:55-76).                      *)
THEOREM ThreadQuitCorrect == ThreadSpec => []NoLostQuit
<1>1. ThreadWakeupInv => NoLostQuit
  BY DEF ThreadWakeupInv
<1> QED
  BY <1>1, ThreadWakeupInvHolds, PTL
=============================================================================
