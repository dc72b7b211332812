--------------------------- MODULE EventLoopProofs ---------------------------
(***************************************************************************)
(* For any set of threads, functions and channels: the loop's state is     *)
(* well formed, the wakeup protocol of pushQueue and quit loses nothing,   *)
(* and doFuncQueue implements the FIFO of FunctionQueue.                   *)
(***************************************************************************)
EXTENDS EventLoop, SequenceTheorems, TLAPS

(* The local state of loop() and doFuncQueue() stays well formed whatever  *)
(* the other threads do (event_loop.cc:55-118).                            *)
LEMMA InitTypeOK == Init => TypeOK
<1> SUFFICES ASSUME Init PROVE TypeOK
  OBVIOUS
<1> USE DEF Init
<1>1. <<>> \in Seq(Funcs)
  BY EmptySeq
<1>2. pending \in [Threads -> {"none", "push", "quit"}]
  BY DEF Threads
<1>3. ~doingFuncQueue /\ doingFuncQueue \in BOOLEAN
  OBVIOUS
<1> QED
  BY <1>1, <1>2, <1>3 DEF TypeOK

LEMMA NextTypeOK == TypeOK /\ [Next]_vars => TypeOK'
<1> SUFFICES ASSUME TypeOK, [Next]_vars PROVE TypeOK'
  OBVIOUS
<1> USE DEF TypeOK, LoopAt, queueVars
<1>1. CASE EnterLoop
  BY <1>1 DEF EnterLoop, Stopped
<1>2. CASE TestQuit
  BY <1>2 DEF TestQuit
<1>3. CASE \E active \in SUBSET (Channels \cup {Wake}) : PollReturns(active)
  BY <1>3 DEF PollReturns
<1>4. CASE HandleWakeup
  BY <1>4 DEF HandleWakeup
<1>5. CASE \E c \in Channels : BeginCallback(c)
  BY <1>5 DEF BeginCallback
<1>6. CASE ReturnCallback
  BY <1>6 DEF ReturnCallback
<1>7. CASE BeginDoFuncQueue
  BY <1>7 DEF BeginDoFuncQueue
<1>8. CASE SwapFuncQueue
  BY <1>8 DEF SwapFuncQueue
<1>9. CASE RunFunction
  <2>1. Head(functions) \in Funcs /\ Tail(functions) \in Seq(Funcs)
    BY <1>9, HeadTailProperties DEF RunFunction
  <2>2. executed' \in Seq(Funcs)
    BY <1>9, <2>1, AppendProperties DEF RunFunction
  <2> QED
    BY <1>9, <2>1, <2>2 DEF RunFunction
<1>10. CASE ReturnFunction
  BY <1>10 DEF ReturnFunction
<1>11. CASE EndDoFuncQueue
  BY <1>11 DEF EndDoFuncQueue
<1>12. ASSUME NEW t \in Threads, NEW f \in Funcs, Push(t, f) PROVE TypeOK'
  <2>1. funcQueue' \in Seq(Funcs)
    BY <1>12, AppendProperties DEF Push
  <2> QED
    BY <1>12, <2>1 DEF Push
<1>13. ASSUME NEW t \in Threads, Quit(t) PROVE TypeOK'
  BY <1>13 DEF Quit
<1>14. ASSUME NEW t \in Threads, Wakeup(t) PROVE TypeOK'
  BY <1>14 DEF Wakeup, NeedsWakeup
<1>15. ASSUME NEW f \in Funcs, ExecInline(f) PROVE TypeOK'
  BY <1>15 DEF ExecInline
<1>16. CASE UNCHANGED vars
  BY <1>16 DEF vars
<1>17. PollWakeup \/ PollIO \/ PollTimeout =>
         \E active \in SUBSET (Channels \cup {Wake}) : PollReturns(active)
  BY DEF PollWakeup, PollIO, PollTimeout
<1> QED
  BY <1>1, <1>2, <1>3, <1>4, <1>5, <1>6, <1>7, <1>8, <1>9, <1>10, <1>11,
     <1>12, <1>13, <1>14, <1>15, <1>16, <1>17 DEF Next, LoopStep, Call

THEOREM TypeCorrect == Spec => []TypeOK
  BY InitTypeOK, NextTypeOK, PTL DEF Spec

-----------------------------------------------------------------------------
(* A queued function always has its wakeup on the way, or Loop is bound to *)
(* swap the queue before it polls again (event_loop.cc:96-105).            *)
LEMMA InitWakeupInv == Init => WakeupInv
  BY DEF Init, WakeupInv, Threads

LEMMA NextWakeupInv == TypeOK /\ WakeupInv /\ [Next]_vars => WakeupInv'
<1> SUFFICES ASSUME TypeOK, WakeupInv, [Next]_vars PROVE WakeupInv'
  OBVIOUS
<1> USE DEF WakeupInv, WillWake, NeedsWakeup, Stopped, InUserCode, LoopAt, queueVars
<1>1. CASE EnterLoop
  BY <1>1 DEF EnterLoop
<1>2. CASE TestQuit
  BY <1>2 DEF TestQuit
<1>3. CASE PollWakeup \/ PollIO \/ PollTimeout
  BY <1>3 DEF PollWakeup, PollIO, PollTimeout, PollReturns
<1>4. CASE HandleWakeup
  BY <1>4 DEF HandleWakeup
<1>5. CASE \E c \in Channels : BeginCallback(c)
  BY <1>5 DEF BeginCallback
<1>6. CASE ReturnCallback
  BY <1>6 DEF ReturnCallback
<1>7. CASE BeginDoFuncQueue
  BY <1>7 DEF BeginDoFuncQueue
<1>8. CASE SwapFuncQueue
  BY <1>8 DEF SwapFuncQueue
<1>9. CASE RunFunction
  BY <1>9 DEF RunFunction
<1>10. CASE ReturnFunction
  BY <1>10 DEF ReturnFunction
<1>11. CASE EndDoFuncQueue
  (* Clearing doingFuncQueue_ retracts no promise: a pushQueue by Loop has *)
  (* returned by now, and the other threads do not depend on it.           *)
  BY <1>11 DEF EndDoFuncQueue
<1>12. ASSUME NEW t \in Threads, NEW f \in Funcs, Push(t, f) PROVE WakeupInv'
  <2>1. pending'[t] = "push" /\ \A u \in Threads \ {t} : pending'[u] = pending[u]
    BY <1>12 DEF Push, TypeOK
  <2>2. CASE t = Loop
    <3>1. InUserCode \/ OwnerPushesEarly
      BY <1>12, <2>2, LoopAssumption DEF Push, RunsUserCode
    <3>2. pc = "function" => doingFuncQueue
      BY DEF TypeOK
    <3>3. pc = "function" => WillWake(t)'
      BY <1>12, <2>1, <3>2 DEF Push
    <3> QED
      BY <1>12, <2>1, <2>2, <3>1, <3>3, LoopAssumption DEF Push, RunsUserCode
  <2>3. CASE t # Loop
    <3>1. WillWake(t)'
      BY <2>1, <2>3
    <3>2. Loop \in Threads
      BY DEF Threads
    <3> QED
      BY <1>12, <2>1, <2>3, <3>1, <3>2 DEF Push
  <2> QED
    BY <2>2, <2>3
<1>13. ASSUME NEW t \in Threads, Quit(t) PROVE WakeupInv'
  <2>1. pending'[t] = "quit" /\ \A u \in Threads \ {t} : pending'[u] = pending[u]
    BY <1>13 DEF Quit, TypeOK
  <2>2. pending[t] = "none"
    BY <1>13 DEF Quit
  <2>3. \A u \in Threads : WillWake(u) => WillWake(u)'
    BY <1>13, <2>1, <2>2 DEF Quit
  <2>4. Loop \in Threads
    BY DEF Threads
  <2>5. t = Loop => InUserCode \/ Stopped
    BY <1>13, LoopAssumption DEF Quit, RunsUserCode
  <2> QED
    BY <1>13, <2>1, <2>3, <2>4, <2>5 DEF Quit
<1>14. ASSUME NEW t \in Threads, Wakeup(t) PROVE WakeupInv'
  <2>1. pending'[t] = "none" /\ \A u \in Threads \ {t} : pending'[u] = pending[u]
    BY <1>14 DEF Wakeup, TypeOK
  <2>2. WillWake(t) => wakeupFd'
    BY <1>14 DEF Wakeup
  <2>3. \A u \in Threads \ {t} : WillWake(u) => WillWake(u)'
    BY <1>14, <2>1 DEF Wakeup
  <2>4. Loop \in Threads
    BY DEF Threads
  <2> QED
    BY <1>14, <2>1, <2>2, <2>3, <2>4 DEF Wakeup
<1>15. ASSUME NEW f \in Funcs, ExecInline(f) PROVE WakeupInv'
  BY <1>15 DEF ExecInline
<1>16. CASE UNCHANGED vars
  BY <1>16 DEF vars
<1> QED
  BY <1>1, <1>2, <1>3, <1>4, <1>5, <1>6, <1>7, <1>8, <1>9, <1>10, <1>11,
     <1>12, <1>13, <1>14, <1>15, <1>16 DEF Next, LoopStep, Call

LEMMA WakeupInvSuffices ==
  ASSUME ~OwnerPushesEarly, TypeOK, WakeupInv PROVE NoLostWakeup
<1> SUFFICES ASSUME pc = "poll", funcQueue # <<>>, ~wakeupFd
             PROVE \E t \in Workers : pending[t] = "push"
  BY DEF NoLostWakeup
<1>1. PICK t \in Threads : pending[t] = "push"
  BY DEF WakeupInv, WillWake
<1>2. t # Loop
  BY <1>1 DEF WakeupInv, InUserCode, Stopped
<1> QED
  BY <1>1, <1>2 DEF Threads

(* pushQueue loses no wakeup, provided that the loop's own thread does not *)
(* push before loop() runs (event_loop.cc:96-105).                         *)
THEOREM WakeupCorrect == ASSUME ~OwnerPushesEarly PROVE Spec => []NoLostWakeup
  BY InitTypeOK, NextTypeOK, InitWakeupInv, NextWakeupInv, WakeupInvSuffices, PTL DEF Spec

-----------------------------------------------------------------------------
(* quit() from another thread is seen, or its wakeup is on the way, when   *)
(* Loop is about to poll (event_loop.cc:71-76); the loop's own quit() needs *)
(* no wakeup since Loop is then in user code.                              *)
LEMMA NextNoLostQuit ==
  TypeOK /\ WakeupInv /\ NoLostQuit /\ [Next]_vars => NoLostQuit'
<1> SUFFICES ASSUME TypeOK, WakeupInv, NoLostQuit, [Next]_vars,
                    pc' = "poll", quit', ~wakeupFd'
             PROVE \E t \in Workers : pending'[t] = "quit"
  BY NextTypeOK DEF NoLostQuit
<1> USE DEF NoLostQuit, LoopAt, queueVars
<1>1. CASE Next /\ pc # "poll"
  <2>1. TestQuit
    BY <1>1 DEF Next, LoopStep, Call, EnterLoop, TestQuit, PollWakeup, PollIO,
      PollTimeout, PollReturns, HandleWakeup, BeginCallback, ReturnCallback,
      BeginDoFuncQueue, SwapFuncQueue, RunFunction, ReturnFunction,
      EndDoFuncQueue, Push, Quit, Wakeup, ExecInline
  <2> QED
    BY <2>1 DEF TestQuit
<1>2. ASSUME NEW t \in Threads, NEW f \in Funcs, Push(t, f), pc = "poll"
      PROVE \E u \in Workers : pending'[u] = "quit"
  BY <1>2 DEF Push, TypeOK
<1>3. ASSUME NEW t \in Threads, Quit(t), pc = "poll"
      PROVE \E u \in Workers : pending'[u] = "quit"
  <2>1. t \in Workers
    BY <1>3 DEF Quit, RunsUserCode, Stopped, InUserCode
  <2> QED
    BY <1>3, <2>1 DEF Quit, TypeOK
<1>4. ASSUME NEW t \in Threads, Wakeup(t), pc = "poll"
      PROVE \E u \in Workers : pending'[u] = "quit"
  <2>1. t = Loop
    BY <1>4 DEF Wakeup, NeedsWakeup
  <2>2. pending[Loop] = "none"
    BY <1>4 DEF WakeupInv, InUserCode, Stopped
  <2> QED
    BY <1>4, <2>1, <2>2 DEF Wakeup
<1>5. CASE UNCHANGED vars
  BY <1>5 DEF vars
<1>6. CASE Next /\ pc = "poll"
  <2>1. CASE \E f \in Funcs : ExecInline(f)
    BY <2>1, <1>6, LoopAssumption DEF ExecInline, RunsUserCode, Stopped, InUserCode
  <2>2. CASE EnterLoop \/ LoopStep \/ PollIO \/ PollTimeout \/ ReturnCallback
             \/ ReturnFunction
    BY <2>2, <1>6 DEF LoopStep, EnterLoop, Stopped, TestQuit, PollWakeup, PollIO,
      PollTimeout, PollReturns, HandleWakeup, BeginCallback, ReturnCallback,
      BeginDoFuncQueue, SwapFuncQueue, RunFunction, ReturnFunction, EndDoFuncQueue
  <2> QED
    BY <1>2, <1>3, <1>4, <1>6, <2>1, <2>2 DEF Next, Call
<1> QED
  BY <1>1, <1>5, <1>6

THEOREM QuitCorrect == Spec => []NoLostQuit
<1>1. Init => NoLostQuit
  BY InitTypeOK DEF Init, NoLostQuit
<1> QED
  BY <1>1, InitTypeOK, NextTypeOK, InitWakeupInv, NextWakeupInv, NextNoLostQuit,
     PTL DEF Spec

-----------------------------------------------------------------------------
(* What is to run next does not depend on whether doFuncQueue has swapped  *)
(* it out of funcQueue_ already (event_loop.cc:107-118).                   *)
LEMMA HeadOfConcat ==
  ASSUME NEW S, NEW s \in Seq(S), NEW t \in Seq(S), s # <<>>
  PROVE  /\ s \o t # <<>>
         /\ Head(s \o t) = Head(s)
         /\ Tail(s \o t) = Tail(s) \o t
  OBVIOUS

(* Each step of the loop and of its callers is a step of FunctionQueue, or *)
(* changes nothing there.                                                  *)
LEMMA NextQueueStep == TypeOK /\ [Next]_vars => [Queue!Next]_(Queue!fvars)
<1> SUFFICES ASSUME TypeOK, [Next]_vars PROVE [Queue!Next]_(Queue!fvars)
  OBVIOUS
<1> USE DEF Queue!fvars, queueVars
<1>1. ASSUME NEW t \in Threads, NEW f \in Funcs, Push(t, f) PROVE Queue!Submit(f)
  <2>1. functions \o Append(funcQueue, f) = Append(functions \o funcQueue, f)
    BY DEF TypeOK
  <2> QED
    BY <1>1, <2>1 DEF Push, Queue!Submit
<1>2. ASSUME NEW f \in Funcs, ExecInline(f) PROVE Queue!RunInline(f)
  BY <1>2 DEF ExecInline, Queue!RunInline
<1>3. CASE RunFunction
  BY <1>3, HeadOfConcat DEF RunFunction, Queue!RunNext, Queue!Next, TypeOK
<1>4. CASE SwapFuncQueue
  <2>1. functions = <<>>
    BY <1>4 DEF SwapFuncQueue, LoopAt, TypeOK
  <2>2. funcQueue \o <<>> = <<>> \o funcQueue
    BY ConcatEmptySeq DEF TypeOK
  <2> QED
    BY <1>4, <2>1, <2>2 DEF SwapFuncQueue
<1>5. CASE UNCHANGED vars
  BY <1>5 DEF vars
<1>6. CASE \/ EnterLoop \/ TestQuit \/ PollWakeup \/ PollIO \/ PollTimeout
           \/ HandleWakeup \/ (\E c \in Channels : BeginCallback(c))
           \/ ReturnCallback \/ BeginDoFuncQueue \/ ReturnFunction
           \/ EndDoFuncQueue \/ (\E t \in Threads : Quit(t) \/ Wakeup(t))
  BY <1>6 DEF EnterLoop, TestQuit, PollWakeup, PollIO, PollTimeout, PollReturns,
    HandleWakeup, BeginCallback, ReturnCallback, BeginDoFuncQueue,
    ReturnFunction, EndDoFuncQueue, Quit, Wakeup
<1> QED
  BY <1>1, <1>2, <1>3, <1>4, <1>5, <1>6 DEF Next, LoopStep, Call, Queue!Next

(* FIFO order, and no function lost or run twice (event_loop.cc:88-118). *)
THEOREM ImplementsFunctionQueue == Spec => QueueSpec
<1>1. Init => Queue!Init
  BY DEF Init, Queue!Init
<1> QED
  BY <1>1, InitTypeOK, NextTypeOK, NextQueueStep, PTL DEF Spec, QueueSpec, Queue!Spec

=============================================================================
