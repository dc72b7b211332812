------------------------------ MODULE EventLoop ------------------------------
(***************************************************************************)
(* lotta::EventLoop: one thread, Loop, runs loop(); Workers are the other  *)
(* threads of the program, which reach it only through exec, pushQueue     *)
(* and quit.                                                               *)
(*                                                                         *)
(* Loop alternates between poll(), the callbacks of the active channels    *)
(* and doFuncQueue().  User code runs on Loop inside a channel callback    *)
(* or a queued function, and, while loop() is not running, wherever the    *)
(* owner of the EventLoop happens to be.                                   *)
(*                                                                         *)
(* Abstractions: the value of the eventfd counter is dropped, it is read-  *)
(* able or not; the channels other than the wakeup channel become ready    *)
(* whenever the environment likes and are served in any order; the timer   *)
(* descriptor is one of them.  A function is handed over at most once, so  *)
(* the functions are also their own identifiers.                           *)
(***************************************************************************)
EXTENDS Naturals, Sequences, FiniteSets, SequencesExt

CONSTANTS
  Loop,                 \* the thread the EventLoop was constructed on
  Workers,              \* every other thread
  Funcs,                \* functions handed to exec or pushQueue
  Wake,                 \* wakeChannel_
  Channels,             \* all other registered channels
  OwnerPushesEarly      \* may Loop call pushQueue while loop() is not running?

ASSUME LoopAssumption == Loop \notin Workers
ASSUME WakeAssumption == Wake \notin Channels
ASSUME EarlyAssumption == OwnerPushesEarly \in BOOLEAN

Threads == Workers \cup {Loop}

VARIABLES
  pc,                   \* where Loop is inside (or outside) loop()
  quit,                 \* quit_
  doingFuncQueue,       \* doingFuncQueue_
  funcQueue,            \* funcQueue_, guarded by funcQueueMtx_
  functions,            \* doFuncQueue's local vector, less what it has run
  wakeupFd,             \* is the eventfd readable?
  activeChannels,       \* active channels whose handleEvent has not begun
  pending,              \* the call of each thread that has yet to do its wakeup
  fresh,                \* functions not handed over yet
  executed,             \* functions run by doFuncQueue, in order
  inline                \* functions run at once by exec

queueVars == <<funcQueue, functions, fresh, executed, inline>>
vars == <<pc, quit, doingFuncQueue, wakeupFd, activeChannels, pending, queueVars>>

Init ==
  /\ pc = "created"
  /\ quit = FALSE
  /\ doingFuncQueue = FALSE
  /\ funcQueue = <<>>
  /\ functions = <<>>
  /\ wakeupFd = FALSE
  /\ activeChannels = {}
  /\ pending = [t \in Threads |-> "none"]
  /\ fresh = Funcs
  /\ executed = <<>>
  /\ inline = {}

Stopped == pc \in {"created", "stopped"}
InUserCode == pc \in {"callback", "function"}

(* Loop takes its next step only once a pushQueue it called has returned. *)
LoopAt(label) == pc = label /\ pending[Loop] = "none"

-----------------------------------------------------------------------------
(* loop(), on the thread Loop *)

EnterLoop ==
  /\ Stopped
  /\ pending[Loop] = "none"
  /\ quit' = FALSE
  /\ pc' = "test"
  /\ UNCHANGED <<doingFuncQueue, wakeupFd, activeChannels, pending, queueVars>>

TestQuit ==
  /\ LoopAt("test")
  /\ pc' = IF quit THEN "stopped" ELSE "poll"
  /\ activeChannels' = {}
  /\ UNCHANGED <<quit, doingFuncQueue, wakeupFd, pending, queueVars>>

PollReturns(active) ==
  /\ LoopAt("poll")
  /\ activeChannels' = active
  /\ pc' = "dispatch"
  /\ UNCHANGED <<quit, doingFuncQueue, wakeupFd, pending, queueVars>>

PollWakeup == wakeupFd /\ \E ready \in SUBSET Channels : PollReturns(ready \cup {Wake})
PollIO == ~wakeupFd /\ \E ready \in SUBSET Channels \ {{}} : PollReturns(ready)
PollTimeout == ~wakeupFd /\ PollReturns({})       \* after kPollTimeout

HandleWakeup ==
  /\ LoopAt("dispatch")
  /\ Wake \in activeChannels
  /\ activeChannels' = activeChannels \ {Wake}
  /\ wakeupFd' = FALSE
  /\ UNCHANGED <<pc, quit, doingFuncQueue, pending, queueVars>>

BeginCallback(c) ==
  /\ LoopAt("dispatch")
  /\ c \in activeChannels \ {Wake}
  /\ activeChannels' = activeChannels \ {c}
  /\ pc' = "callback"
  /\ UNCHANGED <<quit, doingFuncQueue, wakeupFd, pending, queueVars>>

ReturnCallback ==
  /\ LoopAt("callback")
  /\ pc' = "dispatch"
  /\ UNCHANGED <<quit, doingFuncQueue, wakeupFd, activeChannels, pending, queueVars>>

BeginDoFuncQueue ==
  /\ LoopAt("dispatch")
  /\ activeChannels = {}
  /\ doingFuncQueue' = TRUE
  /\ pc' = "swap"
  /\ UNCHANGED <<quit, wakeupFd, activeChannels, pending, queueVars>>

SwapFuncQueueCopies ==             \* mutant: copies funcQueue_, keeps it
  /\ LoopAt("swap")
  /\ functions' = funcQueue
  /\ pc' = "run"
  /\ UNCHANGED <<quit, doingFuncQueue, wakeupFd, activeChannels, pending,
                 funcQueue, fresh, executed, inline>>

SwapFuncQueue ==
  /\ LoopAt("swap")
  /\ functions' = funcQueue
  /\ funcQueue' = <<>>
  /\ pc' = "run"
  /\ UNCHANGED <<quit, doingFuncQueue, wakeupFd, activeChannels, pending,
                 fresh, executed, inline>>

RunFunction ==
  /\ LoopAt("run")
  /\ functions # <<>>
  /\ executed' = Append(executed, Head(functions))
  /\ functions' = Tail(functions)
  /\ pc' = "function"
  /\ UNCHANGED <<quit, doingFuncQueue, wakeupFd, activeChannels, pending,
                 funcQueue, fresh, inline>>

ReturnFunction ==
  /\ LoopAt("function")
  /\ pc' = "run"
  /\ UNCHANGED <<quit, doingFuncQueue, wakeupFd, activeChannels, pending, queueVars>>

EndDoFuncQueue ==
  /\ LoopAt("run")
  /\ functions = <<>>
  /\ doingFuncQueue' = FALSE
  /\ pc' = "test"
  /\ UNCHANGED <<quit, wakeupFd, activeChannels, pending, queueVars>>

-----------------------------------------------------------------------------
(* exec(), pushQueue() and quit(), on any thread.  Each is two steps: the  *)
(* change of the loop's state, then the wakeup it may need; other threads  *)
(* run in between.                                                         *)

(* May thread t call into the EventLoop now? *)
RunsUserCode(t) == t \in Workers \/ Stopped \/ InUserCode

Push(t, f) ==
  /\ RunsUserCode(t)
  /\ (t = Loop /\ Stopped) => OwnerPushesEarly
  /\ pending[t] = "none"
  /\ f \in fresh
  /\ fresh' = fresh \ {f}
  /\ funcQueue' = Append(funcQueue, f)
  /\ pending' = [pending EXCEPT ![t] = "push"]
  /\ UNCHANGED <<pc, quit, doingFuncQueue, wakeupFd, activeChannels,
                 functions, executed, inline>>

QuitNoWakeup(t) ==                 \* mutant: quit() only sets quit_
  /\ RunsUserCode(t)
  /\ pending[t] = "none"
  /\ quit' = TRUE
  /\ UNCHANGED <<pc, doingFuncQueue, wakeupFd, activeChannels, pending, queueVars>>

Quit(t) ==
  /\ RunsUserCode(t)
  /\ pending[t] = "none"
  /\ quit' = TRUE
  /\ pending' = [pending EXCEPT ![t] = "quit"]
  /\ UNCHANGED <<pc, doingFuncQueue, wakeupFd, activeChannels, queueVars>>

(* Mutants: & for | in pushQueue's test, no test of doingFuncQueue_ there,  *)
(* and no wakeup in quit().                                                 *)
NeedsWakeupBoth(t) == t # Loop /\ doingFuncQueue
NeedsWakeupOtherThread(t) == t # Loop
NeedsWakeupPushOnly(t) == pending[t] = "push" /\ (t # Loop \/ doingFuncQueue)

NeedsWakeup(t) ==
  \/ t # Loop
  \/ pending[t] = "push" /\ doingFuncQueue

Wakeup(t) ==
  /\ pending[t] # "none"
  /\ wakeupFd' = (wakeupFd \/ NeedsWakeup(t))
  /\ pending' = [pending EXCEPT ![t] = "none"]
  /\ UNCHANGED <<pc, quit, doingFuncQueue, activeChannels, queueVars>>

(* exec() on the loop's own thread runs the function before it returns. *)
ExecInline(f) ==
  /\ RunsUserCode(Loop)
  /\ pending[Loop] = "none"
  /\ f \in fresh
  /\ fresh' = fresh \ {f}
  /\ inline' = inline \cup {f}
  /\ UNCHANGED <<pc, quit, doingFuncQueue, wakeupFd, activeChannels, pending,
                 funcQueue, functions, executed>>

-----------------------------------------------------------------------------
(* What loop() does by itself, user code and the environment aside. *)
LoopStep ==
  \/ TestQuit
  \/ PollWakeup
  \/ HandleWakeup
  \/ \E c \in Channels : BeginCallback(c)
  \/ BeginDoFuncQueue
  \/ SwapFuncQueue
  \/ RunFunction
  \/ EndDoFuncQueue

Call(t) == Quit(t) \/ \E f \in Funcs : Push(t, f)

Next ==
  \/ EnterLoop
  \/ LoopStep
  \/ PollIO
  \/ PollTimeout
  \/ ReturnCallback
  \/ ReturnFunction
  \/ \E t \in Threads : Call(t) \/ Wakeup(t)
  \/ \E f \in Funcs : ExecInline(f)

Spec == Init /\ [][Next]_vars

(***************************************************************************)
(* Fairness: Loop's thread is scheduled, user code returns after finitely  *)
(* many calls into the loop (strong fairness, as each call postpones the   *)
(* return), and a call in progress on any thread finishes.  Nothing makes  *)
(* a channel ready, and kPollTimeout (5 s) is deliberately not relied      *)
(* upon: PollIO and PollTimeout carry no fairness, nor does any call.      *)
(***************************************************************************)
Fairness ==
  /\ WF_vars(LoopStep)
  /\ SF_vars(ReturnCallback)
  /\ SF_vars(ReturnFunction)
  /\ \A t \in Threads : WF_vars(Wakeup(t))

FairSpec == Spec /\ Fairness

-----------------------------------------------------------------------------
(* Types; and what is local to one part of loop() is empty elsewhere, and   *)
(* doingFuncQueue_ holds exactly during doFuncQueue() (event_loop.cc:107).  *)
TypeOK ==
  /\ pc \in {"created", "test", "poll", "dispatch", "callback", "swap", "run",
             "function", "stopped"}
  /\ quit \in BOOLEAN
  /\ doingFuncQueue \in BOOLEAN
  /\ funcQueue \in Seq(Funcs)
  /\ functions \in Seq(Funcs)
  /\ wakeupFd \in BOOLEAN
  /\ activeChannels \in SUBSET (Channels \cup {Wake})
  /\ pending \in [Threads -> {"none", "push", "quit"}]
  /\ fresh \in SUBSET Funcs
  /\ executed \in Seq(Funcs)
  /\ inline \in SUBSET Funcs
  /\ doingFuncQueue <=> pc \in {"swap", "run", "function"}
  /\ pc \notin {"run", "function"} => functions = <<>>
  /\ pc \notin {"dispatch", "callback"} => activeChannels = {}

(* pushQueue's wakeup protocol (event_loop.cc:96-105): Loop is never about  *)
(* to sleep in poll() with a function in funcQueue_, unless the eventfd is  *)
(* readable already or the thread that pushed is about to write it.         *)
NoLostWakeup ==
  pc = "poll" /\ funcQueue # <<>> =>
    wakeupFd \/ \E t \in Workers : pending[t] = "push"

(* quit's wakeup protocol (event_loop.cc:71-76): the same for a quit_ that  *)
(* Loop has yet to see.                                                     *)
NoLostQuit ==
  /\ TypeOK
  /\ pc = "poll" /\ quit =>
       wakeupFd \/ \E t \in Workers : pending[t] = "quit"

(* What makes NoLostWakeup inductive: a queued function has its wakeup on  *)
(* the way unless Loop is bound to swap the queue before it next polls, and *)
(* Loop is only ever half-way through a pushQueue inside user code.         *)
WillWake(t) == pending[t] = "push" /\ NeedsWakeup(t)

WakeupInv ==
  /\ pending[Loop] # "none" => InUserCode \/ Stopped
  /\ pending[Loop] = "push" => InUserCode \/ OwnerPushesEarly
  /\ ~OwnerPushesEarly /\ funcQueue # <<>> =>
       \/ wakeupFd
       \/ \E t \in Threads : WillWake(t)
       \/ pc \in {"dispatch", "callback", "swap"}

(* doFuncQueue runs in FIFO order, and once, what exec and pushQueue took.  *)
Queue == INSTANCE FunctionQueue WITH waiting <- functions \o funcQueue,
                                     ran <- executed
QueueSpec == Queue!Spec

(* A function queued while loop() runs is run without help from I/O or from *)
(* the 5 s poll timeout, unless the loop stops (event_loop.cc:55-118).      *)
FunctionsRun ==
  \A f \in Funcs :
    (~Stopped /\ Contains(funcQueue, f)) ~> (Contains(executed, f) \/ Stopped)

(* quit() on a running loop ends it, again without help from I/O.           *)
QuitStops == (quit /\ ~Stopped) ~> Stopped
=============================================================================
