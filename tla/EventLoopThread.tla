--------------------------- MODULE EventLoopThread ---------------------------
(***************************************************************************)
(* lotta::EventLoopThread: an Owner thread starts a second thread, Loop,   *)
(* that constructs an EventLoop on its stack, publishes its address in     *)
(* loop_ and runs loop(); the destructor makes it quit and joins.  The     *)
(* EventLoop is the module EventLoop, whose actions are taken here by      *)
(* Loop, by Owner and by the other Workers.                                *)
(*                                                                         *)
(* Nobody but start() has the loop's address until it returns it.  From    *)
(* then on Owner and whoever it passes the address to may call the loop,   *)
(* and what they submit may use Channels: add timers, serve connections.   *)
(*                                                                         *)
(* The loop object dies when threadTask returns.  A call that reaches it   *)
(* later is undefined behaviour; it is modelled by its harmless outcome,   *)
(* no effect, so what the properties say holds even then at best.          *)
(***************************************************************************)
EXTENDS EventLoop

CONSTANT Owner

ASSUME OwnerAssumption == Owner \in Workers
ASSUME TaskAssumption == ~OwnerPushesEarly     \* threadTask itself submits nothing

VARIABLES
  owner,                \* where Owner is in start() or the destructor
  thread,               \* where the other thread is in threadTask()
  loopSet               \* loop_ # nullptr

threadVars == <<owner, thread, loopSet>>
allVars == <<vars, threadVars>>

ThreadInit ==
  /\ Init
  /\ owner = "idle"
  /\ thread = "none"
  /\ loopSet = FALSE

Alive == thread \in {"publish", "notify", "entering", "looping", "unpublish", "destroy"}

-----------------------------------------------------------------------------
(* start() and the destructor, on Owner *)

Start ==
  /\ owner = "idle"
  /\ owner' = "starting"
  /\ thread' = "constructing"
  /\ UNCHANGED <<loopSet, vars>>

CheckStartedOnce ==                \* mutant: wait() without its predicate
  /\ owner \in {"starting", "woken"}
  /\ owner' = IF loopSet \/ owner = "woken" THEN "started" ELSE "waiting"
  /\ UNCHANGED <<thread, loopSet, vars>>

(* cond_.wait(lock, pred), holding mtx_: looks at loop_ before it sleeps,  *)
(* and again each time it is woken.                                        *)
CheckStarted ==
  /\ owner \in {"starting", "woken"}
  /\ owner' = IF loopSet THEN "started" ELSE "waiting"
  /\ UNCHANGED <<thread, loopSet, vars>>

SpuriousWakeup ==
  /\ owner = "waiting"
  /\ owner' = "woken"
  /\ UNCHANGED <<thread, loopSet, vars>>

(* Has start() returned the address?  Owner has no time for other calls    *)
(* once it is in the destructor, but the other threads do.                 *)
Returned == owner \in {"started", "quitting", "joining", "done"}

WorkerCalls(w) ==
  /\ IF w = Owner THEN owner = "started" ELSE Returned
  /\ Alive                         \* the caller's side of the bargain
  /\ Call(w)
  /\ UNCHANGED threadVars

(* The destructor reads loop_ without mtx_. *)
DtorReadsLoop ==
  /\ owner \in {"idle", "started"}
  /\ pending[Owner] = "none"
  /\ owner' = IF loopSet THEN "quitting" ELSE "joining"
  /\ UNCHANGED <<thread, loopSet, vars>>

DtorQuits ==
  /\ owner = "quitting"
  /\ owner' = "joining"
  /\ IF Alive THEN Quit(Owner) ELSE UNCHANGED vars
  /\ UNCHANGED <<thread, loopSet>>

(* The rest of a call, which may find the loop dead. *)
WorkerWakeup(w) ==
  /\ IF Alive
       THEN Wakeup(w)
       ELSE /\ pending[w] # "none"
            /\ pending' = [pending EXCEPT ![w] = "none"]
            /\ UNCHANGED <<pc, quit, doingFuncQueue, wakeupFd, activeChannels, queueVars>>
  /\ UNCHANGED threadVars

Join ==
  /\ owner = "joining"
  /\ pending[Owner] = "none"
  /\ thread \in {"none", "exited"}
  /\ owner' = "done"
  /\ UNCHANGED <<thread, loopSet, vars>>

-----------------------------------------------------------------------------
(* threadTask(), on Loop *)

Construct ==
  /\ thread = "constructing"
  /\ thread' = "publish"
  /\ UNCHANGED <<owner, loopSet, vars>>

Publish ==
  /\ thread = "publish"
  /\ loopSet' = TRUE
  /\ thread' = "notify"
  /\ UNCHANGED <<owner, vars>>

NotifyNobody ==                    \* mutant: loop_ is set, and nobody told
  /\ thread = "notify"
  /\ thread' = "entering"
  /\ UNCHANGED <<owner, loopSet, vars>>

Notify ==
  /\ thread = "notify"
  /\ thread' = "entering"
  /\ owner' = IF owner = "waiting" THEN "woken" ELSE owner
  /\ UNCHANGED <<loopSet, vars>>

Enter ==
  /\ thread = "entering"
  /\ EnterLoop
  /\ thread' = "looping"
  /\ UNCHANGED <<owner, loopSet>>

(* loop(), with the callbacks and functions it runs, which may submit      *)
(* others and quit() their own loop.  The timer's descriptor, the only     *)
(* channel of a new loop but for wakeChannel_, is not armed until somebody *)
(* who has the address adds a timer: nothing is ready before.              *)
Looping ==
  /\ thread = "looping"
  /\ \/ LoopStep \/ PollTimeout \/ ReturnCallback \/ ReturnFunction
     \/ Returned /\ PollIO
     \/ InUserCode /\ (Call(Loop) \/ \E f \in Funcs : ExecInline(f))
     \/ Wakeup(Loop)
  /\ UNCHANGED threadVars

LoopReturns ==
  /\ thread = "looping"
  /\ pc = "stopped"
  /\ thread' = "unpublish"
  /\ UNCHANGED <<owner, loopSet, vars>>

Unpublish ==
  /\ thread = "unpublish"
  /\ loopSet' = FALSE
  /\ thread' = "destroy"
  /\ UNCHANGED <<owner, vars>>

Destroy ==
  /\ thread = "destroy"
  /\ thread' = "exited"
  /\ UNCHANGED <<owner, loopSet, vars>>

-----------------------------------------------------------------------------
ThreadTask ==
  \/ Construct \/ Publish \/ Notify \/ Enter \/ LoopReturns \/ Unpublish \/ Destroy

OwnerCode == CheckStarted \/ DtorQuits \/ Join

ThreadNext ==
  \/ Start
  \/ OwnerCode
  \/ SpuriousWakeup
  \/ DtorReadsLoop
  \/ \E w \in Workers : WorkerCalls(w) \/ WorkerWakeup(w)
  \/ ThreadTask
  \/ Looping
  \/ owner = "done" /\ UNCHANGED allVars      \* the object is gone

(* The threads are scheduled and user code returns; Owner may keep the     *)
(* thread for ever, so that neither Start nor the destructor need begin.   *)
ThreadSpec ==
  /\ ThreadInit /\ [][ThreadNext]_allVars
  /\ WF_allVars(OwnerCode)
  /\ \A w \in Workers : WF_allVars(WorkerWakeup(w))
  /\ WF_allVars(ThreadTask)
  /\ WF_allVars(thread = "looping" /\ LoopStep /\ UNCHANGED threadVars)
  /\ WF_allVars(thread = "looping" /\ Wakeup(Loop) /\ UNCHANGED threadVars)
  /\ SF_allVars(thread = "looping" /\ ReturnCallback /\ UNCHANGED threadVars)
  /\ SF_allVars(thread = "looping" /\ ReturnFunction /\ UNCHANGED threadVars)

-----------------------------------------------------------------------------
(* loop_ is set exactly while the loop object is published, and the thread *)
(* is in loop() exactly when it says so (event_loop_thread.cc:36-47).      *)
ThreadTypeOK ==
  /\ TypeOK
  /\ owner \in {"idle", "starting", "waiting", "woken", "started", "quitting",
                "joining", "done"}
  /\ thread \in {"none", "constructing", "publish", "notify", "entering",
                 "looping", "unpublish", "destroy", "exited"}
  /\ loopSet <=> thread \in {"notify", "entering", "looping", "unpublish"}
  /\ pc # "created" => thread \in {"looping", "unpublish", "destroy", "exited"}

(* start() returns a pointer to a loop that exists, however often its wait *)
(* is woken for nothing, and that lives as long as nobody tells it to      *)
(* quit, which nobody can before start() returns                           *)
(* (event_loop_thread.cc:26-47, event_loop.cc:55-76).                      *)
StartedLoopLives ==
  /\ ThreadTypeOK
  /\ owner \in {"starting", "waiting", "woken"} => ~quit
  /\ owner = "started" => quit \/ (loopSet /\ Alive)

(* start() returns, whichever thread reaches mtx_ first: nobody can make   *)
(* the loop quit, and take its address back, before                        *)
(* (event_loop_thread.cc:26-47).                                           *)
StartReturns == owner = "starting" ~> owner = "started"

(* A function handed over as soon as start() has returned, before loop()   *)
(* is entered even, or by a callback or a function, runs without help from *)
(* I/O or the poll timeout, unless the loop is told to quit                *)
(* (tests/event_loop_thread.cc:35-51).                                     *)
ExecRuns ==
  \A f \in Funcs :
    Contains(funcQueue, f) ~> (Contains(executed, f) \/ quit \/ pc = "stopped")

(* The destructor's quit() ends the thread if it finds it in loop().       *)
DtorReturnsIfLooping ==
  (owner = "joining" /\ quit /\ ~Stopped) ~> owner = "done"

(* The destructor never calls a loop that has died since it read loop_     *)
(* (event_loop_thread.cc:17-20, event_loop.cc:71-76).  No run checks it:   *)
(* a function that quits its own loop, or this very quit() before it has   *)
(* written its wakeup, ends the loop and destroys it.                      *)
DtorUsesLiveLoop == owner = "quitting" \/ pending[Owner] = "quit" => Alive

(* The destructor of a started thread returns, whenever it is called: what *)
(* each block of tests/event_loop_thread.cc relies on to end.  Violated:   *)
(* loop() clears quit_ as it begins (event_loop.cc:58), and with it the    *)
(* quit() of a destructor that came first.                                 *)
DtorReturns == owner = "joining" ~> owner = "done"
=============================================================================
