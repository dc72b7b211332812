------------------------------ MODULE TimerQueue ------------------------------
(***************************************************************************)
(* lotta::TimerQueue: the timers of one EventLoop, kept in a multimap by   *)
(* deadline, and one timerfd armed for the earliest of them.               *)
(*                                                                         *)
(* Time is discrete: clock is a reading of the steady clock and the        *)
(* deadline d lies strictly between the readings d and d + 1, so that it   *)
(* has passed when d < clock and a reading never coincides with it.        *)
(* Timers are distinct Timer objects; the EventLoop they belong to is      *)
(* represented by its promise: user code on the loop's thread calls in     *)
(* while no callback runs or from the one that runs, other threads through *)
(* a FIFO of tasks.                                                        *)
(***************************************************************************)
EXTENDS Naturals, Sequences, SequencesExt

CONSTANTS
  Timers,               \* Timer objects, each added at most once
  Interval,             \* Interval[t]: 0 for runAfter, the period for runEvery
  Delays,               \* delays runAfter and runEvery are called with
  MaxTime               \* bound: the last reading of the clock

ASSUME IntervalAssumption == Interval \in [Timers -> Nat]
ASSUME DelaysAssumption == Delays \subseteq Nat
ASSUME MaxTimeAssumption == MaxTime \in Nat \ {0}

Off == 0                \* the timerfd is disarmed; a Timer not created yet

VARIABLES
  clock,                \* steady_clock::now()
  when,                 \* when_ of each Timer
  timers,               \* timers_
  armedAt,              \* what the timerfd is armed for
  fdReady,              \* has it expired since it was last read or set?
  doingTimerCallback,   \* doingTimerCallback_
  expired,              \* handleTimer's batch
  ran,                  \* those of the batch whose callback was called
  now,                  \* handleTimer's reading of the clock
  cancelledTimers,      \* cancelledTimers_
  tasks,                \* addTask and cancelTask calls queued by other threads
  cancelled,            \* history: timers cancelled after their addTask
  late,                 \* history: has the loop tried to arm a passed deadline?
  aborted               \* has the assertion of cancel() ended the program?

fdVars == <<armedAt, fdReady>>
batchVars == <<doingTimerCallback, expired, ran, now>>
vars == <<clock, when, timers, fdVars, batchVars, cancelledTimers, tasks, cancelled, late,
          aborted>>

Init ==
  /\ clock = 1
  /\ when = [t \in Timers |-> Off]
  /\ timers = {}
  /\ armedAt = Off
  /\ fdReady = FALSE
  /\ doingTimerCallback = FALSE
  /\ expired = {}
  /\ ran = {}
  /\ now = 1
  /\ cancelledTimers = {}
  /\ tasks = <<>>
  /\ cancelled = {}
  /\ late = FALSE
  /\ aborted = FALSE

Passed(deadline) == deadline < clock

(* Is t in the batch that handleTimer is running? *)
InBatch(t) == doingTimerCallback /\ t \in expired

(* A weak_ptr to t can be locked: some container or closure still owns it. *)
Owned(t) ==
  \/ t \in timers \cup cancelledTimers
  \/ InBatch(t)
  \/ \E op \in {"add", "cancel"} : Contains(tasks, <<op, t>>)

(* The program goes on. *)
Runs == ~aborted /\ UNCHANGED aborted

(* User code runs on the loop's thread: in a timer's callback, or elsewhere. *)
LoopRunsUserCode == doingTimerCallback => ran # {}

-----------------------------------------------------------------------------
(* The timerfd.  timerfd_settime rejects a negative duration (EINVAL) and  *)
(* then leaves the descriptor as it was.                                   *)
ResetTimerFd(deadline) ==
  IF Passed(deadline) THEN UNCHANGED fdVars
  ELSE armedAt' = deadline /\ fdReady' = FALSE

Tick ==
  /\ Runs
  /\ clock < MaxTime
  /\ clock' = clock + 1
  /\ IF armedAt # Off /\ armedAt < clock'
       THEN armedAt' = Off /\ fdReady' = TRUE
       ELSE UNCHANGED fdVars
  /\ UNCHANGED <<when, timers, batchVars, cancelledTimers, tasks, cancelled, late>>

-----------------------------------------------------------------------------
PushedToFirstEmpty(t, deadline) == timers = {}    \* mutant: only the first timer ever arms
PushedToFirst(t, deadline) == \A u \in timers : deadline < when[u]

(* addTask, on the loop's thread, for a timer created with that deadline.  *)
AddTask(t, deadline) ==
  /\ timers' = timers \cup {t}
  /\ IF PushedToFirst(t, deadline)
       THEN ResetTimerFd(deadline) /\ late' = (late \/ Passed(deadline))
       ELSE UNCHANGED <<fdVars, late>>
  /\ UNCHANGED <<cancelledTimers, cancelled>>

CancelTaskNotRunning(t) ==         \* mutant: forgets a timer that is being run
  /\ timers' = timers \ {t}
  /\ cancelled' = IF t \in timers \/ InBatch(t) THEN cancelled \cup {t} ELSE cancelled
  /\ UNCHANGED <<fdVars, late, cancelledTimers>>

(* cancelTask, on the loop's thread. *)
CancelTask(t) ==
  /\ timers' = timers \ {t}
  /\ cancelledTimers' = IF t \notin timers /\ doingTimerCallback
                          THEN cancelledTimers \cup {t}
                          ELSE cancelledTimers
  /\ cancelled' = IF t \in timers \/ InBatch(t) THEN cancelled \cup {t} ELSE cancelled
  /\ UNCHANGED <<fdVars, late>>

(* addTimer and cancel on the loop's thread: exec runs the task at once.   *)
AddTimerInLoop(t, delay) ==
  /\ Runs
  /\ LoopRunsUserCode
  /\ when[t] = Off
  /\ when' = [when EXCEPT ![t] = clock + delay]
  /\ AddTask(t, clock + delay)
  /\ UNCHANGED <<clock, batchVars, tasks>>

CancelInLoop(t) ==
  /\ Runs
  /\ LoopRunsUserCode
  /\ Owned(t)
  /\ CancelTask(t)
  /\ UNCHANGED <<clock, when, batchVars, tasks>>

(* The same on another thread: exec queues the task. *)
AddTimer(t, delay) ==
  /\ Runs
  /\ when[t] = Off
  /\ when' = [when EXCEPT ![t] = clock + delay]
  /\ tasks' = Append(tasks, <<"add", t>>)
  /\ UNCHANGED <<clock, timers, fdVars, batchVars, cancelledTimers, cancelled, late>>

Cancel(t) ==
  /\ Runs
  /\ Owned(t)
  /\ ~Contains(tasks, <<"cancel", t>>)     \* bound: one cancelTask queued for t
  /\ tasks' = Append(tasks, <<"cancel", t>>)
  /\ UNCHANGED <<clock, when, timers, fdVars, batchVars, cancelledTimers, cancelled, late>>

(* On any thread: the weak_ptr that addTimer returned cannot be locked any *)
(* more, because t was cancelled, or is a one-shot that has run:           *)
(* assert(timer != nullptr) fails.                                         *)
CancelGone(t) ==
  /\ ~aborted
  /\ when[t] # Off /\ ~Owned(t)
  /\ aborted' = TRUE
  /\ UNCHANGED <<clock, when, timers, fdVars, batchVars, cancelledTimers, tasks, cancelled, late>>

RunTask ==
  /\ Runs
  /\ ~doingTimerCallback
  /\ tasks # <<>>
  /\ LET op == Head(tasks)[1]
         t == Head(tasks)[2]
     IN IF op = "add" THEN AddTask(t, when[t]) ELSE CancelTask(t)
  /\ tasks' = Tail(tasks)
  /\ UNCHANGED <<clock, when, batchVars>>

-----------------------------------------------------------------------------
(* handleTimer: reads the clock and the descriptor, takes the timers whose *)
(* deadline has passed, runs them, then re-arms.                           *)
ExpireTimers ==
  /\ expired' = {t \in timers : when[t] < clock}
  /\ timers' = timers \ expired'

BeginHandleTimer ==
  /\ Runs
  /\ fdReady
  /\ ~doingTimerCallback
  /\ now' = clock
  /\ fdReady' = FALSE
  /\ ExpireTimers
  /\ ran' = {}
  /\ doingTimerCallback' = TRUE
  /\ cancelledTimers' = {}
  /\ UNCHANGED <<clock, when, armedAt, tasks, cancelled, late>>

(* The callbacks run in the order of their deadlines. *)
RunTimer(t) ==
  /\ Runs
  /\ InBatch(t)
  /\ t \notin ran
  /\ \A u \in expired \ ran : when[t] <= when[u]
  /\ ran' = ran \cup {t}
  /\ UNCHANGED <<clock, when, timers, fdVars, doingTimerCallback, expired, now,
                 cancelledTimers, tasks, cancelled, late>>

Restarted == {t \in expired : Interval[t] > 0 /\ t \notin cancelledTimers}

ArmForFirstNever == UNCHANGED fdVars    \* mutant: handleTimer does not re-arm

ArmForFirst ==
  IF timers' = {}
    THEN UNCHANGED fdVars
    ELSE \E first \in timers' :
           /\ \A t \in timers' : when'[first] <= when'[t]
           /\ IF when'[first] >= now
                THEN ResetTimerFd(when'[first])
                ELSE UNCHANGED fdVars

(* resetTimers, as handleTimer returns. *)
EndHandleTimer ==
  /\ Runs
  /\ doingTimerCallback
  /\ ran = expired
  /\ doingTimerCallback' = FALSE
  /\ expired' = {}
  /\ ran' = {}
  /\ when' = [t \in Timers |-> IF t \in Restarted THEN when[t] + Interval[t] ELSE when[t]]
  /\ timers' = timers \cup Restarted
  /\ IF \E t \in timers' : when'[t] < clock
       THEN late' = TRUE
       ELSE UNCHANGED late
  /\ ArmForFirst
  /\ UNCHANGED <<clock, now, cancelledTimers, tasks, cancelled>>

-----------------------------------------------------------------------------
(* Beyond MaxTime, or after an abort, the model says nothing. *)
Horizon == (clock = MaxTime \/ aborted) /\ UNCHANGED vars

Next ==
  \/ Tick
  \/ \E t \in Timers :
       \/ \E delay \in Delays : AddTimerInLoop(t, delay) \/ AddTimer(t, delay)
       \/ CancelInLoop(t)
       \/ Cancel(t)
       \/ CancelGone(t)
       \/ RunTimer(t)
  \/ RunTask
  \/ BeginHandleTimer
  \/ EndHandleTimer
  \/ Horizon

(* Time passes, the loop serves its descriptor and its queue, and the      *)
(* callbacks return.  Nobody has to add or cancel a timer.                 *)
Spec ==
  /\ Init /\ [][Next]_vars
  /\ WF_vars(Tick)
  /\ WF_vars(RunTask)
  /\ WF_vars(BeginHandleTimer)
  /\ WF_vars(\E t \in Timers : RunTimer(t))
  /\ WF_vars(EndHandleTimer)

-----------------------------------------------------------------------------
(* Types; a timer is in timers_ or in the batch but never in both, and a   *)
(* batch holds only timers that were due (timer_queue.cc:83-107).          *)
TypeOK ==
  /\ clock \in 1 .. MaxTime
  /\ when \in [Timers -> Nat]
  /\ timers \subseteq {t \in Timers : when[t] # Off}
  /\ armedAt \in Nat
  /\ fdReady \in BOOLEAN
  /\ doingTimerCallback \in BOOLEAN
  /\ ran \subseteq expired
  /\ expired \subseteq {t \in Timers : when[t] < now} \ timers
  /\ now \in 1 .. clock
  /\ cancelledTimers \subseteq Timers
  /\ tasks \in Seq({"add", "cancel"} \X Timers)
  /\ cancelled \subseteq Timers
  /\ late \in BOOLEAN
  /\ aborted \in BOOLEAN

(* A timer is in one place, and one cancelled after it was added never     *)
(* enters timers_ again, even if it repeats and is cancelled by a callback *)
(* of the batch it is in (timer_queue.cc:109-141).                         *)
CancelIsFinal == TypeOK /\ timers \cap cancelled = {}

(* As long as the loop has not armed a deadline too late, the descriptor   *)
(* wakes the loop no later than the earliest timer asks for                *)
(* (timer_queue.cc:109-130).                                               *)
ArmedForFirst ==
  ~late /\ ~doingTimerCallback =>
    \A t \in timers : fdReady \/ (armedAt # Off /\ armedAt <= when[t])

(* A deadline in timers_ does not stay there: the timer runs, or is        *)
(* cancelled (timer_queue.cc:83-121).                                      *)
Waits(t, deadline) == t \in timers /\ when[t] = deadline

FiresUnlessLate ==
  \A t \in Timers, d \in 1 .. MaxTime - 1 :
    Waits(t, d) ~> (~Waits(t, d) \/ late \/ aborted)

(* What tests/timer_queue.cc:36-50 takes for granted of "every 1 second":  *)
(* a timer of runEvery that handleTimer runs a whole period late, so that  *)
(* its next deadline has passed as well, runs for that one too, unless it  *)
(* is cancelled.  Violated: resetTimers arms the descriptor only for a     *)
(* deadline after handleTimer's reading of the clock (timer_queue.cc:118). *)
RanFor(t, deadline) == t \in ran /\ when[t] = deadline

RunsAgain ==
  \A t \in Timers, d \in 1 .. MaxTime :
    RanFor(t, d) /\ Interval[t] > 0 /\ d + Interval[t] < now
      ~> RanFor(t, d + Interval[t]) \/ t \in cancelled \/ aborted
=============================================================================
