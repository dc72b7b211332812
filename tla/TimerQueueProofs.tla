--------------------------- MODULE TimerQueueProofs ---------------------------
(***************************************************************************)
(* For any timers, intervals and delays: a cancelled timer stays out of    *)
(* timers_, and the descriptor is armed early enough until the loop is     *)
(* late for a deadline.                                                    *)
(***************************************************************************)
EXTENDS TimerQueue, SequenceTheorems, TLAPS

Tasks == {"add", "cancel"} \X Timers

(* Outside of handleTimer there is no batch; what is in one was created.   *)
BatchOK ==
  /\ ~doingTimerCallback => expired = {}
  /\ expired \subseteq {t \in Timers : when[t] # Off}

(* An addTask still queued is the only one for its timer, which nothing    *)
(* has touched yet.                                                        *)
Touched == timers \cup expired \cup cancelled

AddsOK ==
  \A i \in 1 .. Len(tasks) : tasks[i][1] = "add" =>
    /\ when[tasks[i][2]] # Off
    /\ tasks[i][2] \notin Touched
    /\ \A j \in 1 .. Len(tasks) : tasks[j] = tasks[i] => j = i

(* A cancelled timer was created, and is in no place from which it could   *)
(* enter timers_: in the batch only with cancelledTimers_ to hold it back. *)
CancelledOK ==
  /\ \A t \in cancelled : when[t] # Off /\ t \notin timers
  /\ doingTimerCallback => cancelled \cap expired \subseteq cancelledTimers

TimerInv == TypeOK /\ BatchOK /\ AddsOK /\ CancelledOK /\ ArmedForFirst
-----------------------------------------------------------------------------
LEMMA InitTimerInv == Init => TimerInv
<1> SUFFICES ASSUME Init PROVE TimerInv
  OBVIOUS
<1> USE DEF Init
<1>1. /\ fdReady \in BOOLEAN /\ doingTimerCallback \in BOOLEAN
      /\ late \in BOOLEAN /\ aborted \in BOOLEAN
  OBVIOUS
<1>2. /\ clock \in 1 .. MaxTime /\ now \in 1 .. clock /\ armedAt \in Nat
      /\ when \in [Timers -> Nat]
  BY MaxTimeAssumption DEF Off
<1>3. tasks \in Seq(Tasks) /\ Len(tasks) = 0
  BY EmptySeq
<1>4. TypeOK
  BY <1>1, <1>2, <1>3 DEF TypeOK, Tasks
<1> QED
  BY <1>3, <1>4 DEF TimerInv, BatchOK, AddsOK, CancelledOK, ArmedForFirst

(* addTask keeps timers_ armed for, whatever the new deadline is. *)
LEMMA AddTaskKeeps ==
  ASSUME TypeOK, ArmedForFirst, NEW t \in Timers, NEW deadline \in Nat, deadline # Off,
         AddTask(t, deadline), UNCHANGED <<clock, doingTimerCallback>>,
         when' \in [Timers -> Nat], when'[t] = deadline,
         \A u \in timers : when'[u] = when[u]
  PROVE  armedAt' \in Nat /\ fdReady' \in BOOLEAN /\ late' \in BOOLEAN /\ ArmedForFirst'
<1>1. timers' = timers \cup {t}
  BY DEF AddTask
<1>2. CASE PushedToFirst(t, deadline) /\ Passed(deadline)
  BY <1>2 DEF AddTask, ResetTimerFd, TypeOK, ArmedForFirst, fdVars
<1>3. CASE PushedToFirst(t, deadline) /\ ~Passed(deadline)
  <2>1. armedAt' = deadline /\ fdReady' = FALSE /\ late' = late
    BY <1>3 DEF AddTask, ResetTimerFd, TypeOK
  <2>2. \A u \in timers' : armedAt' <= when'[u]
    BY <1>1, <1>3, <2>1 DEF PushedToFirst, TypeOK
  <2> QED
    BY <2>1, <2>2 DEF TypeOK, ArmedForFirst
<1>4. CASE ~PushedToFirst(t, deadline)
  <2>1. UNCHANGED <<armedAt, fdReady, late>>
    BY <1>4 DEF AddTask, fdVars
  <2>2. PICK u \in timers : when[u] <= deadline
    BY <1>4 DEF PushedToFirst, TypeOK
  <2>3. ASSUME ~late, ~doingTimerCallback, ~fdReady
        PROVE  armedAt # Off /\ \A v \in timers' : armedAt <= when'[v]
    <3>1. \A v \in timers : armedAt # Off /\ armedAt <= when[v]
      BY <2>3 DEF ArmedForFirst
    <3>2. armedAt <= deadline
      BY <2>2, <3>1 DEF TypeOK
    <3> QED
      BY <1>1, <2>2, <3>1, <3>2
  <2> QED
    BY <2>1, <2>3 DEF TypeOK, ArmedForFirst
<1> QED
  BY <1>2, <1>3, <1>4

(* cancelTask: the timer leaves timers_, and if it was in the batch it is  *)
(* noted; nothing else moves.                                              *)
LEMMA CancelTaskKeeps ==
  ASSUME TimerInv, NEW t \in Timers, CancelTask(t),
         UNCHANGED <<clock, when, batchVars>>
  PROVE  /\ timers' \subseteq timers /\ cancelledTimers' \subseteq Timers
         /\ cancelled' \subseteq cancelled \cup {t}
         /\ t \in cancelled' => t \in cancelled \cup timers \cup expired
         /\ UNCHANGED <<armedAt, fdReady, late>>
         /\ CancelledOK' /\ ArmedForFirst'
<1>1. TypeOK /\ BatchOK /\ CancelledOK /\ ArmedForFirst
  BY DEF TimerInv
<1>2. UNCHANGED <<clock, when, doingTimerCallback, expired, ran, now, armedAt, fdReady, late>>
  BY DEF CancelTask, fdVars, batchVars
<1>3. /\ timers' \subseteq timers /\ cancelledTimers' \subseteq Timers
      /\ cancelledTimers \subseteq cancelledTimers'
      /\ cancelled' \subseteq cancelled \cup {t}
      /\ t \in cancelled' => t \in cancelled \cup timers \cup expired
  BY <1>1 DEF CancelTask, InBatch, TypeOK
<1>4. \A u \in cancelled' : when'[u] # Off /\ u \notin timers'
  BY <1>1, <1>2, <1>3 DEF CancelTask, CancelledOK, BatchOK, TypeOK
<1>5. doingTimerCallback => cancelled' \cap expired \subseteq cancelledTimers'
  BY <1>1, <1>3 DEF CancelTask, CancelledOK, TypeOK
<1>6. ArmedForFirst'
  BY <1>1, <1>2, <1>3 DEF ArmedForFirst
<1> QED
  BY <1>2, <1>3, <1>4, <1>5, <1>6 DEF CancelledOK

(* The queue of tasks, as it grows and as it shrinks. *)
LEMMA TaskPushed ==
  ASSUME NEW s \in Seq(Tasks), NEW e \in Tasks
  PROVE  /\ Append(s, e) \in Seq(Tasks) /\ Len(Append(s, e)) = Len(s) + 1
         /\ \A i \in 1 .. Len(s) : Append(s, e)[i] = s[i]
         /\ Append(s, e)[Len(s) + 1] = e
BY AppendProperties

LEMMA TaskPopped ==
  ASSUME NEW s \in Seq(Tasks), s # <<>>
  PROVE  /\ Head(s) \in Tasks /\ Head(s) = s[1] /\ Len(s) \in Nat \ {0}
         /\ Tail(s) \in Seq(Tasks) /\ Len(Tail(s)) = Len(s) - 1
         /\ \A i \in 1 .. Len(s) - 1 : Tail(s)[i] = s[i + 1]
<1>1. Len(s) \in Nat \ {0}
  BY EmptySeq
<1> QED
  BY <1>1, HeadTailProperties

LEMMA TasksTyped ==
  ASSUME TypeOK, NEW i \in 1 .. Len(tasks)
  PROVE  tasks[i][1] \in {"add", "cancel"} /\ tasks[i][2] \in Timers
<1>1. tasks[i] \in Tasks
  BY ElementOfSeq DEF TypeOK, Tasks
<1> QED
  BY <1>1 DEF Tasks

(* No step that leaves the queue alone, creates no timer twice and touches *)
(* only created timers without an addTask disturbs the queued ones.        *)
LEMMA AddsKept ==
  ASSUME TypeOK, AddsOK, UNCHANGED tasks,
         \A t \in Timers : when[t] # Off => when'[t] # Off,
         \A t \in Timers : when[t] # Off /\ t \notin Touched => t \notin Touched'
  PROVE  AddsOK'
BY TasksTyped DEF AddsOK

LEMMA AddTimerPushed ==
  ASSUME TypeOK, AddsOK, NEW t \in Timers, when[t] = Off, t \notin Touched,
         tasks' = Append(tasks, <<"add", t>>),
         when'[t] # Off, \A u \in Timers \ {t} : when'[u] = when[u],
         UNCHANGED <<timers, expired, cancelled>>
  PROVE  AddsOK'
<1> DEFINE e == <<"add", t>>
           n == Len(tasks)
<1>1. /\ Len(tasks') = n + 1 /\ n \in Nat
      /\ \A i \in 1 .. n : tasks'[i] = tasks[i]
      /\ tasks'[n + 1] = e
  BY TaskPushed DEF TypeOK, Tasks
<1>2. \A i \in 1 .. n : tasks[i] # e
  BY DEF AddsOK
<1>3. ASSUME NEW i \in 1 .. n + 1, tasks'[i][1] = "add"
      PROVE  /\ when'[tasks'[i][2]] # Off /\ tasks'[i][2] \notin Touched'
             /\ \A j \in 1 .. n + 1 : tasks'[j] = tasks'[i] => j = i
  <2>1. CASE i = n + 1
    <3>1. tasks'[i] = e
      BY <1>1, <2>1
    <3>2. \A j \in 1 .. n + 1 : tasks'[j] = e => j = n + 1
      BY <1>1, <1>2
    <3> QED
      BY <2>1, <3>1, <3>2 DEF Touched
  <2>2. CASE i \in 1 .. n
    <3>1. /\ tasks'[i] = tasks[i] /\ tasks[i][2] \in Timers
          /\ when[tasks[i][2]] # Off /\ tasks[i][2] \notin Touched
          /\ \A j \in 1 .. n : tasks[j] = tasks[i] => j = i
      BY <1>1, <1>3, <2>2, TasksTyped DEF AddsOK
    <3>2. tasks[i] # e
      BY <1>2, <2>2
    <3>3. \A j \in 1 .. n + 1 : tasks'[j] = tasks[i] => j = i
      BY <1>1, <3>1, <3>2
    <3> QED
      BY <3>1, <3>3 DEF Touched
  <2> QED
    BY <1>1, <2>1, <2>2
<1> QED
  BY <1>1, <1>3 DEF AddsOK

LEMMA CancelPushed ==
  ASSUME TypeOK, AddsOK, NEW t \in Timers, tasks' = Append(tasks, <<"cancel", t>>),
         UNCHANGED <<when, timers, expired, cancelled>>
  PROVE  AddsOK'
<1> DEFINE n == Len(tasks)
<1>1. /\ Len(tasks') = n + 1 /\ n \in Nat
      /\ \A i \in 1 .. n : tasks'[i] = tasks[i]
      /\ tasks'[n + 1] = <<"cancel", t>>
  BY TaskPushed DEF TypeOK, Tasks
<1>2. ASSUME NEW i \in 1 .. n + 1, tasks'[i][1] = "add"
      PROVE  /\ when'[tasks'[i][2]] # Off /\ tasks'[i][2] \notin Touched'
             /\ \A j \in 1 .. n + 1 : tasks'[j] = tasks'[i] => j = i
  <2>1. i \in 1 .. n /\ tasks'[i] = tasks[i] /\ tasks[i] # <<"cancel", t>>
    BY <1>1, <1>2
  <2>2. /\ when[tasks[i][2]] # Off /\ tasks[i][2] \notin Touched
        /\ \A j \in 1 .. n : tasks[j] = tasks[i] => j = i
    BY <1>2, <2>1 DEF AddsOK
  <2>3. \A j \in 1 .. n + 1 : tasks'[j] = tasks[i] => j = i
    BY <1>1, <2>1, <2>2
  <2> QED
    BY <2>1, <2>2, <2>3 DEF Touched
<1> QED
  BY <1>1, <1>2 DEF AddsOK

(* A task leaves the queue: those behind it are other tasks, on other      *)
(* timers where they are addTasks and the one that left was.               *)
LEMMA TaskLeaves ==
  ASSUME TypeOK, AddsOK, tasks # <<>>, tasks' = Tail(tasks), UNCHANGED <<when, expired>>,
         \A t \in Timers : <<"add", t>> # Head(tasks) /\ when[t] # Off /\ t \notin Touched
                             => t \notin Touched'
  PROVE  AddsOK'
<1> DEFINE n == Len(tasks) - 1
<1>1. /\ Head(tasks) = tasks[1] /\ n \in Nat /\ Len(tasks') = n
      /\ \A i \in 1 .. n : tasks'[i] = tasks[i + 1]
  BY TaskPopped DEF TypeOK, Tasks
<1>2. ASSUME NEW i \in 1 .. n, tasks'[i][1] = "add"
      PROVE  /\ when'[tasks'[i][2]] # Off /\ tasks'[i][2] \notin Touched'
             /\ \A j \in 1 .. n : tasks'[j] = tasks'[i] => j = i
  <2>1. i + 1 \in 1 .. Len(tasks) /\ tasks'[i] = tasks[i + 1] /\ 1 \in 1 .. Len(tasks)
    BY <1>1
  <2>2. /\ when[tasks[i + 1][2]] # Off /\ tasks[i + 1][2] \notin Touched
        /\ \A j \in 1 .. Len(tasks) : tasks[j] = tasks[i + 1] => j = i + 1
    BY <1>2, <2>1 DEF AddsOK
  <2>3. tasks[i + 1] # Head(tasks)
    BY <1>1, <2>1, <2>2
  <2>4. tasks[i + 1] = <<"add", tasks[i + 1][2]>> /\ tasks[i + 1][2] \in Timers
    <3>1. tasks[i + 1] \in Tasks
      BY <2>1, ElementOfSeq DEF TypeOK, Tasks
    <3> QED
      BY <1>2, <2>1, <3>1 DEF Tasks
  <2>5. tasks[i + 1][2] \notin Touched'
    BY <2>2, <2>3, <2>4
  <2>6. \A j \in 1 .. n : tasks'[j] = tasks[i + 1] => j = i
    BY <1>1, <2>1, <2>2
  <2> QED
    BY <2>1, <2>2, <2>5, <2>6
<1> QED
  BY <1>1, <1>2 DEF AddsOK
-----------------------------------------------------------------------------
(* While the program runs its flag keeps its value; an abort ends it. *)
LEMMA RunsKeeps == TypeOK /\ Runs => aborted' \in BOOLEAN
BY DEF TypeOK, Runs

LEMMA CancelGoneKeeps ==
  ASSUME TimerInv, NEW t \in Timers, CancelGone(t)
  PROVE  TimerInv'
BY DEF CancelGone, fdVars, batchVars, TimerInv, TypeOK, BatchOK, AddsOK, Touched,
  CancelledOK, ArmedForFirst

LEMMA TickKeeps == TimerInv /\ Tick => TimerInv'
<1> SUFFICES ASSUME TimerInv, Tick PROVE TimerInv'
  OBVIOUS
<1>0. aborted' \in BOOLEAN
  BY RunsKeeps DEF Tick, TimerInv
<1> USE DEF TimerInv, Tick, batchVars, fdVars
<1>1. clock' \in 1 .. MaxTime /\ now' \in 1 .. clock'
  BY MaxTimeAssumption DEF TypeOK
<1>2. armedAt' \in Nat /\ fdReady' \in BOOLEAN
  <2>1. CASE armedAt # Off /\ armedAt < clock'
    BY <2>1 DEF Off
  <2>2. CASE ~(armedAt # Off /\ armedAt < clock')
    BY <2>2 DEF TypeOK
  <2> QED
    BY <2>1, <2>2
<1>3. TypeOK'
  BY <1>0, <1>1, <1>2 DEF TypeOK
<1>4. BatchOK' /\ CancelledOK'
  BY DEF BatchOK, CancelledOK
<1>5. AddsOK'
  BY AddsKept DEF Touched
<1>6. ArmedForFirst'
  BY DEF ArmedForFirst, TypeOK
<1> QED
  BY <1>3, <1>4, <1>5, <1>6

LEMMA AddTimerInLoopKeeps ==
  ASSUME TimerInv, NEW t \in Timers, NEW delay \in Delays, AddTimerInLoop(t, delay)
  PROVE  TimerInv'
<1> USE DEF AddTimerInLoop, batchVars
<1>0. TypeOK /\ BatchOK /\ AddsOK /\ CancelledOK /\ ArmedForFirst
  BY DEF TimerInv
<1> DEFINE deadline == clock + delay
<1>1. deadline \in Nat /\ deadline # Off /\ AddTask(t, deadline)
  BY <1>0, DelaysAssumption, MaxTimeAssumption DEF TypeOK, Off
<1>2. /\ when' \in [Timers -> Nat] /\ when'[t] = deadline
      /\ \A u \in Timers \ {t} : when'[u] = when[u]
      /\ when[t] = Off
  BY <1>0, <1>1 DEF TypeOK
<1>3. UNCHANGED <<clock, doingTimerCallback, expired, ran, now, tasks>>
  OBVIOUS
<1> HIDE DEF deadline
<1>4. timers' = timers \cup {t} /\ UNCHANGED <<cancelledTimers, cancelled>>
  BY <1>1 DEF AddTask
<1>5. t \notin timers /\ t \notin expired /\ t \notin cancelled
  BY <1>0, <1>2 DEF TypeOK, BatchOK, CancelledOK
<1>6. \A u \in timers : when'[u] = when[u]
  BY <1>0, <1>2, <1>5 DEF TypeOK
<1>7. armedAt' \in Nat /\ fdReady' \in BOOLEAN /\ late' \in BOOLEAN /\ ArmedForFirst'
  BY <1>0, <1>1, <1>2, <1>3, <1>6, AddTaskKeeps
<1>8. TypeOK'
  BY RunsKeeps, <1>0, <1>1, <1>2, <1>3, <1>4, <1>5, <1>7 DEF TypeOK
<1>9. BatchOK' /\ CancelledOK'
  BY <1>0, <1>1, <1>2, <1>3, <1>4, <1>5 DEF BatchOK, CancelledOK, TypeOK
<1>10. AddsOK'
  <2>1. /\ \A u \in Timers : when[u] # Off => when'[u] # Off
        /\ \A u \in Timers : when[u] # Off /\ u \notin Touched => u \notin Touched'
    BY <1>1, <1>2, <1>3, <1>4 DEF Touched
  <2> QED
    BY <1>0, <1>3, <2>1, AddsKept
<1> QED
  BY <1>7, <1>8, <1>9, <1>10 DEF TimerInv

LEMMA AddTimerKeeps ==
  ASSUME TimerInv, NEW t \in Timers, NEW delay \in Delays, AddTimer(t, delay)
  PROVE  TimerInv'
<1> USE DEF AddTimer, batchVars, fdVars
<1>0. TypeOK /\ BatchOK /\ AddsOK /\ CancelledOK /\ ArmedForFirst
  BY DEF TimerInv
<1>1. /\ when' \in [Timers -> Nat] /\ when'[t] # Off /\ when[t] = Off
      /\ \A u \in Timers \ {t} : when'[u] = when[u]
  BY <1>0, DelaysAssumption, MaxTimeAssumption DEF TypeOK, Off
<1>2. t \notin timers /\ t \notin expired /\ t \notin cancelled
  BY <1>0, <1>1 DEF TypeOK, BatchOK, CancelledOK
<1>3. tasks' \in Seq(Tasks)
  BY <1>0, TaskPushed DEF TypeOK, Tasks
<1>4. TypeOK'
  BY RunsKeeps, <1>0, <1>1, <1>2, <1>3 DEF TypeOK, Tasks
<1>5. BatchOK' /\ CancelledOK'
  BY <1>0, <1>1, <1>2 DEF BatchOK, CancelledOK, TypeOK
<1>6. AddsOK'
  BY <1>0, <1>1, <1>2, AddTimerPushed DEF Touched
<1>7. ArmedForFirst'
  BY <1>0, <1>1, <1>2 DEF ArmedForFirst, TypeOK
<1> QED
  BY <1>4, <1>5, <1>6, <1>7 DEF TimerInv

LEMMA CancelKeeps ==
  ASSUME TimerInv, NEW t \in Timers, Cancel(t)
  PROVE  TimerInv'
<1> USE DEF Cancel, batchVars, fdVars
<1>0. TypeOK /\ BatchOK /\ AddsOK /\ CancelledOK /\ ArmedForFirst
  BY DEF TimerInv
<1>1. tasks' \in Seq(Tasks)
  BY <1>0, TaskPushed DEF TypeOK, Tasks
<1>2. TypeOK'
  BY RunsKeeps, <1>0, <1>1 DEF TypeOK, Tasks
<1>3. BatchOK' /\ CancelledOK'
  BY <1>0 DEF BatchOK, CancelledOK
<1>4. AddsOK'
  BY <1>0, CancelPushed
<1>5. ArmedForFirst'
  BY <1>0 DEF ArmedForFirst
<1> QED
  BY <1>2, <1>3, <1>4, <1>5 DEF TimerInv

LEMMA CancelInLoopKeeps ==
  ASSUME TimerInv, NEW t \in Timers, CancelInLoop(t)
  PROVE  TimerInv'
<1> USE DEF CancelInLoop
<1>0. TypeOK /\ BatchOK /\ AddsOK /\ CancelledOK /\ ArmedForFirst
  BY DEF TimerInv
<1>1. UNCHANGED <<clock, when, batchVars, tasks>> /\ CancelTask(t)
  OBVIOUS
<1>2. /\ timers' \subseteq timers /\ cancelledTimers' \subseteq Timers
      /\ cancelled' \subseteq cancelled \cup {t}
      /\ t \in cancelled' => t \in cancelled \cup timers \cup expired
      /\ UNCHANGED <<armedAt, fdReady, late>>
      /\ CancelledOK' /\ ArmedForFirst'
  BY <1>1, CancelTaskKeeps
<1>3. TypeOK' /\ BatchOK'
  BY RunsKeeps, <1>0, <1>1, <1>2 DEF TypeOK, BatchOK, batchVars
<1>4. AddsOK'
  BY <1>0, <1>1, <1>2, AddsKept DEF Touched, batchVars
<1> QED
  BY <1>2, <1>3, <1>4 DEF TimerInv

LEMMA RunTaskKeeps == TimerInv /\ RunTask => TimerInv'
<1> SUFFICES ASSUME TimerInv, RunTask PROVE TimerInv'
  OBVIOUS
<1>0. TypeOK /\ BatchOK /\ AddsOK /\ CancelledOK /\ ArmedForFirst
  BY DEF TimerInv
<1>1. /\ tasks # <<>> /\ tasks' = Tail(tasks) /\ ~doingTimerCallback /\ expired = {}
      /\ UNCHANGED <<clock, when, doingTimerCallback, expired, ran, now, batchVars>> /\ Runs
  BY <1>0 DEF RunTask, BatchOK, batchVars
<1>2. /\ Head(tasks) \in Tasks /\ Head(tasks) = tasks[1] /\ tasks' \in Seq(Tasks)
      /\ 1 \in 1 .. Len(tasks)
  BY <1>0, <1>1, TaskPopped DEF TypeOK, Tasks
<1> DEFINE t == Head(tasks)[2]
<1>3. t \in Timers /\ Head(tasks) = <<Head(tasks)[1], t>> /\ Head(tasks)[1] \in {"add", "cancel"}
  BY <1>2 DEF Tasks
<1>4. CASE Head(tasks)[1] = "add"
  <2>1. AddTask(t, when[t])
    BY <1>4 DEF RunTask
  <2>2. when[t] # Off /\ t \notin Touched
    BY <1>0, <1>2, <1>4 DEF AddsOK
  <2>3. Head(tasks) = <<"add", t>>
    BY <1>3, <1>4
  <2> HIDE DEF t
  <2>4. timers' = timers \cup {t} /\ UNCHANGED <<cancelledTimers, cancelled>>
    BY <2>1 DEF AddTask
  <2>5. armedAt' \in Nat /\ fdReady' \in BOOLEAN /\ late' \in BOOLEAN /\ ArmedForFirst'
    BY <1>0, <1>1, <1>3, <2>1, <2>2, AddTaskKeeps DEF TypeOK
  <2>6. TypeOK' /\ BatchOK' /\ CancelledOK'
    BY RunsKeeps, <1>0, <1>1, <1>2, <1>3, <2>2, <2>4, <2>5
    DEF TypeOK, BatchOK, CancelledOK, Touched, Tasks
  <2>7. AddsOK'
    BY <1>0, <1>1, <2>3, <2>4, TaskLeaves DEF Touched
  <2> QED
    BY <2>5, <2>6, <2>7 DEF TimerInv
<1>5. CASE Head(tasks)[1] # "add"
  <2>1. CancelTask(t)
    BY <1>5 DEF RunTask
  <2> HIDE DEF t
  <2>2. /\ timers' \subseteq timers /\ cancelledTimers' \subseteq Timers
        /\ cancelled' \subseteq cancelled \cup {t}
        /\ t \in cancelled' => t \in cancelled \cup timers \cup expired
        /\ UNCHANGED <<armedAt, fdReady, late>>
        /\ CancelledOK' /\ ArmedForFirst'
    BY <1>1, <1>3, <2>1, CancelTaskKeeps
  <2>3. TypeOK' /\ BatchOK'
    BY RunsKeeps, <1>0, <1>1, <1>2, <1>3, <2>2 DEF TypeOK, BatchOK, Tasks
  <2>4. AddsOK'
    BY <1>0, <1>1, <2>2, TaskLeaves DEF Touched
  <2> QED
    BY <2>2, <2>3, <2>4 DEF TimerInv
<1> QED
  BY <1>4, <1>5

LEMMA BeginHandleTimerKeeps == TimerInv /\ BeginHandleTimer => TimerInv'
<1> SUFFICES ASSUME TimerInv, BeginHandleTimer PROVE TimerInv'
  OBVIOUS
<1> USE DEF BeginHandleTimer, ExpireTimers
<1>0. TypeOK /\ BatchOK /\ AddsOK /\ CancelledOK /\ ArmedForFirst
  BY DEF TimerInv
<1>1. /\ expired' \subseteq timers /\ \A t \in expired' : when'[t] < now'
      /\ timers' = timers \ expired'
  OBVIOUS
<1>2. TypeOK'
  <2>1. fdReady' \in BOOLEAN /\ doingTimerCallback' \in BOOLEAN
    OBVIOUS
  <2>2. /\ expired' \subseteq {t \in Timers : when'[t] < now'} \ timers'
        /\ timers' \subseteq {t \in Timers : when'[t] # Off}
    BY <1>0, <1>1 DEF TypeOK
  <2>3. now' \in 1 .. clock' /\ clock' \in 1 .. MaxTime
    BY <1>0, MaxTimeAssumption DEF TypeOK
  <2> QED
    BY RunsKeeps, <1>0, <2>1, <2>2, <2>3 DEF TypeOK
<1>3. BatchOK' /\ ArmedForFirst'
  BY <1>0, <1>1 DEF TypeOK, BatchOK, ArmedForFirst
<1>4. CancelledOK'
  BY <1>0, <1>1 DEF CancelledOK
<1>5. AddsOK'
  BY <1>0, <1>1, AddsKept DEF Touched
<1> QED
  BY <1>2, <1>3, <1>4, <1>5 DEF TimerInv

LEMMA EndHandleTimerKeeps == TimerInv /\ EndHandleTimer => TimerInv'
<1> SUFFICES ASSUME TimerInv, EndHandleTimer PROVE TimerInv'
  OBVIOUS
<1> USE DEF EndHandleTimer
<1>0. TypeOK /\ BatchOK /\ AddsOK /\ CancelledOK /\ ArmedForFirst
  BY DEF TimerInv
<1>1. /\ Restarted \subseteq expired /\ Restarted \cap cancelledTimers = {}
      /\ timers' = timers \cup Restarted /\ expired' = {} /\ ran' = {}
      /\ UNCHANGED <<clock, now, cancelledTimers, tasks, cancelled>>
      /\ ~doingTimerCallback' /\ doingTimerCallback
  BY DEF Restarted
<1>2. /\ when' \in [Timers -> Nat]
      /\ \A t \in Timers : when[t] # Off => when'[t] # Off
  BY <1>0, IntervalAssumption DEF TypeOK, Off
<1>3. timers' \subseteq Timers /\ \A t \in timers' : when'[t] \in Nat /\ when'[t] # Off
  BY <1>0, <1>1, <1>2 DEF TypeOK, BatchOK
<1>4. armedAt' \in Nat /\ fdReady' \in BOOLEAN
  <2>1. CASE UNCHANGED fdVars
    BY <1>0, <2>1 DEF TypeOK, fdVars
  <2>2. CASE \E first \in timers' : ResetTimerFd(when'[first])
    BY <1>0, <1>3, <2>2 DEF TypeOK, ResetTimerFd, fdVars
  <2> QED
    BY <2>1, <2>2 DEF ArmForFirst
<1>5. late' \in BOOLEAN
  BY <1>0 DEF TypeOK
<1>6. TypeOK'
  BY RunsKeeps, <1>0, <1>1, <1>2, <1>3, <1>4, <1>5 DEF TypeOK
<1>7. BatchOK'
  BY <1>1 DEF BatchOK
<1>8. CancelledOK'
  BY <1>0, <1>1, <1>2 DEF CancelledOK, TypeOK
<1>9. AddsOK'
  BY <1>0, <1>1, <1>2, AddsKept DEF Touched
<1>10. ASSUME ~late', timers' # {}
       PROVE  armedAt' # Off /\ \A t \in timers' : armedAt' <= when'[t]
  <2>1. \A t \in timers' : ~(when'[t] < clock)
    BY <1>10
  <2>2. PICK first \in timers' :
          /\ \A t \in timers' : when'[first] <= when'[t]
          /\ IF when'[first] >= now THEN ResetTimerFd(when'[first]) ELSE UNCHANGED fdVars
    BY <1>10 DEF ArmForFirst
  <2>3. when'[first] >= now /\ ~Passed(when'[first])
    <3>1. when'[first] \in Nat /\ ~(when'[first] < clock)
      BY <1>3, <2>1, <2>2
    <3>2. clock \in Nat /\ now \in Nat /\ now <= clock
      BY <1>0, MaxTimeAssumption DEF TypeOK
    <3> HIDE DEF EndHandleTimer
    <3> QED
      BY <3>1, <3>2 DEF Passed
  <2>4. armedAt' = when'[first]
    BY <2>2, <2>3 DEF ResetTimerFd
  <2> QED
    BY <1>3, <2>2, <2>4
<1>11. ArmedForFirst'
  BY <1>10 DEF ArmedForFirst
<1> QED
  BY <1>6, <1>7, <1>8, <1>9, <1>11 DEF TimerInv

LEMMA RunTimerKeeps ==
  ASSUME TimerInv, NEW t \in Timers, RunTimer(t)
  PROVE  TimerInv'
<1> USE DEF RunTimer, fdVars
<1>0. TypeOK /\ BatchOK /\ AddsOK /\ CancelledOK /\ ArmedForFirst
  BY DEF TimerInv
<1>1. TypeOK'
  BY RunsKeeps, <1>0 DEF TypeOK, InBatch
<1>2. BatchOK' /\ CancelledOK' /\ ArmedForFirst'
  BY <1>0 DEF BatchOK, CancelledOK, ArmedForFirst
<1>3. AddsOK'
  BY <1>0, AddsKept DEF Touched
<1> QED
  BY <1>1, <1>2, <1>3 DEF TimerInv

LEMMA NextTimerInv == TimerInv /\ [Next]_vars => TimerInv'
<1> SUFFICES ASSUME TimerInv, [Next]_vars PROVE TimerInv'
  OBVIOUS
<1>1. CASE UNCHANGED vars
  BY <1>1 DEF vars, fdVars, batchVars, TimerInv, TypeOK, BatchOK, AddsOK, Touched,
    CancelledOK, ArmedForFirst
<1>2. CASE Next
  BY <1>1, <1>2, TickKeeps, AddTimerInLoopKeeps, AddTimerKeeps, CancelKeeps, CancelGoneKeeps,
     CancelInLoopKeeps, RunTimerKeeps, RunTaskKeeps, BeginHandleTimerKeeps,
     EndHandleTimerKeeps DEF Next, Horizon
<1> QED
  BY <1>1, <1>2
-----------------------------------------------------------------------------
(* The invariant that the results below rest on: where timers may be, with *)
(* the tasks that are queued for them (timer_queue.cc:68-141).             *)
THEOREM TimerInvariant == Spec => []TimerInv
<1> QED
  BY InitTimerInv, NextTimerInv, PTL DEF Spec

(* A cancelled timer never enters timers_ again, even if it repeats and a  *)
(* callback of its own batch cancels it, or another thread does while its  *)
(* addTask or the cancelTask waits in the queue (timer_queue.cc:109-141).  *)
THEOREM CancelledStaysOut == Spec => []CancelIsFinal
<1>1. TimerInv => CancelIsFinal
  BY DEF TimerInv, CancelledOK, CancelIsFinal
<1> QED
  BY <1>1, TimerInvariant, PTL

(* Until the loop is late for a deadline, the descriptor wakes it no later *)
(* than the earliest timer asks for (timer_queue.cc:68-81, 109-130).       *)
THEOREM ArmedInTime == Spec => []ArmedForFirst
<1>1. TimerInv => ArmedForFirst
  BY DEF TimerInv
<1> QED
  BY <1>1, TimerInvariant, PTL
=============================================================================
