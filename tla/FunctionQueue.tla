---------------------------- MODULE FunctionQueue ----------------------------
(***************************************************************************)
(* What EventLoop::pushQueue and EventLoop::exec promise a caller,         *)
(* abstracted from threads, the mutex, the eventfd and the poller:         *)
(*                                                                         *)
(*   - a function handed over by pushQueue waits, then runs exactly once,  *)
(*     in the order in which the functions were handed over;               *)
(*   - a function exec'd by the loop's own thread runs at once, and only   *)
(*     once, whatever is still waiting.                                    *)
(*                                                                         *)
(* EventLoop implements this module; see EventLoop!Queue.                  *)
(***************************************************************************)
EXTENDS Sequences

CONSTANT Funcs      \* the functions that may be handed over

VARIABLES
  fresh,            \* functions nobody has handed over yet
  waiting,          \* handed over, not yet run
  ran,              \* run after having waited, in the order they ran
  inline            \* run at once by exec on the loop's thread

fvars == <<fresh, waiting, ran, inline>>

Init ==
  /\ fresh = Funcs
  /\ waiting = <<>>
  /\ ran = <<>>
  /\ inline = {}

Submit(f) ==
  /\ f \in fresh
  /\ fresh' = fresh \ {f}
  /\ waiting' = Append(waiting, f)
  /\ UNCHANGED <<ran, inline>>

RunInline(f) ==
  /\ f \in fresh
  /\ fresh' = fresh \ {f}
  /\ inline' = inline \cup {f}
  /\ UNCHANGED <<waiting, ran>>

RunNext ==
  /\ waiting # <<>>
  /\ ran' = Append(ran, Head(waiting))
  /\ waiting' = Tail(waiting)
  /\ UNCHANGED <<fresh, inline>>

Next ==
  \/ \E f \in Funcs : Submit(f) \/ RunInline(f)
  \/ RunNext

Spec == Init /\ [][Next]_fvars

=============================================================================
