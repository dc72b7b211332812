-------------------------- MODULE ConnectionRegistry --------------------------
(***************************************************************************)
(* What is promised about the connections of a server, or of a client,     *)
(* abstracted from threads and queues: each is accepted, opened and closed *)
(* once, in that order, and its owner keeps it until it is closed, unless  *)
(* the owner itself goes away, which forgets them all.                     *)
(*                                                                         *)
(* TcpServer implements this module for all of its connections, TcpClient  *)
(* for its own, and TcpConnection for one, from its side; see Registry in  *)
(* each of them.                                                           *)
(***************************************************************************)
CONSTANT Clients

VARIABLES
  phase,            \* "new", "accepted", "open" or "closed"
  known,            \* the connections their owner keeps
  leaving           \* has the owner begun to go away?

rvars == <<phase, known, leaving>>

Init ==
  /\ phase = [c \in Clients |-> "new"]
  /\ known = {}
  /\ leaving = FALSE

Accept(c, to) ==
  /\ ~leaving
  /\ phase[c] = "new" /\ to \in {"accepted", "open"}
  /\ phase' = [phase EXCEPT ![c] = to]
  /\ known' = known \cup {c}
  /\ UNCHANGED leaving

Open(c) ==
  /\ phase[c] = "accepted"
  /\ phase' = [phase EXCEPT ![c] = "open"]
  /\ UNCHANGED <<known, leaving>>

(* The owner forgets the connection then, or later. *)
Close(c) ==
  /\ phase[c] = "open"
  /\ phase' = [phase EXCEPT ![c] = "closed"]
  /\ known' \in {known, known \ {c}}
  /\ UNCHANGED leaving

Forget(c) ==
  /\ phase[c] = "closed"
  /\ known' = known \ {c}
  /\ UNCHANGED <<phase, leaving>>

Leave == leaving' = TRUE /\ UNCHANGED <<phase, known>>
Abandon == leaving /\ known' = {} /\ UNCHANGED <<phase, leaving>>

Next ==
  \/ \E c \in Clients :
       \/ \E to \in {"accepted", "open"} : Accept(c, to)
       \/ Open(c) \/ Close(c) \/ Forget(c)
  \/ Leave \/ Abandon

Spec == Init /\ [][Next]_rvars
=============================================================================
