--------------------------- MODULE MCChannelDispatch ---------------------------
(* Descriptors, and accepted connections, are interchangeable; all          *)
(* properties checked are safety properties.                                *)
EXTENDS ChannelDispatch

Symmetry == Permutations(Accepted) \cup Permutations(Fds)
=============================================================================
