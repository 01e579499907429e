--------------------------- MODULE MCSessionRoom ---------------------------
(* SessionRoom for TLC: the sessions and the messages are interchangeable. *)
EXTENDS SessionRoom, TLC

Symmetry == Permutations(Session) \cup Permutations(Message)

=============================================================================
