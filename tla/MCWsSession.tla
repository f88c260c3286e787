----------------------------- MODULE MCWsSession -----------------------------
(* WsSession on a few sessions. *)
EXTENDS WsSession, TLC

CONSTANTS s1, s2, q1, q2

Symmetry == Permutations(Sessions) \cup Permutations(Requestors)
=============================================================================
