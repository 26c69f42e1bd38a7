-------------------------- MODULE MCSessionManager --------------------------
(* The registry of sessions for TLC: ids and clients are model values, each *)
(* set closed under permutation.                                            *)
EXTENDS SessionManager, TLC

ManagerSymmetry == Permutations(Sid) \cup Permutations(Client)
=============================================================================
