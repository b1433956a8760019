---------------------------- MODULE MCClientPool ----------------------------
(* ClientPool for TLC: callers and connections are interchangeable.        *)
EXTENDS ClientPool

PoolSymmetry == Permutations(Caller) \cup Permutations(Conn)
=============================================================================
