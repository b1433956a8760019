------------------------------ MODULE MCPubSub ------------------------------
(* PubSub for TLC: connections are interchangeable, and so are addresses. *)
EXTENDS PubSub, TLC

ClientSymmetry == Permutations(Conn) \cup Permutations(Addr)
=============================================================================
