------------------------- MODULE MCBroadcastServer -------------------------
(* BroadcastServer for TLC: connections and addresses are model values.    *)
EXTENDS BroadcastServer, TLC

\* Connections are interchangeable; the runs that check liveness do not use
\* this, as symmetry is sound for safety only.
ConnSymmetry == Permutations(Conn)
=============================================================================
