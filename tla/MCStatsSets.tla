---------------------------- MODULE MCStatsSets ----------------------------
(* StatsSets for TLC: connections and members are model values, and so are *)
(* the keys.                                                               *)
EXTENDS StatsSets

SetsSymmetry == Permutations(Client) \cup Permutations(Member)
=============================================================================
