---------------------------- MODULE MCClientSize ----------------------------
(* ClientSize for TLC: clients are interchangeable model values.           *)
EXTENDS ClientSize, TLC

ClientSymmetry == Permutations(Client)
=============================================================================
