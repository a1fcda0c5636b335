---------------------------- MODULE MCUserOnline ----------------------------
(* Model-checking instance of UserOnline; descriptors and session ids are     *)
(* interchangeable.                                                           *)
EXTENDS UserOnline, TLC

Symmetry == Permutations(Fds) \cup Permutations(Guids)
=============================================================================
