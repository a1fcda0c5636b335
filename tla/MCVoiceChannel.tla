--------------------------- MODULE MCVoiceChannel ---------------------------
(* Model-checking instance of VoiceChannel; descriptors and addresses are    *)
(* interchangeable.                                                          *)
EXTENDS VoiceChannel, TLC

Symmetry == Permutations(Fds) \cup Permutations(Bevs)
=============================================================================
