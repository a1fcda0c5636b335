--------------------------- MODULE MCConnDispatch ---------------------------
(* Model-checking instance of ConnDispatch: descriptors 5 and 6.            *)
EXTENDS ConnDispatch

MCFds == {5, 6}
=============================================================================
