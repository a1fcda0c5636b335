-------------------------- MODULE MCLocalTransport --------------------------
(* Model-checking instance of LocalTransport with the relay behind it; the   *)
(* bounds are in the .cfg file.                                              *)
EXTENDS LocalTransport
=============================================================================
