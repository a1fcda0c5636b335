---------------------------- MODULE MCCrlfFraming ----------------------------
(* Model-checking instance of CrlfFraming.  The bodies: an empty one; one of *)
(* which a read may bring two messages and more; one whose message just      *)
(* leaves room for a read; one whose message does not; one whose message     *)
(* does not fit rBuf.                                                        *)
EXTENDS CrlfFraming

Body(len) == [i \in 1 .. len |-> 96 + i]

MCBodies == {Body(len) : len \in {0, 1, 3, 5, 10}}
=============================================================================
