---------------------------- MODULE MCPushTimer ----------------------------
(* Model-checking instance of PushTimer with a timer thread that was started; *)
(* the bounds are in the .cfg file.                                           *)
EXTENDS PushTimer
=============================================================================
