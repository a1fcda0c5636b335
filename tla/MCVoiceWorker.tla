--------------------------- MODULE MCVoiceWorker ---------------------------
(* Model-checking instance of VoiceWorker: the one master that starts, and a *)
(* buffer that two messages overflow.                                        *)
EXTENDS VoiceWorker
=============================================================================
