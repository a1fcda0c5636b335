--------------------------- MODULE MCDeviceSession ---------------------------
(* Model-checking instances of DeviceSession: descriptors and devices are   *)
(* model values, and interchangeable.                                       *)
EXTENDS DeviceSession, TLC

Symmetry == Permutations(Fds) \cup Permutations(Devices)
=============================================================================
