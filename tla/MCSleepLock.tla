------------------------------- MODULE MCSleepLock -------------------------------
(* Instances of SleepLock for TLC. *)
EXTENDS SleepLock

CONSTANTS p1, p2, p3, p4

Procs4 == {p1, p2, p3, p4}
================================================================================
