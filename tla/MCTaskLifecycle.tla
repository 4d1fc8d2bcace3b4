--------------------------- MODULE MCTaskLifecycle ---------------------------
(* TaskLifecycle for TLC: the task UUIDs are interchangeable, and so are the *)
(* handler slots.                                                            *)
EXTENDS TaskLifecycle, TLC

TaskSymmetry == Permutations(Tasks) \cup Permutations(Requests)
=============================================================================
