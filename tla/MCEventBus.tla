----------------------------- MODULE MCEventBus -----------------------------
(* Instance of EventBus for TLC: two publishers, a stream whose queue holds *)
(* one event, and two listeners.                                            *)
EXTENDS EventBus, TLC

MCSymmetry == Permutations(Publishers) \cup Permutations(Listeners)
=============================================================================
