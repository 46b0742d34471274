----------------------------- MODULE MCRwMutex ------------------------------
(* RwMutex on one CPU and on two; tasks and CPUs are interchangeable.        *)
EXTENDS RwMutex, TLC

Symmetry == Permutations(Tasks) \cup Permutations(Cpus)
=============================================================================
