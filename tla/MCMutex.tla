------------------------------ MODULE MCMutex -------------------------------
(* The mutex on one CPU and on two, with a few tasks that contend for it.   *)
EXTENDS Mutex
=============================================================================
