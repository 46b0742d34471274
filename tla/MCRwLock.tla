------------------------------ MODULE MCRwLock ------------------------------
(***************************************************************************)
(* RwLock with five threads and bit 60 worth three readers, so that the    *)
(* reader limit is reached and further readers are turned away.            *)
(***************************************************************************)
EXTENDS RwLock
=============================================================================
