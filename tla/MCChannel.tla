----------------------------- MODULE MCChannel ------------------------------
(* Channel with a few readers and writers, on one CPU and on several.        *)
EXTENDS Channel
=============================================================================
