---------------------------- MODULE MCProcessor -----------------------------
(* Processor with the idle thread of every CPU; t3 is bound to the second.   *)
EXTENDS Processor, TLC

CONSTANTS i1, i2, t3, c1, c2

SmpIdle     == (c1 :> i1) @@ (c2 :> i2)
SmpAffinity == [t \in Tasks |-> CASE t = i1 -> {c1} [] t \in {i2, t3} -> {c2} [] OTHER -> Cpus]
=============================================================================
