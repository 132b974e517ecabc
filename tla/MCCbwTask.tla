----------------------------- MODULE MCCbwTask -----------------------------
(* Instances of CbwTask. *)
EXTENDS CbwTask, TLC

CONSTANTS c1, c2, c3, t1, t2, g1, g2, x0, x1, x2

Symmetry ==
    Permutations(Cpu) \cup Permutations(Task) \cup Permutations(Cgrp)
        \cup Permutations(Llcx \ {RootLlcx})
=============================================================================
