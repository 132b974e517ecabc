---------------------------- MODULE MCCbwManage ----------------------------
(* Instances of CbwManage. *)
EXTENDS CbwManage, TLC

CONSTANTS p1, p2, p3, g1, g2, g3

Symmetry == Permutations(Proc) \cup Permutations(Cgrp)
=============================================================================
