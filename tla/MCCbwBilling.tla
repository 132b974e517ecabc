---------------------------- MODULE MCCbwBilling ----------------------------
(* An instance of CbwBilling for TLC: a below the root, b below a, and d    *)
(* beside them.  The writers are interchangeable.                           *)
EXTENDS CbwBilling, TLC

CONSTANTS r, a, b, d

MCCgrp == <<r, a, b, d>>
MCParent == (a :> r) @@ (b :> a) @@ (d :> r)

WriterSymmetry == Permutations(Writer)

=============================================================================
