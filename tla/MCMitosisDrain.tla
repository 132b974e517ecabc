--------------------------- MODULE MCMitosisDrain ---------------------------
(* Two LLCs with one CPU each and one task for each kind of affinity. *)
EXTENDS MitosisDrain, TLC

CONSTANTS c1, c2, l1, l2, t1, t2

MCLlcOf == (c1 :> l1) @@ (c2 :> l2)

\* t1 may run anywhere; t2 only on the first CPU.
MCAffinity == (t1 :> {c1, c2}) @@ (t2 :> {c1})

MCConfigs == {{c1}, {c2}, {c1, c2}}

MCStarts == {{c1}, {c2}}
=============================================================================
