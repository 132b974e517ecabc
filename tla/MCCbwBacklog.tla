--------------------------- MODULE MCCbwBacklog ---------------------------
(* An instance of CbwBacklog. *)
EXTENDS CbwBacklog, TLC

CONSTANTS c1, c2, outer, inner, t1, t2

MCPre == <<outer, inner>>
MCCgrpOf == t1 :> outer @@ t2 :> inner
=============================================================================
