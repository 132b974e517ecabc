---------------------------- MODULE MCCbwBudget ----------------------------
(* Instances of CbwBudget: a limited cgroup inside a limited cgroup. *)
EXTENDS CbwBudget, TLC

CONSTANTS outer, inner

MCParent == inner :> outer @@ outer :> Root
MCPre == <<outer, inner>>
MCPost == <<inner, outer>>
MCBurst == outer :> 1 @@ inner :> 0
=============================================================================
