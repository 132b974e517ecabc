----------------------------- MODULE MCRustland -----------------------------
(* An instance of Rustland for TLC. *)
EXTENDS Rustland, TLC

CONSTANTS c1, c2, t1, t2

(* One task that is enqueued twice, and two that are enqueued once. *)
MCLoads == {(t1 :> 2 @@ t2 :> 0), (t1 :> 1 @@ t2 :> 1)}

=============================================================================
