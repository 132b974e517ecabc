------------------------------- MODULE MCAtq -------------------------------
(* Small instances of Atq for TLC. *)
EXTENDS Atq, TLC

CONSTANTS c1, c2, t1, t2, fifo, prio

\* A FIFO queue of capacity 2 and a priority queue of capacity 1.
MCCapacity == fifo :> 2 @@ prio :> 1
=============================================================================
