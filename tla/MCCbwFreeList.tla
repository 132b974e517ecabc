--------------------------- MODULE MCCbwFreeList ---------------------------
(* Instances of CbwFreeList: a list of three objects. *)
EXTENDS CbwFreeList, TLC

CONSTANTS o1, o2, o3

MCChain == o1 :> o2 @@ o2 :> o3 @@ o3 :> NULL
=============================================================================
