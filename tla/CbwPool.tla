------------------------------ MODULE CbwPool ------------------------------
(***************************************************************************)
(* What the free lists of lib/cgroup_bw.bpf.c promise: a pool of context   *)
(* objects from which every successful allocation takes an object nobody   *)
(* else has.                                                               *)
(***************************************************************************)
CONSTANTS
    Obj,        \* the context objects ever allocated from the arena
    MayLose     \* an object given back may be lost

VARIABLES
    free,       \* the objects in the pool
    live        \* the objects handed out

Init ==
    /\ free = Obj
    /\ live = {}

Alloc(o) ==
    /\ o \in free
    /\ o \notin live
    /\ free' = free \ {o}
    /\ live' = live \cup {o}

Free(o) ==
    /\ o \in live
    /\ free' = free \cup {o}
    /\ live' = live \ {o}

Lose(o) ==
    /\ MayLose
    /\ live' = live \ {o}
    /\ UNCHANGED free

Next == \E o \in Obj : Alloc(o) \/ Free(o) \/ Lose(o)

Spec == Init /\ [][Next]_<<free, live>>
=============================================================================
