----------------------------- MODULE CbwRollup -----------------------------
(***************************************************************************)
(* The subtree sums of the cgroup tree (lib/cgroup_bw.bpf.c,               *)
(* cbw_update_runtime_total_sloppy): one post-order walk with one          *)
(* accumulator per level, over a tree in which only some cgroups have a    *)
(* context, checked against the sum over the subtree for every tree of up  *)
(* to N cgroups.                                                           *)
(*                                                                         *)
(* Cgroup 0 is the root and the parent of a cgroup has a smaller number.   *)
(* The tree, the contexts and the LLC counters stand still during a walk;  *)
(* CbwBudget lets the counters move.                                       *)
(***************************************************************************)
EXTENDS Integers, Sequences, SequencesExt, FiniteSetsExt

CONSTANTS
    N,              \* cgroups below the root
    MaxRuntime,     \* bound: the time one cgroup has billed
    Height          \* tree_height_max

ASSUME CbwRollupConstants == N \in Nat /\ MaxRuntime \in Nat /\ Height \in Nat \ {0}

VARIABLES
    parent,     \* the tree
    managed,    \* the cgroups with a context
    runtime,    \* the sum of runtime_total over the LLC contexts
    order,      \* BPF_CGROUP_ITER_DESCENDANTS_POST
    pos,        \* the position of the walk
    levels,     \* tree_levels_map
    sloppy      \* runtime_total_sloppy

vars == <<parent, managed, runtime, order, pos, levels, sloppy>>

Cgrp == 1..N
Level == 0..Height - 1

LevelOf(g) ==
    LET up[x \in 0..N] == IF x = 0 THEN 0 ELSE 1 + up[parent[x]] IN up[g]

\* The descendants of g, children before parents and siblings by number.
PostOrder(par) ==
    LET post[g \in 0..N] ==
            Append(FlattenSeq([k \in 1..N |->
                       IF k > g /\ par[k] = g THEN post[k] ELSE <<>>]), g)
    IN  post[0]

\* A cgroup below the height cap has no context and bills nothing.
Init ==
    /\ parent \in {par \in [Cgrp -> 0..N - 1] : \A g \in Cgrp : par[g] < g}
    /\ managed \in SUBSET {g \in Cgrp : LevelOf(g) < Height}
    /\ runtime \in {r \in [Cgrp -> 0..MaxRuntime] : \A g \in Cgrp \ managed : r[g] = 0}
    /\ order = PostOrder(parent)
    /\ pos = 1
    /\ levels = [l \in Level |-> 0]
    /\ sloppy = [g \in Cgrp |-> 0]

\* tree_absorb_deeper: the sum of the deeper levels, and the levels cleared.
Absorbed(level) == MapThenSumSet(LAMBDA l : levels[l], {l \in Level : l > level})

\* Mutant: the absorbed levels are not cleared.
KeepDeeper(level) == levels
ClearDeeper(level) == [l \in Level |-> IF l > level THEN 0 ELSE levels[l]]

Visit ==
    LET g == order[pos]  level == LevelOf(g)  rts == runtime[g] + Absorbed(level) IN
    /\ g # 0
    /\ pos' = pos + 1
    /\ IF level >= Height THEN UNCHANGED <<levels, sloppy>>
       ELSE /\ levels' = [ClearDeeper(level) EXCEPT ![level] = @ + rts]
            /\ sloppy' = [sloppy EXCEPT ![g] = IF g \in managed THEN rts ELSE @]
    /\ UNCHANGED <<parent, managed, runtime, order>>

\* "the root comes last and is never throttled": the walk ends there.  The next
\* one starts from clean levels over what was billed in between.
Rewalk ==
    /\ order[pos] = 0
    /\ pos' = 1
    /\ levels' = [l \in Level |-> 0]
    /\ \E S \in SUBSET managed :
           runtime' = [g \in Cgrp |-> IF g \in S THEN MaxRuntime - runtime[g] ELSE runtime[g]]
    /\ UNCHANGED <<parent, managed, order, sloppy>>

Next == Visit \/ Rewalk

Spec == Init /\ [][Next]_vars

-----------------------------------------------------------------------------
(* Properties *)

Subtree(g) ==
    LET above[x \in 0..N] == {x} \cup IF x = 0 THEN {} ELSE above[parent[x]]
    IN  {x \in Cgrp : g \in above[x]}
Total(S) == MapThenSumSet(LAMBDA g : runtime[g], S)
Visited == {order[k] : k \in 1..pos - 1}

\* "Refresh each cgroup's runtime_total_sloppy to the CPU time consumed by its
\* whole subtree": every context visited has exactly that, whatever contextless
\* cgroups lie between it and its descendants.
SubtreeExact == \A g \in Visited \cap managed : sloppy[g] = Total(Subtree(g))
=============================================================================
