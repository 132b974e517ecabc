-------------------------- MODULE CbwBudgetProofs --------------------------
(***************************************************************************)
(* Proofs about CbwBudget, for every tree of cgroups and every order in    *)
(* which the walk of cbw_throttle_cgroups lists them.                      *)
(*                                                                         *)
(* When the walk has passed a cgroup, the cgroup is throttled if any of    *)
(* its ancestors is.  Later in the walk an ancestor may become throttled   *)
(* as well, but only because one of its own ancestors is, and that is an   *)
(* ancestor of the cgroup too: so it has been throttled already.  What     *)
(* else could undo it is a walk of the replenish timer (overlapped) or a   *)
(* write to cpu.max that limits a cgroup the walk passed over (relimited). *)
(***************************************************************************)
EXTENDS CbwBudget, TLAPS

-----------------------------------------------------------------------------
(* Invariant *)

Label == {"idle", "roll", "throttle", "reset", "refill", "end"}

\* The cgroup inherits the throttling of its ancestors.
Inherits(g) == \A x \in Ancestors(g) : throttled[x] => throttled[g]

\* The cgroups that the walk of the accounting timer has passed.
Passed == {Post[k] : k \in 1..at["accounting"] - 1}

WalkTypes ==
    /\ throttled \in [Cgrp -> BOOLEAN]
    /\ pc \in [Timer -> Label]
    /\ at \in [Timer -> 1..Len(Post)]

\* Who may be running, and what the walk has done so far.
Alone ==
    /\ ~overlapped => pc["accounting"] = "idle" \/ pc["replenish"] = "idle"
    /\ pc["replenish"] \in {"idle", "throttle"} => ~running

Reached ==
    ~overlapped /\ pc["accounting"] = "throttle" =>
        \A g \in Passed : ub[g] # INF /\ g \notin relimited => Inherits(g)

WalkInv == WalkTypes /\ Alone /\ Reached

-----------------------------------------------------------------------------
(* The tree and the walks *)

\* An ancestor of an ancestor is an ancestor.
LEMMA Transitive ==
    ASSUME NEW g \in Cgrp, NEW x \in Ancestors(g), NEW y \in Ancestors(x)
    PROVE  x \in Cgrp /\ y \in Ancestors(g)
<1>1. x \in Cgrp /\ \A S \in UpClosed : Parent[g] \in S => x \in S
    BY DEF Ancestors, AncestorsOf
<1>2. y \in Cgrp /\ \A S \in UpClosed : Parent[x] \in S => y \in S
    BY <1>1 DEF Ancestors, AncestorsOf
<1>3. ASSUME NEW S \in UpClosed, Parent[g] \in S PROVE y \in S
    BY <1>1, <1>2, <1>3 DEF UpClosed
<1> QED BY <1>1, <1>2, <1>3 DEF Ancestors, AncestorsOf

\* Where a walk is, there is a cgroup.
LEMMA AtCgroup ==
    ASSUME WalkTypes, NEW t \in Timer
    PROVE  at[t] \in 1..Len(Post) /\ Post[at[t]] \in Cgrp
<1>1. Post \in Seq(Cgrp)
    BY Zenon, CbwBudgetConstants
<1>2. at[t] \in 1..Len(Post)
    BY Zenon DEF WalkTypes
<1> QED BY <1>1, <1>2

\* The two timers.
LEMMA Timers ==
    /\ "accounting" \in Timer /\ "replenish" \in Timer /\ "accounting" # "replenish"
    /\ Len(Post) \in Nat /\ 1 \in 1..Len(Post)
<1>1. PICK g \in Cgrp, k \in 1..Len(Post) : Post[k] = g
    BY Zenon, CbwBudgetConstants
<1>2. Len(Post) \in Nat
    BY CbwBudgetConstants
<1> QED BY <1>1, <1>2 DEF Timer

\* One step of a walk: the other timer is where it was.
LEMMA Walks ==
    ASSUME WalkTypes, NEW t \in Timer, NEW u \in Timer, NEW m \in Label, Advance(t, m)
    PROVE  /\ pc' \in [Timer -> Label] /\ at' \in [Timer -> 1..Len(Post)]
           /\ u # t => pc'[u] = pc[u] /\ at'[u] = at[u]
           /\ at[t] < Len(Post) => pc'[t] = pc[t] /\ at'[t] = at[t] + 1
           /\ ~(at[t] < Len(Post)) => pc'[t] = m /\ at'[t] = 1
<1>1. pc \in [Timer -> Label] /\ at \in [Timer -> 1..Len(Post)]
    BY Zenon DEF WalkTypes
<1>2. CASE at[t] < Len(Post)
  <2>1. at' = [at EXCEPT ![t] = at[t] + 1] /\ pc' = pc
    BY Zenon, <1>2 DEF Advance
  <2>2. at[t] + 1 \in 1..Len(Post)
    BY <1>1, <1>2, Timers
  <2> QED BY Zenon, <1>1, <1>2, <2>1, <2>2
<1>3. CASE ~(at[t] < Len(Post))
  <2>1. at' = [at EXCEPT ![t] = 1] /\ pc' = [pc EXCEPT ![t] = m]
    BY Zenon, <1>3 DEF Advance
  <2> QED BY Zenon, <1>1, <1>3, <2>1, Timers
<1> QED BY Zenon, <1>2, <1>3

\* A visit of cbw_throttle_cgroups disturbs no cgroup that inherits, and the
\* visited cgroup inherits when it has a limit.
LEMMA Visit ==
    ASSUME WalkTypes, NEW h \in Cgrp,
           throttled' = [throttled EXCEPT ![h] =
               @ \/ (ub[h] # INF /\ \E x \in Ancestors(h) : throttled[x])]
    PROVE  /\ throttled' \in [Cgrp -> BOOLEAN]
           /\ \A g \in Cgrp : Inherits(g) => Inherits(g)'
           /\ ub[h] # INF => Inherits(h)'
<1> DEFINE v == throttled[h] \/ (ub[h] # INF /\ \E x \in Ancestors(h) : throttled[x])
<1>1. throttled \in [Cgrp -> BOOLEAN]
    BY Zenon DEF WalkTypes
<1>2. throttled' = [throttled EXCEPT ![h] = v]
    BY Zenon, <1>1
<1>3. v \in BOOLEAN
    BY <1>1
<1>4. \A g \in Cgrp : throttled'[g] = IF g = h THEN v ELSE throttled[g]
    BY Zenon, <1>1, <1>2
<1>5. throttled' \in [Cgrp -> BOOLEAN]
    BY Zenon, <1>1, <1>2, <1>3
<1>6. ASSUME NEW g \in Cgrp, Inherits(g) PROVE Inherits(g)'
  <2>1. SUFFICES ASSUME NEW x \in Ancestors(g), throttled'[x] PROVE throttled'[g]
    BY Zenon DEF Inherits, Ancestors, AncestorsOf
  <2>2. x \in Cgrp
    BY Zenon DEF Ancestors, AncestorsOf
  <2>3. throttled[g] => throttled'[g]
    BY Zenon, <1>4
  <2>4. CASE throttled[x]
    BY Zenon, <1>6, <2>3, <2>4 DEF Inherits
  <2>5. CASE ~throttled[x]
    <3>1. x = h /\ v
        BY Zenon, <1>4, <2>1, <2>2, <2>5
    <3>2. PICK y \in Ancestors(x) : throttled[y]
        BY Zenon, <2>5, <3>1
    <3>3. y \in Ancestors(g)
        BY Zenon, Transitive
    <3> QED BY Zenon, <1>6, <2>3, <3>2, <3>3 DEF Inherits
  <2> QED BY Zenon, <2>4, <2>5
<1>7. ASSUME ub[h] # INF PROVE Inherits(h)'
  <2>1. SUFFICES ASSUME NEW x \in Ancestors(h), throttled'[x] PROVE throttled'[h]
    BY Zenon DEF Inherits, Ancestors, AncestorsOf
  <2>2. x \in Cgrp
    BY Zenon DEF Ancestors, AncestorsOf
  <2>3. x # h => v
    BY Zenon, <1>4, <1>7, <2>1, <2>2
  <2> QED BY Zenon, <1>4, <2>1, <2>3
<1> QED BY Zenon, <1>5, <1>6, <1>7

-----------------------------------------------------------------------------
(* Steps *)

\* scx_cgroup_bw_consume and scx_cgroup_bw_set leave the walks and flags alone.
LEMMA InputStep ==
    ASSUME WalkInv, NEW g, NEW n, Consume(g, n) \/ Set(g, n)
    PROVE  pc' = pc /\ at' = at /\ throttled' = throttled /\ running' = running
BY Zenon DEF Consume, Set

\* A visit of cbw_update_runtime_total_sloppy may throttle the cgroup.
LEMMA RollStep ==
    ASSUME WalkInv, NEW t \in Timer, NEW m \in Label, Roll(t, m)
    PROVE  WalkTypes' /\ running' = running /\ pc[t] = "roll" /\ Advance(t, m)
<1>1. Advance(t, m) /\ running' = running /\ pc[t] = "roll"
    BY Zenon DEF Roll
<1>2. throttled' \in [Cgrp -> BOOLEAN]
  <2>1. throttled \in [Cgrp -> BOOLEAN]
    BY Zenon DEF WalkInv, WalkTypes
  <2>2. PICK b \in BOOLEAN : throttled' = [throttled EXCEPT ![Post[at[t]]] = b]
    BY Zenon DEF Roll
  <2> QED BY Zenon, <2>1, <2>2
<1>3. pc' \in [Timer -> Label] /\ at' \in [Timer -> 1..Len(Post)]
    BY Zenon, <1>1, Walks DEF WalkInv
<1> QED BY Zenon, <1>1, <1>2, <1>3 DEF WalkTypes

\* accounting_timerfn starts with the roll-up.
LEMMA AccountingStartStep ==
    ASSUME WalkInv, AccountingStart
    PROVE  /\ WalkTypes' /\ running' = running
           /\ pc'["accounting"] = "roll" /\ pc'["replenish"] = pc["replenish"]
<1>1. pc' = [pc EXCEPT !["accounting"] = "roll"]
      /\ UNCHANGED <<at, throttled, running>>
    BY Zenon DEF AccountingStart
<1>2. WalkTypes /\ "roll" \in Label
    BY DEF WalkInv, Label
<1> QED BY Zenon, <1>1, <1>2, Timers DEF WalkTypes

\* A visit goes on, or ends the walk; only when the top half runs does it end
\* the walk without a visit.
LEMMA PropagateStep ==
    ASSUME WalkInv, NEW t \in Timer, Propagate(t)
    PROVE  /\ WalkTypes' /\ running' = running /\ ub' = ub /\ pc[t] = "throttle"
           /\ \A u \in Timer \ {t} : pc'[u] = pc[u] /\ at'[u] = at[u]
           /\ pc'[t] \in {"throttle", "idle"}
           /\ ~running =>
                /\ Advance(t, "idle")
                /\ throttled' = [throttled EXCEPT ![Post[at[t]]] =
                     @ \/ (ub[Post[at[t]]] # INF
                           /\ \E x \in Ancestors(Post[at[t]]) : throttled[x])]
<1> DEFINE h == Post[at[t]]
<1>0. WalkTypes /\ "idle" \in Label
    BY DEF WalkInv, Label
<1>1. running' = running /\ ub' = ub /\ pc[t] = "throttle"
    BY Zenon DEF Propagate, cgx
<1>2. h \in Cgrp
    BY Zenon, <1>0, AtCgroup
<1>3. CASE ub[h] # INF /\ ~throttled[h] /\ running
  <2>1. /\ pc' = [pc EXCEPT ![t] = "idle"] /\ at' = [at EXCEPT ![t] = 1]
        /\ throttled' = throttled
    BY Zenon, <1>3 DEF Propagate
  <2>2. WalkTypes'
    BY Zenon, <1>0, <2>1, Timers DEF WalkTypes
  <2>3. pc'[t] = "idle" /\ \A u \in Timer \ {t} : pc'[u] = pc[u] /\ at'[u] = at[u]
    BY Zenon, <1>0, <2>1 DEF WalkTypes
  <2> QED BY Zenon, <1>1, <1>3, <2>2, <2>3
<1>4. CASE ~(ub[h] # INF /\ ~throttled[h] /\ running)
  <2>1. /\ Advance(t, "idle")
        /\ throttled' = [throttled EXCEPT ![h] =
               @ \/ (ub[h] # INF /\ \E x \in Ancestors(h) : throttled[x])]
    BY Zenon, <1>4 DEF Propagate
  <2>2. throttled' \in [Cgrp -> BOOLEAN]
    BY Zenon, <1>0, <1>2, <2>1, Visit
  <2>3. /\ pc' \in [Timer -> Label] /\ at' \in [Timer -> 1..Len(Post)]
        /\ \A u \in Timer \ {t} : pc'[u] = pc[u] /\ at'[u] = at[u]
        /\ pc'[t] = pc[t] \/ pc'[t] = "idle"
    BY Zenon, <1>0, <2>1, Walks
  <2>4. WalkTypes'
    BY Zenon, <2>2, <2>3 DEF WalkTypes
  <2> QED BY Zenon, <1>1, <2>1, <2>3, <2>4
<1> QED BY Zenon, <1>3, <1>4

\* replenish_timerfn takes nothing from the accounting timer's walk, and the top
\* half is over when it is idle or propagates the flags it kept.
LEMMA ReplenishStep ==
    ASSUME WalkInv, Replenish
    PROVE  /\ WalkTypes'
           /\ pc'["accounting"] = pc["accounting"] /\ at'["accounting"] = at["accounting"]
           /\ pc["replenish"] = "idle" => pc'["replenish"] = "roll"
           /\ pc'["replenish"] \in {"idle", "throttle"} => ~running'
<1> DEFINE Same == pc'["accounting"] = pc["accounting"] /\ at'["accounting"] = at["accounting"]
           Over == pc'["replenish"] \in {"idle", "throttle"} => ~running'
<1>1. WalkTypes /\ (pc["replenish"] \in {"idle", "throttle"} => ~running)
    BY Zenon DEF WalkInv, Alone
<1>2. /\ pc \in [Timer -> Label] /\ at \in [Timer -> 1..Len(Post)]
      /\ throttled \in [Cgrp -> BOOLEAN]
    BY Zenon, <1>1 DEF WalkTypes
<1>3. {"idle", "roll", "throttle", "reset", "refill", "end"} \subseteq Label
    BY Zenon DEF Label
<1>4. CASE ReplenishStart
  <2>1. pc' = [pc EXCEPT !["replenish"] = "roll"] /\ UNCHANGED <<at, throttled>>
    BY Zenon, <1>4 DEF ReplenishStart
  <2>2. WalkTypes' /\ Same /\ pc'["replenish"] = "roll"
    BY Zenon, <1>2, <1>3, <2>1, Timers DEF WalkTypes
  <2> QED BY Zenon, <2>2
<1>5. CASE Roll("replenish", "reset")
  <2>1. WalkTypes' /\ pc["replenish"] = "roll" /\ Advance("replenish", "reset")
    BY Zenon, <1>3, <1>5, RollStep, Timers
  <2>2. Same /\ (pc'["replenish"] = "roll" \/ pc'["replenish"] = "reset")
    BY Zenon, <1>1, <1>3, <2>1, Timers, Walks
  <2> QED BY Zenon, <2>1, <2>2
<1>6. CASE Reset
  <2>1. pc["replenish"] = "reset" /\ Advance("replenish", "refill") /\ throttled' = throttled
    BY Zenon, <1>6 DEF Reset
  <2>2. /\ Same /\ (pc'["replenish"] = "reset" \/ pc'["replenish"] = "refill")
        /\ pc' \in [Timer -> Label] /\ at' \in [Timer -> 1..Len(Post)]
    BY Zenon, <1>1, <1>3, <2>1, Timers, Walks
  <2>3. WalkTypes'
    BY Zenon, <1>2, <2>1, <2>2 DEF WalkTypes
  <2> QED BY Zenon, <2>1, <2>2, <2>3
<1>7. CASE Refill
  <2>1. pc["replenish"] = "refill" /\ Advance("replenish", "end")
    BY Zenon, <1>7 DEF Refill
  <2>2. /\ Same /\ (pc'["replenish"] = "refill" \/ pc'["replenish"] = "end")
        /\ pc' \in [Timer -> Label] /\ at' \in [Timer -> 1..Len(Post)]
    BY Zenon, <1>1, <1>3, <2>1, Timers, Walks
  <2>3. PICK b \in BOOLEAN : throttled' = [throttled EXCEPT ![Pre[at["replenish"]]] = b]
    BY Zenon, <1>7 DEF Refill, KeptThrottled
  <2>4. WalkTypes'
    BY Zenon, <1>2, <2>2, <2>3 DEF WalkTypes
  <2> QED BY Zenon, <2>1, <2>2, <2>4
<1>8. CASE ReplenishEnd
  <2>1. /\ pc["replenish"] = "end" /\ UNCHANGED <<at, throttled>> /\ ~running'
        /\ pc' = [pc EXCEPT !["replenish"] = IF listed THEN "throttle" ELSE "idle"]
    BY Zenon, <1>8 DEF ReplenishEnd
  <2>2. (IF listed THEN "throttle" ELSE "idle") \in Label
    BY Zenon, <1>3
  <2>3. WalkTypes' /\ Same
    BY Zenon, <1>2, <2>1, <2>2, Timers DEF WalkTypes
  <2> QED BY Zenon, <2>1, <2>3
<1>9. CASE Propagate("replenish")
  <2>1. WalkTypes' /\ running' = running /\ pc["replenish"] = "throttle"
    BY Zenon, <1>9, PropagateStep, Timers
  <2>2. \A u \in Timer \ {"replenish"} : pc'[u] = pc[u] /\ at'[u] = at[u]
    BY Zenon, <1>9, PropagateStep, Timers
  <2>3. "accounting" \in Timer \ {"replenish"}
    BY Timers
  <2>4. Same
    BY Zenon, <2>2, <2>3
  <2> QED BY Zenon, <1>1, <2>1, <2>4
<1> QED BY Zenon, <1>4, <1>5, <1>6, <1>7, <1>8, <1>9 DEF Replenish

\* Nothing the walk has achieved is undone by a step that leaves it and the flags
\* alone: a cgroup that gets its limit meanwhile is relimited.
LEMMA ReachedKept ==
    ASSUME WalkInv, History, throttled' = throttled,
           pc'["accounting"] = pc["accounting"], at'["accounting"] = at["accounting"]
    PROVE  Reached'
<1>1. SUFFICES ASSUME ~overlapped', pc'["accounting"] = "throttle",
                      NEW g \in Passed', ub'[g] # INF, g \notin relimited'
               PROVE  Inherits(g)'
    BY Zenon DEF Reached
<1>2. ~overlapped
    BY Zenon, <1>1 DEF History
<1>3. g \in Passed
    BY Zenon, <1>1 DEF Passed
<1>4. g \in Cgrp
  <2>1. Post \in Seq(Cgrp) /\ at["accounting"] \in 1..Len(Post)
    BY CbwBudgetConstants, AtCgroup, Timers DEF WalkInv
  <2>2. PICK k \in 1..at["accounting"] - 1 : g = Post[k]
    BY Zenon, <1>3 DEF Passed
  <2> QED BY <2>1, <2>2
<1>5. relimited' = relimited \cup {x \in Cgrp : ub[x] = INF /\ ub'[x] # INF}
    BY Zenon, <1>1 DEF History
<1>6. ub[g] # INF /\ g \notin relimited
    BY Zenon, <1>1, <1>4, <1>5
<1>7. Inherits(g)
    BY Zenon, <1>1, <1>2, <1>3, <1>6 DEF WalkInv, Reached
<1> QED BY Zenon, <1>7 DEF Inherits, Ancestors, AncestorsOf

\* At the visit of cbw_throttle_cgroups.
LEMMA ReachedVisit ==
    ASSUME WalkInv, Propagate("accounting"), ~overlapped
    PROVE  /\ ~running /\ ub' = ub
           /\ Advance("accounting", "idle")
           /\ \A g \in Passed \cup {Post[at["accounting"]]} :
                  ub[g] # INF /\ g \notin relimited => Inherits(g)'
<1>0. PICK h : h = Post[at["accounting"]]
    BY Zenon
<1>1. pc["accounting"] = "throttle" /\ ub' = ub
    BY Zenon, PropagateStep, Timers
<1>2. pc["replenish"] = "idle" /\ ~running
    BY Zenon, <1>1 DEF WalkInv, Alone
<1>3. /\ Advance("accounting", "idle")
      /\ throttled' = [throttled EXCEPT ![h] =
             @ \/ (ub[h] # INF /\ \E x \in Ancestors(h) : throttled[x])]
    BY Zenon, <1>0, <1>2, PropagateStep, Timers
<1>4. Post \in Seq(Cgrp) /\ at["accounting"] \in 1..Len(Post) /\ h \in Cgrp
    BY Zenon, <1>0, CbwBudgetConstants, AtCgroup, Timers DEF WalkInv
<1>5. WalkTypes
    BY Zenon DEF WalkInv
<1>6. /\ \A g \in Cgrp : Inherits(g) => Inherits(g)'
      /\ ub[h] # INF => Inherits(h)'
    BY Zenon, <1>3, <1>4, <1>5, Visit
<1>7. ASSUME NEW g \in Passed, ub[g] # INF, g \notin relimited PROVE Inherits(g)'
  <2>1. PICK k \in 1..at["accounting"] - 1 : g = Post[k]
    BY Zenon DEF Passed
  <2>2. g \in Cgrp
    BY <1>4, <2>1
  <2>3. Inherits(g)
    BY Zenon, <1>1, <1>7 DEF WalkInv, Reached
  <2> QED BY Zenon, <1>6, <2>2, <2>3
<1> QED BY Zenon, <1>0, <1>1, <1>2, <1>3, <1>6, <1>7

-----------------------------------------------------------------------------
(* Theorems *)

\* Initially no timer runs.
LEMMA WalkInit == Init => WalkInv
<1> SUFFICES ASSUME Init PROVE WalkInv
    OBVIOUS
<1>1. /\ throttled = [g \in Cgrp |-> FALSE] /\ running = FALSE
      /\ pc = [t \in Timer |-> "idle"] /\ at = [t \in Timer |-> 1]
    BY Zenon DEF Init
<1>2. "idle" \in Label
    BY Zenon DEF Label
<1>3. WalkTypes
    BY Zenon, <1>1, <1>2, Timers DEF WalkTypes
<1>4. pc["accounting"] = "idle" /\ pc["replenish"] = "idle"
    BY Zenon, <1>1, Timers
<1>5. Reached
    BY Zenon, <1>4 DEF Reached
<1>6. Alone
    BY Zenon, <1>1, <1>4 DEF Alone
<1> QED BY Zenon, <1>3, <1>5, <1>6 DEF WalkInv

\* overlapped records it when both timers walk, so it suffices to look at running.
LEMMA AloneStep ==
    ASSUME History, pc'["replenish"] \in {"idle", "throttle"} => ~running'
    PROVE  Alone'
<1>1. overlapped' = (overlapped \/ \A t \in Timer : pc'[t] # "idle")
    BY Zenon DEF History
<1>2. ~overlapped' => pc'["accounting"] = "idle" \/ pc'["replenish"] = "idle"
    BY Zenon, <1>1 DEF Timer
<1> QED BY Zenon, <1>2 DEF Alone

\* Every step of the timers, of the billing and of cpu.max keeps the invariant.
LEMMA WalkStep == WalkInv /\ [Next]_vars => WalkInv'
<1> SUFFICES ASSUME WalkInv, [Next]_vars PROVE WalkInv'
    OBVIOUS
<1>0. /\ WalkTypes /\ Reached
      /\ ~overlapped => pc["accounting"] = "idle" \/ pc["replenish"] = "idle"
      /\ pc["replenish"] \in {"idle", "throttle"} => ~running
    BY Zenon DEF WalkInv, Alone
<1>1. {"idle", "roll", "throttle", "reset", "refill", "end"} \subseteq Label
    BY Zenon DEF Label
<1>2. ASSUME History, NEW g, NEW n, Consume(g, n) \/ Set(g, n) PROVE WalkInv'
  <2>1. pc' = pc /\ at' = at /\ throttled' = throttled /\ running' = running
    BY Zenon, <1>2, InputStep
  <2>2. WalkTypes'
    BY Zenon, <1>0, <2>1 DEF WalkTypes
  <2>3. Alone'
    BY Zenon, <1>0, <1>2, <2>1, AloneStep
  <2>4. Reached'
    BY Zenon, <1>2, <2>1, ReachedKept
  <2> QED BY Zenon, <2>2, <2>3, <2>4 DEF WalkInv
<1>3. ASSUME History, AccountingStart PROVE WalkInv'
  <2>1. /\ WalkTypes' /\ running' = running
        /\ pc'["accounting"] = "roll" /\ pc'["replenish"] = pc["replenish"]
    BY Zenon, <1>3, AccountingStartStep
  <2>2. Alone'
    BY Zenon, <1>0, <1>3, <2>1, AloneStep
  <2>3. Reached'
    BY Zenon, <2>1 DEF Reached
  <2> QED BY Zenon, <2>1, <2>2, <2>3 DEF WalkInv
<1>4. ASSUME History, Roll("accounting", "throttle") PROVE WalkInv'
  <2>1. /\ WalkTypes' /\ running' = running
        /\ pc["accounting"] = "roll" /\ Advance("accounting", "throttle")
    BY Zenon, <1>1, <1>4, RollStep, Timers
  <2>2. /\ pc'["replenish"] = pc["replenish"]
        /\ pc'["accounting"] = "roll" \/ at'["accounting"] = 1
    BY Zenon, <1>0, <1>1, <2>1, Timers, Walks
  <2>3. Alone'
    BY Zenon, <1>0, <1>4, <2>1, <2>2, AloneStep
  <2>4. pc'["accounting"] = "roll" \/ Passed' = {}
    BY <2>2 DEF Passed
  <2>5. Reached'
    BY Zenon, <2>4 DEF Reached
  <2> QED BY Zenon, <2>1, <2>3, <2>5 DEF WalkInv
<1>5. ASSUME History, Propagate("accounting") PROVE WalkInv'
  <2>1. /\ WalkTypes' /\ running' = running /\ pc["accounting"] = "throttle"
        /\ \A u \in Timer \ {"accounting"} : pc'[u] = pc[u]
    BY Zenon, <1>5, PropagateStep, Timers
  <2>2. "replenish" \in Timer \ {"accounting"}
    BY Timers
  <2>3. pc'["replenish"] = pc["replenish"]
    BY Zenon, <2>1, <2>2
  <2>4. Alone'
    BY Zenon, <1>0, <1>5, <2>1, <2>3, AloneStep
  <2>5. ASSUME ~overlapped', pc'["accounting"] = "throttle",
               NEW g \in Passed', ub'[g] # INF, g \notin relimited'
        PROVE  Inherits(g)'
    <3>1. ~overlapped
        BY Zenon, <1>5, <2>5 DEF History
    <3>2. /\ ub' = ub /\ Advance("accounting", "idle")
          /\ \A x \in Passed \cup {Post[at["accounting"]]} :
                 ub[x] # INF /\ x \notin relimited => Inherits(x)'
        BY Zenon, <1>5, <3>1, ReachedVisit
    <3>3. at'["accounting"] = at["accounting"] + 1
      <4>1. \/ at'["accounting"] = at["accounting"] + 1
            \/ pc'["accounting"] = "idle"
        BY ZenonT(30), <1>0, <1>1, <3>2, Timers, Walks
      <4> QED BY <2>5, <4>1
    <3>4. at["accounting"] \in Nat \ {0}
        BY SMTT(30), <1>0, AtCgroup, Timers
    <3>5. g \in Passed \cup {Post[at["accounting"]]}
      <4>1. PICK k \in 1..at'["accounting"] - 1 : g = Post[k]
        BY Zenon DEF Passed
      <4>2. k = at["accounting"] \/ k \in 1..at["accounting"] - 1
        BY SMTT(30), <3>3, <3>4
      <4> QED BY Zenon, <4>1, <4>2 DEF Passed
    <3>6. g \notin relimited
        BY Zenon, <1>5, <2>5 DEF History
    <3> QED BY Zenon, <2>5, <3>2, <3>5, <3>6
  <2>6. Reached'
    BY Zenon, <2>5 DEF Reached
  <2> QED BY Zenon, <2>1, <2>4, <2>6 DEF WalkInv
<1>6. ASSUME History, Replenish PROVE WalkInv'
  <2>1. /\ WalkTypes'
        /\ pc'["accounting"] = pc["accounting"]
        /\ pc["replenish"] = "idle" => pc'["replenish"] = "roll"
        /\ pc'["replenish"] \in {"idle", "throttle"} => ~running'
    BY Zenon, <1>6, ReplenishStep
  <2>2. Alone'
    BY Zenon, <1>6, <2>1, AloneStep
  <2>3. ~overlapped' => ~overlapped
    BY Zenon, <1>6 DEF History
  <2>4. ~overlapped' /\ pc'["accounting"] = "throttle" => pc'["replenish"] = "idle"
    BY Zenon, <2>2 DEF Alone
  <2>5. ~overlapped /\ pc["accounting"] = "throttle" => pc["replenish"] = "idle"
    BY Zenon, <1>0
  <2>6. ~(~overlapped' /\ pc'["accounting"] = "throttle")
    BY Zenon, <2>1, <2>3, <2>4, <2>5
  <2>7. Reached'
    BY Zenon, <2>6 DEF Reached
  <2> QED BY Zenon, <2>1, <2>2, <2>7 DEF WalkInv
<1>7. ASSUME UNCHANGED vars PROVE WalkInv'
  <2>1. UNCHANGED <<throttled, pc, at, overlapped, running, ub, relimited>>
    BY Zenon, <1>7 DEF vars
  <2> QED BY Zenon, <1>0, <2>1 DEF WalkInv, WalkTypes, Alone, Reached, Passed, Inherits,
          Ancestors, AncestorsOf
<1>8. ASSUME Next PROVE WalkInv'
  <2>1. History /\ (\/ \E g \in Cgrp, n \in 1..Tick : Consume(g, n)
                    \/ \E g \in Cgrp, q \in Quota : Set(g, q)
                    \/ AccountingStart \/ Roll("accounting", "throttle")
                    \/ Propagate("accounting") \/ Replenish)
    BY Zenon, <1>8 DEF Next, Accounting
  <2> QED BY Zenon, <1>2, <1>3, <1>4, <1>5, <1>6, <2>1
<1> QED BY Zenon, <1>7, <1>8

\* The invariant holds in every state.
THEOREM Invariant == Spec => []WalkInv
<1> QED BY WalkInit, WalkStep, PTL DEF Spec

\* For every tree of cgroups and every order in which the walk lists them: when
\* the accounting timer is done, every limited cgroup below a throttled one is
\* throttled.
THEOREM Reaches == Spec => ThrottleReaches
<1>1. ASSUME WalkInv, [Next]_vars,
             pc["accounting"] = "throttle", pc'["accounting"] = "idle", ~overlapped,
             NEW g \in Cgrp \ relimited, NEW x \in Ancestors(g), throttled'[x], ub[g] # INF
      PROVE  throttled'[g]
  <2>1. Propagate("accounting")
    <3>1. ASSUME NEW h, NEW n, Consume(h, n) \/ Set(h, n) PROVE FALSE
        BY Zenon, <1>1, <3>1, InputStep
    <3>2. ASSUME Replenish PROVE FALSE
        BY Zenon, <1>1, <3>2, ReplenishStep
    <3>3. ASSUME AccountingStart PROVE FALSE
        BY Zenon, <1>1, <3>3, AccountingStartStep
    <3>4. ASSUME Roll("accounting", "throttle") PROVE FALSE
        BY Zenon, <1>1, <3>4 DEF Roll
    <3>5. ASSUME UNCHANGED vars PROVE FALSE
        BY Zenon, <1>1, <3>5 DEF vars
    <3> QED BY ZenonT(30), <1>1, <3>1, <3>2, <3>3, <3>4, <3>5 DEF Next, Accounting
  <2>2. /\ Advance("accounting", "idle")
        /\ \A y \in Passed \cup {Post[at["accounting"]]} :
               ub[y] # INF /\ y \notin relimited => Inherits(y)'
    BY Zenon, <1>1, <2>1, ReachedVisit
  <2>3. ~(at["accounting"] < Len(Post))
    <3>1. WalkTypes /\ "idle" \in Label
        BY Zenon, <1>1 DEF WalkInv, Label
    <3>2. at["accounting"] < Len(Post) => pc'["accounting"] = pc["accounting"]
        BY Zenon, <2>2, <3>1, Timers, Walks
    <3> QED BY Zenon, <1>1, <3>2
  <2>4. at["accounting"] \in 1..Len(Post)
    BY Zenon, <1>1, AtCgroup, Timers DEF WalkInv
  <2>5. PICK k \in 1..Len(Post) : Post[k] = g
    BY Zenon, CbwBudgetConstants
  <2>6. k \in 1..at["accounting"] - 1 \/ k = at["accounting"]
    BY SMTT(30), <2>3, <2>4, Timers
  <2>7. g \in Passed \cup {Post[at["accounting"]]}
    BY Zenon, <2>5, <2>6 DEF Passed
  <2>8. Inherits(g)'
    BY Zenon, <1>1, <2>2, <2>7
  <2> QED BY Zenon, <1>1, <2>8 DEF Inherits, Ancestors, AncestorsOf
<1>2. WalkInv /\ [Next]_vars =>
        [pc["accounting"] = "throttle" /\ pc'["accounting"] = "idle" /\ ~overlapped =>
           \A g \in Cgrp \ relimited : \A x \in Ancestors(g) :
               throttled'[x] /\ ub[g] # INF => throttled'[g]]_vars
    BY Zenon, <1>1
<1> QED BY <1>2, Invariant, PTL DEF Spec, ThrottleReaches
=============================================================================
