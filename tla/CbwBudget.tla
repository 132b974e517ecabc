----------------------------- MODULE CbwBudget -----------------------------
(***************************************************************************)
(* CPU bandwidth budgets (lib/cgroup_bw.bpf.c): tasks bill run time to     *)
(* their cgroup (scx_cgroup_bw_consume), the accounting timer adds it up   *)
(* and throttles, the replenish timer closes the period, carries debt and  *)
(* burst over and unthrottles, and scx_cgroup_bw_set changes the quota.    *)
(*                                                                         *)
(* Both timers walk the tree cgroup by cgroup and take no lock against     *)
(* each other or against the billing; every visit is a step.  The sum over *)
(* a subtree is CbwRollup's; time is in units of the smallest quota; the   *)
(* LLC contexts of a cgroup are one counter.                               *)
(***************************************************************************)
EXTENDS Integers, Sequences, FiniteSets, FiniteSetsExt, SequencesExt

CONSTANTS
    Cgrp,           \* the managed cgroups below the root
    Parent,         \* Parent[g]: its effective parent, or Root
    Root,
    Pre, Post,      \* the cgroups in pre-order and in post-order
    Quota,          \* the quotas that cpu.max may be given, INF for "max"
    Burst,          \* cpu.max.burst of each cgroup
    Period,         \* the cpu.max period, in replenish periods
    Tick,           \* what one call of consume may bill, at most
    INF,            \* CBW_RUNTUME_INF
    MaxRuntime,     \* bound: the time a cgroup bills in a period
    MaxDebt,        \* bound: no billing to a cgroup that owes more
    MaxInputs,      \* bound: how many times tasks bill and cpu.max is written
    MaxSlack        \* bound: where slack saturates

ASSUME CbwBudgetConstants ==
    /\ Root \notin Cgrp
    /\ Parent \in [Cgrp -> Cgrp \cup {Root}]
    /\ Cgrp # {}
    /\ {Pre, Post} \subseteq Seq(Cgrp)
    /\ \A g \in Cgrp : \E k \in 1..Len(Post) : Post[k] = g
    /\ Quota \subseteq (1..MaxRuntime) \cup {INF}
    /\ INF > MaxRuntime

VARIABLES
    nquota,     \* nquota
    ub,         \* nquota_ub
    burstLeft,  \* burst_remaining
    age,        \* replenish periods since period_start_clk
    runtime,    \* the sum of runtime_total over the LLC contexts
    sloppy,     \* runtime_total_sloppy
    last,       \* runtime_total_last
    budget,     \* period_budget
    throttled,  \* is_throttled
    running,    \* rp_seq is odd: the top half runs
    pc,         \* what each timer does
    at,         \* the position of its walk
    sum,        \* sum[t]: the subtree totals its roll-up has found
    listed,     \* nr_throttled > 0, in this period
    inputs,     \* how many times that has happened
    spent,      \* history: time billed in the subtree in this period
    slack,      \* history: granted - billed before this period - budget
    lost,       \* history: what the last reset wiped unseen
    overlapped, \* history: the walks of the two timers have overlapped
    relimited   \* history: cgroups limited again behind the accounting walk

cgx == <<nquota, ub, burstLeft, age, budget>>
vars == <<nquota, ub, burstLeft, age, runtime, sloppy, last, budget, throttled, running,
          pc, at, sum, listed, inputs, spent, slack, lost, overlapped, relimited>>

Timer == {"accounting", "replenish"}

Least(a, b) == IF a < b THEN a ELSE b
Greatest(a, b) == IF a > b THEN a ELSE b
Clamp(x, lo, hi) == Least(Greatest(x, lo), hi)
Zero == [g \in Cgrp |-> 0]

\* The ancestors of each cgroup below the root (what every set that is closed
\* upwards has when it has the parent), the cgroups below it with it, and its
\* children.
UpClosed == {S \in SUBSET (Cgrp \cup {Root}) : \A x \in S \cap Cgrp : Parent[x] \in S}
AncestorsOf == [g \in Cgrp |-> {x \in Cgrp : \A S \in UpClosed : Parent[g] \in S => x \in S}]
SubtreeOf == [g \in Cgrp |-> {g} \cup {x \in Cgrp : g \in AncestorsOf[x]}]
ChildrenOf == [g \in Cgrp |-> {c \in Cgrp : Parent[c] = g}]
Ancestors(g) == AncestorsOf[g]
Subtree(g) == SubtreeOf[g]

\* cbw_update_nquota_ub, top down: the least quota on the way to the root.
UpperBound(q) == [g \in Cgrp |-> Min({q[x] : x \in {g} \cup Ancestors(g)})]

\* cbw_init_cgx for every cgroup: it got its context with its first limit.
Init ==
    /\ nquota \in [Cgrp -> Quota \ {INF}]
    /\ ub = UpperBound(nquota)
    /\ burstLeft = [g \in Cgrp |-> Burst[g]]
    /\ age = Zero
    /\ runtime = Zero
    /\ sloppy = Zero
    /\ last = Zero
    /\ budget = ub
    /\ throttled = [g \in Cgrp |-> FALSE]
    /\ running = FALSE
    /\ pc = [t \in Timer |-> "idle"]
    /\ at = [t \in Timer |-> 1]
    /\ sum = [t \in Timer |-> Zero]
    /\ listed = FALSE
    /\ inputs = 0
    /\ spent = Zero
    /\ slack = Zero
    /\ lost = Zero
    /\ overlapped = FALSE
    /\ relimited = {}

-----------------------------------------------------------------------------
(* scx_cgroup_bw_consume: n is billed to g, unless it is unlimited.  A task that
   runs when its cgroup is throttled still bills. *)

Consume(g, n) ==
    /\ ub[g] # INF
    /\ inputs < MaxInputs
    /\ runtime[g] + n <= MaxRuntime
    /\ \A x \in {g} \cup Ancestors(g) : budget[x] > -MaxDebt
    /\ runtime' = [runtime EXCEPT ![g] = @ + n]
    /\ inputs' = inputs + 1
    /\ spent' = [x \in Cgrp |-> spent[x] + IF g \in Subtree(x) THEN n ELSE 0]
    /\ UNCHANGED <<cgx, sloppy, last, throttled, running, pc, at, sum, listed, slack, lost>>

-----------------------------------------------------------------------------
(* scx_cgroup_bw_set on a managed cgroup: cbw_set_bandwidth, then the bounds
   of the subtree.  The budget is left to the next replenish. *)

Set(g, q) ==
    /\ inputs < MaxInputs
    /\ inputs' = inputs + 1
    /\ nquota' = [nquota EXCEPT ![g] = q]
    /\ ub' = UpperBound(nquota')
    /\ burstLeft' = [burstLeft EXCEPT ![g] = IF q = INF THEN 0 ELSE Burst[g]]
    /\ age' = [age EXCEPT ![g] = 0]
    /\ UNCHANGED <<runtime, sloppy, last, budget, throttled, running, pc, at, sum, listed,
                   spent, slack, lost>>

-----------------------------------------------------------------------------
(* The walks of the two timers *)

\* The next visit of timer t, or phase m after the last one.
Advance(t, m) ==
    IF at[t] < Len(Post)
    THEN at' = [at EXCEPT ![t] = @ + 1] /\ UNCHANGED pc
    ELSE at' = [at EXCEPT ![t] = 1] /\ pc' = [pc EXCEPT ![t] = m]

\* What the roll-up of t finds for g: its own time and its children's totals.
SubtreeTotal(t, g) ==
    runtime[g] + MapThenSumSet(LAMBDA c : sum[t][c], ChildrenOf[g])

\* The accounting timer needs no total after its last visit, the replenish timer
\* until it has reset the counters.
Summed(t) == t = "accounting" /\ at[t] = Len(Post)

\* Mutant: the threshold is the bare quota.
RollQuota(t, then) ==
    LET g == Post[at[t]]  rts == SubtreeTotal(t, g) IN
    /\ pc[t] = "roll"
    /\ sum' = [sum EXCEPT ![t] = IF Summed(t) THEN Zero ELSE [@ EXCEPT ![g] = rts]]
    /\ sloppy' = [sloppy EXCEPT ![g] = rts]
    /\ throttled' = [throttled EXCEPT ![g] = @ \/ rts >= ub[g]]
    /\ Advance(t, then)
    /\ UNCHANGED <<cgx, runtime, last, running, listed, inputs, spent, slack, lost>>

\* cbw_update_runtime_total_sloppy at one cgroup.
Roll(t, then) ==
    LET g == Post[at[t]]  rts == SubtreeTotal(t, g) IN
    /\ pc[t] = "roll"
    /\ sum' = [sum EXCEPT ![t] = IF Summed(t) THEN Zero ELSE [@ EXCEPT ![g] = rts]]
    /\ sloppy' = [sloppy EXCEPT ![g] = rts]
    /\ throttled' = [throttled EXCEPT ![g] = @ \/ rts >= budget[g]]
    /\ Advance(t, then)
    /\ UNCHANGED <<cgx, runtime, last, running, listed, inputs, spent, slack, lost>>

\* Mutant: throttling is not inherited.
PropagateNone(t) ==
    /\ pc[t] = "throttle"
    /\ Advance(t, "idle")
    /\ UNCHANGED <<cgx, runtime, sloppy, last, throttled, running, sum, listed,
                   inputs, spent, slack, lost>>

\* cbw_throttle_cgroups at one cgroup: a throttled ancestor throttles it.  The
\* walk stops when it meets a cgroup to check while the top half runs.
Propagate(t) ==
    LET g == Post[at[t]] IN
    /\ pc[t] = "throttle"
    /\ IF ub[g] # INF /\ ~throttled[g] /\ running
       THEN /\ pc' = [pc EXCEPT ![t] = "idle"]
            /\ at' = [at EXCEPT ![t] = 1]
            /\ UNCHANGED throttled
       ELSE /\ throttled' = [throttled EXCEPT ![g] =
                   @ \/ (ub[g] # INF /\ \E x \in Ancestors(g) : throttled[x])]
            /\ Advance(t, "idle")
    /\ UNCHANGED <<cgx, runtime, sloppy, last, running, sum, listed, inputs, spent,
                   slack, lost>>

-----------------------------------------------------------------------------
(* accounting_timerfn *)

AccountingStart ==
    /\ pc["accounting"] = "idle"
    /\ ~running
    /\ pc' = [pc EXCEPT !["accounting"] = "roll"]
    /\ UNCHANGED <<cgx, runtime, sloppy, last, throttled, running, at, sum, listed,
                   inputs, spent, slack, lost>>

Accounting == AccountingStart \/ Roll("accounting", "throttle") \/ Propagate("accounting")

-----------------------------------------------------------------------------
(* replenish_timerfn *)

\* cbw_top_half_begin
ReplenishStart ==
    /\ pc["replenish"] = "idle"
    /\ running' = TRUE
    /\ pc' = [pc EXCEPT !["replenish"] = "roll"]
    /\ UNCHANGED <<cgx, runtime, sloppy, last, throttled, at, sum, listed, inputs, spent,
                   slack, lost>>

\* The period of g ends: what was billed since the roll-up read it is wiped.
Reset ==
    LET g == Post[at["replenish"]]
        seen == sum["replenish"][g]
                - MapThenSumSet(LAMBDA c : sum["replenish"][c], ChildrenOf[g])
    IN
    /\ pc["replenish"] = "reset"
    /\ runtime' = [runtime EXCEPT ![g] = 0]
    /\ last' = [last EXCEPT ![g] = sloppy[g]]
    /\ sloppy' = [sloppy EXCEPT ![g] = 0]
    /\ lost' = [lost EXCEPT ![g] = runtime[g] - seen]
    /\ Advance("replenish", "refill")
    /\ sum' = IF at["replenish"] = Len(Post) THEN [sum EXCEPT !["replenish"] = Zero] ELSE sum
    /\ UNCHANGED <<cgx, throttled, running, listed, inputs, spent, slack>>

\* What the subtree of g has billed since the reset.
Used(g) == MapThenSumSet(LAMBDA x : runtime[x], Subtree(g))

\* Mutant: debt is reckoned against the bare quota.
DebtToQuota(g) == Greatest(last[g] - ub[g], 0)

\* Overspend relative to the budget of the period that ends.
DebtOf(g) == Greatest(last[g] - budget[g], 0)

\* Underspend relative to the cgroup's own quota.
CreditOf(g) == Clamp(nquota[g] - last[g], 0, burstLeft[g])

NewBudget(g) == ub[g] + CreditOf(g) - DebtOf(g)

\* Mutant: a throttled cgroup stays throttled.
KeptThrottledSticky(g) == throttled[g] \/ (ub[g] # INF /\ NewBudget(g) <= 0)

\* keep_throttled: the debt exceeds the quota and the burst.
KeptThrottled(g) == ub[g] # INF /\ NewBudget(g) <= 0

\* cbw_replenish_cgroup; an unlimited cgroup is only unthrottled.
Refill ==
    LET g == Pre[at["replenish"]]
        periodEnd == age[g] + 1 >= Period
        closed == spent[g] - Used(g) - MapThenSumSet(LAMBDA x : lost[x], Subtree(g))
    IN
    /\ pc["replenish"] = "refill"
    /\ IF ub[g] # INF
       THEN /\ age' = [age EXCEPT ![g] = IF periodEnd THEN 0 ELSE @ + 1]
            /\ burstLeft' = [burstLeft EXCEPT ![g] =
                                 IF periodEnd THEN IF nquota[g] = INF THEN 0 ELSE Burst[g]
                                 ELSE @ - CreditOf(g)]
            /\ budget' = [budget EXCEPT ![g] = NewBudget(g)]
            /\ slack' = [slack EXCEPT ![g] =
                             Least(@ + ub[g] + CreditOf(g) - closed + budget[g] - budget'[g],
                                   MaxSlack)]
       ELSE UNCHANGED <<age, burstLeft, budget, slack>>
    /\ spent' = [spent EXCEPT ![g] = Used(g)]
    /\ throttled' = [throttled EXCEPT ![g] = KeptThrottled(g)]
    /\ listed' = (listed \/ throttled[g] \/ KeptThrottled(g))
    /\ Advance("replenish", "end")
    /\ UNCHANGED <<nquota, ub, runtime, sloppy, last, running, sum, inputs, lost>>

\* cbw_top_half_end; the flags kept are propagated when a cgroup was listed.
ReplenishEnd ==
    /\ pc["replenish"] = "end"
    /\ running' = FALSE
    /\ pc' = [pc EXCEPT !["replenish"] = IF listed THEN "throttle" ELSE "idle"]
    /\ lost' = Zero
    /\ listed' = FALSE
    /\ UNCHANGED <<cgx, runtime, sloppy, last, throttled, at, sum, inputs, spent, slack>>

Replenish ==
    \/ ReplenishStart \/ Roll("replenish", "reset") \/ Reset \/ Refill \/ ReplenishEnd
    \/ Propagate("replenish")

History ==
    /\ overlapped' = (overlapped \/ \A t \in Timer : pc'[t] # "idle")
    /\ relimited' = IF pc'["accounting"] = "throttle"
                    THEN relimited \cup {g \in Cgrp : ub[g] = INF /\ ub'[g] # INF}
                    ELSE {}

Next ==
    /\ \/ \E g \in Cgrp, n \in 1..Tick : Consume(g, n)
       \/ \E g \in Cgrp, q \in Quota : Set(g, q)
       \/ Accounting
       \/ Replenish
    /\ History

\* The replenish timer re-arms itself and its walks are bounded.  So does the
\* accounting timer; no property needs it.
Spec ==
    /\ Init
    /\ [][Next]_vars
    /\ WF_vars(Replenish /\ History)

-----------------------------------------------------------------------------
(* Properties *)

\* "long-run average utilization converges to the configured quota": what a
\* subtree billed in all the periods before this one, plus the budget it has
\* now, never exceeds the quotas and burst credits it was granted.  What a reset
\* wiped before any roll-up saw it is not part of it, and an overlapping walk of
\* the accounting timer may overwrite what the replenish timer has added up.
NoOverdraft == ~overlapped => \A g \in Cgrp : slack[g] >= 0

\* When the accounting timer is done, every limited cgroup below a throttled one
\* is throttled: cbw_throttle_cgroups goes bottom-up and looks at all ancestors.
\* It passes over an unlimited cgroup, so that one that gets a limit during the
\* walk has to wait for the next.
ThrottleReaches ==
    [][pc["accounting"] = "throttle" /\ pc'["accounting"] = "idle" /\ ~overlapped =>
           \A g \in Cgrp \ relimited : \A x \in Ancestors(g) :
               throttled'[x] /\ ub[g] # INF => throttled'[g]]_vars

\* A cgroup becomes throttled only when its subtree has used up its budget, when
\* an ancestor is throttled, or when its new budget is not positive.
ThrottleJustified ==
    [][\A g \in Cgrp : ~overlapped /\ ~throttled[g] /\ throttled'[g] =>
           \/ Used(g) >= budget[g]
           \/ \E x \in Ancestors(g) : throttled[x]
           \/ budget'[g] <= 0]_vars

\* "This cgroup has an unlimited quota, so it cannot be throttled."
UnlimitedNotThrottled ==
    [][\A g \in Cgrp : ub[g] = INF /\ ~throttled[g] => ~throttled'[g]]_vars

\* Once tasks stop running, debt is paid off and nothing stays throttled, however
\* the timers, the billing and the writes interleave.  A cgroup that ends up
\* unlimited is left out: nobody replenishes the budget it had before.
DebtIsRepaid ==
    <>[](\A g \in Cgrp : ub[g] # INF) => <>[](\A g \in Cgrp : ~throttled[g])
=============================================================================
