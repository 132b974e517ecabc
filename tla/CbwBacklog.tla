----------------------------- MODULE CbwBacklog -----------------------------
(***************************************************************************)
(* The hand-over of backlogged tasks (lib/cgroup_bw.bpf.c): ops.enqueue    *)
(* puts a task of a throttled cgroup aside, the replenish timer (the "top  *)
(* half") unthrottles and publishes which cgroups need attention, and      *)
(* ops.dispatch on any CPU (the "bottom half", scx_cgroup_bw_reenqueue)    *)
(* drains them, purges the slots it finds empty and, when nothing is left, *)
(* turns itself off, with nothing but two compare-and-swaps between them.  *)
(*                                                                         *)
(* Each cgroup has one backlog queue, a set: its order is Atq's matter.    *)
(* When a cgroup runs out of budget is CbwBudget's: here it just happens.  *)
(* Cgroups are neither created nor removed (CbwTask).                      *)
(***************************************************************************)
EXTENDS Integers, FiniteSets, Sequences

CONSTANTS
    Cpu,            \* CPUs that run ops.dispatch
    Cgrp,           \* the cgroups with a context
    Pre,            \* in pre-order (cbw_cgroup_ids)
    Task,
    CgrpOf,         \* CgrpOf[t]: the billing cgroup of t
    Batch,          \* CBW_REENQ_MAX_BATCH
    SeqMod,         \* the width of rp_seq: it counts modulo this
    MaxThrottles,   \* bound: how many times cgroups exhaust their budget
    None            \* 0, the id of no cgroup

ASSUME CbwBacklogConstants ==
    /\ None \notin Cgrp
    /\ Pre \in Seq(Cgrp)
    /\ CgrpOf \in [Task -> Cgrp]
    /\ Batch \in Nat \ {0}
    /\ SeqMod \in Nat /\ SeqMod % 2 = 0 /\ SeqMod > 0

VARIABLES
    throttled,  \* is_throttled
    btq,        \* the tasks in each cgroup's BTQ
    place,      \* what ops.enqueue does with each task
    stat,       \* cbw_backlog_stat
    ids,        \* cbw_throttled_cgroup_ids
    at,         \* the replenish timer: 0 when idle, or the position of its walk
    nr,         \* its nr_throttled
    pc,         \* what each CPU does in scx_cgroup_bw_reenqueue
    snap,       \* its backlog_stat
    start, i,   \* nuance and the loop variable
    cur,        \* cur_cgrp_id
    n, nrEnq,
    throttles

timer == <<at, nr>>
cpus == <<pc, snap, start, i, cur, n, nrEnq>>
vars == <<throttled, btq, place, stat, ids, at, nr, pc, snap, start, i, cur, n, nrEnq, throttles>>

Slot == 0..Cardinality(Cgrp) - 1

NoStat == [seq |-> 0, nr |-> 0, has |-> FALSE]

Init ==
    /\ throttled = [g \in Cgrp |-> FALSE]
    /\ btq = [g \in Cgrp |-> {}]
    /\ place = [t \in Task |-> "out"]
    /\ stat = NoStat
    /\ ids = [s \in Slot |-> None]
    /\ at = 0
    /\ nr = 0
    /\ pc = [c \in Cpu |-> "idle"]
    /\ snap = [c \in Cpu |-> NoStat]
    /\ start = [c \in Cpu |-> 0]
    /\ i = [c \in Cpu |-> 0]
    /\ cur = [c \in Cpu |-> None]
    /\ n = [c \in Cpu |-> 0]
    /\ nrEnq = [c \in Cpu |-> 0]
    /\ throttles = 0

-----------------------------------------------------------------------------
(* The budget runs out (CbwBudget), and ops.enqueue *)

Throttle(g) ==
    /\ ~throttled[g]
    /\ throttles < MaxThrottles
    /\ throttles' = throttles + 1
    /\ throttled' = [throttled EXCEPT ![g] = TRUE]
    /\ UNCHANGED <<btq, place, stat, ids, timer, cpus>>

\* scx_cgroup_bw_throttled returns -EAGAIN ...
EnqueueThrottled(t) ==
    /\ place[t] = "out"
    /\ throttled[CgrpOf[t]]
    /\ place' = [place EXCEPT ![t] = "aside"]
    /\ UNCHANGED <<throttled, btq, stat, ids, timer, cpus, throttles>>

\* ... and the caller goes on to cbw_put_aside.
PutAside(t) ==
    /\ place[t] = "aside"
    /\ place' = [place EXCEPT ![t] = "btq"]
    /\ btq' = [btq EXCEPT ![CgrpOf[t]] = @ \cup {t}]
    /\ UNCHANGED <<throttled, stat, ids, timer, cpus, throttles>>

-----------------------------------------------------------------------------
(* The top half: replenish_timerfn *)

TopHalfRunning == stat.seq % 2 = 1

Bumped == (stat.seq + 1) % SeqMod

\* cbw_top_half_begin; the rest of the walk is CbwBudget's.
TopHalfBegin ==
    /\ at = 0
    /\ stat' = [stat EXCEPT !.seq = Bumped]
    /\ at' = 1
    /\ nr' = 0
    /\ UNCHANGED <<throttled, btq, place, ids, cpus, throttles>>

\* cbw_top_half_abort: the root cgroup was not found.
TopHalfAbort ==
    /\ at = 1
    /\ nr = 0
    /\ throttles < MaxThrottles
    /\ throttles' = throttles + 1
    /\ stat' = [stat EXCEPT !.seq = Bumped]
    /\ at' = 0
    /\ UNCHANGED <<throttled, btq, place, ids, nr, cpus>>

\* Mutant: a cgroup that was not throttled is not looked at again.
NeedsAttentionThrottled(g, keep) == throttled[g] \/ keep

NeedsAttention(g, keep) == throttled[g] \/ keep \/ btq[g] # {}

\* cbw_replenish_cgroup, and the slot for the bottom half.  A cgroup in debt
\* is kept throttled.
ReplenishCgroup ==
    LET g == Pre[at] IN
    /\ at \in 1..Len(Pre)
    /\ at' = at + 1
    /\ \E keep \in BOOLEAN :
           /\ keep => throttles < MaxThrottles
           /\ throttles' = IF keep THEN throttles + 1 ELSE throttles
           /\ throttled' = [throttled EXCEPT ![g] = keep]
           /\ IF NeedsAttention(g, keep)
              THEN /\ ids' = [ids EXCEPT ![nr] = g]
                   /\ nr' = nr + 1
              ELSE UNCHANGED <<ids, nr>>
    /\ UNCHANGED <<btq, place, stat, cpus>>

\* cbw_top_half_end
TopHalfEnd ==
    /\ at = Len(Pre) + 1
    /\ stat' = [seq |-> Bumped, nr |-> nr, has |-> nr > 0]
    /\ at' = 0
    /\ nr' = 0
    /\ UNCHANGED <<throttled, btq, place, ids, cpus, throttles>>

TopHalf == TopHalfBegin \/ TopHalfAbort \/ ReplenishCgroup \/ TopHalfEnd

-----------------------------------------------------------------------------
(* The bottom half: scx_cgroup_bw_reenqueue on CPU c *)

shared == <<throttled, btq, place, stat, ids, timer, throttles>>
SlotOf(c) == (start[c] + i[c]) % snap[c].nr
Goto(c, l) == pc' = [pc EXCEPT ![c] = l]

Return(c) ==
    /\ Goto(c, "idle")
    /\ snap' = [snap EXCEPT ![c] = NoStat]
    /\ start' = [start EXCEPT ![c] = 0]
    /\ i' = [i EXCEPT ![c] = 0]
    /\ cur' = [cur EXCEPT ![c] = None]
    /\ n' = [n EXCEPT ![c] = 0]
    /\ nrEnq' = [nrEnq EXCEPT ![c] = 0]

\* cbw_has_throttled_tasks, and a random cgroup to start with.
Reenqueue(c) ==
    /\ pc[c] = "idle"
    /\ stat.has
    /\ Goto(c, "slot")
    /\ snap' = [snap EXCEPT ![c] = stat]
    /\ \E s \in 0..stat.nr - 1 : start' = [start EXCEPT ![c] = s]
    /\ UNCHANGED <<shared, i, cur, n, nrEnq>>

\* READ_ONCE(ids[0]); a purged slot is skipped.
ReadSlot(c) ==
    /\ pc[c] = "slot"
    /\ i[c] < snap[c].nr
    /\ IF ids[SlotOf(c)] = None
       THEN i' = [i EXCEPT ![c] = @ + 1] /\ UNCHANGED <<pc, cur, n>>
       ELSE /\ cur' = [cur EXCEPT ![c] = ids[SlotOf(c)]]
            /\ n' = [n EXCEPT ![c] = 0]
            /\ Goto(c, "check")
            /\ UNCHANGED i
    /\ UNCHANGED <<shared, snap, start, nrEnq>>

\* cbw_reenqueue_cgroup: "If the cgroup is throttled ... Stop draining".
CheckThrottled(c) ==
    /\ pc[c] = "check"
    /\ Goto(c, IF throttled[cur[c]] THEN "empty" ELSE "drain")
    /\ UNCHANGED <<shared, snap, start, i, cur, n, nrEnq>>

\* cbw_drain_btq_batch: pop a task and call scx_cgroup_bw_enqueue_cb.
DrainTask(c, t) ==
    /\ pc[c] = "drain"
    /\ t \in btq[cur[c]]
    /\ btq' = [btq EXCEPT ![cur[c]] = @ \ {t}]
    /\ place' = [place EXCEPT ![t] = "out"]
    /\ n' = [n EXCEPT ![c] = @ + 1]
    /\ Goto(c, IF n[c] + 1 = Batch THEN "empty" ELSE "drain")
    /\ UNCHANGED <<throttled, stat, ids, timer, throttles, snap, start, i, cur, nrEnq>>

DrainEmpty(c) ==
    /\ pc[c] = "drain"
    /\ btq[cur[c]] = {}
    /\ Goto(c, "empty")
    /\ UNCHANGED <<shared, snap, start, i, cur, n, nrEnq>>

\* "(n == 0) && !cbw_top_half_running()"
CheckEmpty(c) ==
    /\ pc[c] = "empty"
    /\ Goto(c, IF n[c] = 0 /\ ~TopHalfRunning THEN "purge" ELSE "next")
    /\ UNCHANGED <<shared, snap, start, i, cur, n, nrEnq>>

Purge(c) ==
    /\ pc[c] = "purge"
    /\ ids' = [ids EXCEPT ![SlotOf(c)] = IF @ = cur[c] THEN None ELSE @]
    /\ Goto(c, "next")
    /\ UNCHANGED <<throttled, btq, place, stat, timer, throttles, snap, start, i, cur, n,
                   nrEnq>>

NextSlot(c) ==
    /\ pc[c] = "next"
    /\ nrEnq' = [nrEnq EXCEPT ![c] = @ + n[c]]
    /\ IF nrEnq'[c] >= Batch
       THEN Goto(c, "done") /\ UNCHANGED i
       ELSE Goto(c, "slot") /\ i' = [i EXCEPT ![c] = @ + 1]
    /\ UNCHANGED <<shared, snap, start, cur, n>>

\* The end of the loop: "(nr_enq == 0) && !cbw_top_half_running()".
CheckDone(c) ==
    /\ pc[c] = "done" \/ (pc[c] = "slot" /\ i[c] = snap[c].nr)
    /\ IF nrEnq[c] = 0 /\ ~TopHalfRunning
       THEN Goto(c, "off") /\ UNCHANGED <<snap, start, i, cur, n, nrEnq>>
       ELSE Return(c)
    /\ UNCHANGED shared

\* Mutant: the flag is cleared whatever happened since the snapshot.
TurnOffStore(c) ==
    /\ pc[c] = "off"
    /\ stat' = [snap[c] EXCEPT !.has = FALSE]
    /\ Return(c)
    /\ UNCHANGED <<throttled, btq, place, ids, timer, throttles>>

\* cbw_update_backlog_stat_cas
TurnOff(c) ==
    /\ pc[c] = "off"
    /\ stat' = IF stat = snap[c] THEN [stat EXCEPT !.has = FALSE] ELSE stat
    /\ Return(c)
    /\ UNCHANGED <<throttled, btq, place, ids, timer, throttles>>

BottomHalf(c) ==
    \/ Reenqueue(c) \/ ReadSlot(c) \/ CheckThrottled(c)
    \/ (\E t \in Task : DrainTask(c, t)) \/ DrainEmpty(c)
    \/ CheckEmpty(c) \/ Purge(c) \/ NextSlot(c) \/ CheckDone(c) \/ TurnOff(c)

Next ==
    \/ \E g \in Cgrp : Throttle(g)
    \/ \E t \in Task : EnqueueThrottled(t) \/ PutAside(t)
    \/ TopHalf
    \/ \E c \in Cpu : BottomHalf(c)

\* The timer re-arms itself and its steps are bounded; ops.dispatch runs on every
\* CPU, which the timer kicks when it is idle; ops.enqueue does not stop midway.
Fairness ==
    /\ WF_vars(TopHalf)
    /\ \A c \in Cpu : WF_vars(BottomHalf(c))
    /\ \A t \in Task : WF_vars(PutAside(t))

Spec == Init /\ [][Next]_vars /\ Fairness

-----------------------------------------------------------------------------
(* Properties *)

\* "Once the cgroup becomes unthrottled again, such backlogged tasks should be
\* requeued for execution": once cgroups stop running out of budget no task
\* stays put aside, whatever the halves and late enqueues do to each other.
BacklogDrains == <>[](\A t \in Task : place[t] = "out")

\* rp_seq is odd exactly while the replenish timer runs, so that the bottom half
\* and the accounting timer can tell.
SeqTellsTopHalf == TopHalfRunning <=> at # 0
=============================================================================
