------------------------------ MODULE CbwTask ------------------------------
(***************************************************************************)
(* Where a backlogged task is (lib/cgroup_bw.bpf.c): putting a task aside  *)
(* (cbw_put_aside), the drain of the bottom half, scx_cgroup_bw_move and   *)
(* ops.dequeue, against the exit of cgroups, which unmaps the LLC context, *)
(* reaps its BTQ and recycles it to cgroups managed later.                 *)
(*                                                                         *)
(* One LLC; a BTQ is a set of tasks behind a lock, and one pop, removal or *)
(* insertion is one step (Atq has their inside, and task exit).  A cgroup  *)
(* id is never reused.  The model does not rely on the kernel removing     *)
(* empty cgroups only.                                                     *)
(***************************************************************************)
EXTENDS Integers, FiniteSets

CONSTANTS
    Cpu, Task,
    Cgrp,       \* cgroup ids other than the root's
    Root,       \* cbw_root_cgid
    Llcx,       \* LLC contexts, each with its BTQ
    RootLlcx,   \* the one of the root
    Batch,      \* CBW_REENQ_MAX_BATCH
    NULL

ASSUME CbwTaskConstants ==
    /\ Root \notin Cgrp
    /\ RootLlcx \in Llcx
    /\ NULL \notin Cpu \cup Task \cup Cgrp \cup Llcx \cup {Root}
    /\ Batch \in Nat

VARIABLES
    map,        \* cbw_cgrp_llc_map
    free,       \* the recycled LLC contexts
    life,       \* "new", "live" or "gone"
    throttled,  \* is_throttled
    btq,        \* btq[x]: the tasks in the BTQ of x
    lock,       \* the CPU that has the lock of the BTQ of x
    home,       \* the cgroup of each task
    place,      \* who has each task: the scheduler, a BTQ, a CPU, or nobody
    rq,         \* the CPU that has the task's rq lock for a callback
    pc, op,     \* where each CPU is, and in which handler
    task, cgrp, llcx,   \* the task, cgroup and LLC context it works on
    doomed,     \* the LLC context that it is reaping
    n           \* how many tasks it has drained

cpus == <<pc, op, task, cgrp, llcx, doomed, n>>
vars == <<map, free, life, throttled, btq, lock, home, place, rq, pc, op, task, cgrp, llcx,
          doomed, n>>

Ids == Cgrp \cup {Root}

\* The scheduler has every task; the root is managed and the rest is not yet.
Init ==
    /\ map = [g \in Ids |-> IF g = Root THEN RootLlcx ELSE NULL]
    /\ free = Llcx \ {RootLlcx}
    /\ life = [g \in Cgrp |-> "new"]
    /\ throttled = [g \in Cgrp |-> FALSE]
    /\ btq = [x \in Llcx |-> {}]
    /\ lock = [x \in Llcx |-> NULL]
    /\ home = [t \in Task |-> Root]
    /\ place = [t \in Task |-> "sched"]
    /\ rq = [t \in Task |-> NULL]
    /\ pc = [c \in Cpu |-> "idle"]
    /\ op = [c \in Cpu |-> "none"]
    /\ task = [c \in Cpu |-> NULL]
    /\ cgrp = [c \in Cpu |-> NULL]
    /\ llcx = [c \in Cpu |-> NULL]
    /\ doomed = [c \in Cpu |-> NULL]
    /\ n = [c \in Cpu |-> 0]

-----------------------------------------------------------------------------
At(c, l) == pc[c] = l
Goto(c, l) == pc' = [pc EXCEPT ![c] = l]

Begin(c, o, l, t, g, x) ==
    /\ At(c, "idle")
    /\ op' = [op EXCEPT ![c] = o]
    /\ Goto(c, l)
    /\ task' = [task EXCEPT ![c] = t]
    /\ cgrp' = [cgrp EXCEPT ![c] = g]
    /\ llcx' = [llcx EXCEPT ![c] = x]
    /\ UNCHANGED n

Return(c) ==
    /\ Goto(c, "idle")
    /\ op' = [op EXCEPT ![c] = "none"]
    /\ task' = [task EXCEPT ![c] = NULL]
    /\ cgrp' = [cgrp EXCEPT ![c] = NULL]
    /\ llcx' = [llcx EXCEPT ![c] = NULL]
    /\ n' = [n EXCEPT ![c] = 0]
    /\ rq' = [t \in Task |-> IF rq[t] = c THEN NULL ELSE rq[t]]

\* taskc->atq
BtqOf(t) == {x \in Llcx : t \in btq[x]}
Becomes(t, w) == place' = [place EXCEPT ![t] = w]
Released(t) == Becomes(t, IF BtqOf(t) = {} THEN "sched" ELSE "btq")
Remove(t, x) == btq' = [btq EXCEPT ![x] = @ \ {t}]

\* cbw_resolve_bill_cgid, with no managed cgroup between one and the root.
Bill(g) == IF map[g] # NULL THEN g ELSE Root

\* The callbacks for one task exclude each other.
Callback(c, t) == rq[t] = NULL /\ rq' = [rq EXCEPT ![t] = c]

-----------------------------------------------------------------------------
(* Cgroups: managed (CbwManage), throttled and unthrottled (CbwBudget) *)

Manage(g, x) ==
    /\ life[g] = "new"
    /\ x \in free
    /\ life' = [life EXCEPT ![g] = "live"]
    /\ map' = [map EXCEPT ![g] = x]
    /\ free' = free \ {x}
    /\ UNCHANGED <<throttled, btq, lock, home, place, rq, cpus>>

Throttle(g) ==
    /\ life[g] = "live"
    /\ throttled' = [throttled EXCEPT ![g] = ~@]
    /\ UNCHANGED <<map, free, life, btq, lock, home, place, rq, cpus>>

-----------------------------------------------------------------------------
(* cbw_put_aside of task[c] under cgrp[c] *)

\* Mutant: a move has no second choice.
RefusedMove(c) ==
    CASE op[c] = "enqueue" -> Released(task[c]) /\ Return(c)
      [] op[c] = "exit" ->
            /\ Becomes(task[c], "lost")
            /\ Goto(c, "reap")
            /\ UNCHANGED <<rq, op, task, cgrp, llcx, n>>
      [] OTHER -> Becomes(task[c], "lost") /\ Return(c)

\* What its caller does with -ESRCH: ops.enqueue goes on without throttling, a
\* move turns to the root, and a move or an exit that had the root gives up.
Refused(c) ==
    CASE op[c] = "enqueue" -> Released(task[c]) /\ Return(c)
      [] op[c] = "move" /\ cgrp[c] # Root ->
            /\ Goto(c, "lookup")
            /\ cgrp' = [cgrp EXCEPT ![c] = Root]
            /\ UNCHANGED <<place, rq, op, task, llcx, n>>
      [] op[c] = "exit" ->
            /\ Becomes(task[c], "lost")
            /\ Goto(c, "reap")
            /\ UNCHANGED <<rq, op, task, cgrp, llcx, n>>
      [] OTHER -> Becomes(task[c], "lost") /\ Return(c)

Lookup(c) ==
    /\ At(c, "lookup")
    /\ IF map[cgrp[c]] = NULL THEN Refused(c)
       ELSE /\ llcx' = [llcx EXCEPT ![c] = map[cgrp[c]]]
            /\ Goto(c, "lock")
            /\ UNCHANGED <<place, rq, op, task, cgrp, n>>
    /\ UNCHANGED <<map, free, life, throttled, btq, lock, home, doomed>>

Lock(c) ==
    /\ At(c, "lock")
    /\ lock[llcx[c]] = NULL
    /\ lock' = [lock EXCEPT ![llcx[c]] = c]
    /\ Goto(c, "verify")
    /\ UNCHANGED <<map, free, life, throttled, btq, home, place, rq, op, task, cgrp, llcx,
                   doomed, n>>

\* Mutant: the lookup is not repeated under the lock.
VerifyNone(c) ==
    /\ At(c, "verify")
    /\ Goto(c, "insert")
    /\ UNCHANGED <<map, free, life, throttled, btq, lock, home, place, rq, op, task, cgrp,
                   llcx, doomed, n>>

\* "Re-verify under the BTQ lock that bill_id still maps to this llcx."
Verify(c) ==
    /\ At(c, "verify")
    /\ IF map[cgrp[c]] = llcx[c]
       THEN Goto(c, "insert") /\ UNCHANGED <<lock, place, rq, op, task, cgrp, llcx, n>>
       ELSE lock' = [lock EXCEPT ![llcx[c]] = NULL] /\ Refused(c)
    /\ UNCHANGED <<map, free, life, throttled, btq, home, doomed>>

\* scx_atq_insert_vtime_unlocked, unless some BTQ has the task already.
Insert(c) ==
    LET t == task[c] IN
    /\ At(c, "insert")
    /\ btq' = [btq EXCEPT ![llcx[c]] = IF BtqOf(t) = {} THEN @ \cup {t} ELSE @]
    /\ Becomes(t, "btq")
    /\ lock' = [lock EXCEPT ![llcx[c]] = NULL]
    /\ IF op[c] = "exit"
       THEN Goto(c, "reap") /\ UNCHANGED <<rq, op, task, cgrp, llcx, n>>
       ELSE Return(c)
    /\ UNCHANGED <<map, free, life, throttled, home, doomed>>

-----------------------------------------------------------------------------
(* Callbacks for one task: ops.enqueue, ops.dequeue, ops.cgroup_move *)

\* The billing cgroup is throttled and the task is in no BTQ.  A drain may have
\* it in hand: it runs without the rq lock.
Enqueue(c, t) ==
    LET g == Bill(home[t]) IN
    /\ Callback(c, t)
    /\ BtqOf(t) = {}
    /\ g # Root /\ throttled[g]
    /\ Becomes(t, "cpu")
    /\ Begin(c, "enqueue", "lookup", t, g, NULL)
    /\ UNCHANGED <<map, free, life, throttled, btq, lock, home, doomed>>

\* scx_cgroup_bw_cancel(SCX_CGROUP_BW_CANCEL_UNLINK)
Dequeue(c, t, x) ==
    /\ At(c, "idle")
    /\ rq[t] = NULL
    /\ t \in btq[x] /\ lock[x] = NULL
    /\ Remove(t, x)
    /\ Becomes(t, "sched")
    /\ UNCHANGED <<map, free, life, throttled, lock, home, rq, cpus>>

MoveOnly(c, t, g) ==
    /\ At(c, "idle")
    /\ rq[t] = NULL
    /\ BtqOf(t) = {}
    /\ g # home[t] /\ map[g] # NULL
    /\ home' = [home EXCEPT ![t] = g]
    /\ UNCHANGED <<map, free, life, throttled, btq, lock, place, rq, cpus>>

MoveThrottled(c, t, g) ==
    /\ Callback(c, t)
    /\ BtqOf(t) # {}
    /\ g # home[t] /\ map[g] # NULL
    /\ home' = [home EXCEPT ![t] = g]
    /\ Begin(c, "move", "cancel", t, g, NULL)
    /\ UNCHANGED <<map, free, life, throttled, btq, lock, place, doomed>>

\* cbw_cancel_with_hold: out of whatever BTQ it is in by now, if any.
Cancel(c) ==
    LET t == task[c] IN
    /\ At(c, "cancel")
    /\ \/ /\ BtqOf(t) = {}
          /\ Return(c)
          /\ UNCHANGED <<btq, place>>
       \/ \E x \in BtqOf(t) :
              /\ lock[x] = NULL
              /\ Remove(t, x)
              /\ Becomes(t, "cpu")
              /\ cgrp' = [cgrp EXCEPT ![c] = Bill(@)]
              /\ Goto(c, "lookup")
              /\ UNCHANGED <<rq, op, task, llcx, n>>
    /\ UNCHANGED <<map, free, life, throttled, lock, home, doomed>>

-----------------------------------------------------------------------------
(* scx_cgroup_bw_exit: cbw_unthrottle_cgroup_for_exit and cbw_free_llc_ctx *)

\* Mutant: the map entry goes only when the BTQ has been reaped.
ExitLate(c, g) ==
    /\ life[g] = "live"
    /\ life' = [life EXCEPT ![g] = "gone"]
    /\ throttled' = [throttled EXCEPT ![g] = FALSE]
    /\ doomed' = [doomed EXCEPT ![c] = map[g]]
    /\ Begin(c, "exit", "reap", NULL, Root, NULL)
    /\ UNCHANGED <<map, free, btq, lock, home, place, rq>>

Exit(c, g) ==
    /\ life[g] = "live"
    /\ life' = [life EXCEPT ![g] = "gone"]
    /\ throttled' = [throttled EXCEPT ![g] = FALSE]
    /\ map' = [map EXCEPT ![g] = NULL]
    /\ doomed' = [doomed EXCEPT ![c] = map[g]]
    /\ Begin(c, "exit", "reap", NULL, Root, NULL)
    /\ UNCHANGED <<free, btq, lock, home, place, rq>>

ReapTask(c, t) ==
    /\ At(c, "reap")
    /\ t \in btq[doomed[c]] /\ lock[doomed[c]] = NULL
    /\ Remove(t, doomed[c])
    /\ Becomes(t, "cpu")
    /\ task' = [task EXCEPT ![c] = t]
    /\ Goto(c, "lookup")
    /\ UNCHANGED <<map, free, life, throttled, lock, home, rq, op, cgrp, llcx, doomed, n>>

\* Mutant: looks at the size of the BTQ without its lock.
ReapEmptyUnlocked(c) ==
    /\ At(c, "reap")
    /\ btq[doomed[c]] = {}
    /\ Goto(c, "recycle")
    /\ UNCHANGED <<map, free, life, throttled, btq, lock, home, place, rq, op, task, cgrp,
                   llcx, doomed, n>>

\* scx_atq_pop finds nothing, under the lock.
ReapEmpty(c) ==
    /\ At(c, "reap")
    /\ btq[doomed[c]] = {} /\ lock[doomed[c]] = NULL
    /\ Goto(c, "recycle")
    /\ UNCHANGED <<map, free, life, throttled, btq, lock, home, place, rq, op, task, cgrp,
                   llcx, doomed, n>>

\* cbw_free_llcx
Recycle(c) ==
    /\ At(c, "recycle")
    /\ free' = free \cup {doomed[c]}
    /\ doomed' = [doomed EXCEPT ![c] = NULL]
    /\ Return(c)
    /\ UNCHANGED <<map, life, throttled, btq, lock, home, place>>

-----------------------------------------------------------------------------
(* The bottom half: cbw_reenqueue_cgroup and cbw_drain_btq_batch *)

Drain(c, g) ==
    /\ map[g] # NULL
    /\ Begin(c, "drain", "check", NULL, g, map[g])
    /\ UNCHANGED <<map, free, life, throttled, btq, lock, home, place, rq, doomed>>

\* cbw_billed_throttled; the root is never throttled.
DrainCheck(c) ==
    /\ At(c, "check")
    /\ IF cgrp[c] # Root /\ throttled[cgrp[c]] THEN Return(c)
       ELSE Goto(c, "pop") /\ UNCHANGED <<rq, op, task, cgrp, llcx, n>>
    /\ UNCHANGED <<map, free, life, throttled, btq, lock, home, place, doomed>>

DrainPop(c, t) ==
    /\ At(c, "pop")
    /\ n[c] < Batch
    /\ t \in btq[llcx[c]] /\ lock[llcx[c]] = NULL
    /\ Remove(t, llcx[c])
    /\ Becomes(t, "cpu")
    /\ task' = [task EXCEPT ![c] = t]
    /\ n' = [n EXCEPT ![c] = @ + 1]
    /\ Goto(c, "callback")
    /\ UNCHANGED <<map, free, life, throttled, lock, home, rq, op, cgrp, llcx, doomed>>

\* scx_cgroup_bw_enqueue_cb.  The task may have been put aside again meanwhile.
DrainCallback(c) ==
    LET t == task[c] IN
    /\ At(c, "callback")
    /\ Released(t)
    /\ task' = [task EXCEPT ![c] = NULL]
    /\ Goto(c, "pop")
    /\ UNCHANGED <<map, free, life, throttled, btq, lock, home, rq, op, cgrp, llcx, doomed, n>>

DrainEnd(c) ==
    /\ At(c, "pop")
    /\ n[c] = Batch \/ (btq[llcx[c]] = {} /\ lock[llcx[c]] = NULL)
    /\ Return(c)
    /\ UNCHANGED <<map, free, life, throttled, btq, lock, home, place, doomed>>

Step(c) ==
    \/ Lookup(c) \/ Lock(c) \/ Verify(c) \/ Insert(c) \/ Cancel(c)
    \/ (\E t \in Task : ReapTask(c, t) \/ DrainPop(c, t))
    \/ ReapEmpty(c) \/ Recycle(c) \/ DrainCheck(c) \/ DrainCallback(c) \/ DrainEnd(c)

Call(c) ==
    \/ \E t \in Task : Enqueue(c, t) \/ \E x \in Llcx : Dequeue(c, t, x)
    \/ \E t \in Task, g \in Ids : MoveOnly(c, t, g) \/ MoveThrottled(c, t, g)
    \/ \E g \in Cgrp : Exit(c, g)
    \/ \E g \in Ids : Drain(c, g)

Next ==
    \/ \E g \in Cgrp : Throttle(g) \/ \E x \in Llcx : Manage(g, x)
    \/ \E c \in Cpu : Step(c) \/ Call(c)

Spec == Init /\ [][Next]_vars

-----------------------------------------------------------------------------
(* Properties *)

\* "we bail rather than park a task in a doomed BTQ ... it reaps the task we
\* insert": a task in a BTQ is where a drain or a reaping exit finds it, never in
\* one that no cgroup maps any more.
NoTaskStranded ==
    \A x \in Llcx : btq[x] # {} =>
        (\E g \in Ids : map[g] = x) \/ (\E c \in Cpu : doomed[c] = x)

\* "rather than lose the task": a task is with the scheduler, in one BTQ, or in
\* the hands of a CPU that has not finished with it.
NoTaskLost ==
    \A t \in Task :
        \/ place[t] = "sched" /\ BtqOf(t) = {}
        \/ place[t] = "btq" /\ Cardinality(BtqOf(t)) = 1
        \/ place[t] = "cpu" /\ BtqOf(t) = {} /\ \E c \in Cpu : task[c] = t

\* An LLC context is mapped by one cgroup at most, and by none when it is free or
\* being reaped.
LlcxOwnedOnce ==
    \A x \in Llcx :
        Cardinality({g \in Ids : map[g] = x}) + Cardinality({c \in Cpu : doomed[c] = x})
            + (IF x \in free THEN 1 ELSE 0) = 1

\* "cbw_put_aside() re-checks the map under the BTQ lock to catch one in flight":
\* a put-aside that has verified its LLC context inserts before any other cgroup
\* can have it, whatever exits meanwhile.
PutAsideIsBilled ==
    \A c \in Cpu : pc[c] = "insert" =>
        map[cgrp[c]] = llcx[c] \/ \E d \in Cpu : doomed[d] = llcx[c]
=============================================================================
