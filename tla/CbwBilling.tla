----------------------------- MODULE CbwBilling -----------------------------
(***************************************************************************)
(* To which cgroup a task's time is charged (lib/cgroup_bw.bpf.c).  Only   *)
(* cgroups that were given a limit have a context; they and the root are   *)
(* managed.  A task bills to its nearest managed ancestor-or-self and      *)
(* caches it, while writes to cpu.max manage more cgroups.  A generation   *)
(* number tells the tasks that what they have cached is out of date, and   *)
(* a walk over the subtree of the new cgroup repoints the managed cgroups  *)
(* below it.                                                               *)
(*                                                                         *)
(* A context lives as long as its cgroup, which is not empty while a task  *)
(* bills to it: cgroups do not exit here (CbwTask has the exits).  There   *)
(* is one LLC, so that the cached cgroup and LLC contexts are one.         *)
(***************************************************************************)
EXTENDS Integers, Sequences, FiniteSets, FiniteSetsExt

CONSTANTS
    Cgrp,       \* the cgroups, in the order of a pre-order walk: a sequence
    Parent,     \* the parent of each cgroup but the first, the root
    Task,       \* the tasks
    Writer,     \* CPUs that write cpu.max
    Quota,      \* the limits that are written: nquota
    Inf,        \* CBW_RUNTUME_INF, more than any limit
    None,       \* 0: not cached, not set
    MaxInputs   \* bound: writes to cpu.max and calls for tasks together

Root == Cgrp[1]
Cgroup == {Cgrp[i] : i \in 1..Len(Cgrp)}

UpClosed(S) == \A h \in S \ {Root} : Parent[h] \in S

(* The ancestors of a cgroup, itself included: the least set that has it   *)
(* and, with each cgroup but the root, the parent.                         *)
Chain == [g \in Cgroup |->
            {a \in Cgroup : \A S \in SUBSET Cgroup : (g \in S /\ UpClosed(S)) => a \in S}]

ASSUME TreeAssumption ==
    /\ Len(Cgrp) \in Nat \ {0}
    /\ None \notin Cgroup
    /\ Parent \in [Cgroup \ {Root} -> Cgroup]
    /\ \A i \in 2..Len(Cgrp) : \E j \in 1..(i - 1) : Cgrp[j] = Parent[Cgrp[i]]

ASSUME QuotaAssumption == Quota \subseteq Nat /\ Inf \in Nat /\ \A q \in Quota : q <= Inf

VARIABLES
    managed,       \* cgroups in cbw_cgrp_map
    eff_parent,    \* cgx->eff_parent_id
    nquota,        \* cgx->nquota
    nquota_ub,     \* cgx->nquota_ub
    cbw_bill_gen,
    wpc, wcg,      \* a writer's step and its cgroup
    from,          \* cbw_repoint_subtree's from_id, None for a plain update
    walk,          \* what its walk over the subtree has yet to visit
    cg,            \* the task's cgroup
    bill_cgrp_id, cgx_raw, bill_gen,   \* the task's cache
    pending,       \* pending_ns: the cgroups in which the time was consumed
    pc, op, carry, \* the call under way for the task, and the time it bills
    pos,           \* where its search for a managed ancestor is
    inputs,        \* how many writes and calls there were
    bumped,        \* history: cgroups whose management was announced
    floor,         \* history: the nearest announced one when the call began
    last,          \* history: what the task's last billing charged
    crossed        \* history: two writes to nested cgroups overlapped

cgxVars == <<managed, eff_parent, nquota, nquota_ub, cbw_bill_gen, bumped>>
writerVars == <<wpc, wcg, from, walk, crossed>>
taskVars == <<cg, bill_cgrp_id, cgx_raw, bill_gen, pending, pc, op, carry, pos, floor, last>>
vars == <<cgxVars, writerVars, taskVars, inputs>>

NoBill == [time |-> {}, to |-> Root, floor |-> Root]

Init ==
    /\ managed = {Root}
    /\ eff_parent = [g \in Cgroup |-> None]
    /\ nquota = [g \in Cgroup |-> Inf]
    /\ nquota_ub = [g \in Cgroup |-> Inf]
    /\ cbw_bill_gen = 0
    /\ wpc = [w \in Writer |-> "idle"]
    /\ wcg = [w \in Writer |-> None]
    /\ from = [w \in Writer |-> None]
    /\ walk = [w \in Writer |-> {}]
    /\ cg \in [Task -> Cgroup]
    /\ bill_cgrp_id = [t \in Task |-> None]
    /\ cgx_raw = [t \in Task |-> None]
    /\ bill_gen = [t \in Task |-> 0]
    /\ pending = [t \in Task |-> {}]
    /\ pc = [t \in Task |-> "idle"]
    /\ op = [t \in Task |-> None]
    /\ carry = [t \in Task |-> {}]
    /\ pos = [t \in Task |-> None]
    /\ inputs = 0
    /\ bumped = {}
    /\ floor = [t \in Task |-> Root]
    /\ last = [t \in Task |-> NoBill]
    /\ crossed = FALSE

(* The nearest cgroup of G on the way up from g; the root is in every G.   *)
Nearest(g, G) == CHOOSE a \in Chain[g] \cap (G \cup {Root}) :
                    \A b \in Chain[g] \cap (G \cup {Root}) : b \in Chain[a]

-----------------------------------------------------------------------------
(* Writes to cpu.max.                                                      *)

Subtree(g) == {h \in Cgroup : g \in Chain[h]}

(* The cgroup of S that the walk comes to first.                           *)
First(S) == CHOOSE h \in S : \E i \in 1..Len(Cgrp) :
               Cgrp[i] = h /\ \A j \in 1..(i - 1) : Cgrp[j] \notin S

Nested(g, h) == g \in Chain[h] \/ h \in Chain[g]

Begin(w, g) ==
    /\ wpc[w] = "idle"
    /\ inputs < MaxInputs
    /\ inputs' = inputs + 1
    /\ wcg' = [wcg EXCEPT ![w] = g]
    /\ crossed' = (crossed \/ \E v \in Writer : wpc[v] # "idle" /\ Nested(wcg[v], g))

cbw_eff_parent_cgid(g) == Nearest(Parent[g], managed)

(* scx_cgroup_bw_set for a cgroup without a context: cbw_init_cgx fills in *)
(* a context that nobody sees yet.  Two writers that manage one cgroup are *)
(* the subject of CbwManage.                                               *)
cbw_init_cgx(w, g, q) ==
    /\ g \notin managed \cup {wcg[v] : v \in {u \in Writer : wpc[u] # "idle"}}
    /\ q # Inf
    /\ Begin(w, g)
    /\ eff_parent' = [eff_parent EXCEPT ![g] = cbw_eff_parent_cgid(g)]
    /\ nquota' = [nquota EXCEPT ![g] = q]
    /\ nquota_ub' = [nquota_ub EXCEPT ![g] = Min({q, nquota_ub[cbw_eff_parent_cgid(g)]})]
    /\ wpc' = [wpc EXCEPT ![w] = "publish"]
    /\ UNCHANGED <<managed, cbw_bill_gen, bumped, from, walk, taskVars>>

Publish(w) ==
    /\ wpc[w] = "publish"
    /\ managed' = managed \cup {wcg[w]}
    /\ wpc' = [wpc EXCEPT ![w] = "bump"]
    /\ UNCHANGED <<eff_parent, nquota, nquota_ub, cbw_bill_gen, bumped, wcg, from, walk, crossed,
                   taskVars, inputs>>

(* The new generation, and the start of the walk.                          *)
Bump(w) ==
    /\ wpc[w] = "bump"
    /\ cbw_bill_gen' = cbw_bill_gen + 1
    /\ bumped' = bumped \cup {wcg[w]}
    /\ from' = [from EXCEPT ![w] = eff_parent[wcg[w]]]
    /\ walk' = [walk EXCEPT ![w] = Subtree(wcg[w])]
    /\ wpc' = [wpc EXCEPT ![w] = "walk"]
    /\ UNCHANGED <<managed, eff_parent, nquota, nquota_ub, wcg, crossed, taskVars, inputs>>

(* scx_cgroup_bw_set for a managed cgroup: a new limit, or none any more.  *)
cbw_set_bandwidth(w, g, q) ==
    /\ g \in managed
    /\ Begin(w, g)
    /\ nquota' = [nquota EXCEPT ![g] = q]
    /\ from' = [from EXCEPT ![w] = None]
    /\ walk' = [walk EXCEPT ![w] = Subtree(g)]
    /\ wpc' = [wpc EXCEPT ![w] = "walk"]
    /\ UNCHANGED <<managed, eff_parent, nquota_ub, cbw_bill_gen, bumped, taskVars>>

(* Mutant: the new cgroup is repointed like those below it. *)
Repointed(w, h) ==
    IF from[w] # None /\ eff_parent[h] = from[w] THEN wcg[w] ELSE eff_parent[h]

(* The effective parent of h after the walk of w has visited it.           *)
EffParentAfter(w, h) ==
    IF from[w] # None /\ h # wcg[w] /\ eff_parent[h] = from[w] THEN wcg[w] ELSE eff_parent[h]

(* One cgroup of the walk: repoint it, then cbw_update_nquota_ub.          *)
Visit(w) ==
    /\ wpc[w] = "walk"
    /\ LET h == First(walk[w])
           p == EffParentAfter(w, h)
       IN  /\ IF h \in managed
              THEN /\ eff_parent' = [eff_parent EXCEPT ![h] = p]
                   /\ nquota_ub' = [nquota_ub EXCEPT ![h] = Min({nquota[h], nquota_ub[p]})]
              ELSE UNCHANGED <<eff_parent, nquota_ub>>
           /\ walk' = [walk EXCEPT ![w] = @ \ {h}]
           /\ IF walk[w] = {h}
              THEN /\ wpc' = [wpc EXCEPT ![w] = "idle"]
                   /\ wcg' = [wcg EXCEPT ![w] = None]
                   /\ from' = [from EXCEPT ![w] = None]
              ELSE UNCHANGED <<wpc, wcg, from>>
    /\ UNCHANGED <<managed, nquota, cbw_bill_gen, bumped, crossed, taskVars, inputs>>

-----------------------------------------------------------------------------
(* Calls for a task.  The runqueue lock is held: the calls for one task    *)
(* do not overlap, and only the writers run in between.                    *)

Stale(t) == bill_gen[t] # cbw_bill_gen

(* Mutant: the cached context survives a new generation. *)
SyncKeepsCgx(t) == cgx_raw[t]

(* The cached context after cbw_sync_bill_gen.                             *)
SyncedCgx(t) == IF Stale(t) THEN None ELSE cgx_raw[t]

SyncedBill(t) == IF Stale(t) THEN None ELSE bill_cgrp_id[t]

cbw_sync_bill_gen(t) ==
    /\ bill_gen' = [bill_gen EXCEPT ![t] = cbw_bill_gen]
    /\ bill_cgrp_id' = [bill_cgrp_id EXCEPT ![t] = SyncedBill(t)]

(* The time a call is about: what was deferred and what it brings itself.  *)
Taken(t, o) == IF o = "consume" THEN pending[t] \cup {cg[t]} ELSE {}

(* The call has charged time to a cgroup; the root takes it uncounted.     *)
Charged(t, time, to, fl) ==
    last' = IF time = {} THEN last ELSE [last EXCEPT ![t] = [time |-> time, to |-> to, floor |-> fl]]

Enter(t) ==
    /\ pc[t] = "idle"
    /\ inputs < MaxInputs
    /\ inputs' = inputs + 1
    /\ cbw_sync_bill_gen(t)
    /\ floor' = [floor EXCEPT ![t] = Nearest(cg[t], bumped)]

(* scx_cgroup_bw_consume, _throttled and _put_aside, up to the search.     *)
(* A cache-only call (p NULL, not the subject) that finds no cached        *)
(* cgroup does not search; consume leaves its time for a later call.       *)
Call(t, o, subject) ==
    LET known == SyncedBill(t) # None \/ SyncedCgx(t) # None
        root == SyncedBill(t) = Root
    IN
    /\ Enter(t)
    /\ pending' = [pending EXCEPT ![t] =
          IF ~known /\ ~subject THEN @ \cup Taken(t, o)
          ELSE IF o = "consume" THEN {} ELSE @]
    /\ Charged(t, IF root THEN Taken(t, o) ELSE {}, Root, floor'[t])
    /\ IF known /\ ~root /\ o # "put_aside"
       THEN cgx_raw' = [cgx_raw EXCEPT ![t] =
               IF SyncedCgx(t) # None THEN SyncedCgx(t) ELSE SyncedBill(t)]
       ELSE cgx_raw' = [cgx_raw EXCEPT ![t] = SyncedCgx(t)]
    /\ IF ~root /\ (IF known THEN o = "consume" ELSE subject)
       THEN /\ pc' = [pc EXCEPT ![t] = IF known THEN "charge" ELSE "search"]
            /\ op' = [op EXCEPT ![t] = o]
            /\ carry' = [carry EXCEPT ![t] = Taken(t, o)]
            /\ pos' = [pos EXCEPT ![t] = cg[t]]
       ELSE UNCHANGED <<pc, op, carry, pos>>
    /\ UNCHANGED <<cg, cgxVars, writerVars>>

Return(t) ==
    /\ pc' = [pc EXCEPT ![t] = "idle"]
    /\ op' = [op EXCEPT ![t] = None]
    /\ carry' = [carry EXCEPT ![t] = {}]
    /\ pos' = [pos EXCEPT ![t] = None]

(* cbw_resolve_bill_cgid, one cgroup at a time on the way up.              *)
SearchUp(t) ==
    /\ pc[t] = "search"
    /\ pos[t] \notin managed
    /\ pos' = [pos EXCEPT ![t] = Parent[@]]
    /\ UNCHANGED <<cg, bill_cgrp_id, cgx_raw, bill_gen, pending, pc, op, carry, floor, last, inputs,
                   cgxVars, writerVars>>

(* cbw_bill_task caches the cgroup that was found; all but put_aside then  *)
(* cache its context.  Nothing is counted for the root.                    *)
SearchFound(t) ==
    /\ pc[t] = "search"
    /\ pos[t] \in managed
    /\ bill_cgrp_id' = [bill_cgrp_id EXCEPT ![t] = pos[t]]
    /\ cgx_raw' = IF pos[t] = Root \/ op[t] = "put_aside" THEN cgx_raw
                  ELSE [cgx_raw EXCEPT ![t] = pos[t]]
    /\ IF pos[t] # Root /\ op[t] = "consume"
       THEN /\ pc' = [pc EXCEPT ![t] = "charge"]
            /\ UNCHANGED <<op, carry, pos, last>>
       ELSE /\ Charged(t, carry[t], pos[t], floor[t])
            /\ Return(t)
    /\ UNCHANGED <<cg, bill_gen, pending, inputs, floor, cgxVars, writerVars>>

(* The end of scx_cgroup_bw_consume: the time is added to the context's    *)
(* runtime_total, unless nothing limits the cgroup.                        *)
Consume(t) ==
    /\ pc[t] = "charge"
    /\ Charged(t, IF nquota_ub[cgx_raw[t]] = Inf THEN {} ELSE carry[t], cgx_raw[t], floor[t])
    /\ Return(t)
    /\ UNCHANGED <<cg, bill_cgrp_id, cgx_raw, bill_gen, pending, inputs, floor, cgxVars, writerVars>>

(* Mutant: the deferred time moves along with the task. *)
MoveKeepsPending(t, to) ==
    /\ pc[t] = "idle"
    /\ inputs < MaxInputs
    /\ to # cg[t]
    /\ inputs' = inputs + 1
    /\ bill_cgrp_id' = [bill_cgrp_id EXCEPT ![t] = None]
    /\ cgx_raw' = [cgx_raw EXCEPT ![t] = None]
    /\ cg' = [cg EXCEPT ![t] = to]
    /\ UNCHANGED <<bill_gen, pending, pc, op, carry, pos, floor, last, cgxVars, writerVars>>

(* Deferred time is charged to the cgroup it was consumed in, by the       *)
(* cached context or by a search, before the task is in its new cgroup.    *)
scx_cgroup_bw_move(t, to) ==
    /\ pc[t] = "idle"
    /\ inputs < MaxInputs
    /\ to # cg[t]
    /\ inputs' = inputs + 1
    /\ LET x == IF cgx_raw[t] # None THEN cgx_raw[t] ELSE Nearest(cg[t], managed)
       IN  Charged(t, pending[t], x, Root)
    /\ pending' = [pending EXCEPT ![t] = {}]
    /\ bill_cgrp_id' = [bill_cgrp_id EXCEPT ![t] = None]
    /\ cgx_raw' = [cgx_raw EXCEPT ![t] = None]
    /\ cg' = [cg EXCEPT ![t] = to]
    /\ UNCHANGED <<bill_gen, pc, op, carry, pos, floor, cgxVars, writerVars>>

-----------------------------------------------------------------------------
Next ==
    \/ \E w \in Writer :
          \/ \E g \in Cgroup \ {Root}, q \in Quota :
                cbw_init_cgx(w, g, q) \/ cbw_set_bandwidth(w, g, q)
          \/ Publish(w) \/ Bump(w) \/ Visit(w)
    \/ \E t \in Task :
          \/ \E o \in {"consume", "throttled", "put_aside"}, subject \in BOOLEAN :
                (o = "put_aside" => subject) /\ Call(t, o, subject)
          \/ SearchUp(t) \/ SearchFound(t) \/ Consume(t)
          \/ \E to \in Cgroup : scx_cgroup_bw_move(t, to)

Spec == Init /\ [][Next]_vars

-----------------------------------------------------------------------------

(* A task's time is charged to its nearest managed ancestor, and not to    *)
(* one further up: a call that began when the management of a cgroup was   *)
(* announced (cbw_bill_gen) charges that cgroup or one below it, whatever  *)
(* the task had cached and whichever cgroups become managed meanwhile.     *)
BilledToNearest == \A t \in Task : last[t].floor \in Chain[last[t].to]

(* Time is charged to an ancestor of the cgroup in which it was consumed,  *)
(* also when it was deferred for want of a cached cgroup and the task has  *)
(* been moved since.                                                       *)
BilledWhereConsumed == \A t \in Task : \A g \in last[t].time : last[t].to \in Chain[g]

(* When no write is under way, each managed cgroup has its nearest managed *)
(* ancestor as effective parent, and the least limit on the way to the     *)
(* root as its bound.  Writes to nested cgroups that overlap are excepted: *)
(* their walks can pass a cgroup before it is in the map.                  *)
BoundsExact ==
    (~crossed /\ \A w \in Writer : wpc[w] = "idle") =>
        \A g \in managed \ {Root} :
           /\ eff_parent[g] = Nearest(Parent[g], managed)
           /\ nquota_ub[g] = Min({nquota[a] : a \in Chain[g] \cap managed})

=============================================================================
