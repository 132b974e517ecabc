---------------------------- MODULE MitosisDrain ----------------------------
(***************************************************************************)
(* scx_mitosis with LLC awareness: one subcell, its queues, and what keeps *)
(* a queue from being forgotten when a new configuration takes the last    *)
(* CPU of an LLC away from the subcell.                                    *)
(*                                                                         *)
(* The subcell has one queue (DSQ) per last-level cache.  A CPU of the     *)
(* subcell serves the queue of its own LLC.  apply_cell_config publishes   *)
(* the new CPUs while tasks are being queued; a queue whose LLC has no     *)
(* CPU left is marked in llcs_to_drain, and the CPUs of the other LLCs     *)
(* empty it.  Three parties work on the mark, the queue's counter and the  *)
(* set of LLCs with CPUs, without a lock: the writer, ops.enqueue and      *)
(* ops.dispatch.                                                           *)
(*                                                                         *)
(* Sources: scheds/rust/scx_mitosis/src/bpf/llc_aware.bpf.h, mitosis.bpf.c *)
(***************************************************************************)
EXTENDS Integers, FiniteSets

CONSTANTS
    Cpu, Llc, Task,
    LlcOf,          \* cpu_to_llc
    Affinity,       \* p->cpus_ptr
    Configs,        \* the sets of CPUs user space may give the subcell
    Starts,         \* those it may have at first
    None,           \* LLC_INVALID, DSQ_INVALID
    MaxConfigs,     \* bound: the number of the last configuration
    MaxEnqueues     \* bound: how many times tasks are enqueued

ASSUME TopologyAssumption ==
    /\ IsFiniteSet(Cpu) /\ IsFiniteSet(Task)
    /\ LlcOf \in [Cpu -> Llc]
    /\ Configs \subseteq (SUBSET Cpu) \ {{}}
    /\ Starts \subseteq Configs
    /\ MaxConfigs \in Nat /\ MaxEnqueues \in Nat

\* A task is allowed on all CPUs of an LLC or on none of them, and somewhere.
ASSUME AffinityAssumption ==
    /\ Affinity \in [Task -> (SUBSET Cpu) \ {{}}]
    /\ \A p \in Task : \A c, d \in Cpu :
           LlcOf[c] = LlcOf[d] => (c \in Affinity[p] <=> d \in Affinity[p])

VARIABLES
    members,        \* the CPUs whose cctx->cell, cctx->subcell name this subcell
    cell_cpus,      \* the published cpumask of the cell
    subcell_cpus,   \* the published cpumask of the subcell
    with_cpus,      \* subcell->llcs_with_cpus
    to_drain,       \* subcell->llcs_to_drain
    nr_queued,      \* subcell->llcs[l].nr_queued
    seq,            \* applied_configuration_seq
    apc,            \* where apply_cell_config is
    config,         \* the configuration it applies
    todo,           \* the LLCs it has yet to refresh
    mark,           \* the LLC it is about to mark, as a set
    tseq,           \* per task: tctx->configuration_seq
    tcpus,          \* per task: tctx->cpumask
    tall,           \* per task: tctx->all_cell_cpus_allowed
    llc,            \* per task: tctx->llc, while it is on the way to or in that queue
    dsq,            \* per task: the CPU whose queue it is in
    st,             \* per task: where it is
    left,           \* enqueues left
    pc,             \* per CPU: where ops.dispatch is
    cand,           \* per CPU: drain_mask, less what has been visited
    cur,            \* per CPU: candidate_llc, or the LLC a task was taken from
    off,            \* per CPU: disabled
    got             \* per CPU: consumed and continue_dispatch

confVars == <<members, cell_cpus, subcell_cpus, with_cpus, seq, apc, config, todo, mark>>
taskVars == <<tseq, tcpus, tall, llc, dsq, st, left>>
cpuVars == <<pc, cand, cur, off, got>>
vars == <<confVars, to_drain, nr_queued, taskVars, cpuVars>>

LlcsOf(cpus) == {LlcOf[c] : c \in cpus}

\* The tasks that a consumer finds in the queue of l.
Queue(l) == {p \in Task : st[p] = "queued" /\ llc[p] = l}

\* The tasks in the queue of the CPU c.
Pinned(c) == {p \in Task : st[p] = "pinned" /\ dsq[p] = c}

\* The tasks of the queue of l that c may run.
Eligible(c, l) == {p \in Queue(l) : c \in Affinity[p]}

\* The first configuration has been applied; every task was set up before.
Init ==
    /\ members \in Starts
    /\ cell_cpus = members
    /\ subcell_cpus = members
    /\ with_cpus = LlcsOf(members)
    /\ to_drain = {}
    /\ nr_queued = [l \in Llc |-> 0]
    /\ seq = 1
    /\ apc = "idle" /\ config = members /\ todo = {} /\ mark = {}
    /\ tseq = [p \in Task |-> 0]
    /\ tcpus = [p \in Task |-> members \cap Affinity[p]]
    /\ tall = [p \in Task |-> members \subseteq Affinity[p]]
    /\ llc = [p \in Task |-> None]
    /\ dsq = [p \in Task |-> None]
    /\ st = [p \in Task |-> "away"]
    /\ left = MaxEnqueues
    /\ pc = [c \in Cpu |-> "idle"]
    /\ cand = [c \in Cpu |-> {}]
    /\ cur = LlcOf
    /\ off = [c \in Cpu |-> FALSE]
    /\ got = [c \in Cpu |-> "none"]

-----------------------------------------------------------------------------
(* apply_cell_config, as far as it concerns this subcell *)

\* The cell's CPUs are mapped to it and its cpumask is published.  A CPU that
\* the cell loses is mapped to another cell, earlier or later than this step.
apply_configured_cell_cpumask ==
    /\ apc = "idle" /\ seq < MaxConfigs
    /\ \E new \in Configs : \E early \in SUBSET (members \ new) :
          /\ members' = (members \cup new) \ early
          /\ cell_cpus' = new
          /\ config' = new
    /\ apc' = "cell"
    /\ UNCHANGED <<subcell_cpus, with_cpus, seq, todo, mark, to_drain, nr_queued, taskVars, cpuVars>>

\* The subcell's cpumask is published.
apply_configured_cell_subcells ==
    /\ apc = "cell"
    /\ subcell_cpus' = config
    /\ apc' = "subcell"
    /\ UNCHANGED <<members, cell_cpus, with_cpus, seq, config, todo, mark, to_drain, nr_queued,
                   taskVars, cpuVars>>

\* refresh_subcell_llc_draining: llcs_with_cpus, from the published cpumask.
PublishLlcs ==
    /\ apc = "subcell"
    /\ with_cpus' = LlcsOf(subcell_cpus)
    /\ apc' = "llcs" /\ todo' = Llc
    /\ UNCHANGED <<members, cell_cpus, subcell_cpus, seq, config, mark, to_drain, nr_queued,
                   taskVars, cpuVars>>

\* refresh_subcell_llc_draining: one LLC, up to the test of its count.
RefreshLlc ==
    /\ apc = "llcs" /\ mark = {}
    /\ \E l \in todo :
          /\ todo' = todo \ {l}
          /\ to_drain' = IF l \in LlcsOf(config) THEN to_drain \ {l} ELSE to_drain
          /\ mark' = IF l \notin LlcsOf(config) /\ nr_queued[l] > 0 THEN {l} ELSE {}
    /\ UNCHANGED <<members, cell_cpus, subcell_cpus, with_cpus, seq, apc, config, nr_queued,
                   taskVars, cpuVars>>

\* refresh_subcell_llc_draining: subcell_llc_drain_enable.
MarkLlc ==
    /\ mark # {}
    /\ to_drain' = to_drain \cup mark
    /\ mark' = {}
    /\ UNCHANGED <<members, cell_cpus, subcell_cpus, with_cpus, seq, apc, config, todo, nr_queued,
                   taskVars, cpuVars>>

\* The other cells have their CPUs, and the sequence number is bumped last.
apply_cell_config ==
    /\ apc = "llcs" /\ todo = {} /\ mark = {}
    /\ members' = config
    /\ seq' = seq + 1
    /\ apc' = "idle"
    /\ UNCHANGED <<cell_cpus, subcell_cpus, with_cpus, config, todo, mark, to_drain, nr_queued,
                   taskVars, cpuVars>>

Apply ==
    \/ apply_configured_cell_subcells \/ PublishLlcs \/ RefreshLlc \/ MarkLlc
    \/ apply_cell_config

-----------------------------------------------------------------------------
(* ops.enqueue *)

\* A task that may not use all of the cell goes to the queue of a CPU it may use.
EnqueuePinned(p) ==
    /\ \E c \in Affinity[p] : dsq' = [dsq EXCEPT ![p] = c]
    /\ st' = [st EXCEPT ![p] = "pinned"]

\* Enqueue, and maybe_refresh_cell: up to the read of the sequence number.
mitosis_enqueue(p) ==
    /\ st[p] = "away" /\ left > 0
    /\ left' = left - 1
    /\ tseq' = [tseq EXCEPT ![p] = seq]
    /\ \/ tseq[p] # seq /\ st' = [st EXCEPT ![p] = "refresh"] /\ UNCHANGED dsq
       \/ tseq[p] = seq /\ tall[p] /\ st' = [st EXCEPT ![p] = "place"] /\ UNCHANGED dsq
       \/ tseq[p] = seq /\ ~tall[p] /\ EnqueuePinned(p)
    /\ UNCHANGED <<confVars, to_drain, nr_queued, tcpus, tall, llc, cpuVars>>

\* The rest of update_task_cell.  The cell may be allowed and the subcell have
\* no CPU for the task when the two cpumasks are of different configurations;
\* mitosis_enqueue then returns without an insert.
update_task_cpumask(p) ==
    /\ st[p] = "refresh"
    /\ tcpus' = [tcpus EXCEPT ![p] = subcell_cpus \cap Affinity[p]]
    /\ \/ /\ ~(cell_cpus \subseteq Affinity[p])
          /\ tall' = [tall EXCEPT ![p] = FALSE]
          /\ EnqueuePinned(p)
       \/ /\ cell_cpus \subseteq Affinity[p] /\ tcpus'[p] # {}
          /\ tall' = [tall EXCEPT ![p] = TRUE]
          /\ st' = [st EXCEPT ![p] = "place"]
          /\ UNCHANGED dsq
       \/ /\ cell_cpus \subseteq Affinity[p] /\ tcpus'[p] = {}
          /\ st' = [st EXCEPT ![p] = "dropped"]
          /\ UNCHANGED <<tall, dsq>>
    /\ UNCHANGED <<confVars, to_drain, nr_queued, tseq, llc, left, cpuVars>>

\* Mutant: the sequence number is read after the cpumasks.
CountInRestamps(p) ==
    /\ st[p] = "place"
    /\ \E l \in LlcsOf(tcpus[p]) :
          /\ llc' = [llc EXCEPT ![p] = l]
          /\ nr_queued' = [nr_queued EXCEPT ![l] = @ + 1]
    /\ st' = [st EXCEPT ![p] = "counted"]
    /\ tseq' = [tseq EXCEPT ![p] = seq]
    /\ UNCHANGED <<confVars, to_drain, tcpus, tall, dsq, left, cpuVars>>

\* maybe_update_task_llc, the insert into the queue of the LLC, and the count.
\* The insert takes effect when the callback has returned.
CountIn(p) ==
    /\ st[p] = "place"
    /\ \E l \in LlcsOf(tcpus[p]) :
          /\ llc' = [llc EXCEPT ![p] = l]
          /\ nr_queued' = [nr_queued EXCEPT ![l] = @ + 1]
    /\ st' = [st EXCEPT ![p] = "counted"]
    /\ UNCHANGED <<confVars, to_drain, tseq, tcpus, tall, dsq, left, cpuVars>>

\* account_subcell_llc_enqueue: subcell_llc_has_cpus.
TestLlc(p) ==
    /\ st[p] = "counted"
    /\ st' = [st EXCEPT ![p] = IF llc[p] \in with_cpus THEN "insert" ELSE "enable"]
    /\ UNCHANGED <<confVars, to_drain, nr_queued, tseq, tcpus, tall, llc, dsq, left, cpuVars>>

\* account_subcell_llc_enqueue: subcell_llc_drain_enable.
EnableDrain(p) ==
    /\ st[p] = "enable"
    /\ to_drain' = to_drain \cup {llc[p]}
    /\ st' = [st EXCEPT ![p] = "insert"]
    /\ UNCHANGED <<confVars, nr_queued, tseq, tcpus, tall, llc, dsq, left, cpuVars>>

\* The kernel commits the insert.
Insert(p) ==
    /\ st[p] = "insert"
    /\ st' = [st EXCEPT ![p] = "queued"]
    /\ UNCHANGED <<confVars, to_drain, nr_queued, tseq, tcpus, tall, llc, dsq, left, cpuVars>>

Enqueue(p) ==
    \/ update_task_cpumask(p) \/ CountIn(p) \/ TestLlc(p) \/ EnableDrain(p) \/ Insert(p)

-----------------------------------------------------------------------------
(* ops.dispatch *)

Goto(c, at) == pc' = [pc EXCEPT ![c] = at]

locals == <<cand, cur, off, got>>

\* c is done with a candidate, with outcome g and the candidates in rest to go:
\* what try_draining_work and its caller do next.
NextCandidate(c, g, rest) ==
    LET more == g = "none" /\ rest # {}
    IN  /\ Goto(c, IF more THEN "drain" ELSE IF g = "local" THEN "idle" ELSE "peek")
        /\ cand' = [cand EXCEPT ![c] = IF more THEN rest ELSE {}]
        /\ cur' = [cur EXCEPT ![c] = LlcOf[c]]
        /\ off' = [off EXCEPT ![c] = FALSE]
        /\ got' = [got EXCEPT ![c] = "none"]

\* p leaves its queue and runs, then sleeps.  Its next enqueue chooses a queue.
Run(p) ==
    /\ st' = [st EXCEPT ![p] = "away"]
    /\ llc' = [llc EXCEPT ![p] = None]
    /\ dsq' = [dsq EXCEPT ![p] = None]

\* The start of a dispatch: the mapping of the CPU and the mask to drain.
mitosis_dispatch(c) ==
    /\ pc[c] = "idle" /\ c \in members
    /\ NextCandidate(c, "none", to_drain \ {LlcOf[c]})
    /\ UNCHANGED <<confVars, to_drain, nr_queued, taskVars>>

\* A CPU of another cell: here, only its own queue matters.
DispatchElsewhere(c) ==
    /\ pc[c] = "idle" /\ c \notin members
    /\ \E p \in Pinned(c) : Run(p)
    /\ UNCHANGED <<confVars, to_drain, nr_queued, tseq, tcpus, tall, left, cpuVars>>

\* The next marked LLC, skipped when it has CPUs.
DrainVisit(c) ==
    /\ pc[c] = "drain"
    /\ \E l \in cand[c] :
          \/ l \in with_cpus /\ NextCandidate(c, "none", cand[c] \ {l})
          \/ /\ l \notin with_cpus
             /\ Goto(c, "count")
             /\ cand' = [cand EXCEPT ![c] = @ \ {l}]
             /\ cur' = [cur EXCEPT ![c] = l]
             /\ UNCHANGED <<off, got>>
    /\ UNCHANGED <<confVars, to_drain, nr_queued, taskVars>>

\* The read of nr_queued, which decides whether the mark is cleared first.
DrainCount(c) ==
    /\ pc[c] = "count"
    /\ \/ nr_queued[cur[c]] = 0 /\ Goto(c, "empty")
       \/ nr_queued[cur[c]] = 1 /\ Goto(c, "last")
       \/ nr_queued[cur[c]] > 1 /\ Goto(c, "move")
    /\ UNCHANGED <<confVars, to_drain, nr_queued, taskVars, locals>>

\* subcell_llc_drain_disable, when the queue is empty or about to be.
DrainDisable(c) ==
    /\ \/ pc[c] = "empty" /\ Goto(c, "recheck") /\ UNCHANGED off
       \/ pc[c] = "last" /\ Goto(c, "move") /\ off' = [off EXCEPT ![c] = TRUE]
    /\ to_drain' = to_drain \ {cur[c]}
    /\ UNCHANGED <<confVars, nr_queued, taskVars, cand, cur, got>>

\* Mutant: an empty queue is not looked at again after its mark was cleared.
DrainRecheckNever(c) ==
    /\ pc[c] = "recheck"
    /\ NextCandidate(c, "none", cand[c])
    /\ UNCHANGED <<confVars, to_drain, nr_queued, taskVars>>

\* The second read of nr_queued of an empty queue.
DrainRecheck(c) ==
    /\ pc[c] = "recheck"
    /\ IF nr_queued[cur[c]] > 0 THEN Goto(c, "enable") /\ UNCHANGED locals
                                ELSE NextCandidate(c, "none", cand[c])
    /\ UNCHANGED <<confVars, to_drain, nr_queued, taskVars>>

\* scx_bpf_dsq_move_to_local takes a task that c may run, if there is one.
DrainMove(c) ==
    /\ pc[c] = "move"
    /\ \/ /\ \E p \in Eligible(c, cur[c]) : Run(p)
          /\ got' = [got EXCEPT ![c] = "local"]
          /\ Goto(c, "settle")
       \/ /\ Eligible(c, cur[c]) = {}
          /\ Goto(c, "rescue")
          /\ UNCHANGED <<st, llc, dsq, got>>
    /\ UNCHANGED <<confVars, to_drain, nr_queued, tseq, tcpus, tall, left, cand, cur, off>>

\* Mutant: a head that c may not run is left in the queue.
DrainRescueNever(c) ==
    /\ pc[c] = "rescue"
    /\ Goto(c, "settle")
    /\ UNCHANGED <<confVars, to_drain, nr_queued, taskVars, locals>>

\* The head of the queue is moved to the queue of a CPU it may use.
DrainRescue(c) ==
    /\ pc[c] = "rescue"
    /\ Goto(c, "settle")
    /\ \/ /\ nr_queued[cur[c]] > 0
          /\ \E p \in Queue(cur[c]) :
                /\ EnqueuePinned(p)
                /\ tall' = [tall EXCEPT ![p] = FALSE]
                /\ llc' = [llc EXCEPT ![p] = None]
          /\ got' = [got EXCEPT ![c] = "remote"]
       \/ /\ nr_queued[cur[c]] = 0 \/ Queue(cur[c]) = {}
          /\ UNCHANGED <<st, dsq, tall, llc, got>>
    /\ UNCHANGED <<confVars, to_drain, nr_queued, tseq, tcpus, left, cand, cur, off>>

\* Mutant: a task moved to the queue of another CPU is not uncounted.
DrainSettleLocal(c) ==
    /\ pc[c] = "settle"
    /\ nr_queued' = [nr_queued EXCEPT ![cur[c]] = IF got[c] = "local" THEN @ - 1 ELSE @]
    /\ IF off[c] /\ nr_queued'[cur[c]] > 0
       THEN Goto(c, "enable") /\ UNCHANGED locals
       ELSE NextCandidate(c, got[c], cand[c])
    /\ UNCHANGED <<confVars, to_drain, taskVars>>

\* The count after the move; a mark cleared too early is set again.
DrainSettle(c) ==
    /\ pc[c] = "settle"
    /\ nr_queued' = [nr_queued EXCEPT ![cur[c]] = IF got[c] = "none" THEN @ ELSE @ - 1]
    /\ IF off[c] /\ nr_queued'[cur[c]] > 0
       THEN Goto(c, "enable") /\ UNCHANGED locals
       ELSE NextCandidate(c, got[c], cand[c])
    /\ UNCHANGED <<confVars, to_drain, taskVars>>

DrainEnable(c) ==
    /\ pc[c] = "enable"
    /\ to_drain' = to_drain \cup {cur[c]}
    /\ NextCandidate(c, got[c], cand[c])
    /\ UNCHANGED <<confVars, nr_queued, taskVars>>

\* A task of the queue of another LLC that has CPUs, or nothing to run.
try_stealing_work(c) ==
    LET From == {l \in with_cpus \ {LlcOf[c]} : Eligible(c, l) # {}}
    IN  \/ \E l \in From :
              /\ \E p \in Eligible(c, l) : Run(p)
              /\ cur' = [cur EXCEPT ![c] = l]
              /\ Goto(c, "uncount")
        \/ From = {} /\ Goto(c, "idle") /\ UNCHANGED <<st, llc, dsq, cur>>

\* Is there a task in the queue of c's LLC or of c itself?  If not, steal.
Peek(c) ==
    /\ pc[c] = "peek"
    /\ IF Queue(LlcOf[c]) \cup Pinned(c) # {}
       THEN Goto(c, "take") /\ UNCHANGED <<st, llc, dsq, cur>>
       ELSE try_stealing_work(c)
    /\ UNCHANGED <<confVars, to_drain, nr_queued, tseq, tcpus, tall, left, cand, off, got>>

\* A task of one of the two queues, or none when they are empty by now.
Take(c) ==
    /\ pc[c] = "take"
    /\ \/ (\E p \in Eligible(c, LlcOf[c]) : Run(p)) /\ Goto(c, "uncount")
       \/ (\E p \in Pinned(c) : Run(p)) /\ Goto(c, "idle")
       \/ /\ Eligible(c, LlcOf[c]) \cup Pinned(c) = {}
          /\ Goto(c, "idle")
          /\ UNCHANGED <<st, llc, dsq>>
    /\ UNCHANGED <<confVars, to_drain, nr_queued, tseq, tcpus, tall, left, locals>>

\* subcell_llc_nr_queued_dec after a normal dispatch or a steal.
Uncount(c) ==
    /\ pc[c] = "uncount"
    /\ nr_queued' = [nr_queued EXCEPT ![cur[c]] = @ - 1]
    /\ Goto(c, "idle")
    /\ cur' = [cur EXCEPT ![c] = LlcOf[c]]
    /\ UNCHANGED <<confVars, to_drain, taskVars, cand, off, got>>

Dispatch(c) ==
    \/ mitosis_dispatch(c) \/ DispatchElsewhere(c)
    \/ DrainVisit(c) \/ DrainCount(c) \/ DrainDisable(c) \/ DrainRecheck(c)
    \/ DrainMove(c) \/ DrainRescue(c) \/ DrainSettle(c) \/ DrainEnable(c)
    \/ Peek(c) \/ Take(c) \/ Uncount(c)

-----------------------------------------------------------------------------
Next ==
    \/ apply_configured_cell_cpumask \/ Apply
    \/ \E p \in Task : mitosis_enqueue(p) \/ Enqueue(p)
    \/ \E c \in Cpu : Dispatch(c)

\* A program that has started runs to its end, and every CPU keeps dispatching.
Fairness ==
    /\ WF_vars(Apply \/ \E p \in Task : Enqueue(p))
    /\ \A c \in Cpu : WF_vars(Dispatch(c))

Spec == Init /\ [][Next]_vars /\ Fairness

-----------------------------------------------------------------------------
TypeOK ==
    /\ members \subseteq Cpu /\ cell_cpus \subseteq Cpu
    /\ subcell_cpus \subseteq Cpu /\ config \subseteq Cpu
    /\ with_cpus \subseteq Llc /\ to_drain \subseteq Llc
    /\ todo \subseteq Llc /\ mark \subseteq Llc
    /\ nr_queued \in [Llc -> Int]
    /\ seq \in Nat
    /\ apc \in {"idle", "cell", "subcell", "llcs"}
    /\ tseq \in [Task -> Nat]
    /\ tcpus \in [Task -> SUBSET Cpu]
    /\ tall \in [Task -> BOOLEAN]
    /\ llc \in [Task -> Llc \cup {None}]
    /\ dsq \in [Task -> Cpu \cup {None}]
    /\ st \in [Task -> {"away", "refresh", "place", "counted", "enable", "insert",
                        "queued", "pinned", "dropped"}]
    /\ left \in Nat
    /\ pc \in [Cpu -> {"idle", "drain", "count", "empty", "last", "recheck", "move", "rescue",
                       "settle", "enable", "peek", "take", "uncount"}]
    /\ cand \in [Cpu -> SUBSET Llc]
    /\ cur \in [Cpu -> Llc]
    /\ off \in [Cpu -> BOOLEAN]
    /\ got \in [Cpu -> {"none", "local", "remote"}]

\* The tasks of l that are counted and not yet uncounted.
Counted(l) == {p \in Task : llc[p] = l /\ st[p] \in {"counted", "enable", "insert", "queued"}}

\* c has taken a task out of a queue and has not uncounted it.
Taken(c) == pc[c] = "uncount" \/ (pc[c] = "settle" /\ got[c] # "none")

\* The CPUs that have taken a task of l and have not uncounted it.
Uncounting(l) == {c \in Cpu : cur[c] = l /\ Taken(c)}

\* nr_queued, which the code keeps beside the kernel's own count, is never less
\* than what is in the queue: it counts exactly the tasks between the enqueue
\* and the dispatch that accounts for them (llc_aware.bpf.h:156-161).
CountExact ==
    \A l \in Llc : nr_queued[l] = Cardinality(Counted(l)) + Cardinality(Uncounting(l))

\* The party that may still set or is about to test the mark of l.
Settling(l) ==
    \/ apc # "idle"
    \/ \E p \in Task : llc[p] = l /\ st[p] \in {"counted", "enable"}
    \/ \E c \in Cpu : cur[c] = l /\ pc[c] \in {"recheck", "move", "rescue", "settle", "enable"}

\* A queue of an LLC without CPUs that holds a task is marked for draining,
\* unless someone is on the way to set the mark: the interlock between
\* refresh_subcell_llc_draining, account_subcell_llc_enqueue and
\* try_draining_work (llc_aware.bpf.h:253-259, 305-311, 390-396, 404-410).
OrphansMarked ==
    \A l \in Llc \ with_cpus : Queue(l) # {} /\ ~Settling(l) => l \in to_drain

\* A task left in, or racing into, a queue whose LLC has no CPU has an old
\* sequence number once the configuration is applied, so that its next enqueue
\* places it afresh (llc_aware.bpf.h:418-425, mitosis.bpf.c:522-527).
OrphansStale ==
    apc = "idle" =>
        \A p \in Task : st[p] = "queued" /\ llc[p] \notin with_cpus => tseq[p] # seq

\* A task that was put in a queue runs, whatever is configured meanwhile.
QueuedTaskRuns ==
    \A p \in Task : st[p] \in {"queued", "pinned"} ~> st[p] = "away"
=============================================================================
