------------------------- MODULE MitosisDrainProofs -------------------------
(***************************************************************************)
(* The inductive invariant of MitosisDrain and its preservation: what the  *)
(* writer has published, the placement of tasks, the position of each CPU, *)
(* and the interlock, by which every step keeps the mark of a queue whose  *)
(* LLC has no CPU or leaves someone who will set it.  Then the counts, and *)
(* the theorems, for every finite set of CPUs and tasks, every set of      *)
(* LLCs, every affinity and every sequence of configurations.              *)
(***************************************************************************)
EXTENDS MitosisDrain, TLAPS, FiniteSetTheorems

\* c will look at the count of cur[c], or set its mark.
WillMark(c) ==
    pc[c] \in {"recheck", "enable"} \/ (pc[c] \in {"move", "rescue", "settle"} /\ off[c])

\* Someone will look at the count of l, or set its mark, before they finish.
Pending(l) ==
    \/ l \in todo \cup mark
    \/ \E p \in Task : llc[p] = l /\ st[p] \in {"counted", "enable"}
    \/ \E c \in Cpu : cur[c] = l /\ WillMark(c)

\* A counted task of an LLC without CPUs is marked or about to be.
Marks == \A l \in Llc : l \notin with_cpus /\ nr_queued[l] > 0 => l \in to_drain \/ Pending(l)

\* What the writer has published, by where it is.
Published ==
    /\ todo \cup mark # {} => apc = "llcs"
    /\ apc = "subcell" => subcell_cpus = config
    /\ apc = "llcs" => subcell_cpus = config /\ with_cpus = LlcsOf(config)
    /\ apc \in {"idle", "cell"} => with_cpus = LlcsOf(subcell_cpus)

\* A task with the current sequence number was placed by the current cpumask,
\* until a new one is published.
Placed ==
    \A p \in Task :
        /\ tseq[p] <= seq
        /\ tseq[p] = seq /\ st[p] # "refresh" /\ apc \in {"idle", "cell"}
              => tcpus[p] \subseteq subcell_cpus
        /\ st[p] \in {"counted", "enable", "insert", "queued"} => llc[p] \in LlcsOf(tcpus[p])

\* What a CPU remembers of a candidate, by where it is.
Outcomes ==
    \A c \in Cpu :
        /\ pc[c] \notin {"settle", "enable"} => got[c] = "none"
        /\ pc[c] \in {"idle", "drain", "peek", "take"} => cur[c] = LlcOf[c]

IInv == TypeOK /\ Published /\ Marks /\ Placed /\ Outcomes

-----------------------------------------------------------------------------
\* The parts of the assumptions that most steps need.
LEMMA Types ==
  /\ LlcOf \in [Cpu -> Llc]
  /\ Affinity \in [Task -> SUBSET Cpu]
BY Zenon, TopologyAssumption, AffinityAssumption

\* The LLCs of a set of CPUs are LLCs.
LEMMA LlcsType == ASSUME NEW cpus \in SUBSET Cpu PROVE LlcsOf(cpus) \subseteq Llc
BY Zenon, TopologyAssumption DEF LlcsOf

\* The types of what a CPU keeps during a dispatch.
CpuTypes ==
    /\ pc \in [Cpu -> {"idle", "drain", "count", "empty", "last", "recheck", "move", "rescue",
                       "settle", "enable", "peek", "take", "uncount"}]
    /\ cand \in [Cpu -> SUBSET Llc]
    /\ cur \in [Cpu -> Llc]
    /\ off \in [Cpu -> BOOLEAN]
    /\ got \in [Cpu -> {"none", "local", "remote"}]

\* Going on to the next candidate keeps the types of a CPU's locals.
LEMMA NextCandidateTypes ==
  ASSUME CpuTypes, NEW c \in Cpu, NEW g, NEW rest \in SUBSET Llc, NextCandidate(c, g, rest)
  PROVE  CpuTypes'
BY Zenon, Types DEF CpuTypes, NextCandidate, Goto

\* The types of where a task is.
TaskTypes ==
    /\ dsq \in [Task -> Cpu \cup {None}]
    /\ st \in [Task -> {"away", "refresh", "place", "counted", "enable", "insert",
                        "queued", "pinned", "dropped"}]

\* Putting a task into the queue of a CPU keeps these types.
LEMMA PinnedTypes ==
  ASSUME TaskTypes, NEW p \in Task, EnqueuePinned(p)
  PROVE  TaskTypes'
<1>1. PICK c \in Affinity[p] : dsq' = [dsq EXCEPT ![p] = c]
  BY Zenon DEF EnqueuePinned
<1>2. c \in Cpu
  BY Types
<1> QED
  BY Zenon, <1>1, <1>2 DEF EnqueuePinned, TaskTypes

\* Every step keeps the types.
LEMMA TypeStep ==
  ASSUME TypeOK, Placed, [Next]_vars
  PROVE  TypeOK'
<1> USE DEF TypeOK, confVars, taskVars, cpuVars, locals
<1>1. ASSUME apply_configured_cell_cpumask PROVE TypeOK'
  BY <1>1, TopologyAssumption DEF apply_configured_cell_cpumask
<1>2. ASSUME apply_configured_cell_subcells PROVE TypeOK'
  BY Zenon, <1>2 DEF apply_configured_cell_subcells
<1>3. ASSUME PublishLlcs PROVE TypeOK'
  BY Zenon, <1>3, LlcsType DEF PublishLlcs
<1>4. ASSUME RefreshLlc PROVE TypeOK'
  BY Zenon, <1>4 DEF RefreshLlc
<1>5. ASSUME MarkLlc PROVE TypeOK'
  BY Zenon, <1>5 DEF MarkLlc
<1>6. ASSUME apply_cell_config PROVE TypeOK'
  BY <1>6 DEF apply_cell_config
<1>7. ASSUME NEW p \in Task, mitosis_enqueue(p) PROVE TypeOK'
  <2>1. tseq' \in [Task -> Nat] /\ left' \in Nat
    BY <1>7 DEF mitosis_enqueue
  <2>2. TaskTypes'
    <3>1. CASE EnqueuePinned(p)
      BY Zenon, <3>1, PinnedTypes DEF TaskTypes
    <3>2. CASE ~EnqueuePinned(p)
      BY Zenon, <1>7, <3>2 DEF mitosis_enqueue, TaskTypes
    <3> QED
      BY Zenon, <3>1, <3>2
  <2> QED
    BY Zenon, <1>7, <2>1, <2>2 DEF mitosis_enqueue, TaskTypes
<1>8. ASSUME NEW p \in Task, update_task_cpumask(p) PROVE TypeOK'
  <2>1. tcpus' \in [Task -> SUBSET Cpu]
    BY Zenon, <1>8 DEF update_task_cpumask
  <2>2. tall' \in [Task -> BOOLEAN]
    BY Zenon, <1>8 DEF update_task_cpumask
  <2>3. TaskTypes'
    <3>1. CASE EnqueuePinned(p)
      BY Zenon, <3>1, PinnedTypes DEF TaskTypes
    <3>2. CASE ~EnqueuePinned(p)
      BY Zenon, <1>8, <3>2 DEF update_task_cpumask, TaskTypes
    <3> QED
      BY Zenon, <3>1, <3>2
  <2> QED
    BY Zenon, <1>8, <2>1, <2>2, <2>3 DEF update_task_cpumask, TaskTypes
<1>9. ASSUME NEW p \in Task, CountIn(p) PROVE TypeOK'
  BY <1>9, LlcsType DEF CountIn
<1>10. ASSUME NEW p \in Task, TestLlc(p) PROVE TypeOK'
  BY Zenon, <1>10 DEF TestLlc
<1>11. ASSUME NEW p \in Task, EnableDrain(p) PROVE TypeOK'
  BY Zenon, <1>11, LlcsType DEF EnableDrain, Placed
<1>12. ASSUME NEW p \in Task, Insert(p) PROVE TypeOK'
  BY Zenon, <1>12 DEF Insert
<1>13. ASSUME NEW c \in Cpu, mitosis_dispatch(c) PROVE TypeOK'
  BY Zenon, <1>13, Types DEF mitosis_dispatch, NextCandidate, Goto
<1>14. ASSUME NEW c \in Cpu, DispatchElsewhere(c) PROVE TypeOK'
  BY Zenon, <1>14, Types DEF DispatchElsewhere, Run, Pinned
<1>15. ASSUME NEW c \in Cpu, DrainVisit(c) PROVE TypeOK'
  <2>1. CpuTypes
    BY Zenon DEF CpuTypes
  <2>2. CpuTypes'
    <3>1. PICK l \in cand[c] :
             \/ l \in with_cpus /\ NextCandidate(c, "none", cand[c] \ {l})
             \/ /\ l \notin with_cpus
                /\ Goto(c, "count")
                /\ cand' = [cand EXCEPT ![c] = @ \ {l}]
                /\ cur' = [cur EXCEPT ![c] = l]
                /\ UNCHANGED <<off, got>>
      BY Zenon, <1>15 DEF DrainVisit
    <3>2. CASE NextCandidate(c, "none", cand[c] \ {l})
      BY <3>2, <2>1, NextCandidateTypes
    <3>3. CASE Goto(c, "count") /\ cand' = [cand EXCEPT ![c] = @ \ {l}]
               /\ cur' = [cur EXCEPT ![c] = l] /\ UNCHANGED <<off, got>>
      BY Zenon, <3>3 DEF CpuTypes, Goto
    <3> QED
      BY Zenon, <3>1, <3>2, <3>3
  <2> QED
    BY Zenon, <1>15, <2>2 DEF DrainVisit, CpuTypes
<1>16. ASSUME NEW c \in Cpu, DrainCount(c) PROVE TypeOK'
  BY Zenon, <1>16 DEF DrainCount, Goto
<1>17. ASSUME NEW c \in Cpu, DrainDisable(c) PROVE TypeOK'
  <2>1. CASE pc[c] = "empty"
    BY Zenon, <1>17, <2>1 DEF DrainDisable, Goto
  <2>2. CASE pc[c] = "last"
    <3>1. off' \in [Cpu -> BOOLEAN]
      BY Zenon, <1>17, <2>2 DEF DrainDisable
    <3> QED
      BY Zenon, <1>17, <2>2, <3>1 DEF DrainDisable, Goto
  <2> QED
    BY Zenon, <1>17, <2>1, <2>2 DEF DrainDisable
<1>18. ASSUME NEW c \in Cpu, DrainRecheck(c) PROVE TypeOK'
  <2>1. CpuTypes
    BY Zenon DEF CpuTypes
  <2>2. CASE NextCandidate(c, "none", cand[c])
    <3>1. CpuTypes'
      BY <2>1, <2>2, NextCandidateTypes
    <3> QED
      BY Zenon, <1>18, <3>1 DEF DrainRecheck, CpuTypes
  <2>3. CASE Goto(c, "enable") /\ UNCHANGED locals
    BY Zenon, <1>18, <2>3 DEF DrainRecheck, Goto
  <2> QED
    BY Zenon, <1>18, <2>2, <2>3 DEF DrainRecheck
<1>19. ASSUME NEW c \in Cpu, DrainMove(c) PROVE TypeOK'
  <2>1. CpuTypes'
    BY <1>19 DEF DrainMove, Goto, CpuTypes
  <2>2. TaskTypes' /\ llc' \in [Task -> Llc \cup {None}]
    BY SMTT(30), <1>19 DEF DrainMove, Run, Eligible, Queue, TaskTypes
  <2> QED
    BY Zenon, <1>19, <2>1, <2>2 DEF DrainMove, CpuTypes, TaskTypes
<1>20. ASSUME NEW c \in Cpu, DrainRescue(c) PROVE TypeOK'
  <2>1. TaskTypes' /\ llc' \in [Task -> Llc \cup {None}]
    <3>1. CASE UNCHANGED <<st, dsq, llc>>
      BY Zenon, <3>1 DEF TaskTypes
    <3>2. ASSUME NEW p \in Task, EnqueuePinned(p), llc' = [llc EXCEPT ![p] = None]
          PROVE  TaskTypes' /\ llc' \in [Task -> Llc \cup {None}]
      BY Zenon, <3>2, PinnedTypes DEF TaskTypes
    <3> QED
      BY Zenon, <1>20, <3>1, <3>2 DEF DrainRescue, Queue
  <2>2. tall' \in [Task -> BOOLEAN]
    BY Zenon, <1>20 DEF DrainRescue, Queue
  <2>3. /\ pc' \in [Cpu -> {"idle", "drain", "count", "empty", "last", "recheck", "move",
                            "rescue", "settle", "enable", "peek", "take", "uncount"}]
        /\ got' \in [Cpu -> {"none", "local", "remote"}]
    BY Zenon, <1>20 DEF DrainRescue, Goto
  <2> QED
    BY Zenon, <1>20, <2>1, <2>2, <2>3 DEF DrainRescue, TaskTypes
<1>21. ASSUME NEW c \in Cpu, DrainSettle(c) PROVE TypeOK'
  <2>0. nr_queued' \in [Llc -> Int]
    BY <1>21 DEF DrainSettle
  <2>1. CpuTypes
    BY Zenon DEF CpuTypes
  <2>2. CASE NextCandidate(c, got[c], cand[c])
    <3>1. CpuTypes'
      BY <2>1, <2>2, NextCandidateTypes
    <3> QED
      BY Zenon, <1>21, <2>0, <3>1 DEF DrainSettle, CpuTypes
  <2>3. CASE Goto(c, "enable") /\ UNCHANGED locals
    BY Zenon, <1>21, <2>0, <2>3 DEF DrainSettle, Goto
  <2> QED
    BY Zenon, <1>21, <2>2, <2>3 DEF DrainSettle
<1>22. ASSUME NEW c \in Cpu, DrainEnable(c) PROVE TypeOK'
  BY Zenon, <1>22, Types DEF DrainEnable, NextCandidate, Goto
<1>23. ASSUME NEW c \in Cpu, Peek(c) PROVE TypeOK'
  <2>1. CASE Queue(LlcOf[c]) \cup Pinned(c) # {}
    BY Zenon, <1>23, <2>1 DEF Peek, Goto
  <2>2. CASE Queue(LlcOf[c]) \cup Pinned(c) = {}
    <3>1. try_stealing_work(c)
      BY Zenon, <1>23, <2>2 DEF Peek
    <3>2. CASE Goto(c, "idle") /\ UNCHANGED <<st, llc, dsq, cur>>
      BY Zenon, <1>23, <3>2 DEF Peek, Goto
    <3>3. ASSUME NEW l \in with_cpus, NEW p \in Task, Run(p),
                 cur' = [cur EXCEPT ![c] = l], Goto(c, "uncount")
          PROVE  TypeOK'
      BY Zenon, <1>23, <3>3 DEF Peek, Run, Goto
    <3> QED
      BY Zenon, <3>1, <3>2, <3>3 DEF try_stealing_work, Eligible, Queue
  <2> QED
    BY Zenon, <2>1, <2>2
<1>24. ASSUME NEW c \in Cpu, Take(c) PROVE TypeOK'
  BY SMTT(30), <1>24, Types DEF Take, Run, Goto, Eligible, Queue, Pinned
<1>25. ASSUME NEW c \in Cpu, Uncount(c) PROVE TypeOK'
  <2>1. nr_queued' \in [Llc -> Int]
    BY <1>25 DEF Uncount
  <2> QED
    BY Zenon, <1>25, <2>1, Types DEF Uncount, Goto
<1>26. ASSUME UNCHANGED vars PROVE TypeOK'
  BY Zenon, <1>26 DEF vars
<1> QED
  BY Zenon, <1>1, <1>2, <1>3, <1>4, <1>5, <1>6, <1>7, <1>8, <1>9, <1>10, <1>11, <1>12, <1>13,
     <1>14, <1>15, <1>16, <1>17, <1>18, <1>19, <1>20, <1>21, <1>22, <1>23, <1>24, <1>25,
     <1>26
     DEF Next, Apply, Enqueue, Dispatch

\* Every step keeps what the writer has published.
LEMMA PublishedStep ==
  ASSUME TypeOK, Published, [Next]_vars
  PROVE  Published'
<1> USE DEF Published, confVars, taskVars, cpuVars, locals
<1>1. ASSUME apply_configured_cell_cpumask PROVE Published'
  BY Zenon, <1>1 DEF apply_configured_cell_cpumask
<1>2. ASSUME apply_configured_cell_subcells PROVE Published'
  BY Zenon, <1>2 DEF apply_configured_cell_subcells
<1>3. ASSUME PublishLlcs PROVE Published'
  BY Zenon, <1>3 DEF PublishLlcs
<1>4. ASSUME RefreshLlc PROVE Published'
  BY Zenon, <1>4 DEF RefreshLlc
<1>5. ASSUME MarkLlc PROVE Published'
  BY Zenon, <1>5 DEF MarkLlc
<1>6. ASSUME apply_cell_config PROVE Published'
  BY Zenon, <1>6 DEF apply_cell_config
<1>7. ASSUME NEW p \in Task, mitosis_enqueue(p) PROVE Published'
  BY Zenon, <1>7 DEF mitosis_enqueue, EnqueuePinned
<1>8. ASSUME NEW p \in Task, update_task_cpumask(p) PROVE Published'
  BY Zenon, <1>8 DEF update_task_cpumask, EnqueuePinned
<1>9. ASSUME NEW p \in Task, CountIn(p) PROVE Published'
  BY Zenon, <1>9 DEF CountIn
<1>10. ASSUME NEW p \in Task, TestLlc(p) PROVE Published'
  BY Zenon, <1>10 DEF TestLlc
<1>11. ASSUME NEW p \in Task, EnableDrain(p) PROVE Published'
  BY Zenon, <1>11 DEF EnableDrain
<1>12. ASSUME NEW p \in Task, Insert(p) PROVE Published'
  BY Zenon, <1>12 DEF Insert
<1>13. ASSUME NEW c \in Cpu, mitosis_dispatch(c) PROVE Published'
  BY Zenon, <1>13 DEF mitosis_dispatch, NextCandidate, Goto
<1>14. ASSUME NEW c \in Cpu, DispatchElsewhere(c) PROVE Published'
  BY Zenon, <1>14 DEF DispatchElsewhere, Run, Pinned
<1>15. ASSUME NEW c \in Cpu, DrainVisit(c) PROVE Published'
  BY Zenon, <1>15 DEF DrainVisit, NextCandidate, Goto
<1>16. ASSUME NEW c \in Cpu, DrainCount(c) PROVE Published'
  BY Zenon, <1>16 DEF DrainCount, Goto
<1>17. ASSUME NEW c \in Cpu, DrainDisable(c) PROVE Published'
  BY Zenon, <1>17 DEF DrainDisable, Goto
<1>18. ASSUME NEW c \in Cpu, DrainRecheck(c) PROVE Published'
  BY Zenon, <1>18 DEF DrainRecheck, NextCandidate, Goto
<1>19. ASSUME NEW c \in Cpu, DrainMove(c) PROVE Published'
  BY Zenon, <1>19 DEF DrainMove, Run, Goto, Eligible, Queue
<1>20. ASSUME NEW c \in Cpu, DrainRescue(c) PROVE Published'
  BY Zenon, <1>20 DEF DrainRescue, EnqueuePinned, Goto, Queue
<1>21. ASSUME NEW c \in Cpu, DrainSettle(c) PROVE Published'
  BY Zenon, <1>21 DEF DrainSettle, NextCandidate, Goto
<1>22. ASSUME NEW c \in Cpu, DrainEnable(c) PROVE Published'
  BY Zenon, <1>22 DEF DrainEnable, NextCandidate, Goto
<1>23. ASSUME NEW c \in Cpu, Peek(c) PROVE Published'
  BY Zenon, <1>23 DEF Peek, try_stealing_work, Run, Goto, Eligible, Queue
<1>24. ASSUME NEW c \in Cpu, Take(c) PROVE Published'
  BY Zenon, <1>24 DEF Take, Run, Goto, Eligible, Queue, Pinned
<1>25. ASSUME NEW c \in Cpu, Uncount(c) PROVE Published'
  BY <1>25 DEF Uncount, Goto
<1>26. ASSUME UNCHANGED vars PROVE Published'
  BY <1>26 DEF vars
<1> QED
  BY Zenon, <1>1, <1>2, <1>3, <1>4, <1>5, <1>6, <1>7, <1>8, <1>9, <1>10, <1>11, <1>12, <1>13,
     <1>14, <1>15, <1>16, <1>17, <1>18, <1>19, <1>20, <1>21, <1>22, <1>23, <1>24, <1>25,
     <1>26
     DEF Next, Apply, Enqueue, Dispatch

\* Every step keeps the placement of tasks with the current number.
LEMMA PlacedStep ==
  ASSUME TypeOK, Published, Placed, [Next]_vars
  PROVE  Placed'
<1> USE DEF TypeOK, Placed, confVars, taskVars, cpuVars, locals
<1>1. ASSUME apply_configured_cell_cpumask PROVE Placed'
  BY Zenon, <1>1 DEF apply_configured_cell_cpumask
<1>2. ASSUME apply_configured_cell_subcells PROVE Placed'
  BY Zenon, <1>2 DEF apply_configured_cell_subcells, Published
<1>3. ASSUME PublishLlcs PROVE Placed'
  BY Zenon, <1>3 DEF PublishLlcs
<1>4. ASSUME RefreshLlc PROVE Placed'
  BY Zenon, <1>4 DEF RefreshLlc
<1>5. ASSUME MarkLlc PROVE Placed'
  BY Zenon, <1>5 DEF MarkLlc
<1>6. ASSUME apply_cell_config PROVE Placed'
  BY <1>6 DEF apply_cell_config, Published
<1>7. ASSUME NEW p \in Task, mitosis_enqueue(p) PROVE Placed'
  BY <1>7 DEF mitosis_enqueue, EnqueuePinned
<1>8. ASSUME NEW p \in Task, update_task_cpumask(p) PROVE Placed'
  BY <1>8 DEF update_task_cpumask, EnqueuePinned
<1>9. ASSUME NEW p \in Task, CountIn(p) PROVE Placed'
  BY <1>9 DEF CountIn
<1>10. ASSUME NEW p \in Task, TestLlc(p) PROVE Placed'
  BY Zenon, <1>10 DEF TestLlc
<1>11. ASSUME NEW p \in Task, EnableDrain(p) PROVE Placed'
  BY Zenon, <1>11 DEF EnableDrain
<1>12. ASSUME NEW p \in Task, Insert(p) PROVE Placed'
  BY Zenon, <1>12 DEF Insert
<1>13. ASSUME NEW c \in Cpu, mitosis_dispatch(c) PROVE Placed'
  BY Zenon, <1>13 DEF mitosis_dispatch, NextCandidate, Goto
<1>14. ASSUME NEW c \in Cpu, DispatchElsewhere(c) PROVE Placed'
  BY <1>14 DEF DispatchElsewhere, Run, Pinned
<1>15. ASSUME NEW c \in Cpu, DrainVisit(c) PROVE Placed'
  BY Zenon, <1>15 DEF DrainVisit, NextCandidate, Goto
<1>16. ASSUME NEW c \in Cpu, DrainCount(c) PROVE Placed'
  BY Zenon, <1>16 DEF DrainCount, Goto
<1>17. ASSUME NEW c \in Cpu, DrainDisable(c) PROVE Placed'
  BY Zenon, <1>17 DEF DrainDisable, Goto
<1>18. ASSUME NEW c \in Cpu, DrainRecheck(c) PROVE Placed'
  BY Zenon, <1>18 DEF DrainRecheck, NextCandidate, Goto
<1>19. ASSUME NEW c \in Cpu, DrainMove(c) PROVE Placed'
  BY <1>19 DEF DrainMove, Run, Goto, Eligible, Queue
<1>20. ASSUME NEW c \in Cpu, DrainRescue(c) PROVE Placed'
  BY SMTT(30), <1>20 DEF DrainRescue, EnqueuePinned, Goto, Queue
<1>21. ASSUME NEW c \in Cpu, DrainSettle(c) PROVE Placed'
  BY Zenon, <1>21 DEF DrainSettle, NextCandidate, Goto
<1>22. ASSUME NEW c \in Cpu, DrainEnable(c) PROVE Placed'
  BY Zenon, <1>22 DEF DrainEnable, NextCandidate, Goto
<1>23. ASSUME NEW c \in Cpu, Peek(c) PROVE Placed'
  BY <1>23 DEF Peek, try_stealing_work, Run, Goto, Eligible, Queue
<1>24. ASSUME NEW c \in Cpu, Take(c) PROVE Placed'
  BY <1>24 DEF Take, Run, Goto, Eligible, Queue, Pinned
<1>25. ASSUME NEW c \in Cpu, Uncount(c) PROVE Placed'
  BY Zenon, <1>25 DEF Uncount, Goto
<1>26. ASSUME UNCHANGED vars PROVE Placed'
  BY Zenon, <1>26 DEF vars
<1> QED
  BY Zenon, <1>1, <1>2, <1>3, <1>4, <1>5, <1>6, <1>7, <1>8, <1>9, <1>10, <1>11, <1>12, <1>13,
     <1>14, <1>15, <1>16, <1>17, <1>18, <1>19, <1>20, <1>21, <1>22, <1>23, <1>24, <1>25,
     <1>26
     DEF Next, Apply, Enqueue, Dispatch

\* Every step keeps what CPUs remember.
LEMMA OutcomesStep ==
  ASSUME TypeOK, Outcomes, [Next]_vars
  PROVE  Outcomes'
<1> USE DEF TypeOK, Outcomes, confVars, taskVars, cpuVars, locals
<1>1. ASSUME apply_configured_cell_cpumask PROVE Outcomes'
  BY Zenon, <1>1 DEF apply_configured_cell_cpumask
<1>2. ASSUME apply_configured_cell_subcells PROVE Outcomes'
  BY Zenon, <1>2 DEF apply_configured_cell_subcells
<1>3. ASSUME PublishLlcs PROVE Outcomes'
  BY Zenon, <1>3 DEF PublishLlcs
<1>4. ASSUME RefreshLlc PROVE Outcomes'
  BY Zenon, <1>4 DEF RefreshLlc
<1>5. ASSUME MarkLlc PROVE Outcomes'
  BY Zenon, <1>5 DEF MarkLlc
<1>6. ASSUME apply_cell_config PROVE Outcomes'
  BY Zenon, <1>6 DEF apply_cell_config
<1>7. ASSUME NEW p \in Task, mitosis_enqueue(p) PROVE Outcomes'
  BY Zenon, <1>7 DEF mitosis_enqueue, EnqueuePinned
<1>8. ASSUME NEW p \in Task, update_task_cpumask(p) PROVE Outcomes'
  BY Zenon, <1>8 DEF update_task_cpumask, EnqueuePinned
<1>9. ASSUME NEW p \in Task, CountIn(p) PROVE Outcomes'
  BY Zenon, <1>9 DEF CountIn
<1>10. ASSUME NEW p \in Task, TestLlc(p) PROVE Outcomes'
  BY Zenon, <1>10 DEF TestLlc
<1>11. ASSUME NEW p \in Task, EnableDrain(p) PROVE Outcomes'
  BY Zenon, <1>11 DEF EnableDrain
<1>12. ASSUME NEW p \in Task, Insert(p) PROVE Outcomes'
  BY Zenon, <1>12 DEF Insert
<1>13. ASSUME NEW c \in Cpu, mitosis_dispatch(c) PROVE Outcomes'
  BY <1>13, Types DEF mitosis_dispatch, NextCandidate, Goto
<1>14. ASSUME NEW c \in Cpu, DispatchElsewhere(c) PROVE Outcomes'
  BY Zenon, <1>14, Types DEF DispatchElsewhere, Run, Pinned
<1>15. ASSUME NEW c \in Cpu, DrainVisit(c) PROVE Outcomes'
  BY <1>15, Types DEF DrainVisit, NextCandidate, Goto
<1>16. ASSUME NEW c \in Cpu, DrainCount(c) PROVE Outcomes'
  BY <1>16, Types DEF DrainCount, Goto
<1>17. ASSUME NEW c \in Cpu, DrainDisable(c) PROVE Outcomes'
  BY <1>17, Types DEF DrainDisable, Goto
<1>18. ASSUME NEW c \in Cpu, DrainRecheck(c) PROVE Outcomes'
  BY <1>18, Types DEF DrainRecheck, NextCandidate, Goto
<1>19. ASSUME NEW c \in Cpu, DrainMove(c) PROVE Outcomes'
  BY <1>19, Types DEF DrainMove, Run, Goto, Eligible, Queue
<1>20. ASSUME NEW c \in Cpu, DrainRescue(c) PROVE Outcomes'
  BY <1>20, Types DEF DrainRescue, EnqueuePinned, Goto, Queue
<1>21. ASSUME NEW c \in Cpu, DrainSettle(c) PROVE Outcomes'
  BY <1>21, Types DEF DrainSettle, NextCandidate, Goto
<1>22. ASSUME NEW c \in Cpu, DrainEnable(c) PROVE Outcomes'
  BY <1>22, Types DEF DrainEnable, NextCandidate, Goto
<1>23. ASSUME NEW c \in Cpu, Peek(c) PROVE Outcomes'
  BY <1>23, Types DEF Peek, try_stealing_work, Run, Goto, Eligible, Queue
<1>24. ASSUME NEW c \in Cpu, Take(c) PROVE Outcomes'
  BY <1>24, Types DEF Take, Run, Goto, Eligible, Queue, Pinned
<1>25. ASSUME NEW c \in Cpu, Uncount(c) PROVE Outcomes'
  BY <1>25, Types DEF Uncount, Goto
<1>26. ASSUME UNCHANGED vars PROVE Outcomes'
  BY Zenon, <1>26 DEF vars
<1> QED
  BY Zenon, <1>1, <1>2, <1>3, <1>4, <1>5, <1>6, <1>7, <1>8, <1>9, <1>10, <1>11, <1>12, <1>13,
     <1>14, <1>15, <1>16, <1>17, <1>18, <1>19, <1>20, <1>21, <1>22, <1>23, <1>24, <1>25,
     <1>26
     DEF Next, Apply, Enqueue, Dispatch

-----------------------------------------------------------------------------
(* What a dispatch leaves alone *)

\* The types of a CPU's locals and of the tasks, from the type invariant.
LEMMA Parts ==
  ASSUME TypeOK
  PROVE  CpuTypes /\ TaskTypes /\ llc \in [Task -> Llc \cup {None}]
BY Zenon DEF TypeOK, CpuTypes, TaskTypes

\* The other CPUs stay where they are.
Others(c) ==
    \A d \in Cpu \ {c} :
        pc'[d] = pc[d] /\ cur'[d] = cur[d] /\ off'[d] = off[d] /\ got'[d] = got[d]

\* A step of the dispatch on c moves no other CPU.
LEMMA OthersSame ==
  ASSUME TypeOK, NEW c \in Cpu, Dispatch(c)
  PROVE  Others(c)
<1>1. CpuTypes
  BY Zenon, Parts
<1> USE DEF CpuTypes, Others, Goto, cpuVars, locals
<1>2. ASSUME mitosis_dispatch(c) PROVE Others(c)
  BY Zenon, <1>1, <1>2 DEF mitosis_dispatch, NextCandidate
<1>3. ASSUME DispatchElsewhere(c) PROVE Others(c)
  BY Zenon, <1>1, <1>3 DEF DispatchElsewhere
<1>4. ASSUME DrainVisit(c) PROVE Others(c)
  BY <1>1, <1>4 DEF DrainVisit, NextCandidate
<1>5. ASSUME DrainCount(c) PROVE Others(c)
  BY Zenon, <1>1, <1>5 DEF DrainCount
<1>6. ASSUME DrainDisable(c) PROVE Others(c)
  BY Zenon, <1>1, <1>6 DEF DrainDisable
<1>7. ASSUME DrainRecheck(c) PROVE Others(c)
  BY <1>1, <1>7 DEF DrainRecheck, NextCandidate
<1>8. ASSUME DrainMove(c) PROVE Others(c)
  BY Zenon, <1>1, <1>8 DEF DrainMove
<1>9. ASSUME DrainRescue(c) PROVE Others(c)
  BY Zenon, <1>1, <1>9 DEF DrainRescue
<1>10. ASSUME DrainSettle(c) PROVE Others(c)
  BY <1>1, <1>10 DEF DrainSettle, NextCandidate
<1>11. ASSUME DrainEnable(c) PROVE Others(c)
  BY Zenon, <1>1, <1>11 DEF DrainEnable, NextCandidate
<1>12. ASSUME Peek(c) PROVE Others(c)
  BY Zenon, <1>1, <1>12 DEF Peek, try_stealing_work
<1>13. ASSUME Take(c) PROVE Others(c)
  BY Zenon, <1>1, <1>13 DEF Take
<1>14. ASSUME Uncount(c) PROVE Others(c)
  BY Zenon, <1>1, <1>14 DEF Uncount
<1> QED
  BY Zenon, <1>2, <1>3, <1>4, <1>5, <1>6, <1>7, <1>8, <1>9, <1>10, <1>11, <1>12, <1>13, <1>14 DEF Dispatch

\* p has left its queue, and no other task has moved.
Gone(p) ==
    /\ st'[p] \in {"away", "pinned"}
    /\ \A q \in Task \ {p} : st'[q] = st[q] /\ llc'[q] = llc[q]

\* Running a task moves this task only.
LEMMA RunGone ==
  ASSUME TypeOK, NEW p \in Task, Run(p)
  PROVE  Gone(p)
BY Zenon, Parts DEF TaskTypes, Run, Gone

\* Rescuing a task moves this task only.
LEMMA RescueGone ==
  ASSUME TypeOK, NEW p \in Task, EnqueuePinned(p), llc' = [llc EXCEPT ![p] = None]
  PROVE  Gone(p)
BY Zenon, Parts DEF TaskTypes, EnqueuePinned, Gone

\* A dispatch touches no task but one that it finds in a queue.
Taking == UNCHANGED <<st, llc>> \/ \E p \in Task : st[p] \in {"queued", "pinned"} /\ Gone(p)

\* Every step of a dispatch does so, and changes no configuration.
LEMMA DispatchTakes ==
  ASSUME TypeOK, NEW c \in Cpu, Dispatch(c)
  PROVE  Taking /\ UNCHANGED confVars
<1> USE DEF Taking
<1>1. ASSUME mitosis_dispatch(c) PROVE Taking /\ UNCHANGED confVars
  BY Zenon, <1>1 DEF mitosis_dispatch, taskVars
<1>2. ASSUME DispatchElsewhere(c) PROVE Taking /\ UNCHANGED confVars
  BY Zenon, <1>2, RunGone DEF DispatchElsewhere, Pinned
<1>3. ASSUME DrainVisit(c) PROVE Taking /\ UNCHANGED confVars
  BY Zenon, <1>3 DEF DrainVisit, taskVars
<1>4. ASSUME DrainCount(c) PROVE Taking /\ UNCHANGED confVars
  BY Zenon, <1>4 DEF DrainCount, taskVars
<1>5. ASSUME DrainDisable(c) PROVE Taking /\ UNCHANGED confVars
  BY Zenon, <1>5 DEF DrainDisable, taskVars
<1>6. ASSUME DrainRecheck(c) PROVE Taking /\ UNCHANGED confVars
  BY Zenon, <1>6 DEF DrainRecheck, taskVars
<1>7. ASSUME DrainMove(c) PROVE Taking /\ UNCHANGED confVars
  BY Zenon, <1>7, RunGone DEF DrainMove, Eligible, Queue
<1>8. ASSUME DrainRescue(c) PROVE Taking /\ UNCHANGED confVars
  BY Zenon, <1>8, RescueGone DEF DrainRescue, Queue
<1>9. ASSUME DrainSettle(c) PROVE Taking /\ UNCHANGED confVars
  BY Zenon, <1>9 DEF DrainSettle, taskVars
<1>10. ASSUME DrainEnable(c) PROVE Taking /\ UNCHANGED confVars
  BY Zenon, <1>10 DEF DrainEnable, taskVars
<1>11. ASSUME Peek(c) PROVE Taking /\ UNCHANGED confVars
  BY Zenon, <1>11, RunGone DEF Peek, try_stealing_work, Eligible, Queue
<1>12. ASSUME Take(c) PROVE Taking /\ UNCHANGED confVars
  BY Zenon, <1>12, RunGone DEF Take, Eligible, Queue, Pinned
<1>13. ASSUME Uncount(c) PROVE Taking /\ UNCHANGED confVars
  BY Zenon, <1>13 DEF Uncount, taskVars
<1> QED
  BY Zenon, <1>1, <1>2, <1>3, <1>4, <1>5, <1>6, <1>7, <1>8, <1>9, <1>10, <1>11, <1>12, <1>13 DEF Dispatch

-----------------------------------------------------------------------------
\* A dispatch keeps the marks when its own CPU does.
LEMMA MarksKept ==
  ASSUME Marks, NEW c \in Cpu, Others(c), Taking, UNCHANGED confVars,
         \A l \in Llc : nr_queued'[l] > 0 => nr_queued[l] > 0,
         \A l \in Llc : l # cur[c] /\ l \in to_drain => l \in to_drain',
         nr_queued'[cur[c]] > 0 /\ (cur[c] \in to_drain \/ WillMark(c))
            => cur[c] \in to_drain' \/ (cur'[c] = cur[c] /\ WillMark(c)')
  PROVE  Marks'
<1> SUFFICES ASSUME NEW l \in Llc, l \notin with_cpus, nr_queued'[l] > 0
             PROVE  l \in to_drain' \/ Pending(l)'
  BY Zenon DEF Marks, confVars
<1>1. l \in to_drain \/ Pending(l)
  BY Zenon DEF Marks
<1>2. CASE l \in todo \cup mark
  BY Zenon, <1>2 DEF Pending, confVars
<1>3. ASSUME NEW p \in Task, llc[p] = l, st[p] \in {"counted", "enable"}
      PROVE  Pending(l)'
  <2>1. llc'[p] = l /\ st'[p] = st[p]
    BY Zenon, <1>3 DEF Taking, Gone
  <2> QED
    BY Zenon, <1>3, <2>1 DEF Pending
<1>4. ASSUME NEW d \in Cpu, d # c, cur[d] = l, WillMark(d)
      PROVE  Pending(l)'
  <2>1. cur'[d] = l /\ WillMark(d)'
    BY Zenon, <1>4 DEF Others, WillMark
  <2> QED
    BY Zenon, <2>1 DEF Pending
<1>5. CASE l = cur[c] /\ (l \in to_drain \/ WillMark(c))
  BY Zenon, <1>5 DEF Pending
<1>6. CASE l # cur[c] /\ l \in to_drain
  BY Zenon, <1>6
<1> QED
  BY Zenon, <1>1, <1>2, <1>3, <1>4, <1>5, <1>6 DEF Pending

\* Every step of a dispatch keeps the marks.
LEMMA MarksDispatch ==
  ASSUME TypeOK, Marks, NEW c \in Cpu, Dispatch(c)
  PROVE  Marks'
<1>1. CpuTypes /\ Others(c) /\ Taking /\ UNCHANGED confVars /\ nr_queued \in [Llc -> Int]
  BY Zenon, Parts, OthersSame, DispatchTakes DEF TypeOK
<1> USE DEF CpuTypes, WillMark, Goto, cpuVars, locals
<1>2. ASSUME mitosis_dispatch(c) PROVE Marks'
  <2>1. UNCHANGED <<nr_queued, to_drain>> /\ ~WillMark(c)
    BY Zenon, <1>2 DEF mitosis_dispatch
  <2> QED
    BY Zenon, <1>1, <2>1, MarksKept
<1>3. ASSUME DispatchElsewhere(c) PROVE Marks'
  <2>1. UNCHANGED <<nr_queued, to_drain>> /\ ~WillMark(c)
    BY Zenon, <1>3 DEF DispatchElsewhere
  <2> QED
    BY Zenon, <1>1, <2>1, MarksKept
<1>4. ASSUME DrainVisit(c) PROVE Marks'
  <2>1. UNCHANGED <<nr_queued, to_drain>> /\ ~WillMark(c)
    BY Zenon, <1>4 DEF DrainVisit
  <2> QED
    BY Zenon, <1>1, <2>1, MarksKept
<1>5. ASSUME DrainCount(c) PROVE Marks'
  <2>1. UNCHANGED <<nr_queued, to_drain>> /\ ~WillMark(c)
    BY Zenon, <1>5 DEF DrainCount
  <2> QED
    BY Zenon, <1>1, <2>1, MarksKept
<1>6. ASSUME DrainDisable(c) PROVE Marks'
  <2>1. /\ UNCHANGED nr_queued
        /\ \A l \in Llc : l # cur[c] /\ l \in to_drain => l \in to_drain'
    BY Zenon, <1>6 DEF DrainDisable
  <2>2. cur'[c] = cur[c] /\ WillMark(c)'
    BY Zenon, <1>1, <1>6 DEF DrainDisable
  <2> QED
    BY Zenon, <1>1, <2>1, <2>2, MarksKept
<1>7. ASSUME DrainRecheck(c) PROVE Marks'
  <2>1. UNCHANGED <<nr_queued, to_drain>>
    BY Zenon, <1>7 DEF DrainRecheck
  <2>2. nr_queued'[cur[c]] > 0 /\ WillMark(c) => cur'[c] = cur[c] /\ WillMark(c)'
    BY Zenon, <1>1, <1>7 DEF DrainRecheck
  <2> QED
    BY Zenon, <1>1, <2>1, <2>2, MarksKept
<1>8. ASSUME DrainMove(c) PROVE Marks'
  <2>1. UNCHANGED <<nr_queued, to_drain>>
    BY Zenon, <1>8 DEF DrainMove
  <2>2. nr_queued'[cur[c]] > 0 /\ WillMark(c) => cur'[c] = cur[c] /\ WillMark(c)'
    BY Zenon, <1>1, <1>8 DEF DrainMove
  <2> QED
    BY Zenon, <1>1, <2>1, <2>2, MarksKept
<1>9. ASSUME DrainRescue(c) PROVE Marks'
  <2>1. UNCHANGED <<nr_queued, to_drain>>
    BY Zenon, <1>9 DEF DrainRescue
  <2>2. nr_queued'[cur[c]] > 0 /\ WillMark(c) => cur'[c] = cur[c] /\ WillMark(c)'
    BY Zenon, <1>1, <1>9 DEF DrainRescue
  <2> QED
    BY Zenon, <1>1, <2>1, <2>2, MarksKept
<1>10. ASSUME DrainSettle(c) PROVE Marks'
  <2>1. \A l \in Llc : nr_queued'[l] > 0 => nr_queued[l] > 0
    BY <1>1, <1>10 DEF DrainSettle
  <2>2. UNCHANGED to_drain
    BY Zenon, <1>10 DEF DrainSettle
  <2>3. nr_queued'[cur[c]] > 0 /\ WillMark(c) => cur'[c] = cur[c] /\ WillMark(c)'
    BY Zenon, <1>1, <1>10 DEF DrainSettle
  <2> QED
    BY Zenon, <1>1, <2>1, <2>2, <2>3, MarksKept
<1>11. ASSUME DrainEnable(c) PROVE Marks'
  <2>1. UNCHANGED nr_queued /\ to_drain' = to_drain \cup {cur[c]}
    BY Zenon, <1>11 DEF DrainEnable
  <2> QED
    BY Zenon, <1>1, <2>1, MarksKept
<1>12. ASSUME Peek(c) PROVE Marks'
  <2>1. UNCHANGED <<nr_queued, to_drain>> /\ ~WillMark(c)
    BY Zenon, <1>12 DEF Peek
  <2> QED
    BY Zenon, <1>1, <2>1, MarksKept
<1>13. ASSUME Take(c) PROVE Marks'
  <2>1. UNCHANGED <<nr_queued, to_drain>> /\ ~WillMark(c)
    BY Zenon, <1>13 DEF Take
  <2> QED
    BY Zenon, <1>1, <2>1, MarksKept
<1>14. ASSUME Uncount(c) PROVE Marks'
  <2>1. \A l \in Llc : nr_queued'[l] > 0 => nr_queued[l] > 0
    BY <1>1, <1>14 DEF Uncount
  <2>2. UNCHANGED to_drain
    BY Zenon, <1>14 DEF Uncount
  <2>3. ~WillMark(c)
    BY Zenon, <1>14 DEF Uncount
  <2> QED
    BY Zenon, <1>1, <2>1, <2>2, <2>3, MarksKept
<1> QED
  BY Zenon, <1>2, <1>3, <1>4, <1>5, <1>6, <1>7, <1>8, <1>9, <1>10, <1>11, <1>12, <1>13, <1>14 DEF Dispatch

\* Every step keeps the marks.
LEMMA MarksStep ==
  ASSUME IInv, [Next]_vars
  PROVE  Marks'
<1> USE DEF IInv, TypeOK, Marks, Pending, WillMark, confVars, taskVars, cpuVars, locals
<1>1. ASSUME apply_configured_cell_cpumask PROVE Marks'
  BY Zenon, <1>1 DEF apply_configured_cell_cpumask
<1>2. ASSUME apply_configured_cell_subcells PROVE Marks'
  BY Zenon, <1>2 DEF apply_configured_cell_subcells
<1>3. ASSUME PublishLlcs PROVE Marks'
  BY Zenon, <1>3 DEF PublishLlcs, Published
<1>4. ASSUME RefreshLlc PROVE Marks'
  BY <1>4 DEF RefreshLlc, Published
<1>5. ASSUME MarkLlc PROVE Marks'
  BY Zenon, <1>5 DEF MarkLlc, Published
<1>6. ASSUME apply_cell_config PROVE Marks'
  BY Zenon, <1>6 DEF apply_cell_config
<1>7. ASSUME NEW p \in Task, mitosis_enqueue(p) PROVE Marks'
  BY <1>7 DEF mitosis_enqueue, EnqueuePinned
<1>8. ASSUME NEW p \in Task, update_task_cpumask(p) PROVE Marks'
  BY <1>8 DEF update_task_cpumask, EnqueuePinned
<1>9. ASSUME NEW p \in Task, CountIn(p) PROVE Marks'
  BY <1>9 DEF CountIn
<1>10. ASSUME NEW p \in Task, TestLlc(p) PROVE Marks'
  BY <1>10 DEF TestLlc
<1>11. ASSUME NEW p \in Task, EnableDrain(p) PROVE Marks'
  BY <1>11 DEF EnableDrain
<1>12. ASSUME NEW p \in Task, Insert(p) PROVE Marks'
  BY Zenon, <1>12 DEF Insert
<1>13. ASSUME NEW c \in Cpu, Dispatch(c) PROVE Marks'
  BY Zenon, <1>13, MarksDispatch
<1>14. ASSUME UNCHANGED vars PROVE Marks'
  BY Zenon, <1>14 DEF vars
<1> QED
  BY Zenon, <1>1, <1>2, <1>3, <1>4, <1>5, <1>6, <1>7, <1>8, <1>9, <1>10, <1>11, <1>12, <1>13,
     <1>14
     DEF Next, Apply, Enqueue

-----------------------------------------------------------------------------
\* A step that changes neither the counters nor what they count.
LEMMA CountSame ==
  ASSUME CountExact, UNCHANGED nr_queued,
         \A l \in Llc : Counted(l)' = Counted(l) /\ Uncounting(l)' = Uncounting(l)
  PROVE  CountExact'
BY Zenon DEF CountExact

\* The sets that are counted are finite.
LEMMA CountedFinite ==
  ASSUME NEW l
  PROVE  IsFiniteSet(Counted(l)) /\ IsFiniteSet(Uncounting(l))
BY Zenon, TopologyAssumption, FS_Subset DEF Counted, Uncounting

\* A task enters a queue and is counted.
LEMMA CountUp ==
  ASSUME CountExact, TypeOK, NEW k \in Llc, NEW p, p \notin Counted(k),
         nr_queued' = [nr_queued EXCEPT ![k] = @ + 1],
         \A l \in Llc : /\ Counted(l)' = IF l = k THEN Counted(l) \cup {p} ELSE Counted(l)
                        /\ Uncounting(l)' = Uncounting(l)
  PROVE  CountExact'
<1>1. Cardinality(Counted(k) \cup {p}) = Cardinality(Counted(k)) + 1
  BY Zenon, CountedFinite, FS_AddElement
<1>2. Cardinality(Counted(k)) \in Nat /\ Cardinality(Uncounting(k)) \in Nat
  BY Zenon, CountedFinite, FS_CardinalityType
<1>4. nr_queued'[k] = Cardinality(Counted(k)') + Cardinality(Uncounting(k)')
  <2>1. nr_queued'[k] = nr_queued[k] + 1
    BY Zenon DEF TypeOK
  <2>2. Counted(k)' = Counted(k) \cup {p} /\ Uncounting(k)' = Uncounting(k)
    BY Zenon
  <2>3. nr_queued[k] = Cardinality(Counted(k)) + Cardinality(Uncounting(k))
    BY Zenon DEF CountExact
  <2> QED
    BY <1>1, <1>2, <2>1, <2>2, <2>3
<1>5. ASSUME NEW l \in Llc, l # k
      PROVE  nr_queued'[l] = Cardinality(Counted(l)') + Cardinality(Uncounting(l)')
  BY Zenon, <1>5 DEF CountExact, TypeOK
<1> QED
  BY Zenon, <1>4, <1>5 DEF CountExact

\* A CPU takes a task out of a queue, and has to account for it.
LEMMA CountOver ==
  ASSUME CountExact, UNCHANGED nr_queued,
         NEW k \in Llc, NEW p \in Counted(k), NEW c, c \notin Uncounting(k),
         \A l \in Llc : /\ Counted(l)' = IF l = k THEN Counted(l) \ {p} ELSE Counted(l)
                        /\ Uncounting(l)' = IF l = k THEN Uncounting(l) \cup {c} ELSE Uncounting(l)
  PROVE  CountExact'
<1>1. Cardinality(Counted(k) \ {p}) = Cardinality(Counted(k)) - 1
  BY Zenon, CountedFinite, FS_RemoveElement
<1>2. Cardinality(Uncounting(k) \cup {c}) = Cardinality(Uncounting(k)) + 1
  BY Zenon, CountedFinite, FS_AddElement
<1>3. Cardinality(Counted(k)) \in Nat /\ Cardinality(Uncounting(k)) \in Nat
  BY Zenon, CountedFinite, FS_CardinalityType
<1>4. nr_queued'[k] = Cardinality(Counted(k)') + Cardinality(Uncounting(k)')
  <2>1. nr_queued'[k] = nr_queued[k]
    BY Zenon DEF TypeOK
  <2>2. Counted(k)' = Counted(k) \ {p} /\ Uncounting(k)' = Uncounting(k) \cup {c}
    BY Zenon
  <2>3. nr_queued[k] = Cardinality(Counted(k)) + Cardinality(Uncounting(k))
    BY Zenon DEF CountExact
  <2> QED
    BY <1>1, <1>2, <1>3, <2>1, <2>2, <2>3
<1>5. ASSUME NEW l \in Llc, l # k
      PROVE  nr_queued'[l] = Cardinality(Counted(l)') + Cardinality(Uncounting(l)')
  BY Zenon, <1>5 DEF CountExact
<1> QED
  BY Zenon, <1>4, <1>5 DEF CountExact

\* A CPU accounts for the task it has taken.
LEMMA CountDown ==
  ASSUME CountExact, TypeOK, NEW k \in Llc, NEW c \in Uncounting(k),
         nr_queued' = [nr_queued EXCEPT ![k] = @ - 1],
         \A l \in Llc : /\ Counted(l)' = Counted(l)
                        /\ Uncounting(l)' = IF l = k THEN Uncounting(l) \ {c} ELSE Uncounting(l)
  PROVE  CountExact'
<1>1. Cardinality(Uncounting(k) \ {c}) = Cardinality(Uncounting(k)) - 1
  BY Zenon, CountedFinite, FS_RemoveElement
<1>2. Cardinality(Counted(k)) \in Nat /\ Cardinality(Uncounting(k)) \in Nat
  BY Zenon, CountedFinite, FS_CardinalityType
<1>4. nr_queued'[k] = Cardinality(Counted(k)') + Cardinality(Uncounting(k)')
  <2>1. nr_queued'[k] = nr_queued[k] - 1
    BY Zenon DEF TypeOK
  <2>2. Counted(k)' = Counted(k) /\ Uncounting(k)' = Uncounting(k) \ {c}
    BY Zenon
  <2>3. nr_queued[k] = Cardinality(Counted(k)) + Cardinality(Uncounting(k))
    BY Zenon DEF CountExact
  <2> QED
    BY <1>1, <1>2, <2>1, <2>2, <2>3
<1>5. ASSUME NEW l \in Llc, l # k
      PROVE  nr_queued'[l] = Cardinality(Counted(l)') + Cardinality(Uncounting(l)')
  BY Zenon, <1>5 DEF CountExact, TypeOK
<1> QED
  BY Zenon, <1>4, <1>5 DEF CountExact

\* What is counted when a task leaves the queue of k.
LEMMA CountedGone ==
  ASSUME NEW k \in Llc, NEW p \in Queue(k), Gone(p)
  PROVE  /\ p \in Counted(k)
         /\ \A l \in Llc : Counted(l)' = IF l = k THEN Counted(l) \ {p} ELSE Counted(l)
BY Zenon DEF Queue, Counted, Gone

\* Nothing changes when it leaves the queue of a CPU.
LEMMA CountedPinned ==
  ASSUME NEW d, NEW p \in Pinned(d), Gone(p)
  PROVE  \A l \in Llc : Counted(l)' = Counted(l)
BY Zenon DEF Pinned, Counted, Gone

\* Nor when no task moves.
LEMMA CountedSame ==
  ASSUME UNCHANGED <<st, llc>>
  PROVE  \A l \in Llc : Counted(l)' = Counted(l)
BY Zenon DEF Counted

\* The CPUs with a task to account for, when c gets or drops one.
LEMMA UncountingFrame ==
  ASSUME NEW c \in Cpu, Others(c)
  PROVE  /\ ~Taken(c) /\ ~Taken(c)' => \A l \in Llc : Uncounting(l)' = Uncounting(l)
         /\ ~Taken(c) /\ Taken(c)' =>
              \A l \in Llc : Uncounting(l)' = IF l = cur'[c] THEN Uncounting(l) \cup {c}
                                                             ELSE Uncounting(l)
         /\ Taken(c) /\ ~Taken(c)' =>
              \A l \in Llc : Uncounting(l)' = IF l = cur[c] THEN Uncounting(l) \ {c}
                                                            ELSE Uncounting(l)
<1>1. \A d \in Cpu \ {c} : cur'[d] = cur[d] /\ (Taken(d)' <=> Taken(d))
  BY Zenon DEF Others, Taken
<1> QED
  BY Zenon, <1>1 DEF Uncounting

\* A step of a dispatch that moves no counted task and owes no decrement.
LEMMA CountQuiet ==
  ASSUME CountExact, NEW c \in Cpu, Others(c), ~Taken(c), ~Taken(c)', UNCHANGED nr_queued,
         \A l \in Llc : Counted(l)' = Counted(l)
  PROVE  CountExact'
BY Zenon, UncountingFrame, CountSame

\* A step of a dispatch that takes a task of the queue of k.
LEMMA CountTaken ==
  ASSUME CountExact, NEW c \in Cpu, Others(c), ~Taken(c), Taken(c)', UNCHANGED nr_queued,
         NEW k \in Llc, cur'[c] = k, NEW p \in Queue(k), Gone(p)
  PROVE  CountExact'
<1>1. \A l \in Llc : Uncounting(l)' = IF l = k THEN Uncounting(l) \cup {c} ELSE Uncounting(l)
  BY Zenon, UncountingFrame
<1>2. c \notin Uncounting(k)
  BY Zenon DEF Uncounting
<1> QED
  BY <1>1, <1>2, CountedGone, CountOver

\* The step of a dispatch that accounts for the task.
LEMMA CountSettled ==
  ASSUME CountExact, TypeOK, NEW c \in Cpu, Others(c), Taken(c), ~Taken(c)',
         nr_queued' = [nr_queued EXCEPT ![cur[c]] = @ - 1], UNCHANGED <<st, llc>>
  PROVE  CountExact'
<1>1. \A l \in Llc : Uncounting(l)' = IF l = cur[c] THEN Uncounting(l) \ {c} ELSE Uncounting(l)
  BY Zenon, UncountingFrame
<1>2. cur[c] \in Llc /\ c \in Uncounting(cur[c])
  BY DEF Uncounting, TypeOK
<1> QED
  BY Zenon, <1>1, <1>2, CountedSame, CountDown

\* Every step of a dispatch keeps the counts exact.
LEMMA CountDispatch ==
  ASSUME TypeOK, Outcomes, CountExact, NEW c \in Cpu, Dispatch(c)
  PROVE  CountExact'
<1>1. CpuTypes /\ Others(c) /\ LlcOf[c] \in Llc /\ cur[c] \in Llc
  BY Parts, OthersSame, Types DEF CpuTypes
<1> USE DEF CpuTypes, Taken, Goto, cpuVars, taskVars, locals
<1>2. ASSUME mitosis_dispatch(c) PROVE CountExact'
  <2>1. UNCHANGED <<nr_queued, st, llc>> /\ ~Taken(c)
    BY Zenon, <1>2 DEF mitosis_dispatch
  <2>2. ~Taken(c)'
    BY <1>1, <1>2 DEF mitosis_dispatch, NextCandidate
  <2> QED
    BY <1>1, <2>1, <2>2, CountedSame, CountQuiet
<1>3. ASSUME DispatchElsewhere(c) PROVE CountExact'
  <2>1. ASSUME NEW p \in Pinned(c), Run(p) PROVE CountExact'
    <3>1. Gone(p)
      BY <2>1, RunGone DEF Pinned
    <3>2. ~Taken(c) /\ ~Taken(c)' /\ UNCHANGED nr_queued
      BY <1>1, <1>3 DEF DispatchElsewhere
    <3> QED
      BY Zenon, <1>1, <3>1, <3>2, CountedPinned, CountQuiet
  <2> QED
    BY <1>3, <2>1 DEF DispatchElsewhere
<1>4. ASSUME DrainVisit(c) PROVE CountExact'
  <2>1. UNCHANGED <<nr_queued, st, llc>> /\ ~Taken(c)
    BY Zenon, <1>4 DEF DrainVisit
  <2>2. ~Taken(c)'
    BY SMTT(30), <1>1, <1>4 DEF DrainVisit, NextCandidate
  <2> QED
    BY Zenon, <1>1, <2>1, <2>2, CountedSame, CountQuiet
<1>5. ASSUME DrainCount(c) PROVE CountExact'
  <2>1. UNCHANGED <<nr_queued, st, llc>> /\ ~Taken(c)
    BY Zenon, <1>5 DEF DrainCount
  <2>2. ~Taken(c)'
    BY SMTT(30), <1>1, <1>5 DEF DrainCount
  <2> QED
    BY Zenon, <1>1, <2>1, <2>2, CountedSame, CountQuiet
<1>6. ASSUME DrainDisable(c) PROVE CountExact'
  <2>1. UNCHANGED <<nr_queued, st, llc>> /\ ~Taken(c)
    BY <1>6 DEF DrainDisable
  <2>2. ~Taken(c)'
    BY <1>1, <1>6 DEF DrainDisable
  <2> QED
    BY Zenon, <1>1, <2>1, <2>2, CountedSame, CountQuiet
<1>7. ASSUME DrainRecheck(c) PROVE CountExact'
  <2>1. UNCHANGED <<nr_queued, st, llc>> /\ ~Taken(c)
    BY Zenon, <1>7 DEF DrainRecheck
  <2>2. ~Taken(c)'
    BY <1>1, <1>7 DEF DrainRecheck, NextCandidate
  <2> QED
    BY Zenon, <1>1, <2>1, <2>2, CountedSame, CountQuiet
<1>8. ASSUME DrainMove(c) PROVE CountExact'
  <2>1. ASSUME NEW p \in Queue(cur[c]), Run(p), Goto(c, "settle"),
               got' = [got EXCEPT ![c] = "local"] PROVE CountExact'
    <3>1. Gone(p)
      BY <2>1, RunGone DEF Queue
    <3>2. ~Taken(c) /\ Taken(c)' /\ cur'[c] = cur[c] /\ UNCHANGED nr_queued
      BY Zenon, <1>1, <1>8, <2>1 DEF DrainMove
    <3> QED
      BY Zenon, <1>1, <2>1, <3>1, <3>2, CountTaken
  <2>2. ASSUME Goto(c, "rescue"), UNCHANGED <<st, llc>> PROVE CountExact'
    <3>1. ~Taken(c) /\ ~Taken(c)' /\ UNCHANGED nr_queued
      BY <1>1, <1>8, <2>2 DEF DrainMove, Outcomes
    <3> QED
      BY <1>1, <2>2, <3>1, CountedSame, CountQuiet
  <2> QED
    BY <1>8, <2>1, <2>2 DEF DrainMove, Eligible
<1>9. ASSUME DrainRescue(c) PROVE CountExact'
  <2>1. ASSUME NEW p \in Queue(cur[c]), EnqueuePinned(p), llc' = [llc EXCEPT ![p] = None],
               got' = [got EXCEPT ![c] = "remote"]
        PROVE  CountExact'
    <3>1. Gone(p)
      BY Zenon, <2>1, RescueGone DEF Queue
    <3>2. ~Taken(c) /\ Taken(c)' /\ cur'[c] = cur[c] /\ UNCHANGED nr_queued
      BY Zenon, <1>1, <1>9, <2>1 DEF DrainRescue
    <3> QED
      BY <1>1, <2>1, <3>1, <3>2, CountTaken
  <2>2. ASSUME UNCHANGED <<st, llc, got>> PROVE CountExact'
    <3>1. ~Taken(c) /\ ~Taken(c)' /\ UNCHANGED nr_queued
      BY <1>1, <1>9, <2>2 DEF DrainRescue, Outcomes
    <3> QED
      BY SMTT(30), <1>1, <2>2, <3>1, CountedSame, CountQuiet
  <2> QED
    BY Zenon, <1>9, <2>1, <2>2 DEF DrainRescue
<1>10. ASSUME DrainSettle(c) PROVE CountExact'
  <2>1. ~Taken(c)' /\ UNCHANGED <<st, llc>>
    BY SMTT(30), <1>1, <1>10 DEF DrainSettle, NextCandidate
  <2>2. CASE got[c] = "none"
    <3>1. ~Taken(c) /\ UNCHANGED nr_queued
      BY Zenon, <1>10, <2>2 DEF DrainSettle, TypeOK
    <3> QED
      BY <1>1, <2>1, <3>1, CountedSame, CountQuiet
  <2>3. CASE got[c] # "none"
    <3>1. Taken(c) /\ nr_queued' = [nr_queued EXCEPT ![cur[c]] = @ - 1]
      BY ZenonT(30), <1>10, <2>3 DEF DrainSettle
    <3> QED
      BY Zenon, <1>1, <2>1, <3>1, CountSettled
  <2> QED
    BY Zenon, <2>2, <2>3
<1>11. ASSUME DrainEnable(c) PROVE CountExact'
  <2>1. UNCHANGED <<nr_queued, st, llc>> /\ ~Taken(c)
    BY Zenon, <1>11 DEF DrainEnable
  <2>2. ~Taken(c)'
    BY <1>1, <1>11 DEF DrainEnable, NextCandidate
  <2> QED
    BY Zenon, <1>1, <2>1, <2>2, CountedSame, CountQuiet
<1>12. ASSUME Peek(c) PROVE CountExact'
  <2>1. ASSUME NEW k \in Llc, NEW p \in Queue(k), Run(p), Goto(c, "uncount"),
               cur' = [cur EXCEPT ![c] = k] PROVE CountExact'
    <3>1. Gone(p)
      BY <2>1, RunGone DEF Queue
    <3>2. ~Taken(c) /\ Taken(c)' /\ cur'[c] = k /\ UNCHANGED nr_queued
      BY Zenon, <1>1, <1>12, <2>1 DEF Peek
    <3> QED
      BY <1>1, <2>1, <3>1, <3>2, CountTaken
  <2>2. ASSUME NEW at \in {"take", "idle"}, Goto(c, at), UNCHANGED <<st, llc>> PROVE CountExact'
    <3>1. ~Taken(c) /\ ~Taken(c)' /\ UNCHANGED nr_queued
      BY <1>1, <1>12, <2>2 DEF Peek, Outcomes
    <3> QED
      BY SMTT(30), <1>1, <2>2, <3>1, CountedSame, CountQuiet
  <2>3. CASE try_stealing_work(c)
    <3>1. with_cpus \subseteq Llc
      BY SMTT(30) DEF TypeOK
    <3> QED
      BY Zenon, <2>1, <2>2, <2>3, <3>1 DEF try_stealing_work, Eligible
  <2> QED
    BY Zenon, <1>12, <2>2, <2>3 DEF Peek
<1>13. ASSUME Take(c) PROVE CountExact'
  <2>0. cur[c] = LlcOf[c]
    BY Zenon, <1>13 DEF Take, Outcomes
  <2>1. ASSUME NEW p \in Queue(LlcOf[c]), Run(p), Goto(c, "uncount") PROVE CountExact'
    <3>1. Gone(p)
      BY <2>1, RunGone DEF Queue
    <3>2. ~Taken(c) /\ Taken(c)' /\ cur'[c] = LlcOf[c] /\ UNCHANGED nr_queued
      BY SMTT(30), <1>1, <1>13, <2>1, <2>0 DEF Take
    <3> QED
      BY <1>1, <2>1, <3>1, <3>2, CountTaken
  <2>2. ASSUME NEW p \in Pinned(c), Run(p), Goto(c, "idle") PROVE CountExact'
    <3>1. Gone(p)
      BY <2>2, RunGone DEF Pinned
    <3>2. ~Taken(c) /\ ~Taken(c)' /\ UNCHANGED nr_queued
      BY <1>1, <1>13, <2>2 DEF Take
    <3> QED
      BY Zenon, <1>1, <3>1, <3>2, CountedPinned, CountQuiet
  <2>3. ASSUME Goto(c, "idle"), UNCHANGED <<st, llc>> PROVE CountExact'
    <3>1. ~Taken(c) /\ ~Taken(c)' /\ UNCHANGED nr_queued
      BY SMTT(30), <1>1, <1>13, <2>3 DEF Take, Outcomes
    <3> QED
      BY Zenon, <1>1, <2>3, <3>1, CountedSame, CountQuiet
  <2> QED
    BY Zenon, <1>13, <2>1, <2>2, <2>3 DEF Take, Eligible
<1>14. ASSUME Uncount(c) PROVE CountExact'
  <2>1. Taken(c) /\ ~Taken(c)' /\ UNCHANGED <<st, llc>>
    BY Zenon, <1>1, <1>14 DEF Uncount
  <2>2. nr_queued' = [nr_queued EXCEPT ![cur[c]] = @ - 1]
    BY Zenon, <1>14 DEF Uncount
  <2> QED
    BY Zenon, <1>1, <2>1, <2>2, CountSettled
<1> QED
  BY Zenon, <1>2, <1>3, <1>4, <1>5, <1>6, <1>7, <1>8, <1>9, <1>10, <1>11, <1>12, <1>13, <1>14 DEF Dispatch

\* The CPUs with a task to account for, when no CPU moves.
LEMMA UncountingSame ==
  ASSUME UNCHANGED cpuVars
  PROVE  \A l \in Llc : Uncounting(l)' = Uncounting(l)
BY Zenon DEF cpuVars, Uncounting, Taken

\* A step of an enqueue that keeps p counted, or not counted.
LEMMA CountEnqueue ==
  ASSUME CountExact, UNCHANGED <<nr_queued, llc, cpuVars>>, NEW p \in Task,
         \A q \in Task \ {p} : st'[q] = st[q],
         LET In == {"counted", "enable", "insert", "queued"} IN st[p] \in In <=> st'[p] \in In
  PROVE  CountExact'
<1>1. \A l \in Llc : Counted(l)' = Counted(l)
  BY DEF Counted
<1> QED
  BY Zenon, <1>1, UncountingSame, CountSame

\* Every step keeps the counts exact.
LEMMA CountStep ==
  ASSUME TypeOK, Outcomes, CountExact, [Next]_vars
  PROVE  CountExact'
<1>1. ASSUME UNCHANGED <<nr_queued, taskVars, cpuVars>> PROVE CountExact'
  BY Zenon, <1>1, CountedSame, UncountingSame, CountSame DEF taskVars
<1>2. CASE apply_configured_cell_cpumask
  BY <1>1, <1>2 DEF apply_configured_cell_cpumask
<1>3. CASE Apply
  BY Zenon, <1>1, <1>3 DEF Apply, apply_configured_cell_subcells, PublishLlcs, RefreshLlc, MarkLlc,
                    apply_cell_config
<1>4. TaskTypes
  BY Zenon, Parts
<1>5. ASSUME NEW p \in Task, mitosis_enqueue(p) PROVE CountExact'
  <2>1. UNCHANGED <<nr_queued, llc, cpuVars>>
    BY Zenon, <1>5 DEF mitosis_enqueue
  <2>2. /\ \A q \in Task \ {p} : st'[q] = st[q]
        /\ LET In == {"counted", "enable", "insert", "queued"} IN st[p] \in In <=> st'[p] \in In
    BY Zenon, <1>4, <1>5 DEF mitosis_enqueue, EnqueuePinned, TaskTypes
  <2> QED
    BY <2>1, <2>2, CountEnqueue
<1>6. ASSUME NEW p \in Task, update_task_cpumask(p) PROVE CountExact'
  <2>1. UNCHANGED <<nr_queued, llc, cpuVars>>
    BY Zenon, <1>6 DEF update_task_cpumask
  <2>2. /\ \A q \in Task \ {p} : st'[q] = st[q]
        /\ LET In == {"counted", "enable", "insert", "queued"} IN st[p] \in In <=> st'[p] \in In
    BY Zenon, <1>4, <1>6 DEF update_task_cpumask, EnqueuePinned, TaskTypes
  <2> QED
    BY <2>1, <2>2, CountEnqueue
<1>7. ASSUME NEW p \in Task, CountIn(p) PROVE CountExact'
  <2>1. PICK k \in LlcsOf(tcpus[p]) :
           /\ llc' = [llc EXCEPT ![p] = k]
           /\ nr_queued' = [nr_queued EXCEPT ![k] = @ + 1]
    BY Zenon, <1>7 DEF CountIn
  <2>2. k \in Llc /\ p \notin Counted(k)
    BY Zenon, <1>7, LlcsType DEF CountIn, Counted, TypeOK
  <2>3. st' = [st EXCEPT ![p] = "counted"] /\ st[p] = "place" /\ UNCHANGED cpuVars
    BY <1>7 DEF CountIn
  <2>4. \A l \in Llc : Counted(l)' = IF l = k THEN Counted(l) \cup {p} ELSE Counted(l)
    BY <1>4, <2>1, <2>3, Parts DEF Counted, TaskTypes
  <2> QED
    BY Zenon, <2>1, <2>2, <2>3, <2>4, UncountingSame, CountUp
<1>8. ASSUME NEW p \in Task, TestLlc(p) PROVE CountExact'
  <2>1. UNCHANGED <<nr_queued, llc, cpuVars>>
    BY Zenon, <1>8 DEF TestLlc
  <2>2. /\ \A q \in Task \ {p} : st'[q] = st[q]
        /\ LET In == {"counted", "enable", "insert", "queued"} IN st[p] \in In <=> st'[p] \in In
    BY <1>4, <1>8 DEF TestLlc, TaskTypes
  <2> QED
    BY Zenon, <2>1, <2>2, CountEnqueue
<1>9. ASSUME NEW p \in Task, EnableDrain(p) PROVE CountExact'
  <2>1. UNCHANGED <<nr_queued, llc, cpuVars>>
    BY <1>9 DEF EnableDrain
  <2>2. /\ \A q \in Task \ {p} : st'[q] = st[q]
        /\ LET In == {"counted", "enable", "insert", "queued"} IN st[p] \in In <=> st'[p] \in In
    BY Zenon, <1>4, <1>9 DEF EnableDrain, TaskTypes
  <2> QED
    BY Zenon, <2>1, <2>2, CountEnqueue
<1>10. ASSUME NEW p \in Task, Insert(p) PROVE CountExact'
  <2>1. UNCHANGED <<nr_queued, llc, cpuVars>>
    BY <1>10 DEF Insert
  <2>2. /\ \A q \in Task \ {p} : st'[q] = st[q]
        /\ LET In == {"counted", "enable", "insert", "queued"} IN st[p] \in In <=> st'[p] \in In
    BY Zenon, <1>4, <1>10 DEF Insert, TaskTypes
  <2> QED
    BY Zenon, <2>1, <2>2, CountEnqueue
<1>11. ASSUME NEW c \in Cpu, Dispatch(c) PROVE CountExact'
  BY Zenon, <1>11, CountDispatch
<1>12. CASE UNCHANGED vars
  BY <1>1, <1>12 DEF vars
<1> QED
  BY Zenon, <1>2, <1>3, <1>5, <1>6, <1>7, <1>8, <1>9, <1>10, <1>11, <1>12 DEF Next, Enqueue

-----------------------------------------------------------------------------
\* The inductive invariant: the control part and the counts.
FullInv == IInv /\ CountExact

\* It holds at the start: no task is anywhere.
LEMMA InitInv == Init => FullInv
<1> SUFFICES ASSUME Init PROVE FullInv
  BY Zenon
<1>1. TypeOK
  <2>1. members \subseteq Cpu
    BY Zenon, TopologyAssumption DEF Init
  <2>2. with_cpus \subseteq Llc
    BY Zenon, <2>1, LlcsType DEF Init
  <2>3. nr_queued \in [Llc -> Int] /\ seq \in Nat /\ left \in Nat
    BY TopologyAssumption DEF Init
  <2>4. TaskTypes /\ llc \in [Task -> Llc \cup {None}]
    BY Zenon DEF Init, TaskTypes
  <2>7. /\ tseq \in [Task -> Nat]
        /\ tcpus \in [Task -> SUBSET Cpu]
        /\ tall \in [Task -> BOOLEAN]
    BY Zenon, <2>1, Types DEF Init
  <2>5. CpuTypes
    BY Zenon, Types DEF Init, CpuTypes
  <2>6. apc = "idle" /\ cell_cpus = members /\ subcell_cpus = members /\ config = members
        /\ to_drain = {} /\ todo = {} /\ mark = {}
    BY Zenon DEF Init
  <2> QED
    BY SMTT(30), <2>1, <2>2, <2>3, <2>4, <2>5, <2>6, <2>7 DEF TypeOK, TaskTypes, CpuTypes
<1>2. Published /\ Marks /\ Outcomes
  BY DEF Init, Published, Marks, Outcomes
<1>4. Placed
  BY DEF Init, Placed
<1>3. CountExact
  <2>1. \A l \in Llc : Counted(l) = {} /\ Uncounting(l) = {}
    BY Zenon DEF Init, Counted, Uncounting, Taken
  <2>2. \A l \in Llc : nr_queued[l] = 0
    BY Zenon DEF Init
  <2> QED
    BY <2>1, <2>2, FS_EmptySet DEF CountExact
<1> QED
  BY Zenon, <1>1, <1>2, <1>3, <1>4 DEF FullInv, IInv

\* Every step keeps it.
LEMMA NextInv == FullInv /\ [Next]_vars => FullInv'
BY TypeStep, PublishedStep, MarksStep, PlacedStep, OutcomesStep, CountStep DEF FullInv, IInv

\* The inductive invariant holds for every set of CPUs, LLCs and tasks.
THEOREM Invariant == Spec => []FullInv
BY InitInv, NextInv, PTL DEF Spec

\* The state has its type.
THEOREM TypeCorrect == Spec => []TypeOK
<1>1. FullInv => TypeOK
  BY Zenon DEF FullInv, IInv
<1> QED
  BY <1>1, Invariant, PTL

\* nr_queued counts exactly the tasks between account_subcell_llc_enqueue and
\* the decrement of the CPU that has dispatched them.
THEOREM Counts == Spec => []CountExact
<1>1. FullInv => CountExact
  BY DEF FullInv
<1> QED
  BY <1>1, Invariant, PTL

\* A queue of an LLC without CPUs that holds a task is marked, unless the writer,
\* an enqueue or a drain is on its way to set the mark.
THEOREM Marked == Spec => []OrphansMarked
<1>1. ASSUME FullInv PROVE OrphansMarked
  <2> SUFFICES ASSUME NEW l \in Llc \ with_cpus, Queue(l) # {}, ~Settling(l)
               PROVE  l \in to_drain
    BY DEF OrphansMarked
  <2>1. Cardinality(Counted(l)) \in Nat /\ Cardinality(Counted(l)) # 0
    <3>1. Counted(l) # {}
      BY Zenon DEF Queue, Counted
    <3> QED
      BY Zenon, <3>1, CountedFinite, FS_CardinalityType, FS_EmptySet
  <2>2. Cardinality(Uncounting(l)) \in Nat
    BY CountedFinite, FS_CardinalityType
  <2>3. nr_queued[l] > 0
    BY <1>1, <2>1, <2>2 DEF FullInv, CountExact
  <2>4. ~Pending(l)
    BY Zenon, <1>1 DEF FullInv, IInv, Published, Pending, WillMark, Settling
  <2> QED
    BY Zenon, <1>1, <2>3, <2>4 DEF FullInv, IInv, Marks
<1> QED
  BY <1>1, Invariant, PTL

\* A task left behind in a queue without CPUs has an old sequence number.
THEOREM Stale == Spec => []OrphansStale
<1>1. ASSUME FullInv PROVE OrphansStale
  <2> SUFFICES ASSUME apc = "idle", NEW p \in Task, st[p] = "queued", tseq[p] = seq
               PROVE  llc[p] \in with_cpus
    BY Zenon DEF OrphansStale
  <2>1. with_cpus = LlcsOf(subcell_cpus)
    BY Zenon, <1>1 DEF FullInv, IInv, Published
  <2>2. tcpus[p] \subseteq subcell_cpus /\ llc[p] \in LlcsOf(tcpus[p])
    BY Zenon, <1>1 DEF FullInv, IInv, Placed
  <2> QED
    BY Zenon, <2>1, <2>2 DEF LlcsOf
<1> QED
  BY <1>1, Invariant, PTL
=============================================================================
