------------------------------ MODULE Rustland ------------------------------
(***************************************************************************)
(* The BPF side of scx_rustland_core together with the main loop of the    *)
(* scx_rustland scheduler: a task that becomes runnable is sent to user    *)
(* space through the ring buffer `queued', waits there in a pool, and      *)
(* comes back with a target CPU through the user ring buffer `dispatched', *)
(* which ops.dispatch drains into the per-CPU DSQs and the shared one.     *)
(*                                                                         *)
(* The user-space scheduler is a task as well.  It waits in SCHED_DSQ and  *)
(* ops.dispatch runs it when it sees that there is work for it; a          *)
(* heartbeat timer runs it when nobody did for a second.                   *)
(*                                                                         *)
(* Deadlines are left out: a CPU takes any task of a DSQ and the scheduler *)
(* any task of its pool.  Kernel threads, which never meet user space, are *)
(* left out too.                                                           *)
(***************************************************************************)
EXTENDS Integers, Sequences, FiniteSets

CONSTANTS
    Cpu,        \* the CPUs
    BootCpu,    \* the CPU on which all tasks begin
    Task,       \* the tasks other than the user-space scheduler
    Sched,      \* the user-space scheduler (usersched_pid)
    AnyCpu,     \* RL_CPU_ANY, and the DSQ it stands for: SHARED_DSQ
    None,       \* no task, no message
    QueuedLen,  \* entries of the ring `queued'
    DispLen,    \* entries of the user ring `dispatched'
    Loads       \* bound: how often the kernel may enqueue each task, one
                \* function for each workload

ASSUME RustlandConstants ==
    /\ BootCpu \in Cpu
    /\ AnyCpu \notin Cpu
    /\ (Cpu \cup {AnyCpu}) \cap {"sleep", "wakeup", "putprev", "bpf", "run", "gone"} = {}
    /\ Sched \notin Task
    /\ None \notin Task \cup {Sched}
    /\ None \notin [pid : Task, cnt : Nat, cpu : Cpu \cup {AnyCpu}]
    /\ None \notin [pid : Task, seq : Nat]
    /\ QueuedLen \in Nat /\ DispLen \in Nat
    /\ Loads \subseteq [Task -> Nat]

VARIABLES
    where,      \* where a task is: asleep, being enqueued ("wakeup" when it
                \* was not running, "putprev" when it was), in the custody of
                \* BPF and user space ("bpf"), in a DSQ, running or gone
    left,       \* how often the kernel may still enqueue the task
    qseq,       \* the kernel's sequence number of the task's last enqueue
    enq_cnt,    \* task_ctx->enq_cnt
    allowed,    \* p->cpus_ptr
    task_cpu,   \* scx_bpf_task_cpu()
    queued,     \* the ring `queued'
    dispatched, \* the user ring `dispatched'
    tasks,      \* the pool of the user-space scheduler
    upc,        \* the step of schedule() the user-space scheduler is at
    nr_scheduled,
    needed,     \* usersched_needed
    curr,       \* what a CPU runs
    resched,    \* the CPU has to call schedule()
    pc,         \* the step of ops.dispatch a CPU is at
    msg,        \* the message it is handling, with the DSQ it decided on
    buf,        \* its dispatch buffer: the task and the qseq it was seen with
    kick,       \* CPUs it has asked to be woken when it is done
    early       \* history: a drain met an enqueue of its task half way

taskVars == <<where, left, qseq, allowed, task_cpu>>
kernelVars == <<taskVars, curr, resched>>
userVars == <<tasks, upc, nr_scheduled>>
cpuVars == <<pc, msg, buf, kick>>
vars == <<kernelVars, enq_cnt, queued, dispatched, userVars, needed, cpuVars, early>>

Message == [pid : Task, cnt : Nat]
Decision == [pid : Task, cnt : Nat, cpu : Cpu \cup {AnyCpu}]
Dsq == Cpu \cup {AnyCpu}

Init ==
    /\ where = [p \in Task |-> "sleep"]
    /\ left \in Loads
    /\ qseq = [p \in Task |-> 0]
    /\ enq_cnt = [p \in Task |-> 0]
    /\ allowed = [p \in Task |-> Cpu]
    /\ task_cpu = [p \in Task \cup {Sched} |-> BootCpu]
    /\ queued = <<>>
    /\ dispatched = <<>>
    /\ tasks = {}
    /\ upc = "drain"
    /\ nr_scheduled = 0
    /\ needed = FALSE
    /\ curr = [c \in Cpu |-> None]
    /\ resched = [c \in Cpu |-> FALSE]
    /\ pc = [c \in Cpu |-> "out"]
    /\ msg = [c \in Cpu |-> None]
    /\ buf = [c \in Cpu |-> None]
    /\ kick = [c \in Cpu |-> {}]
    /\ early = FALSE

Enqueued(p) ==
    /\ qseq' = [qseq EXCEPT ![p] = @ + 1]
    /\ left' = [left EXCEPT ![p] = @ - 1]

Idle(c) == curr[c] = None /\ pc[c] = "out"
IdleFor(p) == {c \in allowed[p] : Idle(c)}

(* scx_bpf_kick_cpu(c, SCX_KICK_IDLE) for each c of K: a CPU that runs     *)
(* something is left alone.  cur is what the CPUs run when the kicks,      *)
(* which the kernel defers to the end of the program, take effect.         *)
Kicked(K, cur) == [c \in Cpu |-> resched[c] \/ (c \in K /\ cur[c] = None)]

-----------------------------------------------------------------------------
(* Tasks become runnable: the kernel's side of an enqueue, ops.select_cpu  *)
(* and ops.enqueue.                                                        *)

(* A sleeping task wakes up.  ops.select_cpu puts it on an idle CPU it may *)
(* use or leaves it where it was: an idle CPU may be claimed already.      *)
rustland_select_cpu(p) ==
    /\ where[p] = "sleep"
    /\ left[p] > 0
    /\ \E c \in IdleFor(p) \cup {task_cpu[p]} :
          task_cpu' = [task_cpu EXCEPT ![p] = c]
    /\ where' = [where EXCEPT ![p] = "wakeup"]
    /\ Enqueued(p)
    /\ UNCHANGED <<enq_cnt, allowed, queued, dispatched, userVars, needed, curr, resched,
                   cpuVars, early>>

(* The kernel takes a waiting task out of its queue to change its affinity *)
(* and enqueues it again, on a CPU it may use.                             *)
SetAffinity(p) ==
    /\ where[p] \in {"bpf"} \cup Dsq
    /\ left[p] > 0
    /\ \E A \in (SUBSET Cpu) \ {{}} :
          /\ allowed' = [allowed EXCEPT ![p] = A]
          /\ \E c \in IF task_cpu[p] \in A THEN {task_cpu[p]} ELSE A :
                task_cpu' = [task_cpu EXCEPT ![p] = c]
    /\ where' = [where EXCEPT ![p] = "wakeup"]
    /\ Enqueued(p)
    /\ UNCHANGED <<enq_cnt, queued, dispatched, userVars, needed, curr, resched, cpuVars, early>>

can_direct_dispatch(c) == \A p \in Task : where[p] \notin {AnyCpu, c}

(* ops.enqueue finds an idle CPU with nothing queued for it: the task goes *)
(* straight to that CPU's DSQ.  A task that was running is not offered an  *)
(* idle CPU.                                                               *)
EnqueueDirect(p) ==
    /\ where[p] = "wakeup"
    /\ \E c \in IdleFor(p) :
          /\ can_direct_dispatch(c)
          /\ where' = [where EXCEPT ![p] = c]
          /\ resched' = Kicked({c}, curr)
    /\ UNCHANGED <<left, qseq, enq_cnt, allowed, task_cpu, queued, dispatched, userVars, needed, curr,
                   cpuVars, early>>

(* The CPU an enqueue wakes: the idle CPU it picked and cannot use         *)
(* directly, else the task's CPU.                                          *)
WokenBy(p) ==
    IF where[p] = "putprev" THEN {{}}
    ELSE {{c} : c \in IdleFor(p) \cup {task_cpu[p]}}

(* Mutant: entries are reserved past the end of the ring. *)
CongestedLate == Len(queued) > QueuedLen

Congested == Len(queued) >= QueuedLen

(* queue_task_to_userspace with an entry left in the ring.                 *)
EnqueueToUser(p) ==
    /\ where[p] \in {"wakeup", "putprev"}
    /\ ~Congested
    /\ enq_cnt' = [enq_cnt EXCEPT ![p] = @ + 1]
    /\ queued' = Append(queued, [pid |-> p, cnt |-> enq_cnt'[p]])
    /\ where' = [where EXCEPT ![p] = "bpf"]
    /\ \E K \in WokenBy(p) : resched' = Kicked(K, curr)
    /\ UNCHANGED <<left, qseq, allowed, task_cpu, dispatched, userVars, needed, curr, cpuVars, early>>

(* queue_task_to_userspace with a full ring: the shared DSQ instead.       *)
EnqueueCongested(p) ==
    /\ where[p] \in {"wakeup", "putprev"}
    /\ Congested
    /\ where' = [where EXCEPT ![p] = AnyCpu]
    /\ \E K \in WokenBy(p) : resched' = Kicked(K, curr)
    /\ UNCHANGED <<left, qseq, enq_cnt, allowed, task_cpu, queued, dispatched, userVars, needed, curr,
                   cpuVars, early>>

rustland_enqueue(p) == EnqueueDirect(p) \/ EnqueueToUser(p) \/ EnqueueCongested(p)

(* A running task blocks, or exits when the bound does not let it wake up. *)
Block(c) ==
    /\ curr[c] \in Task
    /\ pc[c] = "out"
    /\ where' = [where EXCEPT ![curr[c]] =
          IF left[curr[c]] > 0 THEN "sleep" ELSE "gone"]
    /\ curr' = [curr EXCEPT ![c] = None]
    /\ resched' = [resched EXCEPT ![c] = TRUE]
    /\ UNCHANGED <<left, qseq, enq_cnt, allowed, task_cpu, queued, dispatched, userVars, needed,
                   cpuVars, early>>

(* A slice ends.  A task that the bound would not let be enqueued again    *)
(* leaves its CPU only by blocking.                                        *)
Expire(c) ==
    /\ curr[c] # None
    /\ curr[c] \in Task => left[curr[c]] > 0
    /\ pc[c] = "out"
    /\ ~resched[c]
    /\ resched' = [resched EXCEPT ![c] = TRUE]
    /\ UNCHANGED <<taskVars, enq_cnt, queued, dispatched, userVars, needed,
                   curr, cpuVars, early>>

-----------------------------------------------------------------------------
(* ops.dispatch on CPU c, with the task it runs, if any, as prev.          *)

usersched_has_pending_tasks == needed \/ nr_scheduled > 0 \/ queued # <<>>

(* The CPU is done with the drain and looks for work for the user-space    *)
(* scheduler, which clears usersched_needed.                               *)
LookForPending(c) ==
    /\ pc' = [pc EXCEPT ![c] = IF usersched_has_pending_tasks THEN "sched" ELSE "tasks"]
    /\ needed' = FALSE

(* schedule() on CPU c calls ops.dispatch.                                 *)
Begin(c) ==
    /\ pc[c] = "out"
    /\ resched[c]
    /\ resched' = [resched EXCEPT ![c] = FALSE]

(* One CPU at a time drains a user ring; another finds it busy.            *)
RingBusy == \E d \in Cpu : pc[d] \in {"insert", "check"}

(* bpf_user_ringbuf_drain has nothing to do: the ring is empty or busy, or *)
(* the task of the first message has exited and the message is dropped.    *)
DrainNothing(c) ==
    /\ Begin(c)
    /\ \/ /\ dispatched = <<>> \/ RingBusy
          /\ UNCHANGED dispatched
       \/ /\ dispatched # <<>> /\ ~RingBusy
          /\ where[Head(dispatched).pid] = "gone"
          /\ dispatched' = Tail(dispatched)
    /\ LookForPending(c)
    /\ UNCHANGED <<taskVars, enq_cnt, queued, userVars, curr, msg, buf, kick,
                   early>>

(* The first message is handled, and no other: handle_dispatched_task      *)
(* returns non-zero while the dispatch buffer has slots, which ends the    *)
(* drain.  A target the task may not use is replaced by the task's CPU.    *)
DrainMessage(c) ==
    /\ Begin(c)
    /\ dispatched # <<>>
    /\ ~RingBusy
    /\ LET m == Head(dispatched) IN
          /\ where[m.pid] # "gone"
          /\ msg' = [msg EXCEPT ![c] =
                [m EXCEPT !.cpu = IF @ \in allowed[m.pid] \cup {AnyCpu} THEN @
                                  ELSE task_cpu[m.pid]]]
    /\ dispatched' = Tail(dispatched)
    /\ pc' = [pc EXCEPT ![c] = "insert"]
    /\ UNCHANGED <<taskVars, enq_cnt, queued, userVars, needed, curr, buf,
                   kick, early>>

(* kick_task_cpu: the CPU, and an idle one if the task may not use it.     *)
kick_task_cpu(p, c) ==
    IF c \in allowed[p] \/ IdleFor(p) = {} THEN {{c}} ELSE {{c, d} : d \in IdleFor(p)}

(* scx_bpf_dsq_insert_vtime notes the task with the qseq it has now.  A    *)
(* message for any CPU ends here.                                          *)
Insert(c) ==
    /\ pc[c] = "insert"
    /\ LET m == msg[c] IN
          /\ buf' = [buf EXCEPT ![c] = [pid |-> m.pid, seq |-> qseq[m.pid]]]
          /\ IF m.cpu = AnyCpu
             THEN /\ LookForPending(c)
                  /\ \E K \in kick_task_cpu(m.pid, task_cpu[m.pid]) :
                        kick' = [kick EXCEPT ![c] = K]
             ELSE /\ pc' = [pc EXCEPT ![c] = "check"]
                  /\ UNCHANGED <<kick, needed>>
    /\ UNCHANGED <<kernelVars, enq_cnt, queued, dispatched, userVars, msg, early>>

(* Mutant: a dispatch is cancelled although it is for the last enqueue. *)
NewerOrSame(m) == enq_cnt[m.pid] >= m.cnt

(* Mutant: the enqueue a dispatch was decided for is not looked at. *)
NewerNever(m) == FALSE

Newer(m) == enq_cnt[m.pid] > m.cnt

(* scx_bpf_dispatch_cancel if the task was enqueued again since.           *)
Check(c) ==
    /\ pc[c] = "check"
    /\ LET m == msg[c] IN
          /\ buf' = IF Newer(m) THEN [buf EXCEPT ![c] = None] ELSE buf
          /\ kick' = IF Newer(m) THEN kick ELSE [kick EXCEPT ![c] = {m.cpu}]
          /\ early' = (early \/ /\ ~Newer(m)
                                /\ where[m.pid] \in {"wakeup", "putprev"}
                                /\ buf[c].seq = qseq[m.pid])
    /\ LookForPending(c)
    /\ UNCHANGED <<kernelVars, enq_cnt, queued, dispatched, userVars, msg>>

(* The kernel moves what is in the dispatch buffer to its DSQ, if the task *)
(* is still in the custody of BPF by the enqueue that was seen.            *)
Flushed(c) ==
    IF buf[c] # None /\ where[buf[c].pid] = "bpf" /\ qseq[buf[c].pid] = buf[c].seq
    THEN [where EXCEPT ![buf[c].pid] = msg[c].cpu]
    ELSE where

SchedWaits == \A c \in Cpu : curr[c] # Sched

(* What the CPU may run next, given where the tasks are: the user-space    *)
(* scheduler, a task of its DSQ, one of the shared DSQ.                    *)
Candidates(c, w) ==
    LET In(q) == {p \in Task : w[p] = q /\ c \in allowed[p]}
    IN  IF pc[c] = "sched" /\ SchedWaits THEN {Sched}
        ELSE IF In(c) # {} THEN In(c) ELSE In(AnyCpu)

(* The CPU runs next instead of prev.  prev is enqueued again: the         *)
(* scheduler to SCHED_DSQ, a task by ops.enqueue.                          *)
SwitchTo(c, w, next) ==
    LET prev == curr[c] IN
    /\ curr' = [curr EXCEPT ![c] = next]
    /\ task_cpu' = [task_cpu EXCEPT ![next] = c]
    /\ where' = [p \in Task |-> IF p = next THEN "run"
                                ELSE IF p = prev THEN "putprev" ELSE w[p]]
    /\ IF prev \in Task THEN Enqueued(prev) ELSE UNCHANGED <<left, qseq>>
    /\ UNCHANGED needed

(* Nothing else to run: a task goes on, the user-space scheduler only if   *)
(* there is work for it.                                                   *)
KeepPrev(c, w) ==
    /\ curr' = IF curr[c] = Sched /\ ~usersched_has_pending_tasks
               THEN [curr EXCEPT ![c] = None] ELSE curr
    /\ needed' = IF curr[c] = Sched THEN FALSE ELSE needed
    /\ where' = w
    /\ UNCHANGED <<left, qseq, task_cpu>>

(* scx_bpf_dsq_move_to_local, and the end of ops.dispatch.  The buffer is  *)
(* flushed first, which waits for an enqueue of its task under way.  A     *)
(* kick that came in the meantime counts if the CPU is idle now.           *)
Move(c) ==
    /\ pc[c] \in {"sched", "tasks"}
    /\ buf[c] # None => where[buf[c].pid] \notin {"wakeup", "putprev"}
    /\ LET w == Flushed(c) IN
          IF Candidates(c, w) # {}
          THEN \E next \in Candidates(c, w) : SwitchTo(c, w, next)
          ELSE KeepPrev(c, w)
    /\ resched' = [Kicked(kick[c], curr') EXCEPT ![c] = @ /\ curr'[c] = None]
    /\ pc' = [pc EXCEPT ![c] = "out"]
    /\ msg' = [msg EXCEPT ![c] = None]
    /\ buf' = [buf EXCEPT ![c] = None]
    /\ kick' = [kick EXCEPT ![c] = {}]
    /\ UNCHANGED <<enq_cnt, allowed, queued, dispatched, userVars, early>>

rustland_dispatch(c) ==
    DrainNothing(c) \/ DrainMessage(c) \/ Insert(c) \/ Check(c) \/ Move(c)

-----------------------------------------------------------------------------
(* Mutant: the heartbeat wakes a CPU and does not ask for the scheduler. *)
TimerKickOnly ==
    /\ SchedWaits
    /\ \A c \in Cpu : pc[c] = "out"
    /\ resched' = Kicked({task_cpu[Sched]}, curr)
    /\ resched' # resched
    /\ UNCHANGED <<taskVars, enq_cnt, queued, dispatched, userVars,
                   needed, curr, cpuVars, early>>

(* The heartbeat, for a scheduler that has not run for a while.  A CPU     *)
(* looks once per ops.dispatch at what it sets, so that a heartbeat during *)
(* one acts like one before or after it and is not modelled separately.    *)
usersched_timer_fn ==
    /\ SchedWaits
    /\ \A c \in Cpu : pc[c] = "out"
    /\ needed' = TRUE
    /\ resched' = Kicked({task_cpu[Sched]}, curr)
    /\ <<needed', resched'>> # <<needed, resched>>
    /\ UNCHANGED <<taskVars, enq_cnt, queued, dispatched, userVars, curr,
                   cpuVars, early>>

-----------------------------------------------------------------------------
(* The user-space scheduler, while it has a CPU.                           *)
OnCpu(c) == curr[c] = Sched /\ pc[c] = "out" /\ ~resched[c]

(* drain_queued_tasks: one dequeue_task, or the end of the ring.           *)
drain_queued_tasks ==
    /\ \E c \in Cpu : OnCpu(c)
    /\ upc = "drain"
    /\ IF queued # <<>>
       THEN /\ tasks' = tasks \cup {Head(queued)}
            /\ queued' = Tail(queued)
            /\ UNCHANGED upc
       ELSE /\ upc' = "dispatch"
            /\ UNCHANGED <<tasks, queued>>
    /\ UNCHANGED <<kernelVars, enq_cnt, dispatched, nr_scheduled, needed, cpuVars, early>>

(* dispatch_task sends one task of the pool to an idle CPU or to any; with *)
(* the ring full it goes back to the pool.  notify_complete publishes the  *)
(* size of the pool and yields.                                            *)
dispatch_and_notify ==
    /\ upc = "dispatch"
    /\ IF tasks = {} \/ Len(dispatched) >= DispLen
       THEN UNCHANGED <<tasks, dispatched>>
       ELSE \E m \in tasks : \E c \in IdleFor(m.pid) \cup {AnyCpu} :
               /\ dispatched' = Append(dispatched, [pid |-> m.pid, cnt |-> m.cnt, cpu |-> c])
               /\ tasks' = tasks \ {m}
    /\ nr_scheduled' = Cardinality(tasks')
    /\ upc' = "drain"
    /\ \E c \in Cpu : OnCpu(c) /\ resched' = [resched EXCEPT ![c] = TRUE]
    /\ UNCHANGED <<taskVars, enq_cnt, queued, needed, curr, cpuVars, early>>

schedule == drain_queued_tasks \/ dispatch_and_notify

-----------------------------------------------------------------------------
Next ==
    \/ \E p \in Task : rustland_select_cpu(p) \/ SetAffinity(p) \/ rustland_enqueue(p)
    \/ \E c \in Cpu : Block(c) \/ Expire(c) \/ rustland_dispatch(c)
    \/ usersched_timer_fn
    \/ schedule

(* The kernel completes what it has begun on a CPU, a slice ends, a slice  *)
(* is long enough for the user-space scheduler to take a step, and the     *)
(* timer re-arms itself.                                                   *)
Fairness ==
    /\ \A p \in Task : WF_vars(rustland_enqueue(p))
    /\ \A c \in Cpu : WF_vars(rustland_dispatch(c)) /\ WF_vars(Block(c) \/ Expire(c))
    /\ SF_vars(usersched_timer_fn)
    /\ SF_vars(schedule)

Spec == Init /\ [][Next]_vars /\ Fairness

-----------------------------------------------------------------------------
TypeOK ==
    /\ where \in [Task -> {"sleep", "wakeup", "putprev", "bpf", "run", "gone"} \cup Dsq]
    /\ left \in [Task -> Nat] /\ qseq \in [Task -> Nat]
    /\ enq_cnt \in [Task -> Nat]
    /\ allowed \in [Task -> (SUBSET Cpu) \ {{}}]
    /\ task_cpu \in [Task \cup {Sched} -> Cpu]
    /\ queued \in Seq(Message) /\ Len(queued) <= QueuedLen
    /\ dispatched \in Seq(Decision) /\ Len(dispatched) <= DispLen
    /\ tasks \in SUBSET Message
    /\ upc \in {"drain", "dispatch"}
    /\ nr_scheduled \in Nat
    /\ needed \in BOOLEAN /\ early \in BOOLEAN
    /\ curr \in [Cpu -> Task \cup {Sched, None}]
    /\ resched \in [Cpu -> BOOLEAN]
    /\ pc \in [Cpu -> {"out", "insert", "check", "sched", "tasks"}]
    /\ msg \in [Cpu -> Decision \cup {None}]
    /\ buf \in [Cpu -> [pid : Task, seq : Nat] \cup {None}]
    /\ kick \in [Cpu -> SUBSET Cpu]

Elements(s) == {s[i] : i \in 1..Len(s)}

(* The messages in the rings and in the pool.                              *)
InFlight == Elements(queued) \cup tasks \cup Elements(dispatched)

(* CPU c has the message of p's last enqueue in its hands and has not      *)
(* given it up.                                                            *)
Held(p, c) ==
    /\ msg[c] # None /\ msg[c].pid = p
    /\ \/ pc[c] = "insert" /\ msg[c].cnt = enq_cnt[p]
       \/ buf[c] # None /\ buf[c].seq = qseq[p]
             /\ (pc[c] = "check" => msg[c].cnt = enq_cnt[p])

(* The message of p's last enqueue is on its way.                          *)
HasMessage(p) ==
    \/ \E m \in InFlight : m.pid = p /\ m.cnt = enq_cnt[p]
    \/ \E c \in Cpu : Held(p, c)

(* A runnable task that only user space knows of is never forgotten: as    *)
(* long as it is in BPF custody, a message for its last enqueue exists,    *)
(* whatever was cancelled, dropped, refused for a full ring or put back.   *)
NoTaskForgotten == \A p \in Task : where[p] = "bpf" => HasMessage(p)

(* A task in a CPU's DSQ may run on that CPU, although its affinity can    *)
(* change between the test of the target and the insert: the insert comes  *)
(* before the comparison of enq_cnt.  Not covered is a drain that meets    *)
(* an enqueue between the kernel's new qseq and the new enq_cnt.           *)
TargetAllowed == ~early => \A p \in Task, c \in Cpu : where[p] = c => c \in allowed[p]

Waiting(p) == where[p] \in {"bpf"} \cup Dsq

(* A task that waits gets a CPU in the end: decisions are drained, idle    *)
(* CPUs are woken for them, and the heartbeat makes up for work that       *)
(* usersched_has_pending_tasks does not see.                               *)
WaitingTaskRuns ==
    \A p \in Task : (Waiting(p) /\ ~early) ~> (where[p] = "run" \/ early)

=============================================================================
