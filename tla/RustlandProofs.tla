--------------------------- MODULE RustlandProofs ---------------------------
(***************************************************************************)
(* Proofs about Rustland, for any number of CPUs and tasks, rings of any   *)
(* length and workloads of any size: types and ring lengths, that no task  *)
(* in the custody of BPF is forgotten, and that a task is only put into    *)
(* the DSQ of a CPU it may use.                                            *)
(*                                                                         *)
(* The last two are not inductive by themselves.  A message is lost when a *)
(* CPU cancels it, so it must be known that the CPU compares it with the   *)
(* counter of the enqueue the message is for (Counts) and that what it has *)
(* in its buffer is what it took from the ring (Handling).  A target is    *)
(* tested before it is used, so it must be known which of the three        *)
(* versions of the task the CPU has seen, the affinity, the sequence       *)
(* number or the counter, still tells that nothing happened since          *)
(* (Targets).  Running keeps the tasks that run apart from those that      *)
(* wait.                                                                   *)
(***************************************************************************)
EXTENDS Rustland, FiniteSetTheorems, TLAPS

\* Where a task may be other than in a queue.
State == {"sleep", "wakeup", "putprev", "bpf", "run", "gone"}

\* A task that a CPU runs is on no other CPU and in no queue, and may be enqueued
\* again when the CPU is about to put it aside.
Running ==
    \A c \in Cpu : curr[c] \in Task =>
        /\ where[curr[c]] = "run"
        /\ (resched[c] \/ pc[c] # "out") => left[curr[c]] > 0
        /\ \A d \in Cpu : curr[d] = curr[c] => d = c

\* What a CPU has in its hands at each step of ops.dispatch.
Handling ==
    \A c \in Cpu :
        /\ pc[c] \in {"insert", "check"} => msg[c] # None
        /\ pc[c] = "check" => msg[c].cpu # AnyCpu /\ buf[c] # None
        /\ buf[c] # None =>
              pc[c] \notin {"out", "insert"} /\ msg[c] # None /\ buf[c].pid = msg[c].pid

\* Messages and buffers are no newer than what they tell of.
Counts ==
    /\ \A m \in InFlight : m.cnt <= enq_cnt[m.pid]
    /\ \A c \in Cpu : msg[c] # None => msg[c].cnt <= enq_cnt[msg[c].pid]
    /\ \A c \in Cpu : buf[c] # None => buf[c].seq <= qseq[buf[c].pid]

\* A task's CPU, which stands in for a target it may not use, is one it may use.
Placed == \A p \in Task : task_cpu[p] \in allowed[p]

\* The task of c's message may run where the message says.
MayTarget(c) == msg[c].cpu \in allowed[msg[c].pid] \cup {AnyCpu}

\* The target is good as long as the message is of the last enqueue; once the
\* task is in the buffer, as long as no enqueue came since; and once the counters
\* were compared, by the sequence number alone.
Target(c) ==
    LET p == msg[c].pid IN
    /\ pc[c] = "insert" /\ where[p] = "bpf" /\ msg[c].cnt = enq_cnt[p] => MayTarget(c)
    /\ (/\ pc[c] = "check" /\ where[p] = "bpf" /\ msg[c].cnt = enq_cnt[p]
        /\ buf[c].seq = qseq[p]) => MayTarget(c)
    /\ (/\ pc[c] \in {"sched", "tasks"} /\ buf[c] # None /\ buf[c].seq = qseq[p]
        /\ ~early /\ msg[c].cpu # AnyCpu)
       => where[p] \notin {"wakeup", "putprev"} /\ (where[p] = "bpf" => MayTarget(c))

Targets == \A c \in Cpu : msg[c] # None => Target(c)

-----------------------------------------------------------------------------
(* Rings *)

\* Append adds the message to what the ring holds.
LEMMA ElementsAppend ==
    ASSUME NEW S, NEW s \in Seq(S), NEW e \in S
    PROVE  /\ Append(s, e) \in Seq(S) /\ Len(Append(s, e)) = Len(s) + 1
           /\ Elements(Append(s, e)) = Elements(s) \cup {e}
<1> DEFINE t == Append(s, e)
<1>1. t \in Seq(S) /\ Len(t) = Len(s) + 1 /\ Len(s) \in Nat
  OBVIOUS
<1>2. \A k \in 1..Len(s) : t[k] = s[k]
  OBVIOUS
<1>3. t[Len(s) + 1] = e
  OBVIOUS
<1>4. ASSUME NEW x \in Elements(t) PROVE x \in Elements(s) \cup {e}
  BY <1>1, <1>2, <1>3 DEF Elements
<1>5. ASSUME NEW x \in Elements(s) PROVE x \in Elements(t)
  BY <1>1, <1>2 DEF Elements
<1>6. e \in Elements(t)
  BY <1>1, <1>3 DEF Elements
<1> QED
  BY <1>1, <1>4, <1>5, <1>6

\* The same, of what the ring holds alone.
LEMMA ElementsAppended ==
    ASSUME NEW S, NEW s \in Seq(S), NEW e \in S
    PROVE  Elements(Append(s, e)) = Elements(s) \cup {e}
  BY ElementsAppend

\* Taking the first message leaves the others.
LEMMA ElementsTail ==
    ASSUME NEW S, NEW s \in Seq(S), s # <<>>
    PROVE  /\ Tail(s) \in Seq(S) /\ Len(Tail(s)) = Len(s) - 1
           /\ Head(s) \in S /\ Head(s) \in Elements(s)
           /\ Elements(s) = Elements(Tail(s)) \cup {Head(s)}
<1> DEFINE t == Tail(s)
<1>1. /\ t \in Seq(S) /\ Len(t) = Len(s) - 1 /\ Len(s) \in Nat /\ Len(s) > 0
      /\ Head(s) = s[1] /\ Head(s) \in S
  OBVIOUS
<1>2. \A k \in 1..Len(t) : t[k] = s[k + 1]
  OBVIOUS
<1>3. Head(s) \in Elements(s)
  BY <1>1 DEF Elements
<1>4. ASSUME NEW x \in Elements(t) PROVE x \in Elements(s)
  <2>1. PICK k \in 1..Len(t) : x = t[k]
    BY Zenon DEF Elements
  <2>2. k + 1 \in 1..Len(s) /\ x = s[k + 1]
    BY <2>1, <1>1, <1>2
  <2> QED
    BY <2>2 DEF Elements
<1>5. ASSUME NEW x \in Elements(s) PROVE x \in Elements(t) \cup {Head(s)}
  <2>1. PICK k \in 1..Len(s) : x = s[k]
    BY DEF Elements
  <2>2. CASE k = 1
    BY <2>1, <2>2, <1>1
  <2>3. CASE k # 1
    <3>1. k - 1 \in 1..Len(t) /\ x = t[k - 1]
      BY <2>1, <2>3, <1>1, <1>2
    <3> QED
      BY <3>1 DEF Elements
  <2> QED
    BY <2>2, <2>3
<1> QED
  BY <1>1, <1>3, <1>4, <1>5

\* A ring of messages holds messages.
LEMMA ElementsIn ==
    ASSUME NEW S, NEW s \in Seq(S)
    PROVE  Elements(s) \subseteq S
  BY DEF Elements

-----------------------------------------------------------------------------
(* Types *)

\* A kick sets flags.
LEMMA KickedType ==
    ASSUME TypeOK, NEW K, NEW cur
    PROVE  Kicked(K, cur) \in [Cpu -> BOOLEAN]
  BY DEF TypeOK, Kicked

\* An enqueue counts up one sequence number and takes one off the bound.
LEMMA EnqueuedType ==
    ASSUME TypeOK, NEW p \in Task, Enqueued(p), left[p] > 0
    PROVE  left' \in [Task -> Nat] /\ qseq' \in [Task -> Nat]
  BY DEF TypeOK, Enqueued

\* Idle CPUs that a task may use are CPUs.
LEMMA IdleForType ==
    ASSUME TypeOK, NEW p \in Task
    PROVE  IdleFor(p) \subseteq allowed[p] /\ allowed[p] \subseteq Cpu
  BY DEF TypeOK, IdleFor

\* ops.select_cpu and the enqueue it precedes keep the types.
LEMMA SelectType ==
    ASSUME TypeOK, NEW p \in Task, rustland_select_cpu(p)
    PROVE  TypeOK'
<1>1. PICK c \in IdleFor(p) \cup {task_cpu[p]} : task_cpu' = [task_cpu EXCEPT ![p] = c]
  BY Zenon DEF rustland_select_cpu
<1>2. c \in Cpu
  BY IdleForType DEF TypeOK
<1>3. left' \in [Task -> Nat] /\ qseq' \in [Task -> Nat]
  BY EnqueuedType DEF rustland_select_cpu
<1> QED
  BY Zenon, <1>1, <1>2, <1>3 DEF TypeOK, rustland_select_cpu, userVars, cpuVars

\* A change of affinity keeps the types: the task gets a CPU of its new set.
LEMMA AffinityType ==
    ASSUME TypeOK, NEW p \in Task, SetAffinity(p)
    PROVE  TypeOK'
<1>1. PICK A \in (SUBSET Cpu) \ {{}} :
         /\ allowed' = [allowed EXCEPT ![p] = A]
         /\ \E c \in IF task_cpu[p] \in A THEN {task_cpu[p]} ELSE A :
               task_cpu' = [task_cpu EXCEPT ![p] = c]
  BY Zenon DEF SetAffinity
<1>2. PICK c \in Cpu : task_cpu' = [task_cpu EXCEPT ![p] = c]
  BY Zenon, <1>1 DEF TypeOK
<1>3. left' \in [Task -> Nat] /\ qseq' \in [Task -> Nat]
  BY EnqueuedType DEF SetAffinity
<1> QED
  BY Zenon, <1>1, <1>2, <1>3 DEF TypeOK, SetAffinity, userVars, cpuVars

\* ops.enqueue keeps the types, and reserves no entry past the end of the ring.
LEMMA EnqueueType ==
    ASSUME TypeOK, NEW p \in Task, rustland_enqueue(p)
    PROVE  TypeOK'
<1>1. CASE EnqueueDirect(p)
  <2>1. PICK c \in IdleFor(p) : where' = [where EXCEPT ![p] = c] /\ resched' = Kicked({c}, curr)
    BY Zenon, <1>1 DEF EnqueueDirect
  <2>2. c \in Cpu
    BY IdleForType
  <2>3. resched' \in [Cpu -> BOOLEAN]
    BY <2>1, KickedType
  <2> QED
    BY Zenon, <1>1, <2>1, <2>2, <2>3 DEF TypeOK, EnqueueDirect, Dsq, userVars, cpuVars
<1>2. CASE EnqueueToUser(p)
  <2>1. resched' \in [Cpu -> BOOLEAN]
    BY <1>2, KickedType DEF EnqueueToUser
  <2>2. enq_cnt' \in [Task -> Nat]
    BY <1>2 DEF EnqueueToUser, TypeOK
  <2>3. [pid |-> p, cnt |-> enq_cnt'[p]] \in Message
    BY <2>2 DEF Message
  <2>4. queued' \in Seq(Message) /\ Len(queued') <= QueuedLen
    <3>1. Len(queued) \in Nat /\ Len(queued) < QueuedLen
      BY <1>2, RustlandConstants DEF EnqueueToUser, Congested, TypeOK
    <3> QED
      BY <1>2, <2>3, <3>1, ElementsAppend, RustlandConstants DEF EnqueueToUser, TypeOK
  <2> QED
    BY <1>2, <2>1, <2>2, <2>4 DEF TypeOK, EnqueueToUser, userVars, cpuVars
<1>3. CASE EnqueueCongested(p)
  <2>1. resched' \in [Cpu -> BOOLEAN]
    BY <1>3, KickedType DEF EnqueueCongested
  <2> QED
    BY <1>3, <2>1 DEF TypeOK, EnqueueCongested, Dsq, userVars, cpuVars
<1> QED
  BY <1>1, <1>2, <1>3 DEF rustland_enqueue

\* A task that blocks and a slice that ends keep the types.
LEMMA BlockType ==
    ASSUME TypeOK, NEW c \in Cpu, Block(c) \/ Expire(c)
    PROVE  TypeOK'
<1>1. CASE Block(c)
  <2>1. where' \in [Task -> State \cup Dsq]
    BY <1>1 DEF Block, TypeOK, State
  <2> QED
    BY Zenon, <1>1, <2>1 DEF TypeOK, Block, State, userVars, cpuVars
<1>2. CASE Expire(c)
  BY Zenon, <1>2 DEF TypeOK, Expire, taskVars, userVars, cpuVars
<1> QED
  BY <1>1, <1>2

\* The heartbeat keeps the types.
LEMMA TimerType ==
    ASSUME TypeOK, usersched_timer_fn
    PROVE  TypeOK'
<1>1. resched' \in [Cpu -> BOOLEAN]
  BY Zenon, KickedType DEF usersched_timer_fn
<1> QED
  BY Zenon, <1>1 DEF TypeOK, usersched_timer_fn, taskVars, userVars, cpuVars

\* The look for pending work keeps the types.
LEMMA LookType ==
    ASSUME TypeOK, NEW c \in Cpu, LookForPending(c)
    PROVE  /\ pc' \in [Cpu -> {"out", "insert", "check", "sched", "tasks"}]
           /\ needed' \in BOOLEAN
  BY Zenon DEF TypeOK, LookForPending

\* A drain keeps the types; the target it decides on is a CPU or any CPU.
LEMMA DrainType ==
    ASSUME TypeOK, NEW c \in Cpu, DrainNothing(c) \/ DrainMessage(c)
    PROVE  TypeOK'
<1>1. resched' \in [Cpu -> BOOLEAN]
  BY Zenon DEF TypeOK, DrainNothing, DrainMessage, Begin
<1>2. ASSUME dispatched # <<>>, dispatched' = Tail(dispatched)
      PROVE  dispatched' \in Seq(Decision) /\ Len(dispatched') <= DispLen
  BY <1>2, ElementsTail, RustlandConstants, SMT DEF TypeOK
<1>3. dispatched' \in Seq(Decision) /\ Len(dispatched') <= DispLen
  BY Zenon, <1>2 DEF TypeOK, DrainNothing, DrainMessage
<1>4. CASE DrainNothing(c)
  <2>1. /\ pc' \in [Cpu -> {"out", "insert", "check", "sched", "tasks"}]
        /\ needed' \in BOOLEAN
    BY Zenon, <1>4, LookType DEF DrainNothing
  <2> QED
    BY Zenon, <1>1, <1>3, <1>4, <2>1 DEF TypeOK, DrainNothing, taskVars, userVars
<1>5. CASE DrainMessage(c)
  <2> DEFINE m == Head(dispatched)
             t == IF m.cpu \in allowed[m.pid] \cup {AnyCpu} THEN m.cpu ELSE task_cpu[m.pid]
  <2>1. m \in Decision
    BY Zenon, <1>5, ElementsTail DEF DrainMessage, TypeOK
  <2>2. m.pid \in Task /\ m.cnt \in Nat /\ m.cpu \in Cpu \cup {AnyCpu}
    BY <2>1 DEF Decision
  <2>3. t \in Cpu \cup {AnyCpu}
    BY Zenon, <2>2 DEF TypeOK
  <2>4. msg' = [msg EXCEPT ![c] = [m EXCEPT !.cpu = t]]
    BY <1>5 DEF DrainMessage
  <2>5. [m EXCEPT !.cpu = t] \in Decision
    BY <2>1, <2>3 DEF Decision
  <2>6. msg' \in [Cpu -> Decision \cup {None}]
    BY Zenon, <2>4, <2>5 DEF TypeOK
  <2>7. pc' \in [Cpu -> {"out", "insert", "check", "sched", "tasks"}]
    BY Zenon, <1>5 DEF DrainMessage, TypeOK
  <2> QED
    BY Zenon, <1>1, <1>3, <1>5, <2>6, <2>7 DEF TypeOK, DrainMessage, taskVars, userVars
<1> QED
  BY <1>4, <1>5

\* kick_task_cpu asks for CPUs.
LEMMA KickTaskType ==
    ASSUME TypeOK, NEW p \in Task, NEW K \in kick_task_cpu(p, task_cpu[p])
    PROVE  K \subseteq Cpu
<1>1. task_cpu[p] \in Cpu
  BY Zenon DEF TypeOK
<1>2. IdleFor(p) \subseteq Cpu
  BY Zenon, IdleForType
<1> QED
  BY Zenon, <1>1, <1>2 DEF kick_task_cpu

\* An insert into the dispatch buffer keeps the types.
LEMMA InsertType ==
    ASSUME TypeOK, Handling, NEW c \in Cpu, Insert(c)
    PROVE  TypeOK'
<1>1. msg[c] \in Decision
  BY Zenon DEF TypeOK, Handling, Insert
<1>2. msg[c].pid \in Task
  BY <1>1 DEF Decision
<1>3. qseq[msg[c].pid] \in Nat
  BY Zenon, <1>2 DEF TypeOK
<1>4. [pid |-> msg[c].pid, seq |-> qseq[msg[c].pid]] \in [pid : Task, seq : Nat]
  BY <1>2, <1>3
<1>5. buf' \in [Cpu -> [pid : Task, seq : Nat] \cup {None}]
  BY Zenon, <1>4 DEF TypeOK, Insert
<1>6. /\ pc' \in [Cpu -> {"out", "insert", "check", "sched", "tasks"}]
      /\ needed' \in BOOLEAN
  BY Zenon, LookType DEF Insert, TypeOK
<1>7. kick' \in [Cpu -> SUBSET Cpu]
  <2>1. CASE msg[c].cpu = AnyCpu
    <3>1. PICK K \in kick_task_cpu(msg[c].pid, task_cpu[msg[c].pid]) :
             kick' = [kick EXCEPT ![c] = K]
      BY Zenon, <2>1 DEF Insert
    <3>2. K \subseteq Cpu
      BY Zenon, <1>2, KickTaskType
    <3> QED
      BY Zenon, <3>1, <3>2 DEF TypeOK
  <2>2. CASE msg[c].cpu # AnyCpu
    BY Zenon, <2>2 DEF Insert, TypeOK
  <2> QED
    BY Zenon, <2>1, <2>2
<1> QED
  BY Zenon, <1>5, <1>6, <1>7 DEF TypeOK, Insert, kernelVars, taskVars, userVars

\* The comparison of enq_cnt keeps the types; it kicks a CPU, never RL_CPU_ANY.
LEMMA CheckType ==
    ASSUME TypeOK, Handling, NEW c \in Cpu, Check(c)
    PROVE  TypeOK'
<1>1. msg[c] \in Decision /\ msg[c].cpu # AnyCpu
  BY Zenon DEF TypeOK, Handling, Check
<1>2. msg[c].cpu \in Cpu
  BY <1>1 DEF Decision
<1>3. buf' \in [Cpu -> [pid : Task, seq : Nat] \cup {None}]
  BY Zenon DEF TypeOK, Check
<1>4. kick' \in [Cpu -> SUBSET Cpu]
  <2>1. {msg[c].cpu} \in SUBSET Cpu
    BY Zenon, <1>2
  <2> QED
    BY Zenon, <2>1 DEF TypeOK, Check
<1>5. /\ pc' \in [Cpu -> {"out", "insert", "check", "sched", "tasks"}]
      /\ needed' \in BOOLEAN
  BY Zenon, LookType DEF Check
<1>6. early' \in BOOLEAN
  BY Zenon DEF TypeOK, Check
<1> QED
  BY Zenon, <1>3, <1>4, <1>5, <1>6 DEF TypeOK, Check, kernelVars, taskVars, userVars

-----------------------------------------------------------------------------
(* What ops.dispatch does to the tasks at its end *)

\* The flush of the dispatch buffer leaves every task in a state or a queue.
LEMMA FlushedType ==
    ASSUME TypeOK, Handling, NEW c \in Cpu
    PROVE  Flushed(c) \in [Task -> State \cup Dsq]
<1>1. where \in [Task -> State \cup Dsq]
  BY Zenon DEF TypeOK, State
<1>2. ASSUME buf[c] # None PROVE msg[c].cpu \in State \cup Dsq
  <2>1. msg[c] \in Decision
    BY Zenon, <1>2 DEF TypeOK, Handling
  <2> QED
    BY <2>1 DEF Decision, Dsq
<1> QED
  BY Zenon, <1>1, <1>2 DEF Flushed

\* What the flush does to a task: nothing, or it moves the task from the custody
\* of BPF into the queue of the message, seen with the sequence number it has.
LEMMA FlushedIs ==
    ASSUME TypeOK, Handling, NEW c \in Cpu, NEW p \in Task
    PROVE     \/ /\ Flushed(c)[p] = where[p]
                 /\ where[p] = "bpf" =>
                       ~(buf[c] # None /\ msg[c].pid = p /\ buf[c].seq = qseq[p])
              \/ /\ where[p] = "bpf" /\ buf[c] # None /\ msg[c].pid = p
                 /\ buf[c].seq = qseq[p] /\ msg[c] # None
                 /\ Flushed(c)[p] = msg[c].cpu /\ msg[c].cpu \in Dsq
<1>1. where \in [Task -> State \cup Dsq]
  BY Zenon DEF TypeOK, State
<1>2. CASE buf[c] # None /\ where[buf[c].pid] = "bpf" /\ qseq[buf[c].pid] = buf[c].seq
  <2>1. Flushed(c) = [where EXCEPT ![buf[c].pid] = msg[c].cpu]
    BY Zenon, <1>2 DEF Flushed
  <2>2. msg[c] # None /\ buf[c].pid = msg[c].pid
    BY Zenon, <1>2 DEF Handling
  <2>3. msg[c] \in Decision
    BY Zenon, <2>2 DEF TypeOK
  <2>4. msg[c].cpu \in Dsq /\ msg[c].pid \in Task
    BY <2>3 DEF Decision, Dsq
  <2>6. CASE p = msg[c].pid
    BY Zenon, <1>1, <1>2, <2>1, <2>2, <2>4, <2>6
  <2>7. CASE p # msg[c].pid
    BY Zenon, <1>1, <2>1, <2>2, <2>7
  <2> QED
    BY Zenon, <2>6, <2>7
<1>3. CASE ~(buf[c] # None /\ where[buf[c].pid] = "bpf" /\ qseq[buf[c].pid] = buf[c].seq)
  <2>1. Flushed(c) = where
    BY Zenon, <1>3 DEF Flushed
  <2> QED
    BY Zenon, <1>1, <1>3, <2>1 DEF Handling
<1> QED
  BY Zenon, <1>2, <1>3

\* What a CPU may run next is the scheduler or a task of a queue the CPU serves.
LEMMA CandidatesAre ==
    ASSUME NEW c \in Cpu, NEW w, NEW next \in Candidates(c, w)
    PROVE  next = Sched \/ (next \in Task /\ w[next] \in {c, AnyCpu} /\ c \in allowed[next])
  BY Zenon DEF Candidates

\* The names of the states are no queues.
LEMMA StatesNotDsq == State \cap Dsq = {} /\ Cpu \subseteq Dsq /\ AnyCpu \in Dsq
  BY Zenon, RustlandConstants DEF State, Dsq

\* What a switch does: the next task was in a queue that the CPU serves, it is
\* not the task that ran, and it runs nowhere else.
LEMMA SwitchStep ==
    ASSUME TypeOK, Handling, Running, NEW c \in Cpu,
           NEW next \in Candidates(c, Flushed(c))
    PROVE  /\ next \in Task \cup {Sched} /\ next # None
           /\ next \in Task => /\ c \in allowed[next]
                               /\ Flushed(c)[next] \in {c, AnyCpu}
                               /\ \A d \in Cpu : curr[d] # next
<1>1. next = Sched \/ (next \in Task /\ Flushed(c)[next] \in {c, AnyCpu} /\ c \in allowed[next])
  BY Zenon, CandidatesAre
<1>2. ASSUME next \in Task, NEW d \in Cpu, curr[d] = next PROVE FALSE
  <2>1. where[next] = "run"
    BY Zenon, <1>2 DEF Running
  <2>2. Flushed(c)[next] = "run"
    BY Zenon, <1>2, <2>1, FlushedIs
  <2>3. Flushed(c)[next] \in {c, AnyCpu}
    BY Zenon, <1>1, <1>2, RustlandConstants
  <2> QED
    BY Zenon, <2>2, <2>3, StatesNotDsq DEF State
<1> QED
  BY Zenon, <1>1, <1>2, RustlandConstants

\* The end of ops.dispatch without a switch.
LEMMA KeepFacts ==
    ASSUME TypeOK, Handling, NEW c \in Cpu, KeepPrev(c, Flushed(c))
    PROVE  /\ where' = Flushed(c) /\ left' = left /\ qseq' = qseq /\ task_cpu' = task_cpu
           /\ curr' \in [Cpu -> Task \cup {Sched, None}] /\ needed' \in BOOLEAN
           /\ curr'[c] \in {curr[c], None}
           /\ \A d \in Cpu : d # c => curr'[d] = curr[d]
  BY Zenon DEF KeepPrev, TypeOK

\* The end of ops.dispatch with a switch: prev is enqueued again.
LEMMA SwitchEnqueues ==
    ASSUME TypeOK, Running, NEW c \in Cpu, pc[c] # "out", NEW next,
           SwitchTo(c, Flushed(c), next)
    PROVE  /\ left' \in [Task -> Nat] /\ qseq' \in [Task -> Nat]
           /\ \A p \in Task : p # curr[c] => qseq'[p] = qseq[p] /\ left'[p] = left[p]
           /\ curr[c] \in Task => qseq'[curr[c]] = qseq[curr[c]] + 1
<1>1. CASE curr[c] \in Task
  <2>1. Enqueued(curr[c])
    BY Zenon, <1>1 DEF SwitchTo
  <2>2. left[curr[c]] > 0
    BY Zenon, <1>1 DEF Running
  <2>3. left' \in [Task -> Nat] /\ qseq' \in [Task -> Nat]
    BY Zenon, <1>1, <2>1, <2>2, EnqueuedType
  <2> QED
    BY Zenon, <1>1, <2>1, <2>3 DEF Enqueued, TypeOK
<1>2. CASE curr[c] \notin Task
  BY Zenon, <1>2 DEF SwitchTo, TypeOK
<1> QED
  BY Zenon, <1>1, <1>2

\* The types it keeps.
LEMMA SwitchTypes ==
    ASSUME TypeOK, Handling, Running, NEW c \in Cpu,
           NEW next \in Candidates(c, Flushed(c)), SwitchTo(c, Flushed(c), next)
    PROVE  /\ where' \in [Task -> State \cup Dsq]
           /\ task_cpu' \in [Task \cup {Sched} -> Cpu]
           /\ curr' \in [Cpu -> Task \cup {Sched, None}] /\ needed' \in BOOLEAN
           /\ \A d \in Cpu : d # c => curr'[d] = curr[d]
<1>1. next \in Task \cup {Sched}
  BY Zenon, SwitchStep
<1>2. Flushed(c) \in [Task -> State \cup Dsq]
  BY Zenon, FlushedType
<1>3. where' = [p \in Task |-> IF p = next THEN "run"
                              ELSE IF p = curr[c] THEN "putprev" ELSE Flushed(c)[p]]
  BY Zenon DEF SwitchTo
<1>4. where' \in [Task -> State \cup Dsq]
  BY Zenon, <1>2, <1>3 DEF State
<1>5. /\ task_cpu' \in [Task \cup {Sched} -> Cpu]
      /\ curr' \in [Cpu -> Task \cup {Sched, None}] /\ needed' \in BOOLEAN
      /\ \A d \in Cpu : d # c => curr'[d] = curr[d]
  BY Zenon, <1>1 DEF SwitchTo, TypeOK
<1> QED
  BY Zenon, <1>4, <1>5

\* Where it leaves the tasks.
LEMMA SwitchWhere ==
    ASSUME NEW c \in Cpu, TypeOK, NEW next, SwitchTo(c, Flushed(c), next), NEW p \in Task
    PROVE  /\ curr'[c] = next
           /\ p = next => where'[p] = "run"
           /\ p # next /\ p = curr[c] => where'[p] = "putprev"
           /\ p # next /\ p # curr[c] => where'[p] = Flushed(c)[p]
  BY Zenon DEF SwitchTo, TypeOK

\* What ops.dispatch does at its end to a task.
LEMMA MoveTask ==
    ASSUME TypeOK, Handling, Running, NEW c \in Cpu, Move(c), NEW p \in Task
    PROVE  /\ where'[p] = "bpf" =>
                 /\ where[p] = "bpf" /\ qseq'[p] = qseq[p]
                 /\ ~(buf[c] # None /\ msg[c].pid = p /\ buf[c].seq = qseq[p])
           /\ where'[p] \in {"wakeup", "putprev"} =>
                 (where'[p] = where[p] /\ qseq'[p] = qseq[p]) \/ qseq'[p] = qseq[p] + 1
           /\ qseq'[p] \in {qseq[p], qseq[p] + 1}
           /\ where'[p] \in Dsq =>
                 \/ where[p] = where'[p]
                 \/ /\ where[p] = "bpf" /\ buf[c] # None /\ msg[c].pid = p /\ msg[c] # None
                    /\ buf[c].seq = qseq[p] /\ where'[p] = msg[c].cpu
<1> DEFINE w == Flushed(c)
<1>1. /\ \/ /\ w[p] = where[p]
            /\ where[p] = "bpf" =>
                  ~(buf[c] # None /\ msg[c].pid = p /\ buf[c].seq = qseq[p])
         \/ /\ where[p] = "bpf" /\ buf[c] # None /\ msg[c].pid = p
            /\ buf[c].seq = qseq[p] /\ msg[c] # None
            /\ w[p] = msg[c].cpu /\ msg[c].cpu \in Dsq
  BY Zenon, FlushedIs
<1>2. /\ State \cap Dsq = {}
      /\ "bpf" \in State /\ "run" \in State /\ "wakeup" \in State /\ "putprev" \in State
  BY Zenon, StatesNotDsq DEF State
<1>3. CASE Candidates(c, w) # {}
  <2>1. PICK next \in Candidates(c, w) : SwitchTo(c, w, next)
    BY Zenon, <1>3 DEF Move
  <2>2. pc[c] # "out"
    BY DEF Move
  <2> HIDE DEF w
  <2>3. /\ p = next => where'[p] = "run"
        /\ p # next /\ p = curr[c] => where'[p] = "putprev"
        /\ p # next /\ p # curr[c] => where'[p] = w[p]
    BY Zenon, <2>1, SwitchWhere DEF w
  <2>8. IF p = curr[c] THEN qseq'[p] = qseq[p] + 1 ELSE qseq'[p] = qseq[p]
    BY Zenon, <2>1, <2>2, SwitchEnqueues DEF w
  <2>4. p = next => p # curr[c]
    BY ZenonT(30), <2>1, SwitchStep DEF w
  <2>5. CASE p = next
    BY Zenon, <1>2, <2>3, <2>4, <2>5, <2>8
  <2>6. CASE p # next /\ p = curr[c]
    BY Zenon, <1>2, <2>3, <2>6, <2>8
  <2>7. CASE p # next /\ p # curr[c]
    <3>1. where'[p] = w[p] /\ qseq'[p] = qseq[p]
      BY Zenon, <2>3, <2>7, <2>8
    <3> QED
      BY Zenon, <1>1, <1>2, <3>1
  <2> QED
    BY Zenon, <2>5, <2>6, <2>7
<1>4. CASE Candidates(c, w) = {}
  <2>1. KeepPrev(c, w)
    BY Zenon, <1>4 DEF Move
  <2>2. where'[p] = w[p] /\ qseq'[p] = qseq[p]
    BY Zenon, <2>1, KeepFacts
  <2> HIDE DEF w
  <2> QED
    BY Zenon, <1>1, <1>2, <2>2
<1> QED
  BY Zenon, <1>3, <1>4

\* The end of ops.dispatch, on the CPUs.
LEMMA MoveCpus ==
    ASSUME TypeOK, Handling, Running, NEW c \in Cpu, Move(c)
    PROVE  /\ where' \in [Task -> State \cup Dsq]
           /\ left' \in [Task -> Nat] /\ qseq' \in [Task -> Nat]
           /\ task_cpu' \in [Task \cup {Sched} -> Cpu]
           /\ curr' \in [Cpu -> Task \cup {Sched, None}] /\ needed' \in BOOLEAN
           /\ \A d \in Cpu : d # c => curr'[d] = curr[d]
<1> DEFINE w == Flushed(c)
<1>1. w \in [Task -> State \cup Dsq]
  BY Zenon, FlushedType
<1>2. CASE Candidates(c, w) # {}
  <2>1. PICK next \in Candidates(c, w) : SwitchTo(c, w, next)
    BY Zenon, <1>2 DEF Move
  <2>2. pc[c] # "out"
    BY DEF Move
  <2> HIDE DEF w
  <2>3. left' \in [Task -> Nat] /\ qseq' \in [Task -> Nat]
    BY Zenon, <2>1, <2>2, SwitchEnqueues DEF w
  <2>4. /\ where' \in [Task -> State \cup Dsq]
        /\ task_cpu' \in [Task \cup {Sched} -> Cpu]
        /\ curr' \in [Cpu -> Task \cup {Sched, None}] /\ needed' \in BOOLEAN
        /\ \A d \in Cpu : d # c => curr'[d] = curr[d]
    BY Zenon, <2>1, SwitchTypes DEF w
  <2> QED
    BY Zenon, <2>3, <2>4
<1>3. CASE Candidates(c, w) = {}
  <2>1. KeepPrev(c, w)
    BY Zenon, <1>3 DEF Move
  <2> QED
    BY Zenon, <1>1, <2>1, KeepFacts DEF TypeOK
<1> QED
  BY Zenon, <1>2, <1>3

\* The end of ops.dispatch keeps the types.
LEMMA MoveType ==
    ASSUME TypeOK, Handling, Running, NEW c \in Cpu, Move(c)
    PROVE  TypeOK'
<1>1. /\ where' \in [Task -> State \cup Dsq]
      /\ left' \in [Task -> Nat] /\ qseq' \in [Task -> Nat]
      /\ task_cpu' \in [Task \cup {Sched} -> Cpu]
      /\ curr' \in [Cpu -> Task \cup {Sched, None}] /\ needed' \in BOOLEAN
  BY Zenon, MoveCpus
<1>2. resched' \in [Cpu -> BOOLEAN]
  <2>1. Kicked(kick[c], curr') \in [Cpu -> BOOLEAN]
    BY Zenon, KickedType
  <2> QED
    BY Zenon, <2>1 DEF Move
<1>3. /\ pc' \in [Cpu -> {"out", "insert", "check", "sched", "tasks"}]
      /\ msg' \in [Cpu -> Decision \cup {None}]
      /\ buf' \in [Cpu -> [pid : Task, seq : Nat] \cup {None}]
      /\ kick' \in [Cpu -> SUBSET Cpu]
  BY Zenon DEF Move, TypeOK
<1> QED
  BY Zenon, <1>1, <1>2, <1>3 DEF TypeOK, State, Move, userVars

\* drain_queued_tasks keeps the types and the pool finite.
LEMMA DrainQueuedType ==
    ASSUME TypeOK, IsFiniteSet(tasks), drain_queued_tasks
    PROVE  TypeOK' /\ IsFiniteSet(tasks')
<1>1. CASE queued # <<>>
  <2>1. /\ Head(queued) \in Message /\ Tail(queued) \in Seq(Message)
        /\ Len(Tail(queued)) = Len(queued) - 1
    BY Zenon, <1>1, ElementsTail DEF TypeOK
  <2>2. tasks' = tasks \cup {Head(queued)} /\ queued' = Tail(queued) /\ upc' = upc
    BY Zenon, <1>1 DEF drain_queued_tasks
  <2>3. queued' \in Seq(Message) /\ Len(queued') <= QueuedLen
    BY <2>1, <2>2, RustlandConstants DEF TypeOK
  <2>4. tasks' \in SUBSET Message /\ IsFiniteSet(tasks')
    <3>1. tasks \in SUBSET Message
      BY Zenon DEF TypeOK
    <3> QED
      BY Zenon, <2>1, <2>2, <3>1, FS_AddElement
  <2> QED
    BY Zenon, <2>2, <2>3, <2>4 DEF TypeOK, drain_queued_tasks, kernelVars, taskVars, cpuVars
<1>2. CASE queued = <<>>
  BY Zenon, <1>2 DEF TypeOK, drain_queued_tasks, kernelVars, taskVars, cpuVars
<1> QED
  BY Zenon, <1>1, <1>2

\* What the user-space scheduler sends is a message of its pool, with a target.
LEMMA DispatchStep ==
    ASSUME TypeOK, IsFiniteSet(tasks), dispatch_and_notify
    PROVE  \/ tasks' = tasks /\ dispatched' = dispatched
           \/ \E m \in tasks : \E c \in Dsq :
                 /\ Len(dispatched) < DispLen
                 /\ [pid |-> m.pid, cnt |-> m.cnt, cpu |-> c] \in Decision
                 /\ dispatched' = Append(dispatched, [pid |-> m.pid, cnt |-> m.cnt, cpu |-> c])
                 /\ tasks' = tasks \ {m}
<1>1. CASE tasks = {} \/ Len(dispatched) >= DispLen
  BY Zenon, <1>1 DEF dispatch_and_notify
<1>2. CASE ~(tasks = {} \/ Len(dispatched) >= DispLen)
  <2>1. PICK m \in tasks : \E c \in IdleFor(m.pid) \cup {AnyCpu} :
           /\ dispatched' = Append(dispatched, [pid |-> m.pid, cnt |-> m.cnt, cpu |-> c])
           /\ tasks' = tasks \ {m}
    BY Zenon, <1>2 DEF dispatch_and_notify
  <2>2. PICK c \in IdleFor(m.pid) \cup {AnyCpu} :
           /\ dispatched' = Append(dispatched, [pid |-> m.pid, cnt |-> m.cnt, cpu |-> c])
           /\ tasks' = tasks \ {m}
    BY Zenon, <2>1
  <2>3. m \in Message
    BY Zenon DEF TypeOK
  <2>4. m.pid \in Task /\ m.cnt \in Nat
    BY <2>3 DEF Message
  <2>5. c \in Dsq
    BY Zenon, <2>4, IdleForType DEF Dsq
  <2>6. [pid |-> m.pid, cnt |-> m.cnt, cpu |-> c] \in Decision
    BY <2>4, <2>5 DEF Decision, Dsq
  <2>7. Len(dispatched) \in Nat
    BY DEF TypeOK
  <2>8. Len(dispatched) < DispLen
    BY <1>2, <2>7, RustlandConstants
  <2> QED
    BY Zenon, <2>2, <2>5, <2>6, <2>8
<1> QED
  BY Zenon, <1>1, <1>2

\* dispatch_task and notify_complete keep the types and the pool finite, and write
\* no decision past the end of the ring.
LEMMA DispatchType ==
    ASSUME TypeOK, IsFiniteSet(tasks), dispatch_and_notify
    PROVE  TypeOK' /\ IsFiniteSet(tasks')
<1>1. CASE tasks' = tasks /\ dispatched' = dispatched
  <2>1. nr_scheduled' \in Nat
    BY Zenon, <1>1, FS_CardinalityType DEF dispatch_and_notify
  <2>2. resched' \in [Cpu -> BOOLEAN]
    BY Zenon DEF dispatch_and_notify, TypeOK
  <2> QED
    BY Zenon, <1>1, <2>1, <2>2 DEF TypeOK, dispatch_and_notify, taskVars, cpuVars
<1>2. ASSUME NEW m \in tasks, NEW c \in Dsq, Len(dispatched) < DispLen,
             [pid |-> m.pid, cnt |-> m.cnt, cpu |-> c] \in Decision,
             dispatched' = Append(dispatched, [pid |-> m.pid, cnt |-> m.cnt, cpu |-> c]),
             tasks' = tasks \ {m}
      PROVE  TypeOK' /\ IsFiniteSet(tasks')
  <2> DEFINE e == [pid |-> m.pid, cnt |-> m.cnt, cpu |-> c]
  <2> HIDE DEF e
  <2>1. IsFiniteSet(tasks') /\ tasks' \in SUBSET Message
    BY Zenon, <1>2, FS_RemoveElement DEF TypeOK
  <2>2. nr_scheduled' \in Nat
    BY Zenon, <2>1, FS_CardinalityType DEF dispatch_and_notify
  <2>3. e \in Decision /\ dispatched' = Append(dispatched, e)
    BY Zenon, <1>2 DEF e
  <2>4. dispatched' \in Seq(Decision) /\ Len(dispatched') = Len(dispatched) + 1
    BY Zenon, <2>3, ElementsAppend DEF TypeOK
  <2>5. Len(dispatched) \in Nat
    BY DEF TypeOK
  <2>6. Len(dispatched') <= DispLen
    BY <1>2, <2>4, <2>5, RustlandConstants
  <2>7. resched' \in [Cpu -> BOOLEAN]
    BY Zenon DEF dispatch_and_notify, TypeOK
  <2> QED
    BY Zenon, <2>1, <2>2, <2>4, <2>6, <2>7 DEF TypeOK, dispatch_and_notify, taskVars, cpuVars
<1> QED
  BY Zenon, <1>1, <1>2, DispatchStep

-----------------------------------------------------------------------------
(* Who runs where *)

\* CPUs that go on running what they ran.
LEMMA RunningFrame ==
    ASSUME Running, curr' = curr,
           \A c \in Cpu : curr[c] \in Task =>
               /\ where'[curr[c]] = "run" /\ left'[curr[c]] = left[curr[c]]
               /\ resched'[c] \/ pc'[c] # "out" =>
                     resched[c] \/ pc[c] # "out" \/ left[curr[c]] > 0
    PROVE  Running'
<1> SUFFICES ASSUME NEW c \in Cpu, curr[c] \in Task
             PROVE  /\ where'[curr[c]] = "run"
                    /\ (resched'[c] \/ pc'[c] # "out") => left'[curr[c]] > 0
                    /\ \A d \in Cpu : curr[d] = curr[c] => d = c
  BY Zenon DEF Running
<1>1. /\ where[curr[c]] = "run"
      /\ (resched[c] \/ pc[c] # "out") => left[curr[c]] > 0
      /\ \A d \in Cpu : curr[d] = curr[c] => d = c
  BY Zenon DEF Running
<1> QED
  BY Zenon, <1>1

\* A kick does not reach a CPU that runs a task.
LEMMA KickedRuns ==
    ASSUME NEW K, NEW cur, NEW c \in Cpu, cur[c] \in Task, Kicked(K, cur)[c]
    PROVE  resched[c]
<1>1. cur[c] # None
  BY Zenon, RustlandConstants
<1> QED
  BY Zenon, <1>1 DEF Kicked

\* A task that does not run changes its place.
LEMMA RunningTask ==
    ASSUME TypeOK, Running, NEW p \in Task,
           rustland_select_cpu(p) \/ SetAffinity(p) \/ rustland_enqueue(p)
    PROVE  Running'
<1>1. where[p] # "run"
  <2>1. where[p] \in Dsq => where[p] # "run"
    BY Zenon, StatesNotDsq DEF State
  <2> QED
    BY Zenon, <2>1 DEF rustland_select_cpu, SetAffinity, rustland_enqueue, EnqueueDirect,
                       EnqueueToUser, EnqueueCongested
<1>2. \E x : where' = [where EXCEPT ![p] = x]
  BY Zenon DEF rustland_select_cpu, SetAffinity, rustland_enqueue, EnqueueDirect,
               EnqueueToUser, EnqueueCongested
<1>3. left' = left \/ left' = [left EXCEPT ![p] = @ - 1]
  BY Zenon DEF rustland_select_cpu, SetAffinity, rustland_enqueue, EnqueueDirect,
               EnqueueToUser, EnqueueCongested, Enqueued
<1>4. curr' = curr /\ pc' = pc
  BY Zenon DEF rustland_select_cpu, SetAffinity, rustland_enqueue, EnqueueDirect,
               EnqueueToUser, EnqueueCongested, cpuVars
<1>5. resched' = resched \/ \E K : resched' = Kicked(K, curr)
  BY Zenon DEF rustland_select_cpu, SetAffinity, rustland_enqueue, EnqueueDirect,
               EnqueueToUser, EnqueueCongested
<1>6. ASSUME NEW c \in Cpu, curr[c] \in Task
      PROVE  /\ where'[curr[c]] = "run" /\ left'[curr[c]] = left[curr[c]]
             /\ resched'[c] \/ pc'[c] # "out" =>
                   resched[c] \/ pc[c] # "out" \/ left[curr[c]] > 0
  <2>1. where[curr[c]] = "run" /\ curr[c] # p
    BY Zenon, <1>1, <1>6 DEF Running
  <2>2. where'[curr[c]] = where[curr[c]]
    BY Zenon, <1>2, <1>6, <2>1 DEF TypeOK
  <2>3. left'[curr[c]] = left[curr[c]]
    BY Zenon, <1>3, <1>6, <2>1 DEF TypeOK
  <2>4. resched'[c] => resched[c]
    BY Zenon, <1>5, <1>6, KickedRuns
  <2> QED
    BY Zenon, <1>4, <2>1, <2>2, <2>3, <2>4
<1> QED
  BY Zenon, <1>4, <1>6, RunningFrame

\* A task that runs blocks, or its slice ends.
LEMMA RunningBlock ==
    ASSUME TypeOK, Running, NEW c \in Cpu, Block(c) \/ Expire(c)
    PROVE  Running'
<1>1. CASE Block(c)
  <2> SUFFICES ASSUME NEW d \in Cpu, curr'[d] \in Task
               PROVE  /\ where'[curr'[d]] = "run"
                      /\ (resched'[d] \/ pc'[d] # "out") => left'[curr'[d]] > 0
                      /\ \A e \in Cpu : curr'[e] = curr'[d] => e = d
    BY Zenon DEF Running
  <2>1. /\ curr' = [curr EXCEPT ![c] = None] /\ curr[c] \in Task
        /\ resched' = [resched EXCEPT ![c] = TRUE]
        /\ \E x : where' = [where EXCEPT ![curr[c]] = x]
        /\ left' = left /\ pc' = pc
    BY Zenon, <1>1 DEF Block, cpuVars
  <2>2. d # c
    <3>1. curr'[c] = None
      BY Zenon, <2>1 DEF TypeOK
    <3> QED
      BY Zenon, <3>1, RustlandConstants
  <2>3. curr'[d] = curr[d] /\ resched'[d] = resched[d]
    BY Zenon, <2>1, <2>2 DEF TypeOK
  <2>4. /\ where[curr[d]] = "run"
        /\ (resched[d] \/ pc[d] # "out") => left[curr[d]] > 0
        /\ \A e \in Cpu : curr[e] = curr[d] => e = d
    BY Zenon, <2>3 DEF Running
  <2>5. where'[curr[d]] = where[curr[d]]
    BY Zenon, <2>1, <2>2, <2>3, <2>4 DEF TypeOK
  <2>6. ASSUME NEW e \in Cpu, curr'[e] = curr'[d] PROVE e = d
    <3>1. e # c
      BY ZenonT(30), <2>1, <2>6, RustlandConstants DEF TypeOK
    <3>2. curr'[e] = curr[e]
      BY Zenon, <2>1, <3>1 DEF TypeOK
    <3> QED
      BY Zenon, <2>3, <2>4, <2>6, <3>2
  <2> QED
    BY Zenon, <2>1, <2>3, <2>4, <2>5, <2>6
<1>2. CASE Expire(c)
  <2>1. /\ curr' = curr /\ where' = where /\ left' = left /\ pc' = pc
        /\ resched' = [resched EXCEPT ![c] = TRUE]
        /\ curr[c] \in Task => left[curr[c]] > 0
    BY Zenon, <1>2 DEF Expire, taskVars, cpuVars
  <2>2. ASSUME NEW d \in Cpu, curr[d] \in Task
        PROVE  /\ where'[curr[d]] = "run" /\ left'[curr[d]] = left[curr[d]]
               /\ resched'[d] \/ pc'[d] # "out" =>
                     resched[d] \/ pc[d] # "out" \/ left[curr[d]] > 0
    <3>1. d # c => resched'[d] = resched[d]
      BY Zenon, <2>1 DEF TypeOK
    <3>2. where[curr[d]] = "run"
      BY Zenon, <2>2 DEF Running
    <3> QED
      BY Zenon, <2>1, <2>2, <3>1, <3>2
  <2> QED
    BY Zenon, <2>1, <2>2, RunningFrame
<1> QED
  BY Zenon, <1>1, <1>2

\* A step of ops.dispatch before its end, the timer and the user-space scheduler.
LEMMA RunningDispatch ==
    ASSUME TypeOK, Running, NEW c \in Cpu,
           DrainNothing(c) \/ DrainMessage(c) \/ Insert(c) \/ Check(c)
    PROVE  Running'
<1>1. curr' = curr /\ where' = where /\ left' = left
  BY Zenon DEF DrainNothing, DrainMessage, Insert, Check, kernelVars, taskVars
<1>2. resched[c] \/ pc[c] # "out"
  BY Zenon DEF DrainNothing, DrainMessage, Begin, Insert, Check
<1>3. ASSUME NEW d \in Cpu, d # c PROVE resched'[d] = resched[d] /\ pc'[d] = pc[d]
  BY Zenon, <1>3 DEF DrainNothing, DrainMessage, Begin, Insert, Check, LookForPending,
                     kernelVars, TypeOK
<1>4. ASSUME NEW d \in Cpu, curr[d] \in Task
      PROVE  /\ where'[curr[d]] = "run" /\ left'[curr[d]] = left[curr[d]]
             /\ resched'[d] \/ pc'[d] # "out" =>
                   resched[d] \/ pc[d] # "out" \/ left[curr[d]] > 0
  <2>1. where[curr[d]] = "run"
    BY Zenon, <1>4 DEF Running
  <2> QED
    BY Zenon, <1>1, <1>2, <1>3, <2>1
<1> QED
  BY Zenon, <1>1, <1>4, RunningFrame

\* The heartbeat and the user-space scheduler preempt no task.
LEMMA RunningUser ==
    ASSUME TypeOK, Running, usersched_timer_fn \/ schedule
    PROVE  Running'
<1>1. curr' = curr /\ where' = where /\ left' = left /\ pc' = pc
  BY Zenon DEF usersched_timer_fn, schedule, drain_queued_tasks, dispatch_and_notify,
               kernelVars, taskVars, cpuVars
<1>2. \/ resched' = resched
      \/ \E K : resched' = Kicked(K, curr)
      \/ \E c \in Cpu : OnCpu(c) /\ resched' = [resched EXCEPT ![c] = TRUE]
  BY Zenon DEF usersched_timer_fn, schedule, drain_queued_tasks, dispatch_and_notify, kernelVars
<1>3. ASSUME NEW d \in Cpu, curr[d] \in Task
      PROVE  /\ where'[curr[d]] = "run" /\ left'[curr[d]] = left[curr[d]]
             /\ resched'[d] \/ pc'[d] # "out" =>
                   resched[d] \/ pc[d] # "out" \/ left[curr[d]] > 0
  <2>1. where[curr[d]] = "run"
    BY Zenon, <1>3 DEF Running
  <2>2. ASSUME NEW c \in Cpu, OnCpu(c), resched' = [resched EXCEPT ![c] = TRUE]
        PROVE  resched'[d] = resched[d]
    <3>1. d # c
      BY Zenon, <1>3, <2>2, RustlandConstants DEF OnCpu
    <3> QED
      BY Zenon, <2>2, <3>1 DEF TypeOK
  <2>3. resched'[d] => resched[d]
    BY Zenon, <1>2, <1>3, <2>2, KickedRuns
  <2> QED
    BY Zenon, <1>1, <2>1, <2>3
<1> QED
  BY Zenon, <1>1, <1>3, RunningFrame

\* The end of ops.dispatch: the next task runs here and nowhere else.
LEMMA RunningMove ==
    ASSUME TypeOK, Handling, Running, NEW c \in Cpu, Move(c)
    PROVE  Running'
<1> DEFINE w == Flushed(c)
<1>1. /\ \A d \in Cpu : d # c => pc'[d] = pc[d] /\ curr'[d] = curr[d]
      /\ pc'[c] = "out" /\ curr' \in [Cpu -> Task \cup {Sched, None}]
  <2>1. \A d \in Cpu : d # c => pc'[d] = pc[d]
    BY Zenon DEF Move, TypeOK
  <2>2. pc'[c] = "out"
    BY Zenon DEF Move, TypeOK
  <2> QED
    BY Zenon, <2>1, <2>2, MoveCpus
<1>2. /\ resched'[c] => curr'[c] = None
      /\ \A d \in Cpu : d # c => resched'[d] = Kicked(kick[c], curr')[d]
  BY Zenon DEF Move, Kicked
<1>3. ASSUME NEW d \in Cpu, curr[d] \in Task PROVE w[curr[d]] = "run"
  <2>1. where[curr[d]] = "run"
    BY Zenon, <1>3 DEF Running
  <2> QED
    BY Zenon, <1>3, <2>1, FlushedIs
<1>4. ASSUME NEW d \in Cpu, d # c, curr[d] \in Task
      PROVE  where'[curr[d]] = "run" /\ left'[curr[d]] = left[curr[d]] /\ curr'[c] # curr[d]
  <2>1. curr[d] # curr[c]
    BY Zenon, <1>4 DEF Running
  <2>2. CASE Candidates(c, w) # {}
    <3>1. PICK next \in Candidates(c, w) : SwitchTo(c, w, next)
      BY Zenon, <2>2 DEF Move
    <3>2. pc[c] # "out"
      BY DEF Move
    <3>3. curr[d] # next
      BY Zenon, <1>4, <3>1, SwitchStep
    <3> HIDE DEF w
    <3>4. left'[curr[d]] = left[curr[d]]
      BY Zenon, <1>4, <2>1, <3>1, <3>2, SwitchEnqueues DEF w
    <3>5. curr'[c] = next /\ where'[curr[d]] = w[curr[d]]
      BY Zenon, <1>4, <2>1, <3>1, <3>3, SwitchWhere DEF w
    <3> QED
      BY Zenon, <1>3, <1>4, <2>1, <3>3, <3>4, <3>5
  <2>3. CASE Candidates(c, w) = {}
    <3>1. KeepPrev(c, w)
      BY Zenon, <2>3 DEF Move
    <3>2. where' = w /\ left' = left /\ curr'[c] \in {curr[c], None}
      BY Zenon, <3>1, KeepFacts
    <3> HIDE DEF w
    <3> QED
      BY Zenon, <1>3, <1>4, <2>1, <3>2, RustlandConstants
  <2> QED
    BY Zenon, <2>2, <2>3
<1>5. ASSUME curr'[c] \in Task PROVE where'[curr'[c]] = "run"
  <2>1. CASE Candidates(c, w) # {}
    <3>1. PICK next \in Candidates(c, w) : SwitchTo(c, w, next)
      BY Zenon, <2>1 DEF Move
    <3>2. pc[c] # "out"
      BY DEF Move
    <3> HIDE DEF w
    <3>3. curr'[c] = next
      BY Zenon, <3>1 DEF SwitchTo, TypeOK
    <3>4. next \in Task
      BY Zenon, <1>5, <3>3
    <3>5. where'[next] = "run"
      BY Zenon, <3>1, <3>4, SwitchWhere DEF w
    <3> QED
      BY Zenon, <3>3, <3>5
  <2>2. CASE Candidates(c, w) = {}
    <3>1. KeepPrev(c, w)
      BY Zenon, <2>2 DEF Move
    <3>2. where' = w /\ curr'[c] \in {curr[c], None}
      BY Zenon, <3>1, KeepFacts
    <3> HIDE DEF w
    <3> QED
      BY Zenon, <1>3, <1>5, <3>2, RustlandConstants
  <2> QED
    BY Zenon, <2>1, <2>2
<1> HIDE DEF w
<1> SUFFICES ASSUME NEW d \in Cpu, curr'[d] \in Task
             PROVE  /\ where'[curr'[d]] = "run"
                    /\ (resched'[d] \/ pc'[d] # "out") => left'[curr'[d]] > 0
                    /\ \A e \in Cpu : curr'[e] = curr'[d] => e = d
  BY Zenon DEF Running
<1>6. CASE d = c
  <2>1. ~resched'[c]
    BY Zenon, <1>2, <1>6, RustlandConstants
  <2>2. ASSUME NEW e \in Cpu, curr'[e] = curr'[c], e # c PROVE FALSE
    BY Zenon, <1>1, <1>4, <1>6, <2>2
  <2> QED
    BY Zenon, <1>1, <1>5, <1>6, <2>1, <2>2
<1>7. CASE d # c
  <2>1. curr'[d] = curr[d] /\ curr[d] \in Task
    BY Zenon, <1>1, <1>7
  <2>2. resched'[d] => resched[d]
    BY Zenon, <1>2, <1>7, <2>1, KickedRuns
  <2>3. (resched[d] \/ pc[d] # "out") => left[curr[d]] > 0
    BY Zenon, <2>1 DEF Running
  <2>4. where'[curr[d]] = "run" /\ left'[curr[d]] = left[curr[d]] /\ curr'[c] # curr[d]
    BY Zenon, <1>4, <1>7, <2>1
  <2>5. ASSUME NEW e \in Cpu, curr'[e] = curr'[d] PROVE e = d
    <3>1. e # c
      BY Zenon, <2>1, <2>4, <2>5
    <3>2. curr[e] = curr[d]
      BY Zenon, <1>1, <2>1, <2>5, <3>1
    <3> QED
      BY Zenon, <2>1, <3>2 DEF Running
  <2> QED
    BY Zenon, <1>1, <1>7, <2>1, <2>2, <2>3, <2>4, <2>5
<1> QED
  BY Zenon, <1>6, <1>7

-----------------------------------------------------------------------------
(* What a CPU has in its hands *)

\* The look for pending work moves no other CPU.
LEMMA LookAt ==
    ASSUME TypeOK, NEW c \in Cpu, LookForPending(c)
    PROVE  pc'[c] \in {"sched", "tasks"} /\ \A d \in Cpu : d # c => pc'[d] = pc[d]
  BY Zenon DEF TypeOK, LookForPending

\* Steps that leave the hands of the CPUs alone.
LEMMA HandlingFrame ==
    ASSUME Handling, pc' = pc, msg' = msg, buf' = buf
    PROVE  Handling'
  BY Zenon DEF Handling

\* A step of ops.dispatch leaves the hands of the other CPUs alone.
LEMMA OtherHands ==
    ASSUME TypeOK, NEW c \in Cpu, rustland_dispatch(c), NEW d \in Cpu, d # c
    PROVE  pc'[d] = pc[d] /\ msg'[d] = msg[d] /\ buf'[d] = buf[d]
<1>1. LookForPending(c) \/ \E l : pc' = [pc EXCEPT ![c] = l]
  BY Zenon DEF rustland_dispatch, DrainNothing, DrainMessage, Insert, Check, Move
<1>2. msg' = msg \/ \E m : msg' = [msg EXCEPT ![c] = m]
  BY Zenon DEF rustland_dispatch, DrainNothing, DrainMessage, Insert, Check, Move
<1>3. buf' = buf \/ \E b : buf' = [buf EXCEPT ![c] = b]
  BY Zenon DEF rustland_dispatch, DrainNothing, DrainMessage, Insert, Check, Move
<1>4. pc'[d] = pc[d]
  BY Zenon, <1>1, LookAt DEF TypeOK
<1> QED
  BY Zenon, <1>2, <1>3, <1>4 DEF TypeOK

\* ops.dispatch fills its buffer after it has taken a message and empties it
\* before it leaves.
LEMMA HandlingStep ==
    ASSUME TypeOK, Handling, NEW c \in Cpu, rustland_dispatch(c)
    PROVE  Handling'
<1>1. ASSUME NEW d \in Cpu, d # c PROVE pc'[d] = pc[d] /\ msg'[d] = msg[d] /\ buf'[d] = buf[d]
  BY Zenon, <1>1, OtherHands
<1>2. /\ pc'[c] \in {"insert", "check"} => msg'[c] # None
      /\ pc'[c] = "check" => msg'[c].cpu # AnyCpu /\ buf'[c] # None
      /\ buf'[c] # None =>
            pc'[c] \notin {"out", "insert"} /\ msg'[c] # None /\ buf'[c].pid = msg'[c].pid
  <2>1. CASE DrainNothing(c)
    <3>1. pc'[c] \in {"sched", "tasks"} /\ msg' = msg /\ buf' = buf /\ pc[c] = "out"
      BY Zenon, <2>1, LookAt DEF DrainNothing, Begin
    <3>2. buf[c] = None
      BY Zenon, <3>1 DEF Handling
    <3> QED
      BY Zenon, <3>1, <3>2
  <2>2. CASE DrainMessage(c)
    <3>1. pc'[c] = "insert" /\ buf' = buf /\ pc[c] = "out"
      BY Zenon, <2>2 DEF DrainMessage, Begin, TypeOK
    <3>2. buf[c] = None
      BY Zenon, <3>1 DEF Handling
    <3>3. msg'[c] \in Decision
      <4>1. msg'[c] = [Head(dispatched) EXCEPT !.cpu =
                           IF @ \in allowed[Head(dispatched).pid] \cup {AnyCpu} THEN @
                           ELSE task_cpu[Head(dispatched).pid]]
        BY <2>2 DEF DrainMessage, TypeOK
      <4>2. Head(dispatched) \in Decision
        BY Zenon, <2>2, ElementsTail DEF DrainMessage, TypeOK
      <4>3. Head(dispatched).pid \in Task
        BY <4>2 DEF Decision
      <4>4. task_cpu[Head(dispatched).pid] \in Cpu
        BY Zenon, <4>3 DEF TypeOK
      <4> QED
        BY SMTT(30), <4>1, <4>2, <4>4 DEF Decision
    <3>4. msg'[c] # None
      BY Zenon, <3>3, RustlandConstants DEF Decision
    <3> QED
      BY Zenon, <3>1, <3>2, <3>4
  <2>3. CASE Insert(c)
    <3>1. msg' = msg /\ msg[c] # None /\ buf'[c] = [pid |-> msg[c].pid, seq |-> qseq[msg[c].pid]]
      BY Zenon, <2>3 DEF Insert, TypeOK, Handling
    <3>2. \/ msg[c].cpu = AnyCpu /\ pc'[c] \in {"sched", "tasks"}
          \/ msg[c].cpu # AnyCpu /\ pc'[c] = "check"
      BY Zenon, <2>3, LookAt DEF Insert, TypeOK
    <3>3. msg[c] \in Decision
      BY ZenonT(30), <3>1 DEF TypeOK
    <3>4. msg[c].pid \in Task
      BY <3>3 DEF Decision
    <3>5. qseq[msg[c].pid] \in Nat
      BY Zenon, <3>4 DEF TypeOK
    <3>6. buf'[c] \in [pid : Task, seq : Nat]
      BY <3>1, <3>4, <3>5
    <3>7. buf'[c] # None
      BY Zenon, <3>6, RustlandConstants
    <3>8. buf'[c].pid = msg[c].pid
      BY <3>1
    <3> QED
      BY Zenon, <3>1, <3>2, <3>7, <3>8
  <2>4. CASE Check(c)
    <3>1. msg' = msg /\ buf'[c] \in {buf[c], None} /\ pc[c] = "check"
      BY Zenon, <2>4 DEF Check, TypeOK
    <3>2. pc'[c] \in {"sched", "tasks"}
      BY Zenon, <2>4, LookAt DEF Check
    <3> QED
      BY Zenon, <3>1, <3>2 DEF Handling
  <2>5. CASE Move(c)
    <3>1. pc'[c] = "out" /\ buf'[c] = None
      BY Zenon, <2>5 DEF Move, TypeOK
    <3> QED
      BY Zenon, <3>1
  <2> QED
    BY Zenon, <2>1, <2>2, <2>3, <2>4, <2>5 DEF rustland_dispatch
<1> SUFFICES ASSUME NEW d \in Cpu
             PROVE  /\ pc'[d] \in {"insert", "check"} => msg'[d] # None
                    /\ pc'[d] = "check" => msg'[d].cpu # AnyCpu /\ buf'[d] # None
                    /\ buf'[d] # None =>
                          /\ pc'[d] \notin {"out", "insert"} /\ msg'[d] # None
                          /\ buf'[d].pid = msg'[d].pid
  BY Zenon DEF Handling
<1>3. CASE d = c
  BY Zenon, <1>2, <1>3
<1>4. CASE d # c
  <2>1. /\ pc[d] \in {"insert", "check"} => msg[d] # None
        /\ pc[d] = "check" => msg[d].cpu # AnyCpu /\ buf[d] # None
        /\ buf[d] # None =>
              pc[d] \notin {"out", "insert"} /\ msg[d] # None /\ buf[d].pid = msg[d].pid
    BY Zenon DEF Handling
  <2> QED
    BY Zenon, <1>1, <1>4, <2>1
<1> QED
  BY Zenon, <1>3, <1>4

-----------------------------------------------------------------------------
(* Messages on their way *)

\* Steps that leave the rings and the pool alone.
LEMMA FlightFrame ==
    ASSUME queued' = queued, tasks' = tasks, dispatched' = dispatched
    PROVE  InFlight' = InFlight
  BY Zenon DEF InFlight, Elements

\* A message on its way is about a task and an enqueue of it.
LEMMA FlightTypes ==
    ASSUME TypeOK, NEW m \in InFlight
    PROVE  m.pid \in Task /\ m.cnt \in Nat
<1>1. m \in Message \/ m \in Decision
  BY Zenon, ElementsIn DEF InFlight, TypeOK
<1> QED
  BY <1>1 DEF Message, Decision

\* An enqueue adds its message.
LEMMA FlightEnqueue ==
    ASSUME TypeOK, NEW p \in Task, EnqueueToUser(p)
    PROVE  InFlight' = InFlight \cup {[pid |-> p, cnt |-> enq_cnt'[p]]}
<1> DEFINE e == [pid |-> p, cnt |-> enq_cnt'[p]]
<1>1. enq_cnt'[p] \in Nat
  BY DEF EnqueueToUser, TypeOK
<1>2. e \in Message
  BY <1>1 DEF Message
<1>3. queued' = Append(queued, e) /\ tasks' = tasks /\ dispatched' = dispatched
  BY Zenon DEF EnqueueToUser, userVars
<1> HIDE DEF e
<1>4. Elements(Append(queued, e)) = Elements(queued) \cup {e}
  <2>1. queued \in Seq(Message)
    BY Zenon DEF TypeOK
  <2> QED
    BY SMT, <1>2, <2>1, ElementsAppended
<1>5. Elements(queued)' = Elements(queued) \cup {e} /\ Elements(dispatched)' = Elements(dispatched)
  BY Zenon, <1>3, <1>4 DEF Elements
<1> QED
  BY Zenon, <1>3, <1>5 DEF InFlight, e

\* A drain of either ring loses nothing but the message it takes.
LEMMA FlightDrain ==
    ASSUME TypeOK, dispatched # <<>>, dispatched' = Tail(dispatched), queued' = queued,
           tasks' = tasks
    PROVE  /\ Head(dispatched) \in InFlight /\ Head(dispatched) \in Decision
           /\ InFlight = InFlight' \cup {Head(dispatched)}
<1>1. /\ Head(dispatched) \in Decision /\ Head(dispatched) \in Elements(dispatched)
      /\ Elements(dispatched) = Elements(Tail(dispatched)) \cup {Head(dispatched)}
  BY Zenon, ElementsTail DEF TypeOK
<1>2. Elements(dispatched)' = Elements(Tail(dispatched)) /\ Elements(queued)' = Elements(queued)
  BY Zenon DEF Elements
<1> QED
  BY Zenon, <1>1, <1>2 DEF InFlight

\* drain_queued_tasks moves a message from the ring to the pool.
LEMMA FlightQueued ==
    ASSUME TypeOK, drain_queued_tasks
    PROVE  InFlight' = InFlight
<1>1. CASE queued # <<>>
  <2>1. /\ tasks' = tasks \cup {Head(queued)} /\ queued' = Tail(queued)
        /\ dispatched' = dispatched
    BY Zenon, <1>1 DEF drain_queued_tasks
  <2>2. Elements(queued) = Elements(Tail(queued)) \cup {Head(queued)}
    BY Zenon, <1>1, ElementsTail DEF TypeOK
  <2>3. Elements(queued)' = Elements(Tail(queued)) /\ Elements(dispatched)' = Elements(dispatched)
    BY Zenon, <2>1 DEF Elements
  <2> QED
    BY Zenon, <2>1, <2>2, <2>3 DEF InFlight
<1>2. CASE queued = <<>>
  BY Zenon, <1>2, FlightFrame DEF drain_queued_tasks
<1> QED
  BY Zenon, <1>1, <1>2

\* The user-space scheduler puts one message into the place of another, for the
\* same task and the same enqueue.
LEMMA FlightDispatch ==
    ASSUME TypeOK, IsFiniteSet(tasks), dispatch_and_notify
    PROVE  \/ InFlight' = InFlight
           \/ \E m \in InFlight, e \in InFlight' :
                 /\ e.pid = m.pid /\ e.cnt = m.cnt
                 /\ InFlight' \subseteq InFlight \cup {e} /\ InFlight \subseteq InFlight' \cup {m}
<1>1. queued' = queued
  BY Zenon DEF dispatch_and_notify
<1>2. CASE tasks' = tasks /\ dispatched' = dispatched
  BY Zenon, <1>1, <1>2, FlightFrame
<1>3. ASSUME NEW m \in tasks, NEW c \in Dsq, Len(dispatched) < DispLen,
             [pid |-> m.pid, cnt |-> m.cnt, cpu |-> c] \in Decision,
             dispatched' = Append(dispatched, [pid |-> m.pid, cnt |-> m.cnt, cpu |-> c]),
             tasks' = tasks \ {m}
      PROVE  \E n \in InFlight, e \in InFlight' :
                 /\ e.pid = n.pid /\ e.cnt = n.cnt
                 /\ InFlight' \subseteq InFlight \cup {e} /\ InFlight \subseteq InFlight' \cup {n}
  <2> DEFINE e == [pid |-> m.pid, cnt |-> m.cnt, cpu |-> c]
  <2>1. e.pid = m.pid /\ e.cnt = m.cnt
    OBVIOUS
  <2>2. e \in Decision /\ dispatched' = Append(dispatched, e)
    BY Zenon, <1>3
  <2> HIDE DEF e
  <2>3. Elements(Append(dispatched, e)) = Elements(dispatched) \cup {e}
    <3>1. dispatched \in Seq(Decision)
      BY Zenon DEF TypeOK
    <3> QED
      BY SMT, <2>2, <3>1, ElementsAppended
  <2>4. Elements(dispatched)' = Elements(dispatched) \cup {e} /\ Elements(queued)' = Elements(queued)
    BY Zenon, <1>1, <2>2, <2>3 DEF Elements
  <2>5. m \in InFlight /\ e \in InFlight'
    BY Zenon, <1>3, <2>4 DEF InFlight
  <2>6. InFlight' \subseteq InFlight \cup {e} /\ InFlight \subseteq InFlight' \cup {m}
    BY Zenon, <1>3, <2>4 DEF InFlight
  <2> QED
    BY Zenon, <2>1, <2>5, <2>6
<1> QED
  BY Zenon, <1>2, <1>3, DispatchStep

-----------------------------------------------------------------------------
(* No message is ahead of the task's counter *)

\* Counters go up, and new messages and buffers are no newer than they are.
LEMMA CountsStep ==
    ASSUME TypeOK, TypeOK', Counts,
           \A p \in Task : enq_cnt[p] <= enq_cnt'[p] /\ qseq[p] <= qseq'[p],
           \A m \in InFlight' : m \in InFlight \/ m.cnt <= enq_cnt'[m.pid],
           \A c \in Cpu : \/ msg'[c] \in {msg[c], None}
                          \/ msg'[c].cnt <= enq_cnt'[msg'[c].pid],
           \A c \in Cpu : \/ buf'[c] \in {buf[c], None}
                          \/ buf'[c].seq <= qseq'[buf'[c].pid]
    PROVE  Counts'
<1>1. ASSUME NEW m \in InFlight' PROVE m.cnt <= enq_cnt'[m.pid]
  <2>1. CASE m \in InFlight
    <3>1. m.pid \in Task /\ m.cnt \in Nat
      BY Zenon, <2>1, FlightTypes
    <3>2. m.cnt <= enq_cnt[m.pid] /\ enq_cnt[m.pid] <= enq_cnt'[m.pid]
      BY Zenon, <2>1, <3>1 DEF Counts
    <3>3. enq_cnt[m.pid] \in Nat /\ enq_cnt'[m.pid] \in Nat
      BY Zenon, <3>1 DEF TypeOK
    <3> QED
      BY <3>1, <3>2, <3>3, SMT
  <2> QED
    BY Zenon, <2>1
<1>2. ASSUME NEW c \in Cpu, msg'[c] # None PROVE msg'[c].cnt <= enq_cnt'[msg'[c].pid]
  <2>1. CASE msg'[c] = msg[c]
    <3>1. msg[c] \in Decision
      BY Zenon, <1>2, <2>1 DEF TypeOK
    <3>2. msg[c].pid \in Task /\ msg[c].cnt \in Nat
      BY <3>1 DEF Decision
    <3>3. /\ msg[c].cnt <= enq_cnt[msg[c].pid] /\ enq_cnt[msg[c].pid] <= enq_cnt'[msg[c].pid]
          /\ enq_cnt[msg[c].pid] \in Nat /\ enq_cnt'[msg[c].pid] \in Nat
      BY Zenon, <1>2, <2>1, <3>2 DEF Counts, TypeOK
    <3> QED
      BY <2>1, <3>2, <3>3, SMT
  <2> QED
    BY Zenon, <1>2, <2>1
<1>3. ASSUME NEW c \in Cpu, buf'[c] # None PROVE buf'[c].seq <= qseq'[buf'[c].pid]
  <2>1. CASE buf'[c] = buf[c]
    <3>1. buf[c] \in [pid : Task, seq : Nat]
      BY Zenon, <1>3, <2>1 DEF TypeOK
    <3>2. buf[c].pid \in Task /\ buf[c].seq \in Nat
      BY <3>1
    <3>3. /\ buf[c].seq <= qseq[buf[c].pid] /\ qseq[buf[c].pid] <= qseq'[buf[c].pid]
          /\ qseq[buf[c].pid] \in Nat /\ qseq'[buf[c].pid] \in Nat
      BY Zenon, <1>3, <2>1, <3>2 DEF Counts, TypeOK
    <3> QED
      BY <2>1, <3>2, <3>3, SMT
  <2> QED
    BY Zenon, <1>3, <2>1
<1> QED
  BY Zenon, <1>1, <1>2, <1>3 DEF Counts

\* Nothing but the sequence numbers and the counters moves, and they move up.
LEMMA CountsTask ==
    ASSUME TypeOK, TypeOK', Counts, NEW p \in Task,
           rustland_select_cpu(p) \/ SetAffinity(p) \/ rustland_enqueue(p)
    PROVE  Counts'
<1>1. msg' = msg /\ buf' = buf
  BY Zenon DEF rustland_select_cpu, SetAffinity, rustland_enqueue, EnqueueDirect,
               EnqueueToUser, EnqueueCongested, cpuVars
<1>2. qseq' = qseq \/ qseq' = [qseq EXCEPT ![p] = @ + 1]
  BY Zenon DEF rustland_select_cpu, SetAffinity, rustland_enqueue, EnqueueDirect,
               EnqueueToUser, EnqueueCongested, Enqueued
<1>3. \/ enq_cnt' = enq_cnt /\ queued' = queued
      \/ EnqueueToUser(p) /\ enq_cnt' = [enq_cnt EXCEPT ![p] = @ + 1]
  BY Zenon DEF rustland_select_cpu, SetAffinity, rustland_enqueue, EnqueueDirect,
               EnqueueToUser, EnqueueCongested
<1>4. tasks' = tasks /\ dispatched' = dispatched
  BY Zenon DEF rustland_select_cpu, SetAffinity, rustland_enqueue, EnqueueDirect,
               EnqueueToUser, EnqueueCongested, userVars
<1>5. ASSUME NEW q \in Task PROVE enq_cnt[q] <= enq_cnt'[q] /\ qseq[q] <= qseq'[q]
  <2>1. qseq \in [Task -> Nat] /\ enq_cnt \in [Task -> Nat]
    BY Zenon DEF TypeOK
  <2>2. enq_cnt' = enq_cnt \/ enq_cnt' = [enq_cnt EXCEPT ![p] = @ + 1]
    BY Zenon, <1>3
  <2> QED
    BY <1>2, <2>1, <2>2, SMT
<1>6. ASSUME NEW m \in InFlight' PROVE m \in InFlight \/ m.cnt <= enq_cnt'[m.pid]
  <2>1. CASE queued' = queued
    BY Zenon, <1>4, <2>1, FlightFrame
  <2>2. CASE EnqueueToUser(p)
    <3>1. m \in InFlight \/ m = [pid |-> p, cnt |-> enq_cnt'[p]]
      BY Zenon, <2>2, FlightEnqueue
    <3>2. enq_cnt'[p] \in Nat
      BY Zenon DEF TypeOK
    <3> QED
      BY <3>1, <3>2
  <2> QED
    BY Zenon, <1>3, <2>1, <2>2
<1> QED
  BY Zenon, <1>1, <1>5, <1>6, CountsStep

\* Steps that touch neither messages nor counters.
LEMMA CountsFrame ==
    ASSUME Counts, queued' = queued, tasks' = tasks, dispatched' = dispatched,
           enq_cnt' = enq_cnt, qseq' = qseq, msg' = msg, buf' = buf
    PROVE  Counts'
<1>1. InFlight' = InFlight
  BY Zenon, FlightFrame
<1> QED
  BY Zenon, <1>1 DEF Counts

\* What a CPU has drained, when it drains something.
LEMMA Drained ==
    ASSUME TypeOK, NEW c \in Cpu, DrainMessage(c)
    PROVE  /\ msg'[c].pid = Head(dispatched).pid /\ msg'[c].cnt = Head(dispatched).cnt
           /\ Head(dispatched) \in Decision /\ Head(dispatched).pid \in Task
           /\ msg'[c].cpu \in allowed[Head(dispatched).pid] \cup
                                 {AnyCpu, task_cpu[Head(dispatched).pid]}
           /\ \A d \in Cpu : d # c => msg'[d] = msg[d]
<1> DEFINE m == Head(dispatched)
           t == IF m.cpu \in allowed[m.pid] \cup {AnyCpu} THEN m.cpu ELSE task_cpu[m.pid]
<1>1. msg' = [msg EXCEPT ![c] = [m EXCEPT !.cpu = t]]
  BY DEF DrainMessage
<1>2. m \in Decision
  BY Zenon, ElementsTail DEF DrainMessage, TypeOK
<1>3. t \in allowed[m.pid] \cup {AnyCpu, task_cpu[m.pid]}
  BY Zenon
<1>4. m.pid \in Task
  BY <1>2 DEF Decision
<1> HIDE DEF m, t
<1>5. msg'[c] = [m EXCEPT !.cpu = t] /\ \A d \in Cpu : d # c => msg'[d] = msg[d]
  BY Zenon, <1>1 DEF TypeOK
<1>6. msg'[c].pid = m.pid /\ msg'[c].cnt = m.cnt /\ msg'[c].cpu = t
  BY <1>2, <1>5 DEF Decision
<1> QED
  BY Zenon, <1>2, <1>3, <1>4, <1>5, <1>6 DEF m

\* A step of ops.dispatch reads the counters and the sequence numbers as they are.
LEMMA CountsDispatch ==
    ASSUME TypeOK, TypeOK', Counts, Handling, Running, NEW c \in Cpu, rustland_dispatch(c)
    PROVE  Counts'
<1>1. enq_cnt' = enq_cnt /\ queued' = queued /\ tasks' = tasks
  BY Zenon DEF rustland_dispatch, DrainNothing, DrainMessage, Insert, Check, Move, userVars
<1>2. ASSUME NEW q \in Task PROVE enq_cnt[q] <= enq_cnt'[q] /\ qseq[q] <= qseq'[q]
  <2>1. qseq'[q] \in {qseq[q], qseq[q] + 1}
    BY Zenon, MoveTask DEF rustland_dispatch, DrainNothing, DrainMessage, Insert, Check,
                           kernelVars, taskVars
  <2>2. qseq[q] \in Nat /\ enq_cnt[q] \in Nat
    BY Zenon DEF TypeOK
  <2> QED
    BY <1>1, <2>1, <2>2, SMT
<1>3. ASSUME NEW m \in InFlight' PROVE m \in InFlight
  <2>1. \/ dispatched' = dispatched
        \/ dispatched # <<>> /\ dispatched' = Tail(dispatched)
    BY Zenon DEF rustland_dispatch, DrainNothing, DrainMessage, Insert, Check, Move
  <2> QED
    BY Zenon, <1>1, <2>1, FlightFrame, FlightDrain
<1>4. ASSUME NEW d \in Cpu
      PROVE  msg'[d] \in {msg[d], None} \/ msg'[d].cnt <= enq_cnt'[msg'[d].pid]
  <2>1. CASE DrainMessage(c)
    <3>1. dispatched # <<>> /\ dispatched' = Tail(dispatched)
      BY Zenon, <2>1 DEF DrainMessage
    <3>2. Head(dispatched) \in InFlight
      BY Zenon, <1>1, <3>1, FlightDrain
    <3>3. Head(dispatched).cnt <= enq_cnt[Head(dispatched).pid]
      BY Zenon, <3>2 DEF Counts
    <3> QED
      BY Zenon, <1>1, <2>1, <3>3, Drained
  <2>2. CASE ~DrainMessage(c)
    <3>1. msg' = msg \/ msg' = [msg EXCEPT ![c] = None]
      BY Zenon, <2>2 DEF rustland_dispatch, DrainNothing, Insert, Check, Move
    <3> QED
      BY Zenon, <3>1 DEF TypeOK
  <2> QED
    BY Zenon, <2>1, <2>2
<1>5. ASSUME NEW d \in Cpu
      PROVE  buf'[d] \in {buf[d], None} \/ buf'[d].seq <= qseq'[buf'[d].pid]
  <2>1. CASE Insert(c) /\ d = c
    <3>1. msg[c] \in Decision
      BY Zenon, <2>1 DEF Insert, Handling, TypeOK
    <3>2. msg[c].pid \in Task
      BY <3>1 DEF Decision
    <3>3. /\ buf'[c] = [pid |-> msg[c].pid, seq |-> qseq[msg[c].pid]]
          /\ qseq' = qseq /\ qseq[msg[c].pid] \in Nat
      BY Zenon, <2>1, <3>2 DEF Insert, TypeOK, kernelVars, taskVars
    <3> QED
      BY <2>1, <3>3
  <2>2. CASE ~(Insert(c) /\ d = c)
    <3>1. \/ buf' = buf \/ buf' = [buf EXCEPT ![c] = None]
          \/ d # c /\ \E b : buf' = [buf EXCEPT ![c] = b]
      BY Zenon, <2>2 DEF rustland_dispatch, DrainNothing, DrainMessage, Insert, Check, Move
    <3> QED
      BY Zenon, <3>1 DEF TypeOK
  <2> QED
    BY Zenon, <2>1, <2>2
<1> QED
  BY Zenon, <1>2, <1>3, <1>4, <1>5, CountsStep

\* The user-space scheduler hands the counter of a message on.
LEMMA CountsUser ==
    ASSUME TypeOK, TypeOK', IsFiniteSet(tasks), Counts, schedule
    PROVE  Counts'
<1>1. enq_cnt' = enq_cnt /\ qseq' = qseq /\ msg' = msg /\ buf' = buf
  BY Zenon DEF schedule, drain_queued_tasks, dispatch_and_notify, kernelVars, taskVars, cpuVars
<1>2. ASSUME NEW q \in Task PROVE enq_cnt[q] <= enq_cnt'[q] /\ qseq[q] <= qseq'[q]
  <2>1. qseq[q] \in Nat /\ enq_cnt[q] \in Nat
    BY Zenon DEF TypeOK
  <2> QED
    BY <1>1, <2>1, SMT
<1>3. ASSUME NEW m \in InFlight' PROVE m \in InFlight \/ m.cnt <= enq_cnt'[m.pid]
  <2>1. CASE InFlight' = InFlight
    BY Zenon, <2>1
  <2>2. CASE \E n \in InFlight, e \in InFlight' :
                /\ e.pid = n.pid /\ e.cnt = n.cnt /\ InFlight' \subseteq InFlight \cup {e}
    <3>1. PICK n \in InFlight, e \in InFlight' :
             e.pid = n.pid /\ e.cnt = n.cnt /\ InFlight' \subseteq InFlight \cup {e}
      BY Zenon, <2>2
    <3>2. n.cnt <= enq_cnt[n.pid]
      BY Zenon DEF Counts
    <3> QED
      BY Zenon, <1>1, <3>1, <3>2
  <2> QED
    BY Zenon, <2>1, <2>2, FlightQueued, FlightDispatch DEF schedule
<1> QED
  BY Zenon, <1>1, <1>2, <1>3, CountsStep

-----------------------------------------------------------------------------
(* A task's CPU is one it may use *)

\* A step that moves no task and changes no affinity.
LEMMA PlacedFrame ==
    ASSUME Placed, task_cpu' = task_cpu, allowed' = allowed
    PROVE  Placed'
  BY Zenon DEF Placed

\* A wakeup and a change of affinity choose a CPU that the task may use.
LEMMA PlacedTask ==
    ASSUME TypeOK, Placed, NEW p \in Task,
           rustland_select_cpu(p) \/ SetAffinity(p) \/ rustland_enqueue(p)
    PROVE  Placed'
<1>1. ASSUME NEW c, NEW A, task_cpu' = [task_cpu EXCEPT ![p] = c], c \in A,
             allowed' = [allowed EXCEPT ![p] = A] \/ (allowed' = allowed /\ A = allowed[p])
      PROVE  Placed'
  <2> SUFFICES ASSUME NEW q \in Task PROVE task_cpu'[q] \in allowed'[q]
    BY Zenon DEF Placed
  <2>1. CASE q = p
    BY Zenon, <1>1, <2>1 DEF TypeOK
  <2>2. CASE q # p
    <3>1. task_cpu'[q] = task_cpu[q] /\ allowed'[q] = allowed[q]
      BY Zenon, <1>1, <2>2 DEF TypeOK
    <3> QED
      BY Zenon, <3>1 DEF Placed
  <2> QED
    BY Zenon, <2>1, <2>2
<1>2. CASE rustland_select_cpu(p)
  <2>1. PICK c \in IdleFor(p) \cup {task_cpu[p]} : task_cpu' = [task_cpu EXCEPT ![p] = c]
    BY Zenon, <1>2 DEF rustland_select_cpu
  <2>2. c \in allowed[p]
    BY Zenon, IdleForType DEF Placed
  <2> QED
    BY Zenon, <1>1, <1>2, <2>1, <2>2 DEF rustland_select_cpu
<1>3. CASE SetAffinity(p)
  <2>1. PICK A \in (SUBSET Cpu) \ {{}} :
           /\ allowed' = [allowed EXCEPT ![p] = A]
           /\ \E c \in IF task_cpu[p] \in A THEN {task_cpu[p]} ELSE A :
                 task_cpu' = [task_cpu EXCEPT ![p] = c]
    BY Zenon, <1>3 DEF SetAffinity
  <2>2. PICK c \in A : task_cpu' = [task_cpu EXCEPT ![p] = c]
    BY Zenon, <2>1
  <2> QED
    BY Zenon, <1>1, <2>1, <2>2
<1>4. CASE rustland_enqueue(p)
  BY Zenon, <1>4, PlacedFrame DEF rustland_enqueue, EnqueueDirect, EnqueueToUser, EnqueueCongested
<1> QED
  BY Zenon, <1>2, <1>3, <1>4

\* ops.dispatch runs a task where it may run.
LEMMA PlacedMove ==
    ASSUME TypeOK, Handling, Running, Placed, NEW c \in Cpu, Move(c)
    PROVE  Placed'
<1> DEFINE w == Flushed(c)
<1>1. allowed' = allowed
  BY Zenon DEF Move
<1>2. CASE Candidates(c, w) # {}
  <2>1. PICK next \in Candidates(c, w) : SwitchTo(c, w, next)
    BY Zenon, <1>2 DEF Move
  <2>2. next \in Task => c \in allowed[next]
    BY Zenon, <2>1, SwitchStep
  <2>3. task_cpu' = [task_cpu EXCEPT ![next] = c]
    BY Zenon, <2>1 DEF SwitchTo
  <2> HIDE DEF w
  <2> SUFFICES ASSUME NEW q \in Task PROVE task_cpu'[q] \in allowed[q]
    BY Zenon, <1>1 DEF Placed
  <2>4. q # next => task_cpu'[q] = task_cpu[q]
    BY Zenon, <2>3 DEF TypeOK
  <2>5. q = next => task_cpu'[q] = c
    BY Zenon, <2>3 DEF TypeOK
  <2> QED
    BY Zenon, <2>2, <2>4, <2>5 DEF Placed
<1>3. CASE Candidates(c, w) = {}
  <2>1. KeepPrev(c, w)
    BY Zenon, <1>3 DEF Move
  <2> QED
    BY Zenon, <1>1, <2>1, KeepFacts, PlacedFrame
<1> QED
  BY Zenon, <1>2, <1>3

-----------------------------------------------------------------------------
(* What a CPU is about to insert, it may insert *)

\* An enqueue that a CPU's buffer has not seen has another sequence number.
LEMMA SeqBehind ==
    ASSUME TypeOK, Handling, Counts, NEW d \in Cpu, buf[d] # None,
           qseq'[msg[d].pid] = qseq[msg[d].pid] + 1
    PROVE  buf[d].seq # qseq'[msg[d].pid]
<1>1. buf[d].pid = msg[d].pid /\ buf[d].seq <= qseq[buf[d].pid]
  BY Zenon DEF Handling, Counts
<1>2. buf[d] \in [pid : Task, seq : Nat]
  BY Zenon DEF TypeOK
<1>3. buf[d].seq \in Nat /\ buf[d].pid \in Task
  BY <1>2
<1>4. qseq[buf[d].pid] \in Nat
  BY Zenon, <1>3 DEF TypeOK
<1> QED
  BY <1>1, <1>3, <1>4, SMT

\* A message a CPU has is older than an enqueue that comes now.
LEMMA CntBehind ==
    ASSUME TypeOK, Counts, NEW d \in Cpu, msg[d] # None,
           enq_cnt'[msg[d].pid] = enq_cnt[msg[d].pid] + 1
    PROVE  msg[d].cnt # enq_cnt'[msg[d].pid]
<1>1. msg[d] \in Decision /\ msg[d].cnt <= enq_cnt[msg[d].pid]
  BY Zenon DEF Counts, TypeOK
<1>2. msg[d].cnt \in Nat /\ msg[d].pid \in Task
  BY <1>1 DEF Decision
<1>3. enq_cnt[msg[d].pid] \in Nat
  BY Zenon, <1>2 DEF TypeOK
<1> QED
  BY <1>1, <1>2, <1>3, SMT

\* A CPU's message and buffer are as good as they were when they are the same,
\* no enqueue joined them and the task did not come back to BPF.
LEMMA TargetKept ==
    ASSUME NEW d \in Cpu, Target(d), pc'[d] = pc[d], msg'[d] = msg[d], buf'[d] = buf[d],
           early => early', NEW p, p = msg[d].pid,
           where'[p] = "bpf" /\ msg[d].cnt = enq_cnt'[p] =>
              /\ where[p] = "bpf" /\ enq_cnt'[p] = enq_cnt[p] /\ qseq'[p] = qseq[p]
              /\ allowed'[p] = allowed[p],
           buf[d] # None /\ buf[d].seq = qseq'[p] =>
              /\ qseq'[p] = qseq[p] /\ allowed'[p] = allowed[p]
              /\ where'[p] \in {"wakeup", "putprev", "bpf"} =>
                    where[p] \in {"wakeup", "putprev"} \/ where'[p] = where[p]
    PROVE  Target(d)'
<1>1. allowed'[p] = allowed[p] /\ MayTarget(d) => MayTarget(d)'
  BY Zenon DEF MayTarget
<1>2. /\ pc[d] = "insert" /\ where[p] = "bpf" /\ msg[d].cnt = enq_cnt[p] => MayTarget(d)
      /\ (/\ pc[d] = "check" /\ where[p] = "bpf" /\ msg[d].cnt = enq_cnt[p]
          /\ buf[d].seq = qseq[p]) => MayTarget(d)
      /\ (/\ pc[d] \in {"sched", "tasks"} /\ buf[d] # None /\ buf[d].seq = qseq[p]
          /\ ~early /\ msg[d].cpu # AnyCpu)
         => where[p] \notin {"wakeup", "putprev"} /\ (where[p] = "bpf" => MayTarget(d))
  BY Zenon DEF Target
<1>3. pc'[d] = "insert" /\ where'[p] = "bpf" /\ msg'[d].cnt = enq_cnt'[p] => MayTarget(d)'
  BY Zenon, <1>1, <1>2
<1>4. (/\ pc'[d] = "check" /\ where'[p] = "bpf" /\ msg'[d].cnt = enq_cnt'[p]
       /\ buf'[d].seq = qseq'[p]) => MayTarget(d)'
  BY Zenon, <1>1, <1>2
<1>5. (/\ pc'[d] \in {"sched", "tasks"} /\ buf'[d] # None /\ buf'[d].seq = qseq'[p]
       /\ ~early' /\ msg'[d].cpu # AnyCpu)
      => where'[p] \notin {"wakeup", "putprev"} /\ (where'[p] = "bpf" => MayTarget(d)')
  BY Zenon, <1>1, <1>2
<1> QED
  BY Zenon, <1>3, <1>4, <1>5 DEF Target

\* Steps that leave the tasks where they are, their counters and their affinity.
LEMMA TargetFrame ==
    ASSUME NEW d \in Cpu, Target(d), pc'[d] = pc[d], msg'[d] = msg[d], buf'[d] = buf[d],
           early => early', where' = where, enq_cnt' = enq_cnt, qseq' = qseq, allowed' = allowed
    PROVE  Target(d)'
  BY Zenon, TargetKept

\* What a message is about is a task.
LEMMA MessageTask ==
    ASSUME TypeOK, NEW d \in Cpu, msg[d] # None
    PROVE  msg[d].pid \in Task /\ msg[d].cpu \in Dsq /\ msg[d].cnt \in Nat
<1>1. msg[d] \in Decision
  BY Zenon DEF TypeOK
<1> QED
  BY <1>1 DEF Decision, Dsq

\* What the kernel and ops.enqueue do to a task.
LEMMA TaskStep ==
    ASSUME TypeOK, NEW q \in Task, NEW p \in Task,
           rustland_select_cpu(q) \/ SetAffinity(q) \/ rustland_enqueue(q)
    PROVE  /\ p # q => /\ where'[p] = where[p] /\ qseq'[p] = qseq[p]
                       /\ enq_cnt'[p] = enq_cnt[p] /\ allowed'[p] = allowed[p]
           /\ p = q => \/ /\ where'[p] = "wakeup" /\ qseq'[p] = qseq[p] + 1
                          /\ queued' = queued
                       \/ /\ where'[p] \in allowed[p] \cup {AnyCpu} /\ qseq'[p] = qseq[p]
                          /\ allowed'[p] = allowed[p] /\ queued' = queued
                       \/ /\ where'[p] = "bpf" /\ where[p] \in {"wakeup", "putprev"}
                          /\ qseq'[p] = qseq[p] /\ enq_cnt'[p] = enq_cnt[p] + 1
                          /\ allowed'[p] = allowed[p] /\ EnqueueToUser(q)
<1>1. CASE rustland_select_cpu(q)
  BY ZenonT(30), <1>1 DEF rustland_select_cpu, Enqueued, TypeOK
<1>2. CASE SetAffinity(q)
  BY ZenonT(30), <1>2 DEF SetAffinity, Enqueued, TypeOK
<1>3. CASE EnqueueDirect(q)
  <2>1. PICK c \in IdleFor(q) : where' = [where EXCEPT ![q] = c]
    BY Zenon, <1>3 DEF EnqueueDirect
  <2>2. c \in allowed[q]
    BY Zenon, IdleForType
  <2> QED
    BY ZenonT(30), <1>3, <2>1, <2>2 DEF EnqueueDirect, TypeOK
<1>4. CASE EnqueueToUser(q)
  BY ZenonT(30), <1>4 DEF EnqueueToUser, TypeOK
<1>5. CASE EnqueueCongested(q)
  BY Zenon, <1>5 DEF EnqueueCongested, TypeOK
<1> QED
  BY ZenonT(30), <1>1, <1>2, <1>3, <1>4, <1>5 DEF rustland_enqueue

\* What they leave alone.
LEMMA TaskFrame ==
    ASSUME NEW q \in Task, rustland_select_cpu(q) \/ SetAffinity(q) \/ rustland_enqueue(q)
    PROVE  /\ pc' = pc /\ msg' = msg /\ buf' = buf /\ early' = early
           /\ tasks' = tasks /\ dispatched' = dispatched
  BY Zenon DEF rustland_select_cpu, SetAffinity, rustland_enqueue, EnqueueDirect,
               EnqueueToUser, EnqueueCongested, cpuVars, userVars

\* An enqueue leaves what the CPUs have read behind: either the sequence number
\* or the counter of the task is a new one.
LEMMA TargetsTask ==
    ASSUME TypeOK, Handling, Counts, Targets, NEW q \in Task,
           rustland_select_cpu(q) \/ SetAffinity(q) \/ rustland_enqueue(q)
    PROVE  Targets'
<1>1. pc' = pc /\ msg' = msg /\ buf' = buf /\ early' = early
  BY Zenon, TaskFrame
<1> SUFFICES ASSUME NEW d \in Cpu, msg[d] # None PROVE Target(d)'
  BY Zenon, <1>1 DEF Targets
<1>2. Target(d)
  BY Zenon DEF Targets
<1> DEFINE p == msg[d].pid
<1>3. p \in Task
  BY Zenon, MessageTask
<1>4. allowed[p] \subseteq Cpu
  BY Zenon, <1>3, IdleForType
<1>5. /\ qseq'[p] = qseq[p] + 1 /\ buf[d] # None => buf[d].seq # qseq'[p]
      /\ enq_cnt'[p] = enq_cnt[p] + 1 => msg[d].cnt # enq_cnt'[p]
  BY Zenon, SeqBehind, CntBehind
<1> HIDE DEF p
<1>6. CASE p # q
  <2>1. /\ where'[p] = where[p] /\ qseq'[p] = qseq[p]
        /\ enq_cnt'[p] = enq_cnt[p] /\ allowed'[p] = allowed[p]
    BY Zenon, <1>3, <1>6, TaskStep
  <2> QED
    BY Zenon, <1>1, <1>2, <2>1, TargetKept DEF p
<1>7. CASE p = q
  <2>1. CASE where'[p] = "wakeup" /\ qseq'[p] = qseq[p] + 1
    <3>1. where'[p] # "bpf" /\ ~(buf[d] # None /\ buf[d].seq = qseq'[p])
      BY Zenon, <1>5, <2>1
    <3> QED
      BY Zenon, <1>1, <1>2, <3>1, TargetKept DEF p
  <2>2. CASE /\ where'[p] \in allowed[p] \cup {AnyCpu} /\ qseq'[p] = qseq[p]
             /\ allowed'[p] = allowed[p]
    <3>1. where'[p] \notin {"wakeup", "putprev", "bpf"}
      BY Zenon, <1>4, <2>2, StatesNotDsq DEF State
    <3> QED
      BY Zenon, <1>1, <1>2, <2>2, <3>1, TargetKept DEF p
  <2>3. CASE /\ where[p] \in {"wakeup", "putprev"} /\ qseq'[p] = qseq[p]
             /\ enq_cnt'[p] = enq_cnt[p] + 1 /\ allowed'[p] = allowed[p]
    <3>1. msg[d].cnt # enq_cnt'[p]
      BY Zenon, <1>5, <2>3
    <3> QED
      BY Zenon, <1>1, <1>2, <2>3, <3>1, TargetKept DEF p
  <2> QED
    BY Zenon, <1>3, <1>7, <2>1, <2>2, <2>3, TaskStep
<1> QED
  BY Zenon, <1>6, <1>7

\* A task that blocks leaves BPF's custody or was not in it.
LEMMA BlockStep ==
    ASSUME TypeOK, NEW c \in Cpu, Block(c), NEW p \in Task
    PROVE  where'[p] = where[p] \/ where'[p] \in {"sleep", "gone"}
<1>1. \E x \in {"sleep", "gone"} : where' = [where EXCEPT ![curr[c]] = x]
  BY Zenon DEF Block
<1> QED
  BY Zenon, <1>1 DEF TypeOK

\* Steps of the tasks, the timer and the user-space scheduler, which touch no
\* CPU's message.
LEMMA TargetsUser ==
    ASSUME TypeOK, Targets,
           (\E c \in Cpu : Block(c) \/ Expire(c)) \/ usersched_timer_fn \/ schedule
    PROVE  Targets'
<1>1. /\ pc' = pc /\ msg' = msg /\ buf' = buf /\ early' = early
      /\ enq_cnt' = enq_cnt /\ qseq' = qseq /\ allowed' = allowed
  BY Zenon DEF Block, Expire, usersched_timer_fn, schedule, drain_queued_tasks,
               dispatch_and_notify, kernelVars, taskVars, cpuVars
<1>2. (\E c \in Cpu : Block(c)) \/ where' = where
  BY Zenon DEF Expire, usersched_timer_fn, schedule, drain_queued_tasks,
               dispatch_and_notify, kernelVars, taskVars
<1> SUFFICES ASSUME NEW d \in Cpu, msg[d] # None PROVE Target(d)'
  BY Zenon, <1>1 DEF Targets
<1>3. Target(d)
  BY Zenon DEF Targets
<1>4. msg[d].pid \in Task
  BY Zenon, MessageTask
<1>5. where'[msg[d].pid] = where[msg[d].pid] \/ where'[msg[d].pid] \in {"sleep", "gone"}
  BY Zenon, <1>2, <1>4, BlockStep
<1> QED
  BY Zenon, <1>1, <1>3, <1>5, TargetKept

\* What ops.dispatch leaves alone before its end.
LEMMA DispatchFrame ==
    ASSUME TypeOK, NEW c \in Cpu, DrainNothing(c) \/ DrainMessage(c) \/ Insert(c) \/ Check(c)
    PROVE  /\ where' = where /\ qseq' = qseq /\ allowed' = allowed /\ task_cpu' = task_cpu
           /\ enq_cnt' = enq_cnt /\ queued' = queued /\ tasks' = tasks
           /\ early => early'
<1>1. ASSUME Check(c), early PROVE early'
  <2>1. early = TRUE
    BY Zenon, <1>1 DEF TypeOK
  <2>2. PICK X \in BOOLEAN : early' = (early \/ X)
    BY Zenon, <1>1 DEF Check
  <2> QED
    BY Zenon, <2>1, <2>2
<1>2. Check(c) \/ early' = early
  BY Zenon DEF DrainNothing, DrainMessage, Insert
<1>3. early => early'
  BY Zenon, <1>1, <1>2
<1>4. /\ where' = where /\ qseq' = qseq /\ allowed' = allowed /\ task_cpu' = task_cpu
      /\ enq_cnt' = enq_cnt /\ queued' = queued /\ tasks' = tasks
  BY Zenon DEF DrainNothing, DrainMessage, Insert, Check, kernelVars, taskVars, userVars
<1> QED
  BY Zenon, <1>3, <1>4

\* A message not newer than the task's counter is the one of its last enqueue.
LEMMA NotNewer ==
    ASSUME TypeOK, Counts, NEW c \in Cpu, msg[c] # None
    PROVE  Newer(msg[c]) <=> msg[c].cnt # enq_cnt[msg[c].pid]
<1>1. msg[c].pid \in Task /\ msg[c].cnt \in Nat
  BY Zenon, MessageTask
<1>2. enq_cnt[msg[c].pid] \in Nat /\ msg[c].cnt <= enq_cnt[msg[c].pid]
  BY Zenon, <1>1 DEF TypeOK, Counts
<1> QED
  BY <1>1, <1>2, SMT DEF Newer

\* The CPU itself: the test of the target is repeated by the comparison of
\* enq_cnt, which comes after the insert.
LEMMA TargetSelf ==
    ASSUME TypeOK, Handling, Counts, Placed, NEW c \in Cpu, msg[c] # None => Target(c),
           DrainNothing(c) \/ DrainMessage(c) \/ Insert(c) \/ Check(c), msg'[c] # None
    PROVE  Target(c)'
<1>1. /\ where' = where /\ qseq' = qseq /\ allowed' = allowed /\ task_cpu' = task_cpu
      /\ enq_cnt' = enq_cnt /\ (early => early')
  BY Zenon, DispatchFrame
<1>2. CASE DrainNothing(c)
  <2>1. pc'[c] \in {"sched", "tasks"} /\ buf' = buf /\ pc[c] = "out"
    BY Zenon, <1>2, LookAt DEF DrainNothing, Begin
  <2>2. buf[c] = None
    BY Zenon, <2>1 DEF Handling
  <2> QED
    BY Zenon, <2>1, <2>2 DEF Target
<1>3. CASE DrainMessage(c)
  <2>1. pc'[c] = "insert"
    BY Zenon, <1>3 DEF DrainMessage, TypeOK
  <2>2. /\ msg'[c].pid \in Task
        /\ msg'[c].cpu \in allowed[msg'[c].pid] \cup {AnyCpu, task_cpu[msg'[c].pid]}
    BY Zenon, <1>3, Drained
  <2>3. msg'[c].cpu \in allowed'[msg'[c].pid] \cup {AnyCpu}
    BY Zenon, <1>1, <2>2 DEF Placed
  <2>4. MayTarget(c)'
    BY Zenon, <2>3 DEF MayTarget
  <2> QED
    BY Zenon, <2>1, <2>4 DEF Target
<1>4. CASE Insert(c)
  <2>1. msg' = msg /\ pc[c] = "insert"
    BY Zenon, <1>4 DEF Insert
  <2>2. \/ msg[c].cpu = AnyCpu /\ pc'[c] \in {"sched", "tasks"}
        \/ msg[c].cpu # AnyCpu /\ pc'[c] = "check"
    BY ZenonT(30), <1>4, LookAt DEF Insert, TypeOK
  <2>3. where[msg[c].pid] = "bpf" /\ msg[c].cnt = enq_cnt[msg[c].pid] => MayTarget(c)
    BY Zenon, <2>1 DEF Target
  <2>4. MayTarget(c) => MayTarget(c)'
    BY Zenon, <1>1, <2>1 DEF MayTarget
  <2> QED
    BY Zenon, <1>1, <2>1, <2>2, <2>3, <2>4 DEF Target
<1>5. CASE Check(c)
  <2>1. msg' = msg /\ pc[c] = "check" /\ msg[c] # None
    BY Zenon, <1>5 DEF Check, Handling
  <2>2. pc'[c] \in {"sched", "tasks"}
    BY Zenon, <1>5, LookAt DEF Check
  <2>3. /\ Newer(msg[c]) => buf'[c] = None
        /\ ~Newer(msg[c]) => buf'[c] = buf[c]
    BY Zenon, <1>5 DEF Check, TypeOK
  <2>4. (/\ ~Newer(msg[c]) /\ where[msg[c].pid] \in {"wakeup", "putprev"}
         /\ buf[c].seq = qseq[msg[c].pid]) => early'
    BY Zenon, <1>5 DEF Check
  <2>5. (/\ where[msg[c].pid] = "bpf" /\ msg[c].cnt = enq_cnt[msg[c].pid]
         /\ buf[c].seq = qseq[msg[c].pid]) => MayTarget(c)
    BY Zenon, <2>1 DEF Target
  <2>6. MayTarget(c) => MayTarget(c)'
    BY Zenon, <1>1, <2>1 DEF MayTarget
  <2>7. Newer(msg[c]) <=> msg[c].cnt # enq_cnt[msg[c].pid]
    BY Zenon, <2>1, NotNewer
  <2> QED
    BY Zenon, <1>1, <2>1, <2>2, <2>3, <2>4, <2>5, <2>6, <2>7 DEF Target
<1> QED
  BY Zenon, <1>2, <1>3, <1>4, <1>5

\* A step of ops.dispatch before its end.
LEMMA TargetsDispatch ==
    ASSUME TypeOK, Handling, Counts, Placed, Targets, NEW c \in Cpu,
           DrainNothing(c) \/ DrainMessage(c) \/ Insert(c) \/ Check(c)
    PROVE  Targets'
<1>1. /\ where' = where /\ qseq' = qseq /\ allowed' = allowed
      /\ enq_cnt' = enq_cnt /\ (early => early')
  BY Zenon, DispatchFrame
<1> SUFFICES ASSUME NEW d \in Cpu, msg'[d] # None PROVE Target(d)'
  BY Zenon DEF Targets
<1>2. CASE d = c
  BY Zenon, <1>2, TargetSelf DEF Targets
<1>3. CASE d # c
  <2>1. pc'[d] = pc[d] /\ msg'[d] = msg[d] /\ buf'[d] = buf[d]
    BY Zenon, <1>3, OtherHands DEF rustland_dispatch
  <2>2. Target(d)
    BY Zenon, <2>1 DEF Targets
  <2> QED
    BY Zenon, <1>1, <2>1, <2>2, TargetFrame
<1> QED
  BY Zenon, <1>2, <1>3

\* The end of ops.dispatch, for the CPUs that are in it as well.
LEMMA TargetsMove ==
    ASSUME TypeOK, Handling, Running, Counts, Targets, NEW c \in Cpu, Move(c)
    PROVE  Targets'
<1>1. enq_cnt' = enq_cnt /\ allowed' = allowed /\ early' = early /\ msg'[c] = None
  BY Zenon DEF Move, TypeOK
<1> SUFFICES ASSUME NEW d \in Cpu, msg'[d] # None PROVE Target(d)'
  BY Zenon DEF Targets
<1>2. d # c
  BY Zenon, <1>1
<1>3. pc'[d] = pc[d] /\ msg'[d] = msg[d] /\ buf'[d] = buf[d]
  BY Zenon, <1>2, OtherHands DEF rustland_dispatch
<1>4. Target(d)
  BY Zenon, <1>3 DEF Targets
<1> DEFINE p == msg[d].pid
<1>5. p \in Task
  BY Zenon, <1>3, MessageTask
<1>6. qseq'[p] = qseq[p] + 1 /\ buf[d] # None => buf[d].seq # qseq'[p]
  BY Zenon, SeqBehind
<1> HIDE DEF p
<1>7. /\ where'[p] = "bpf" => where[p] = "bpf" /\ qseq'[p] = qseq[p]
      /\ where'[p] \in {"wakeup", "putprev"} => where'[p] = where[p] \/ qseq'[p] = qseq[p] + 1
      /\ qseq'[p] \in {qseq[p], qseq[p] + 1}
  BY Zenon, <1>5, MoveTask
<1>8. where'[p] = "bpf" /\ msg[d].cnt = enq_cnt'[p] =>
         /\ where[p] = "bpf" /\ enq_cnt'[p] = enq_cnt[p] /\ qseq'[p] = qseq[p]
         /\ allowed'[p] = allowed[p]
  BY Zenon, <1>1, <1>7
<1>9. buf[d] # None /\ buf[d].seq = qseq'[p] =>
         /\ qseq'[p] = qseq[p] /\ allowed'[p] = allowed[p]
         /\ where'[p] \in {"wakeup", "putprev", "bpf"} => where'[p] = where[p]
  BY Zenon, <1>1, <1>6, <1>7
<1> QED
  BY ZenonT(30), <1>1, <1>3, <1>4, <1>8, <1>9, TargetKept DEF p

-----------------------------------------------------------------------------
(* No task is forgotten *)

\* The message of a task's last enqueue stays somewhere: each that was on its
\* way still is or has been taken by a CPU, and the CPUs hold on to theirs.
LEMMA MessageKept ==
    ASSUME NEW p \in Task, HasMessage(p), enq_cnt'[p] = enq_cnt[p],
           \A m \in InFlight : m.pid = p /\ m.cnt = enq_cnt[p] =>
               \/ \E n \in InFlight' : n.pid = p /\ n.cnt = enq_cnt[p]
               \/ \E c \in Cpu : Held(p, c)',
           \A c \in Cpu : Held(p, c) => Held(p, c)'
    PROVE  HasMessage(p)'
<1>1. CASE \E m \in InFlight : m.pid = p /\ m.cnt = enq_cnt[p]
  <2>1. \/ \E n \in InFlight' : n.pid = p /\ n.cnt = enq_cnt'[p]
        \/ \E c \in Cpu : Held(p, c)'
    BY Zenon, <1>1
  <2> QED
    BY Zenon, <2>1 DEF HasMessage
<1>2. CASE \E c \in Cpu : Held(p, c)
  <2>1. \E c \in Cpu : Held(p, c)'
    BY Zenon, <1>2
  <2> QED
    BY Zenon, <2>1 DEF HasMessage
<1> QED
  BY Zenon, <1>1, <1>2 DEF HasMessage

\* A CPU whose hands do not change holds what it held.
LEMMA HeldKept ==
    ASSUME NEW p \in Task, NEW c \in Cpu, Held(p, c), pc'[c] = pc[c], msg'[c] = msg[c],
           buf'[c] = buf[c], enq_cnt'[p] = enq_cnt[p], qseq'[p] = qseq[p]
    PROVE  Held(p, c)'
  BY Zenon DEF Held

\* The enqueue of a task makes its message; those of the other tasks stay.
LEMMA ForgottenTask ==
    ASSUME TypeOK, NoTaskForgotten, NEW q \in Task,
           rustland_select_cpu(q) \/ SetAffinity(q) \/ rustland_enqueue(q)
    PROVE  NoTaskForgotten'
<1>1. /\ pc' = pc /\ msg' = msg /\ buf' = buf /\ tasks' = tasks /\ dispatched' = dispatched
  BY Zenon, TaskFrame
<1> SUFFICES ASSUME NEW p \in Task, where'[p] = "bpf" PROVE HasMessage(p)'
  BY Zenon DEF NoTaskForgotten
<1>2. queued' = queued \/ EnqueueToUser(q)
  BY Zenon DEF rustland_select_cpu, SetAffinity, rustland_enqueue, EnqueueDirect, EnqueueCongested
<1>3. InFlight \subseteq InFlight'
  BY Zenon, <1>1, <1>2, FlightFrame, FlightEnqueue
<1>4. CASE p = q
  <2>1. EnqueueToUser(q)
    <3>1. where'[p] # "wakeup" /\ where'[p] \notin allowed[p] \cup {AnyCpu}
      BY Zenon, StatesNotDsq, IdleForType DEF State
    <3> QED
      BY Zenon, <1>4, <3>1, TaskStep
  <2>2. [pid |-> p, cnt |-> enq_cnt'[p]] \in InFlight'
    BY Zenon, <1>4, <2>1, FlightEnqueue
  <2>3. \E n \in InFlight' : n.pid = p /\ n.cnt = enq_cnt'[p]
    BY <2>2
  <2> QED
    BY Zenon, <2>3 DEF HasMessage
<1>5. CASE p # q
  <2>1. where[p] = "bpf" /\ qseq'[p] = qseq[p] /\ enq_cnt'[p] = enq_cnt[p]
    BY Zenon, <1>5, TaskStep
  <2>2. HasMessage(p)
    BY Zenon, <2>1 DEF NoTaskForgotten
  <2>3. ASSUME NEW c \in Cpu, Held(p, c) PROVE Held(p, c)'
    BY Zenon, <1>1, <2>1, <2>3, HeldKept
  <2> QED
    BY Zenon, <1>3, <2>1, <2>2, <2>3, MessageKept
<1> QED
  BY Zenon, <1>4, <1>5

\* A task that blocks, the timer, and the user-space scheduler, which hands
\* messages on.
LEMMA ForgottenUser ==
    ASSUME TypeOK, IsFiniteSet(tasks), NoTaskForgotten,
           (\E c \in Cpu : Block(c) \/ Expire(c)) \/ usersched_timer_fn \/ schedule
    PROVE  NoTaskForgotten'
<1>1. pc' = pc /\ msg' = msg /\ buf' = buf /\ enq_cnt' = enq_cnt /\ qseq' = qseq
  BY Zenon DEF Block, Expire, usersched_timer_fn, schedule, drain_queued_tasks,
               dispatch_and_notify, kernelVars, taskVars, cpuVars
<1>2. (\E c \in Cpu : Block(c)) \/ where' = where
  BY Zenon DEF Expire, usersched_timer_fn, schedule, drain_queued_tasks,
               dispatch_and_notify, kernelVars, taskVars
<1> SUFFICES ASSUME NEW p \in Task, where'[p] = "bpf" PROVE HasMessage(p)'
  BY Zenon DEF NoTaskForgotten
<1>3. where[p] = "bpf"
  BY Zenon, <1>2, BlockStep
<1>4. HasMessage(p)
  BY Zenon, <1>3 DEF NoTaskForgotten
<1>5. ASSUME NEW c \in Cpu, Held(p, c) PROVE Held(p, c)'
  BY Zenon, <1>1, <1>5, HeldKept
<1>6. ASSUME NEW m \in InFlight, m.pid = p, m.cnt = enq_cnt[p]
      PROVE  \E n \in InFlight' : n.pid = p /\ n.cnt = enq_cnt[p]
  <2>1. CASE InFlight' = InFlight
    BY Zenon, <1>6, <2>1
  <2>2. CASE dispatch_and_notify
    BY Zenon, <1>6, <2>1, <2>2, FlightDispatch
  <2>3. CASE drain_queued_tasks
    BY Zenon, <2>1, <2>3, FlightQueued
  <2>4. CASE ~schedule
    <3>1. queued' = queued /\ tasks' = tasks /\ dispatched' = dispatched
      BY Zenon, <2>4 DEF Block, Expire, usersched_timer_fn, userVars
    <3> QED
      BY Zenon, <2>1, <3>1, FlightFrame
  <2> QED
    BY Zenon, <2>2, <2>3, <2>4 DEF schedule
<1> QED
  BY Zenon, <1>1, <1>4, <1>5, <1>6, MessageKept

\* ops.dispatch before its end: what it drains it holds, what it drops was for a
\* task that has gone, and what it cancels was for an earlier enqueue.
LEMMA HeldSelf ==
    ASSUME TypeOK, Handling, Counts, NEW c \in Cpu, NEW p \in Task, Held(p, c),
           DrainNothing(c) \/ DrainMessage(c) \/ Insert(c) \/ Check(c)
    PROVE  Held(p, c)'
<1>1. enq_cnt' = enq_cnt /\ qseq' = qseq
  BY Zenon, DispatchFrame
<1>2. msg[c] # None /\ msg[c].pid = p
  BY Zenon DEF Held
<1>3. CASE DrainNothing(c) \/ DrainMessage(c)
  <2>1. pc[c] = "out"
    BY Zenon, <1>3 DEF DrainNothing, DrainMessage, Begin
  <2>2. buf[c] = None
    BY Zenon, <2>1 DEF Handling
  <2> QED
    BY Zenon, <2>1, <2>2 DEF Held
<1>4. CASE Insert(c)
  <2>1. /\ pc[c] = "insert" /\ msg' = msg
        /\ buf'[c] = [pid |-> msg[c].pid, seq |-> qseq[msg[c].pid]]
    BY Zenon, <1>4 DEF Insert, TypeOK
  <2>2. buf[c] = None
    BY Zenon, <2>1 DEF Handling
  <2>3. msg[c].cnt = enq_cnt[p]
    BY Zenon, <2>1, <2>2 DEF Held
  <2>4. qseq[p] \in Nat
    BY Zenon DEF TypeOK
  <2>5. buf'[c].seq = qseq[p] /\ buf'[c] \in [pid : Task, seq : Nat]
    BY SMTT(30), <1>2, <2>1, <2>4
  <2>6. buf'[c] # None
    BY Zenon, <2>5, RustlandConstants
  <2> QED
    BY Zenon, <1>1, <1>2, <2>1, <2>3, <2>5, <2>6 DEF Held
<1>5. CASE Check(c)
  <2>1. pc[c] = "check" /\ msg' = msg
    BY Zenon, <1>5 DEF Check
  <2>2. buf[c] # None /\ buf[c].seq = qseq[p] /\ msg[c].cnt = enq_cnt[p]
    BY Zenon, <2>1 DEF Held
  <2>3. ~Newer(msg[c])
    BY Zenon, <1>2, <2>2, NotNewer
  <2>4. buf' = buf
    BY Zenon, <1>5, <2>3 DEF Check
  <2> QED
    BY Zenon, <1>1, <1>2, <2>1, <2>2, <2>4 DEF Held
<1> QED
  BY Zenon, <1>3, <1>4, <1>5

\* What ops.dispatch takes out of the ring it holds or drops for good.
LEMMA FlightKept ==
    ASSUME TypeOK, Handling, NEW c \in Cpu,
           DrainNothing(c) \/ DrainMessage(c) \/ Insert(c) \/ Check(c),
           NEW p \in Task, where[p] = "bpf",
           NEW m \in InFlight, m.pid = p, m.cnt = enq_cnt[p]
    PROVE  m \in InFlight' \/ Held(p, c)'
<1>1. queued' = queued /\ tasks' = tasks /\ enq_cnt' = enq_cnt
  BY Zenon, DispatchFrame
<1>2. CASE dispatched' = dispatched
  BY Zenon, <1>1, <1>2, FlightFrame
<1>3. CASE dispatched # <<>> /\ dispatched' = Tail(dispatched) /\ m # Head(dispatched)
  BY Zenon, <1>1, <1>3, FlightDrain
<1>4. CASE DrainNothing(c) /\ m = Head(dispatched)
  <2>1. dispatched' = dispatched
    BY Zenon, <1>4 DEF DrainNothing
  <2> QED
    BY Zenon, <1>2, <2>1
<1>5. CASE DrainMessage(c) /\ m = Head(dispatched)
  <2>1. msg'[c].pid = p /\ msg'[c].cnt = enq_cnt[p]
    BY Zenon, <1>5, Drained
  <2>2. pc'[c] = "insert"
    BY Zenon, <1>5 DEF DrainMessage, TypeOK
  <2>3. msg'[c] # None
    <3>1. Handling'
      BY Zenon, <1>5, HandlingStep DEF rustland_dispatch
    <3> QED
      BY Zenon, <2>2, <3>1 DEF Handling
  <2> QED
    BY Zenon, <1>1, <2>1, <2>2, <2>3 DEF Held
<1> QED
  BY Zenon, <1>2, <1>3, <1>4, <1>5 DEF DrainNothing, DrainMessage, Insert, Check

\* A step of ops.dispatch before its end.
LEMMA ForgottenDispatch ==
    ASSUME TypeOK, Handling, Counts, NoTaskForgotten, NEW c \in Cpu,
           DrainNothing(c) \/ DrainMessage(c) \/ Insert(c) \/ Check(c)
    PROVE  NoTaskForgotten'
<1>1. where' = where /\ enq_cnt' = enq_cnt /\ qseq' = qseq
  BY Zenon, DispatchFrame
<1> SUFFICES ASSUME NEW p \in Task, where[p] = "bpf" PROVE HasMessage(p)'
  BY Zenon, <1>1 DEF NoTaskForgotten
<1>2. HasMessage(p)
  BY Zenon DEF NoTaskForgotten
<1>3. ASSUME NEW d \in Cpu, Held(p, d) PROVE Held(p, d)'
  <2>1. CASE d = c
    BY Zenon, <1>3, <2>1, HeldSelf
  <2>2. CASE d # c
    <3>1. pc'[d] = pc[d] /\ msg'[d] = msg[d] /\ buf'[d] = buf[d]
      BY Zenon, <2>2, OtherHands DEF rustland_dispatch
    <3> QED
      BY Zenon, <1>1, <1>3, <3>1, HeldKept
  <2> QED
    BY Zenon, <2>1, <2>2
<1>4. ASSUME NEW m \in InFlight, m.pid = p, m.cnt = enq_cnt[p]
      PROVE  \/ \E n \in InFlight' : n.pid = p /\ n.cnt = enq_cnt[p]
             \/ \E d \in Cpu : Held(p, d)'
  BY Zenon, <1>4, FlightKept
<1> QED
  BY Zenon, <1>1, <1>2, <1>3, <1>4, MessageKept

\* The end of ops.dispatch: what it inserts is no longer in BPF's custody.
LEMMA ForgottenMove ==
    ASSUME TypeOK, Handling, Running, NoTaskForgotten, NEW c \in Cpu, Move(c)
    PROVE  NoTaskForgotten'
<1>1. /\ queued' = queued /\ tasks' = tasks /\ dispatched' = dispatched /\ enq_cnt' = enq_cnt
      /\ pc[c] \in {"sched", "tasks"}
  BY Zenon DEF Move, userVars
<1> SUFFICES ASSUME NEW p \in Task, where'[p] = "bpf" PROVE HasMessage(p)'
  BY Zenon DEF NoTaskForgotten
<1>2. /\ where[p] = "bpf" /\ qseq'[p] = qseq[p]
      /\ ~(buf[c] # None /\ msg[c].pid = p /\ buf[c].seq = qseq[p])
  BY Zenon, MoveTask
<1>3. HasMessage(p)
  BY Zenon, <1>2 DEF NoTaskForgotten
<1>4. ASSUME NEW d \in Cpu, Held(p, d) PROVE Held(p, d)'
  <2>1. d # c
    BY Zenon, <1>1, <1>2, <1>4 DEF Held
  <2>2. pc'[d] = pc[d] /\ msg'[d] = msg[d] /\ buf'[d] = buf[d]
    BY Zenon, <2>1, OtherHands DEF rustland_dispatch
  <2> QED
    BY Zenon, <1>1, <1>2, <1>4, <2>2, HeldKept
<1>5. InFlight' = InFlight
  BY Zenon, <1>1, FlightFrame
<1> QED
  BY Zenon, <1>1, <1>3, <1>4, <1>5, MessageKept

-----------------------------------------------------------------------------
(* A task in a CPU's DSQ may run there *)

\* Steps after which no task is in a DSQ that was not in it before.
LEMMA AllowedFrame ==
    ASSUME TargetAllowed, early => early',
           \A p \in Task, c \in Cpu : where'[p] = c /\ ~early =>
              (where[p] = c /\ allowed'[p] = allowed[p]) \/ c \in allowed'[p]
    PROVE  TargetAllowed'
<1> SUFFICES ASSUME ~early', NEW p \in Task, NEW c \in Cpu, where'[p] = c
             PROVE  c \in allowed'[p]
  BY Zenon DEF TargetAllowed
<1>1. ~early
  BY Zenon
<1> QED
  BY Zenon, <1>1 DEF TargetAllowed

\* An enqueue puts a task straight into the DSQ of a CPU it may use only.
LEMMA AllowedTask ==
    ASSUME TypeOK, TargetAllowed, NEW q \in Task,
           rustland_select_cpu(q) \/ SetAffinity(q) \/ rustland_enqueue(q)
    PROVE  TargetAllowed'
<1>1. early' = early
  BY Zenon, TaskFrame
<1>2. ASSUME NEW p \in Task, NEW c \in Cpu, where'[p] = c
      PROVE  (where[p] = c /\ allowed'[p] = allowed[p]) \/ c \in allowed'[p]
  <2>1. where'[p] \notin {"wakeup", "bpf", AnyCpu}
    BY Zenon, <1>2, StatesNotDsq, RustlandConstants DEF State
  <2>2. CASE p # q
    BY Zenon, <1>2, <2>2, TaskStep
  <2>3. CASE p = q
    <3>1. where'[p] \in allowed[p] \cup {AnyCpu} /\ allowed'[p] = allowed[p]
      BY Zenon, <2>1, <2>3, TaskStep
    <3> QED
      BY Zenon, <1>2, <2>1, <3>1
  <2> QED
    BY Zenon, <2>2, <2>3
<1> QED
  BY Zenon, <1>1, <1>2, AllowedFrame

\* A task that blocks, the timer and the user-space scheduler.
LEMMA AllowedUser ==
    ASSUME TypeOK, TargetAllowed,
           (\E c \in Cpu : Block(c) \/ Expire(c)) \/ usersched_timer_fn \/ schedule
    PROVE  TargetAllowed'
<1>1. early' = early /\ allowed' = allowed
  BY Zenon DEF Block, Expire, usersched_timer_fn, schedule, drain_queued_tasks,
               dispatch_and_notify, kernelVars, taskVars
<1>2. (\E c \in Cpu : Block(c)) \/ where' = where
  BY Zenon DEF Expire, usersched_timer_fn, schedule, drain_queued_tasks,
               dispatch_and_notify, kernelVars, taskVars
<1>3. ASSUME NEW p \in Task, NEW c \in Cpu, where'[p] = c PROVE where[p] = c
  <2>1. where'[p] \notin {"sleep", "gone"}
    BY Zenon, <1>3, StatesNotDsq DEF State
  <2> QED
    BY Zenon, <1>2, <1>3, <2>1, BlockStep
<1> QED
  BY Zenon, <1>1, <1>3, AllowedFrame

\* ops.dispatch inserts into the DSQ it decided on.
LEMMA AllowedDispatch ==
    ASSUME TypeOK, Handling, Running, Targets, TargetAllowed, NEW c \in Cpu, rustland_dispatch(c)
    PROVE  TargetAllowed'
<1>1. CASE DrainNothing(c) \/ DrainMessage(c) \/ Insert(c) \/ Check(c)
  BY Zenon, <1>1, DispatchFrame, AllowedFrame
<1>2. CASE Move(c)
  <2>1. early' = early /\ allowed' = allowed /\ pc[c] \in {"sched", "tasks"}
    BY Zenon, <1>2 DEF Move
  <2>2. ASSUME NEW p \in Task, NEW d \in Cpu, where'[p] = d, ~early
        PROVE  where[p] = d \/ d \in allowed[p]
    <3>1. where'[p] \in Dsq /\ d # AnyCpu
      BY Zenon, <2>2, RustlandConstants DEF Dsq
    <3>2. CASE /\ where[p] = "bpf" /\ buf[c] # None /\ msg[c].pid = p /\ msg[c] # None
               /\ buf[c].seq = qseq[p] /\ where'[p] = msg[c].cpu
      <4>1. Target(c)
        BY Zenon, <3>2 DEF Targets
      <4>2. MayTarget(c)
        BY Zenon, <2>1, <2>2, <3>1, <3>2, <4>1 DEF Target
      <4> QED
        BY Zenon, <2>2, <3>1, <3>2, <4>2 DEF MayTarget
    <3> QED
      BY Zenon, <1>2, <2>2, <3>1, <3>2, MoveTask
  <2> QED
    BY Zenon, <2>1, <2>2, AllowedFrame
<1> QED
  BY Zenon, <1>1, <1>2 DEF rustland_dispatch

-----------------------------------------------------------------------------
(* The inductive invariant *)

\* All of it together.
IInv ==
    /\ TypeOK
    /\ IsFiniteSet(tasks)
    /\ Running
    /\ Handling
    /\ Counts
    /\ Placed
    /\ Targets
    /\ NoTaskForgotten
    /\ TargetAllowed

\* It holds at the start: all tasks sleep, no message exists and no CPU is in
\* ops.dispatch.
LEMMA Initially == Init => IInv
<1> SUFFICES ASSUME Init PROVE IInv
  OBVIOUS
<1>1. 0 \in Nat /\ <<>> \in Seq(Message) /\ <<>> \in Seq(Decision) /\ Len(<<>>) = 0
  OBVIOUS
<1>2. 0 <= QueuedLen /\ 0 <= DispLen
  BY RustlandConstants
<1>3. BootCpu \in Cpu /\ left \in [Task -> Nat]
  BY Zenon, RustlandConstants DEF Init
<1>4. TypeOK
  <2>1. /\ where \in [Task -> {"sleep", "wakeup", "putprev", "bpf", "run", "gone"} \cup Dsq]
        /\ qseq \in [Task -> Nat] /\ enq_cnt \in [Task -> Nat]
    BY Zenon, <1>1 DEF Init
  <2>2. allowed \in [Task -> (SUBSET Cpu) \ {{}}] /\ task_cpu \in [Task \cup {Sched} -> Cpu]
    <3>1. Cpu \in (SUBSET Cpu) \ {{}}
      BY Zenon, <1>3
    <3> QED
      BY Zenon, <1>3, <3>1 DEF Init
  <2>3. /\ queued \in Seq(Message) /\ Len(queued) <= QueuedLen
        /\ dispatched \in Seq(Decision) /\ Len(dispatched) <= DispLen
    BY <1>1, <1>2 DEF Init
  <2>4. /\ tasks \in SUBSET Message /\ upc \in {"drain", "dispatch"} /\ nr_scheduled \in Nat
        /\ needed \in BOOLEAN /\ early \in BOOLEAN
    BY Zenon, <1>1 DEF Init
  <2>5. /\ curr \in [Cpu -> Task \cup {Sched, None}] /\ resched \in [Cpu -> BOOLEAN]
        /\ pc \in [Cpu -> {"out", "insert", "check", "sched", "tasks"}]
        /\ msg \in [Cpu -> Decision \cup {None}]
        /\ buf \in [Cpu -> [pid : Task, seq : Nat] \cup {None}]
        /\ kick \in [Cpu -> SUBSET Cpu]
    BY Zenon DEF Init
  <2> QED
    BY ZenonT(30), <1>3, <2>1, <2>2, <2>3, <2>4, <2>5 DEF TypeOK
<1>5. InFlight = {}
  <2>1. Elements(<<>>) = {}
    BY <1>1 DEF Elements
  <2>2. queued = <<>> /\ dispatched = <<>> /\ tasks = {}
    BY Zenon DEF Init
  <2> QED
    BY Zenon, <2>1, <2>2 DEF InFlight
<1>6. \A c \in Cpu : curr[c] = None /\ pc[c] = "out" /\ msg[c] = None /\ buf[c] = None
  BY Zenon DEF Init
<1>7. \A p \in Task : where[p] = "sleep" /\ allowed[p] = Cpu /\ task_cpu[p] = BootCpu
  BY Zenon DEF Init
<1>8. Running
  BY Zenon, <1>6, RustlandConstants DEF Running
<1>9. Handling
  BY Zenon, <1>6 DEF Handling
<1>10. Counts
  BY Zenon, <1>5, <1>6 DEF Counts
<1>11. Placed
  BY <1>3, <1>7 DEF Placed
<1>12. Targets
  BY Zenon, <1>6 DEF Targets
<1>13. NoTaskForgotten
  BY Zenon, <1>7 DEF NoTaskForgotten
<1>14. TargetAllowed
  BY Zenon, <1>7, StatesNotDsq DEF TargetAllowed, State
<1>15. IsFiniteSet(tasks)
  BY Zenon, FS_EmptySet DEF Init
<1> QED
  BY Zenon, <1>4, <1>8, <1>9, <1>10, <1>11, <1>12, <1>13, <1>14, <1>15 DEF IInv

\* The kernel and ops.enqueue keep it.
LEMMA TaskKeeps ==
    ASSUME IInv, NEW p \in Task,
           rustland_select_cpu(p) \/ SetAffinity(p) \/ rustland_enqueue(p)
    PROVE  IInv'
<1>1. TypeOK'
  BY Zenon, SelectType, AffinityType, EnqueueType DEF IInv
<1>2. pc' = pc /\ msg' = msg /\ buf' = buf /\ tasks' = tasks
  BY Zenon, TaskFrame
<1>3. Running' /\ Counts'
  BY Zenon, <1>1, RunningTask, CountsTask DEF IInv
<1>4. Handling' /\ Placed'
  BY Zenon, <1>2, HandlingFrame, PlacedTask DEF IInv
<1>5. Targets'
  BY Zenon, TargetsTask DEF IInv
<1>6. NoTaskForgotten' /\ TargetAllowed'
  BY Zenon, ForgottenTask, AllowedTask DEF IInv
<1> QED
  BY Zenon, <1>1, <1>2, <1>3, <1>4, <1>5, <1>6 DEF IInv

\* So do tasks that block, the timer and the user-space scheduler.
LEMMA UserKeeps ==
    ASSUME IInv, (\E c \in Cpu : Block(c) \/ Expire(c)) \/ usersched_timer_fn \/ schedule
    PROVE  IInv'
<1>1. /\ pc' = pc /\ msg' = msg /\ buf' = buf /\ enq_cnt' = enq_cnt /\ qseq' = qseq
      /\ allowed' = allowed /\ task_cpu' = task_cpu
  BY Zenon DEF Block, Expire, usersched_timer_fn, schedule, drain_queued_tasks,
               dispatch_and_notify, kernelVars, taskVars, cpuVars
<1>2. schedule \/ (queued' = queued /\ tasks' = tasks /\ dispatched' = dispatched)
  BY Zenon DEF Block, Expire, usersched_timer_fn, userVars
<1>3. TypeOK'
  BY Zenon, BlockType, TimerType, DrainQueuedType, DispatchType DEF IInv, schedule
<1>4. IsFiniteSet(tasks')
  BY Zenon, <1>2, DrainQueuedType, DispatchType DEF IInv, schedule
<1>5. Running'
  BY Zenon, RunningBlock, RunningUser DEF IInv
<1>6. Handling' /\ Placed'
  BY Zenon, <1>1, HandlingFrame, PlacedFrame DEF IInv
<1>7. Counts'
  BY ZenonT(30), <1>1, <1>2, <1>3, CountsFrame, CountsUser DEF IInv
<1>8. Targets'
  BY Zenon, TargetsUser DEF IInv
<1>9. NoTaskForgotten' /\ TargetAllowed'
  BY Zenon, ForgottenUser, AllowedUser DEF IInv
<1> QED
  BY Zenon, <1>3, <1>4, <1>5, <1>6, <1>7, <1>8, <1>9 DEF IInv

\* So does ops.dispatch.
LEMMA DispatchKeeps ==
    ASSUME IInv, NEW c \in Cpu, rustland_dispatch(c)
    PROVE  IInv'
<1>1. TypeOK'
  BY Zenon, DrainType, InsertType, CheckType, MoveType DEF IInv, rustland_dispatch
<1>2. tasks' = tasks
  BY Zenon DEF rustland_dispatch, DrainNothing, DrainMessage, Insert, Check, Move, userVars
<1>3. Handling' /\ Counts' /\ TargetAllowed'
  BY Zenon, <1>1, HandlingStep, CountsDispatch, AllowedDispatch DEF IInv
<1>4. CASE DrainNothing(c) \/ DrainMessage(c) \/ Insert(c) \/ Check(c)
  <2>1. task_cpu' = task_cpu /\ allowed' = allowed
    BY Zenon, <1>4, DispatchFrame DEF IInv
  <2>2. Running' /\ Placed'
    BY Zenon, <1>4, <2>1, RunningDispatch, PlacedFrame DEF IInv
  <2>3. Targets' /\ NoTaskForgotten'
    BY Zenon, <1>4, TargetsDispatch, ForgottenDispatch DEF IInv
  <2> QED
    BY Zenon, <1>1, <1>2, <1>3, <2>2, <2>3 DEF IInv
<1>5. CASE Move(c)
  <2>1. Running' /\ Placed'
    BY Zenon, <1>5, RunningMove, PlacedMove DEF IInv
  <2>2. Targets' /\ NoTaskForgotten'
    BY Zenon, <1>5, TargetsMove, ForgottenMove DEF IInv
  <2> QED
    BY Zenon, <1>1, <1>2, <1>3, <2>1, <2>2 DEF IInv
<1> QED
  BY Zenon, <1>4, <1>5 DEF rustland_dispatch

\* A step that changes nothing keeps it.
LEMMA StutterKeeps ==
    ASSUME IInv, UNCHANGED vars
    PROVE  IInv'
<1>1. /\ where' = where /\ left' = left /\ qseq' = qseq /\ allowed' = allowed
      /\ task_cpu' = task_cpu /\ curr' = curr /\ resched' = resched /\ enq_cnt' = enq_cnt
      /\ queued' = queued /\ dispatched' = dispatched /\ tasks' = tasks /\ upc' = upc
      /\ nr_scheduled' = nr_scheduled /\ needed' = needed /\ pc' = pc /\ msg' = msg
      /\ buf' = buf /\ kick' = kick /\ early' = early
  BY Zenon DEF vars, kernelVars, taskVars, userVars, cpuVars
<1>2. TypeOK'
  BY Zenon, <1>1 DEF IInv, TypeOK
<1>3. Running'
  BY Zenon, <1>1 DEF IInv, Running
<1>4. Handling' /\ Placed' /\ Counts'
  BY Zenon, <1>1, HandlingFrame, PlacedFrame, CountsFrame DEF IInv
<1>5. Targets'
  <2> SUFFICES ASSUME NEW d \in Cpu, msg'[d] # None PROVE Target(d)'
    BY Zenon DEF Targets
  <2>1. Target(d)
    BY Zenon, <1>1 DEF IInv, Targets
  <2> QED
    BY Zenon, <1>1, <2>1, TargetFrame
<1>6. NoTaskForgotten'
  <2> SUFFICES ASSUME NEW p \in Task, where[p] = "bpf" PROVE HasMessage(p)'
    BY Zenon, <1>1 DEF NoTaskForgotten
  <2>1. HasMessage(p)
    BY Zenon DEF IInv, NoTaskForgotten
  <2>2. ASSUME NEW c \in Cpu, Held(p, c) PROVE Held(p, c)'
    BY Zenon, <1>1, <2>2, HeldKept
  <2>3. InFlight' = InFlight
    BY Zenon, <1>1, FlightFrame
  <2> QED
    BY Zenon, <1>1, <2>1, <2>2, <2>3, MessageKept
<1>7. TargetAllowed'
  BY Zenon, <1>1 DEF IInv, TargetAllowed
<1> QED
  BY Zenon, <1>1, <1>2, <1>3, <1>4, <1>5, <1>6, <1>7 DEF IInv

\* The inductive invariant holds of every step that scx_rustland and the kernel
\* take, for any number of CPUs and tasks and rings of any length.
THEOREM Invariant == Spec => []IInv
<1>1. Init => IInv
  BY Initially
<1>2. ASSUME IInv, [Next]_vars PROVE IInv'
  BY Zenon, <1>2, TaskKeeps, UserKeeps, DispatchKeeps, StutterKeeps DEF Next
<1> QED
  BY <1>1, <1>2, PTL DEF Spec

\* Types, and the lengths of the two rings: neither ops.enqueue nor the
\* user-space scheduler reserves past the end of one.
THEOREM TypeCorrect == Spec => []TypeOK
<1>1. IInv => TypeOK
  BY Zenon DEF IInv
<1> QED
  BY <1>1, Invariant, PTL

\* As long as a task is in BPF's custody, the message of its last enqueue is in
\* a ring, in the pool or in the hands of a CPU that has not given it up, however
\* drains, cancels and enqueues interleave.
THEOREM NotForgotten == Spec => []NoTaskForgotten
<1>1. IInv => NoTaskForgotten
  BY Zenon DEF IInv
<1> QED
  BY <1>1, Invariant, PTL

\* A task in a CPU's DSQ may run on that CPU, unless a drain met an enqueue of
\* the task half way.
THEOREM TargetsAllowed == Spec => []TargetAllowed
<1>1. IInv => TargetAllowed
  BY Zenon DEF IInv
<1> QED
  BY <1>1, Invariant, PTL
=============================================================================
