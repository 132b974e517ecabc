-------------------------------- MODULE Atq --------------------------------
(***************************************************************************)
(* The arena task queue (ATQ) of lib/atq.bpf.c: a spin-locked, intrusive   *)
(* red-black tree of task contexts.  A task context carries its membership *)
(* (taskc->atq) and a hold count; both are read and written by CPUs that   *)
(* do not hold the lock of the queue concerned, and that is where the      *)
(* protocol is delicate.                                                   *)
(*                                                                         *)
(* Every CPU runs one operation at a time, in the steps at which another   *)
(* CPU can observe a difference: each unlocked read or cmpxchg of          *)
(* taskc->atq is a step, and so is each acquisition of a queue's lock.     *)
(* The tree, its size and its sequence number are only touched under the   *)
(* lock, so a critical section is cut only where taskc->atq or the hold    *)
(* count changes.                                                          *)
(***************************************************************************)
EXTENDS Integers, FiniteSets

CONSTANTS
    Cpu,            \* CPUs running BPF programs
    Task,           \* task contexts (scx_task_common)
    Queue,          \* ATQs
    FifoQueue,      \* the queues created with fifo = true
    Capacity,       \* Capacity[q]: atq->capacity
    Vtime,          \* virtual times callers insert with
    MaxSeq,         \* bound: no new insert once atq->seq reaches it
    Expires,        \* the loops whose can_loop budget may run out
    NULL,           \* the null pointer (no queue, no task, no CPU)
    DEAD,           \* SCX_ATQ_DEAD
    FIFO            \* SCX_ATQ_FIFO, the vtime that asks for FIFO order

ASSUME AtqConstants ==
    /\ FifoQueue \subseteq Queue
    /\ Capacity \in [Queue -> Nat]
    /\ Vtime \subseteq Nat
    /\ MaxSeq \in Nat
    /\ Expires \subseteq {"fini", "move", "detach", "wait"}
    /\ NULL \notin Queue \cup Task \cup Cpu
    /\ DEAD \notin Queue
    /\ DEAD # NULL
    /\ FIFO \notin Vtime

ASSUME CpuFinite == IsFiniteSet(Cpu)

VARIABLES
    \* the queues
    tree,       \* tree[q]: the tasks whose node is linked in atq->tree
    size,       \* atq->size
    seq,        \* atq->seq
    lock,       \* lock[q]: the CPU that holds atq->lock, or NULL
    \* the task contexts
    atq,        \* taskc->atq
    key,        \* taskc->node.key
    holdcnt,    \* taskc->holdcnt
    freed,      \* tasks whose context went back to the allocator
    rq,         \* rq[t]: the CPU that holds t's runqueue lock (kernel)
    \* the CPUs
    pc,         \* where the CPU is
    op,         \* the operation it runs
    task,       \* its taskc
    queue,      \* its atq
    vtime       \* its vtime argument

vars == <<tree, size, seq, lock, atq, key, holdcnt, freed, rq,
          pc, op, task, queue, vtime>>

Label == {"idle", "ins_lock", "ins_claim", "ins_link", "pop_lock", "pop_take",
          "read", "latch", "lock", "unlink", "publish", "held", "drop", "wait"}

Op == {"none", "insert", "pop", "fini", "move", "detach"}

TypeOK ==
    /\ tree \in [Queue -> SUBSET Task]
    /\ size \in [Queue -> Int]
    /\ seq \in [Queue -> Nat]
    /\ lock \in [Queue -> Cpu \cup {NULL}]
    /\ atq \in [Task -> Queue \cup {NULL, DEAD}]
    /\ key \in [Task -> Nat]
    /\ holdcnt \in [Task -> Int]
    /\ freed \subseteq Task
    /\ rq \in [Task -> Cpu \cup {NULL}]
    /\ pc \in [Cpu -> Label]
    /\ op \in [Cpu -> Op]
    /\ task \in [Cpu -> Task \cup {NULL}]
    /\ queue \in [Cpu -> Queue \cup {NULL}]
    /\ vtime \in [Cpu -> Vtime \cup {FIFO}]

Init ==
    /\ tree = [q \in Queue |-> {}]
    /\ size = [q \in Queue |-> 0]
    /\ seq = [q \in Queue |-> 0]
    /\ lock = [q \in Queue |-> NULL]
    /\ atq = [t \in Task |-> NULL]
    /\ key = [t \in Task |-> 0]
    /\ holdcnt = [t \in Task |-> 0]
    /\ freed = {}
    /\ rq = [t \in Task |-> NULL]
    /\ pc = [c \in Cpu |-> "idle"]
    /\ op = [c \in Cpu |-> "none"]
    /\ task = [c \in Cpu |-> NULL]
    /\ queue = [c \in Cpu |-> NULL]
    /\ vtime = [c \in Cpu |-> FIFO]

-----------------------------------------------------------------------------
(* Helpers *)

Goto(c, l) == pc' = [pc EXCEPT ![c] = l]

\* The operation of c returns; a callback that ran under the task's runqueue
\* lock releases it.
Return(c) ==
    /\ Goto(c, "idle")
    /\ op' = [op EXCEPT ![c] = "none"]
    /\ task' = [task EXCEPT ![c] = NULL]
    /\ queue' = [queue EXCEPT ![c] = NULL]
    /\ vtime' = [vtime EXCEPT ![c] = FIFO]
    /\ rq' = [t \in Task |-> IF rq[t] = c THEN NULL ELSE rq[t]]

KeepLocals == UNCHANGED <<op, task, queue, vtime, rq>>

Acquire(c, q) == lock[q] = NULL /\ lock' = [lock EXCEPT ![q] = c]
Release(q) == lock' = [lock EXCEPT ![q] = NULL]

\* The leftmost nodes of a tree: rb_pop takes one of them.
Least(q) == {t \in tree[q] : \A u \in tree[q] : key[t] <= key[u]}

\* An insert that returned hands over to scx_atq_task_drop() when the CPU runs
\* it on behalf of a task it holds, and is over otherwise.
InsertReturns(c) ==
    IF op[c] = "insert" THEN Return(c) ELSE Goto(c, "drop") /\ KeepLocals

-----------------------------------------------------------------------------
(* Callbacks of the kernel on a task, under that task's runqueue lock:      *)
(* ops.enqueue inserts, ops.dequeue runs scx_atq_task_fini,                 *)
(* ops.cgroup_move runs cbw_cancel_with_hold and inserts elsewhere,         *)
(* ops.exit_task runs scx_atq_task_detach and frees the context.            *)

Callback(c, t, o) ==
    /\ pc[c] = "idle"
    /\ rq[t] = NULL
    /\ t \notin freed
    /\ rq' = [rq EXCEPT ![t] = c]
    /\ op' = [op EXCEPT ![c] = o]
    /\ task' = [task EXCEPT ![c] = t]
    /\ UNCHANGED <<tree, size, seq, lock, atq, key, holdcnt, freed>>

CallInsert(c, t, q, v) ==
    /\ seq[q] < MaxSeq
    /\ Callback(c, t, "insert")
    /\ queue' = [queue EXCEPT ![c] = q]
    /\ vtime' = [vtime EXCEPT ![c] = v]
    /\ Goto(c, "ins_lock")

CallUnlink(c, t, o) ==
    /\ Callback(c, t, o)
    /\ Goto(c, "read")
    /\ UNCHANGED <<queue, vtime>>

\* A drain pops with hold = true, under no runqueue lock of the popped task.
CallPop(c, q) ==
    /\ pc[c] = "idle"
    /\ op' = [op EXCEPT ![c] = "pop"]
    /\ queue' = [queue EXCEPT ![c] = q]
    /\ Goto(c, "pop_lock")
    /\ UNCHANGED <<tree, size, seq, lock, atq, key, holdcnt, freed, rq, task, vtime>>

\* A freed context is handed to a new task, zeroed by the allocator.
TaskInit(t) ==
    /\ t \in freed
    /\ freed' = freed \ {t}
    /\ atq' = [atq EXCEPT ![t] = NULL]
    /\ key' = [key EXCEPT ![t] = 0]
    /\ holdcnt' = [holdcnt EXCEPT ![t] = 0]
    /\ UNCHANGED <<tree, size, seq, lock, rq, pc, op, task, queue, vtime>>

-----------------------------------------------------------------------------
(* scx_atq_insert_vtime *)

InsertLock(c) ==
    /\ pc[c] = "ins_lock"
    /\ Acquire(c, queue[c])
    /\ Goto(c, "ins_claim")
    /\ KeepLocals
    /\ UNCHANGED <<tree, size, seq, atq, key, holdcnt, freed>>

\* -ENOSPC, -EINVAL, -ECANCELED and -EALREADY leave the queue as it was.
InsertRefused(c) ==
    LET q == queue[c] t == task[c] IN
    /\ pc[c] = "ins_claim"
    /\ \/ size[q] = Capacity[q]
       \/ (vtime[c] = FIFO) # (q \in FifoQueue)
       \/ atq[t] # NULL
    /\ Release(q)
    /\ InsertReturns(c)
    /\ UNCHANGED <<tree, size, seq, atq, key, holdcnt, freed>>

\* Mutant: a plain store instead of the cmpxchg.
InsertClaimStore(c) ==
    LET q == queue[c] t == task[c] IN
    /\ pc[c] = "ins_claim"
    /\ size[q] # Capacity[q]
    /\ (vtime[c] = FIFO) = (q \in FifoQueue)
    /\ atq' = [atq EXCEPT ![t] = q]
    /\ Goto(c, "ins_link")
    /\ KeepLocals
    /\ UNCHANGED <<tree, size, seq, lock, key, holdcnt, freed>>

\* Mutant: the capacity is not checked.
InsertClaimUnbounded(c) ==
    LET q == queue[c] t == task[c] IN
    /\ pc[c] = "ins_claim"
    /\ (vtime[c] = FIFO) = (q \in FifoQueue)
    /\ atq[t] = NULL
    /\ atq' = [atq EXCEPT ![t] = q]
    /\ Goto(c, "ins_link")
    /\ KeepLocals
    /\ UNCHANGED <<tree, size, seq, lock, key, holdcnt, freed>>

\* The cmpxchg on taskc->atq elects this queue.
InsertClaim(c) ==
    LET q == queue[c] t == task[c] IN
    /\ pc[c] = "ins_claim"
    /\ size[q] # Capacity[q]
    /\ (vtime[c] = FIFO) = (q \in FifoQueue)
    /\ atq[t] = NULL
    /\ atq' = [atq EXCEPT ![t] = q]
    /\ Goto(c, "ins_link")
    /\ KeepLocals
    /\ UNCHANGED <<tree, size, seq, lock, key, holdcnt, freed>>

\* Mutant: the sequence number is not advanced.
InsertLinkSameSeq(c) ==
    LET q == queue[c] t == task[c] IN
    /\ pc[c] = "ins_link"
    /\ key' = [key EXCEPT ![t] = IF vtime[c] = FIFO THEN seq[q] ELSE vtime[c]]
    /\ tree' = [tree EXCEPT ![q] = @ \cup {t}]
    /\ size' = [size EXCEPT ![q] = @ + 1]
    /\ Release(q)
    /\ InsertReturns(c)
    /\ UNCHANGED <<seq, atq, holdcnt, freed>>

\* Mutant: SCX_ATQ_FIFO itself is stored as the key.
InsertLinkRawKey(c) ==
    LET q == queue[c] t == task[c] IN
    /\ pc[c] = "ins_link"
    /\ key' = [key EXCEPT ![t] = vtime[c]]
    /\ tree' = [tree EXCEPT ![q] = @ \cup {t}]
    /\ size' = [size EXCEPT ![q] = @ + 1]
    /\ Release(q)
    /\ InsertReturns(c)
    /\ UNCHANGED <<seq, atq, holdcnt, freed>>

\* Mutant: a failed rb_insert_node leaves taskc->atq claimed.
InsertLinkLeak(c) ==
    LET q == queue[c] t == task[c] IN
    /\ pc[c] = "ins_link"
    /\ Release(q)
    /\ InsertReturns(c)
    /\ UNCHANGED <<tree, size, seq, atq, key, holdcnt, freed>>

\* Key, rb_insert_node, size; the lock is released by the wrapper.
InsertLink(c) ==
    LET q == queue[c] t == task[c] IN
    /\ pc[c] = "ins_link"
    /\ key' = [key EXCEPT ![t] = IF vtime[c] = FIFO THEN seq[q] ELSE vtime[c]]
    /\ seq' = IF vtime[c] = FIFO THEN [seq EXCEPT ![q] = @ + 1] ELSE seq
    /\ \/ /\ tree' = [tree EXCEPT ![q] = @ \cup {t}]
          /\ size' = [size EXCEPT ![q] = @ + 1]
          /\ atq' = atq
       \/ /\ atq' = [atq EXCEPT ![t] = NULL]    \* rb_insert_node failed
          /\ UNCHANGED <<tree, size>>
    /\ Release(q)
    /\ InsertReturns(c)
    /\ UNCHANGED <<holdcnt, freed>>

-----------------------------------------------------------------------------
(* scx_atq_pop(atq, true) *)

PopLock(c) ==
    /\ pc[c] = "pop_lock"
    /\ Acquire(c, queue[c])
    /\ Goto(c, "pop_take")
    /\ KeepLocals
    /\ UNCHANGED <<tree, size, seq, atq, key, holdcnt, freed>>

PopEmpty(c) ==
    /\ pc[c] = "pop_take"
    /\ size[queue[c]] = 0
    /\ Release(queue[c])
    /\ Return(c)
    /\ UNCHANGED <<tree, size, seq, atq, key, holdcnt, freed>>

\* Mutant: the hold is forgotten.
PopTakeNoHold(c) ==
    LET q == queue[c] IN
    /\ pc[c] = "pop_take"
    /\ size[q] # 0
    /\ \E t \in Least(q) :
         /\ tree' = [tree EXCEPT ![q] = @ \ {t}]
         /\ task' = [task EXCEPT ![c] = t]
    /\ size' = [size EXCEPT ![q] = @ - 1]
    /\ Goto(c, "publish")
    /\ UNCHANGED <<seq, lock, atq, key, holdcnt, freed, rq, op, queue, vtime>>

\* rb_pop, then the hold; taskc->atq still names the queue.
PopTake(c) ==
    LET q == queue[c] IN
    /\ pc[c] = "pop_take"
    /\ size[q] # 0
    /\ \E t \in Least(q) :
         /\ tree' = [tree EXCEPT ![q] = @ \ {t}]
         /\ holdcnt' = [holdcnt EXCEPT ![t] = @ + 1]
         /\ task' = [task EXCEPT ![c] = t]
    /\ size' = [size EXCEPT ![q] = @ - 1]
    /\ Goto(c, "publish")
    /\ UNCHANGED <<seq, lock, atq, key, freed, rq, op, queue, vtime>>

\* The removed task's membership is cleared, or marked dead by detach, and
\* the lock is released.  This is the last step of every removal.
Publish(c) ==
    LET q == queue[c] t == task[c] IN
    /\ pc[c] = "publish"
    /\ atq' = [atq EXCEPT ![t] = IF op[c] = "detach" THEN DEAD ELSE NULL]
    /\ Release(q)
    /\ IF op[c] = "fini"
       THEN Return(c)
       ELSE Goto(c, IF op[c] = "detach" THEN "wait" ELSE "held") /\ KeepLocals
    /\ UNCHANGED <<tree, size, seq, key, holdcnt, freed>>

\* What the owner of a hold does with the task: queue it again (a drain whose
\* callback finds the cgroup throttled, a move to another cgroup) ...
Requeue(c, q, v) ==
    /\ pc[c] = "held"
    /\ seq[q] < MaxSeq
    /\ queue' = [queue EXCEPT ![c] = q]
    /\ vtime' = [vtime EXCEPT ![c] = v]
    /\ Goto(c, "ins_lock")
    /\ UNCHANGED <<tree, size, seq, lock, atq, key, holdcnt, freed, rq, op, task>>

\* Mutant: the hold of a task that was queued again is leaked.
DropLeak(c) ==
    /\ pc[c] \in {"held", "drop"}
    /\ holdcnt' = IF pc[c] = "held" THEN [holdcnt EXCEPT ![task[c]] = @ - 1] ELSE holdcnt
    /\ Return(c)
    /\ UNCHANGED <<tree, size, seq, lock, atq, key, freed>>

\* ... or dispatch it, and in both cases drop the hold.
Drop(c) ==
    /\ pc[c] \in {"held", "drop"}
    /\ holdcnt' = [holdcnt EXCEPT ![task[c]] = @ - 1]
    /\ Return(c)
    /\ UNCHANGED <<tree, size, seq, lock, atq, key, freed>>

-----------------------------------------------------------------------------
(* scx_atq_task_fini, cbw_cancel_with_hold and scx_atq_task_detach share    *)
(* their loop: read taskc->atq, lock the queue it names, check that it      *)
(* still does, remove.                                                      *)

ReadAtq(c) ==
    LET a == atq[task[c]] IN
    /\ pc[c] = "read"
    /\ \/ /\ a \in Queue
          /\ queue' = [queue EXCEPT ![c] = a]
          /\ Goto(c, "lock")
          /\ UNCHANGED <<op, task, vtime, rq>>
       \/ /\ a \notin Queue
          /\ op[c] = "detach"
          /\ Goto(c, IF a = NULL THEN "latch" ELSE "wait")
          /\ KeepLocals
       \/ /\ a \notin Queue
          /\ op[c] # "detach"
          /\ Return(c)
    /\ UNCHANGED <<tree, size, seq, lock, atq, key, holdcnt, freed>>

\* Mutant: a task that is in no queue is not marked dead.
LatchNone(c) ==
    /\ pc[c] = "latch"
    /\ Goto(c, "wait")
    /\ KeepLocals
    /\ UNCHANGED <<tree, size, seq, lock, atq, key, holdcnt, freed>>

\* cmpxchg(&taskc->atq, 0, SCX_ATQ_DEAD)
Latch(c) ==
    LET t == task[c] IN
    /\ pc[c] = "latch"
    /\ IF atq[t] = NULL
       THEN atq' = [atq EXCEPT ![t] = DEAD] /\ Goto(c, "wait")
       ELSE atq' = atq /\ Goto(c, "read")
    /\ KeepLocals
    /\ UNCHANGED <<tree, size, seq, lock, key, holdcnt, freed>>

UnlinkLock(c) ==
    /\ pc[c] = "lock"
    /\ Acquire(c, queue[c])
    /\ Goto(c, "unlink")
    /\ KeepLocals
    /\ UNCHANGED <<tree, size, seq, atq, key, holdcnt, freed>>

UnlinkRetry(c) ==
    /\ pc[c] = "unlink"
    /\ atq[task[c]] # queue[c]
    /\ Release(queue[c])
    /\ Goto(c, "read")
    /\ KeepLocals
    /\ UNCHANGED <<tree, size, seq, atq, key, holdcnt, freed>>

\* cbw_cancel_with_hold takes its hold before it removes.
Unlink(c) ==
    LET q == queue[c] t == task[c] IN
    /\ pc[c] = "unlink"
    /\ atq[t] = q
    /\ tree' = [tree EXCEPT ![q] = @ \ {t}]
    /\ size' = [size EXCEPT ![q] = @ - 1]
    /\ holdcnt' = IF op[c] = "move" THEN [holdcnt EXCEPT ![t] = @ + 1] ELSE holdcnt
    /\ Goto(c, "publish")
    /\ KeepLocals
    /\ UNCHANGED <<seq, lock, atq, key, freed>>

\* The loop gives up: scx_atq_task_fini and cbw_cancel_with_hold return 0 as if
\* the task were not queued, scx_atq_task_detach goes on to wait for the holds.
LoopExpires(c) ==
    /\ pc[c] = "read"
    /\ op[c] \in Expires
    /\ IF op[c] = "detach" THEN Goto(c, "wait") /\ KeepLocals ELSE Return(c)
    /\ UNCHANGED <<tree, size, seq, lock, atq, key, holdcnt, freed>>

\* scx_atq_task_detach returns 0 when no hold is left, or when its can_loop
\* budget is spent; the caller frees the context either way.
WaitHolds(c) ==
    LET t == task[c] IN
    /\ pc[c] = "wait"
    /\ "wait" \notin Expires => holdcnt[t] <= 0
    /\ freed' = freed \cup {t}
    /\ Return(c)
    /\ UNCHANGED <<tree, size, seq, lock, atq, key, holdcnt>>

-----------------------------------------------------------------------------
Step(c) ==
    \/ InsertLock(c) \/ InsertRefused(c) \/ InsertClaim(c) \/ InsertLink(c)
    \/ PopLock(c) \/ PopEmpty(c) \/ PopTake(c) \/ Publish(c)
    \/ \E q \in Queue, v \in Vtime \cup {FIFO} : Requeue(c, q, v)
    \/ Drop(c)
    \/ ReadAtq(c) \/ Latch(c) \/ UnlinkLock(c) \/ UnlinkRetry(c) \/ Unlink(c)
    \/ LoopExpires(c) \/ WaitHolds(c)

Call(c) ==
    \/ \E t \in Task, q \in Queue, v \in Vtime \cup {FIFO} : CallInsert(c, t, q, v)
    \/ \E t \in Task, o \in {"fini", "move", "detach"} : CallUnlink(c, t, o)
    \/ \E q \in Queue : CallPop(c, q)

Next ==
    \/ \E c \in Cpu : Step(c) \/ Call(c)
    \/ \E t \in Task : TaskInit(t)

Spec == Init /\ [][Next]_vars

\* A BPF program that started runs to its end, and the arena spin lock queues its
\* waiters, so a CPU that can go on again and again does.  A detach that waits
\* samples the hold count: it returns if the count stays at zero.
Fairness ==
    \A c \in Cpu : SF_vars(Step(c) /\ pc[c] # "wait") /\ WF_vars(WaitHolds(c))

FairSpec == Spec /\ Fairness

-----------------------------------------------------------------------------
(* Properties *)

\* The CPUs that took a hold on t and have not dropped it.
Pins(c, t) ==
    /\ task[c] = t
    /\ \/ op[c] = "pop"
       \/ op[c] = "move" /\ pc[c] \notin {"read", "lock", "unlink"}

\* The red-black node is embedded in the task context: whatever inserts,
\* drains, moves and exits race on different queues, a task is linked in at
\* most one tree at any instant.
NodeInOneTree ==
    \A t \in Task, q, r \in Queue : t \in tree[q] /\ t \in tree[r] => q = r

\* While nobody is inside a queue's critical section, taskc->atq, the tree and
\* atq->size tell the same story: scx_atq_nr_queued() counts exactly the tasks
\* a pop can return, and scx_atq_remove() finds exactly these.
MembershipAgrees ==
    \A q \in Queue : lock[q] = NULL =>
        /\ tree[q] = {t \in Task : atq[t] = q}
        /\ size[q] = Cardinality(tree[q])

\* holdcnt counts the CPUs inside a pop-and-reenqueue or a move of the task.
HoldsCounted ==
    \A t \in Task : holdcnt[t] = Cardinality({c \in Cpu : Pins(c, t)})

\* "Then wait for any in-flight operation still pinning the task to drop its
\* hold, so the caller can safely free the task": once scx_atq_task_detach has
\* returned, no tree links the context and no CPU has a pointer to it.
NoUseAfterFree ==
    \A t \in freed : /\ \A q \in Queue : t \notin tree[q]
                     /\ \A c \in Cpu : task[c] # t

\* A bounded queue never holds more than its capacity, although capacity is
\* checked before the task is claimed and the size grows after.
CapacityRespected ==
    \A q \in Queue : Cardinality(tree[q]) <= Capacity[q]

\* FIFO queues: the queued tasks have distinct keys, all older than the next
\* one to be handed out, so pops come out in insertion order also when failed
\* inserts leaked sequence numbers.
FifoKeysFresh ==
    \A q \in FifoQueue : \A t \in tree[q] :
        /\ key[t] < seq[q]
        /\ \A u \in tree[q] : key[u] = key[t] => u = t

\* SCX_ATQ_DEAD is latched: a dying task is never queued again, whoever still
\* holds it, until its context is freed and handed to a new task.
DeadLatched ==
    [][\A t \in Task : atq[t] = DEAD /\ t \notin freed => atq'[t] = DEAD]_vars

\* A detach that latched SCX_ATQ_DEAD returns: the holds it waits for can only
\* go away, since nobody can queue and pop the task again.
DetachReturns ==
    \A c \in Cpu : pc[c] = "wait" ~> pc[c] = "idle"
=============================================================================
