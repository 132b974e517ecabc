----------------------------- MODULE AtqProofs -----------------------------
(***************************************************************************)
(* Proofs about Atq, for any number of CPUs, tasks and queues.             *)
(*                                                                         *)
(* The safety properties rest on each other: a task is linked in one tree  *)
(* because its membership is claimed atomically and its context is not     *)
(* recycled under a linked node; its context is not recycled because       *)
(* detach waits for the holds; and the holds are counted right because a   *)
(* CPU takes one only on a task that is still linked.  The inductive       *)
(* invariant FullInv states it all at once.  The steps keep the types, the *)
(* locals, the locks, the nodes, the links, the capacity and the keys;     *)
(* then the counts and the contexts; then come the theorems.               *)
(***************************************************************************)
EXTENDS Atq, FiniteSetTheorems, TLAPS

-----------------------------------------------------------------------------
(* The inductive invariant *)

\* What a CPU's program counter says about its locals.
Locals ==
    \A c \in Cpu :
        /\ pc[c] = "idle" => op[c] = "none" /\ task[c] = NULL
        /\ pc[c] \in {"pop_lock", "pop_take"} => op[c] = "pop" /\ task[c] = NULL
        /\ pc[c] \in {"ins_lock", "ins_claim", "ins_link"} =>
               op[c] \in {"insert", "pop", "move"}
        /\ pc[c] \in {"read", "lock", "unlink"} => op[c] \in {"fini", "move", "detach"}
        /\ pc[c] \in {"latch", "wait"} => op[c] = "detach"
        /\ pc[c] = "publish" => op[c] \in {"pop", "fini", "move", "detach"}
        /\ pc[c] \in {"held", "drop"} => op[c] \in {"pop", "move"}
        /\ pc[c] \notin {"idle", "pop_lock", "pop_take"} => task[c] \in Task
        /\ pc[c] \in {"ins_lock", "ins_claim", "ins_link", "pop_lock", "pop_take",
                      "lock", "unlink", "publish"} => queue[c] \in Queue

Critical == {"ins_claim", "ins_link", "pop_take", "unlink", "publish"}

\* A CPU inside a critical section owns the lock of its queue.
Locks == \A c \in Cpu : pc[c] \in Critical => lock[queue[c]] = c

\* The kernel's callbacks on a task exclude each other.
Callbacks ==
    \A c \in Cpu : op[c] \in {"insert", "fini", "move", "detach"} => rq[task[c]] = c

\* A linked task names its queue.  A CPU that has claimed a task it has not yet
\* linked, or unlinked one whose membership it has not yet cleared, is the only
\* one that may change that membership.
Nodes ==
    /\ \A t \in Task, q \in Queue : t \in tree[q] => atq[t] = q
    /\ \A c \in Cpu : pc[c] \in {"ins_link", "publish"} =>
           atq[task[c]] = queue[c] /\ task[c] \notin tree[queue[c]]

\* The converse: a task that names a queue is linked there, unless a CPU inside
\* that queue's critical section is about to link it or to clear the name.
Linked ==
    \A t \in Task, q \in Queue : atq[t] = q /\ t \notin tree[q] =>
        \E c \in Cpu : /\ pc[c] \in {"ins_link", "publish"}
                       /\ task[c] = t
                       /\ queue[c] = q

Sizes ==
    \A q \in Queue : IsFiniteSet(tree[q]) /\ size[q] = Cardinality(tree[q])

\* A detach that waits has latched SCX_ATQ_DEAD, and a freed context is dead
\* and out of every CPU's hands.
Dead ==
    /\ \A c \in Cpu : pc[c] = "wait" => atq[task[c]] = DEAD
    /\ \A t \in freed : atq[t] = DEAD /\ \A c \in Cpu : task[c] # t

\* No queue is over its capacity, and a claimed insert has room.
Room ==
    /\ \A q \in Queue : size[q] <= Capacity[q]
    /\ \A c \in Cpu : pc[c] = "ins_link" => size[queue[c]] < Capacity[queue[c]]

\* A claimed insert has the kind of its queue, and FIFO keys are fresh.
Keys ==
    /\ \A c \in Cpu : pc[c] = "ins_link" =>
           (vtime[c] = FIFO) = (queue[c] \in FifoQueue)
    /\ FifoKeysFresh

\* The can_loop budget of scx_atq_task_detach outlasts every hold.
DetachWaits == Expires \cap {"detach", "wait"} = {}

IInv == TypeOK /\ Locals /\ Locks /\ Callbacks /\ Nodes /\ Dead /\ HoldsCounted

FullInv == IInv /\ Linked /\ Sizes /\ Room /\ Keys

-----------------------------------------------------------------------------
\* Every step keeps the types, given what the program counters say.
LEMMA TypeStep ==
  TypeOK /\ Locals /\ [Next]_vars => TypeOK'
<1> SUFFICES ASSUME TypeOK /\ Locals, [Next]_vars PROVE TypeOK'
  BY Zenon
<1>1. ASSUME NEW c \in Cpu, InsertLock(c)
      PROVE  TypeOK'
  BY Zenon, <1>1, AtqConstants DEF InsertLock, Acquire, Goto, KeepLocals, TypeOK,
      Locals, Label, Op
<1>2. ASSUME NEW c \in Cpu, InsertRefused(c)
      PROVE  TypeOK'
  <2>1. CASE op[c] = "insert"
    BY SMTT(30), <2>1, <1>2, AtqConstants DEF InsertRefused, InsertReturns, Return, Release, Goto,
              KeepLocals, TypeOK, Locals, Label, Op
  <2>2. CASE op[c] # "insert"
    BY SMTT(30), <2>2, <1>2, AtqConstants DEF InsertRefused, InsertReturns, Return, Release, Goto,
              KeepLocals, TypeOK, Locals, Label, Op
  <2>. QED
    BY Zenon, <2>1, <2>2
<1>3. ASSUME NEW c \in Cpu, InsertClaim(c)
      PROVE  TypeOK'
  BY Zenon, <1>3, AtqConstants DEF InsertClaim, Goto, KeepLocals, TypeOK, Locals,
      Label, Op
<1>4. ASSUME NEW c \in Cpu, InsertLink(c)
      PROVE  TypeOK'
  <2>1. task[c] \in Task /\ queue[c] \in Queue
    BY Zenon, <1>4 DEF InsertLink, TypeOK, Locals
  <2>2. (IF vtime[c] = FIFO THEN seq[queue[c]] ELSE vtime[c]) \in Nat
    BY ZenonT(30), <2>1, AtqConstants DEF TypeOK
  <2>3. key' \in [Task -> Nat]
    BY Zenon, <1>4, <2>1, <2>2 DEF InsertLink, TypeOK
  <2>4. seq' \in [Queue -> Nat]
    BY <1>4, <2>1 DEF InsertLink, TypeOK
  <2>5. /\ tree' \in [Queue -> SUBSET Task]
        /\ size' \in [Queue -> Int]
        /\ atq' \in [Task -> Queue \cup {NULL, DEAD}]
        /\ lock' \in [Queue -> Cpu \cup {NULL}]
    BY <1>4, <2>1 DEF InsertLink, Release, TypeOK
  <2>6. /\ pc' \in [Cpu -> Label]
        /\ op' \in [Cpu -> Op]
        /\ task' \in [Cpu -> Task \cup {NULL}]
        /\ queue' \in [Cpu -> Queue \cup {NULL}]
        /\ vtime' \in [Cpu -> Vtime \cup {FIFO}]
        /\ rq' \in [Task -> Cpu \cup {NULL}]
    <3>1. CASE Return(c)
      BY Zenon, <3>1 DEF Return, Goto, TypeOK, Label, Op
    <3>2. CASE Goto(c, "drop") /\ KeepLocals
      BY Zenon, <3>2 DEF Goto, KeepLocals, TypeOK, Label
    <3>. QED
      BY Zenon, <1>4, <3>1, <3>2 DEF InsertLink, InsertReturns
  <2>7. UNCHANGED <<holdcnt, freed>>
    BY Zenon, <1>4 DEF InsertLink
  <2>. QED
    BY Zenon, <2>3, <2>4, <2>5, <2>6, <2>7 DEF TypeOK
<1>5. ASSUME NEW c \in Cpu, PopLock(c)
      PROVE  TypeOK'
  BY Zenon, <1>5, AtqConstants DEF PopLock, Acquire, Goto, KeepLocals, TypeOK,
      Locals, Label, Op
<1>6. ASSUME NEW c \in Cpu, PopEmpty(c)
      PROVE  TypeOK'
  BY Zenon, <1>6, AtqConstants DEF PopEmpty, Return, Release, Goto, TypeOK, Locals,
      Label, Op
<1>7. ASSUME NEW c \in Cpu, PopTake(c)
      PROVE  TypeOK'
  BY <1>7, AtqConstants DEF PopTake, Least, Goto, TypeOK, Locals, Label, Op
<1>8. ASSUME NEW c \in Cpu, Publish(c)
      PROVE  TypeOK'
  <2>1. atq' \in [Task -> Queue \cup {NULL, DEAD}]
    BY ZenonT(30), <1>8 DEF Publish, TypeOK
  <2>2. lock' \in [Queue -> Cpu \cup {NULL}]
    BY ZenonT(30), <1>8 DEF Publish, Release, TypeOK
  <2>3. /\ rq' \in [Task -> Cpu \cup {NULL}]
        /\ pc' \in [Cpu -> Label]
        /\ op' \in [Cpu -> Op]
        /\ task' \in [Cpu -> Task \cup {NULL}]
        /\ queue' \in [Cpu -> Queue \cup {NULL}]
        /\ vtime' \in [Cpu -> Vtime \cup {FIFO}]
    <3>1. CASE op[c] = "fini"
      BY ZenonT(60), <3>1, <1>8 DEF Publish, Return, Goto, TypeOK, Label, Op
    <3>2. CASE op[c] # "fini"
      BY <3>2, <1>8 DEF Publish, Goto, KeepLocals, TypeOK, Label, Op
    <3>. QED
      BY Zenon, <3>1, <3>2
  <2>. QED
    BY Zenon, <1>8, <2>1, <2>2, <2>3 DEF Publish, TypeOK
<1>9. ASSUME NEW c \in Cpu, Drop(c)
      PROVE  TypeOK'
  BY <1>9, AtqConstants DEF Drop, Return, Goto, TypeOK, Locals, Label, Op
<1>10. ASSUME NEW c \in Cpu, ReadAtq(c)
      PROVE  TypeOK'
  BY SMTT(30), <1>10, AtqConstants DEF ReadAtq, Return, Goto, KeepLocals, TypeOK,
      Locals, Label, Op
<1>11. ASSUME NEW c \in Cpu, Latch(c)
      PROVE  TypeOK'
  BY SMTT(30), <1>11, AtqConstants DEF Latch, Goto, KeepLocals, TypeOK, Locals, Label,
      Op
<1>12. ASSUME NEW c \in Cpu, UnlinkLock(c)
      PROVE  TypeOK'
  BY Zenon, <1>12, AtqConstants DEF UnlinkLock, Acquire, Goto, KeepLocals, TypeOK,
      Locals, Label, Op
<1>13. ASSUME NEW c \in Cpu, UnlinkRetry(c)
      PROVE  TypeOK'
  BY Zenon, <1>13, AtqConstants DEF UnlinkRetry, Release, Goto, KeepLocals, TypeOK,
      Locals, Label, Op
<1>14. ASSUME NEW c \in Cpu, Unlink(c)
      PROVE  TypeOK'
  BY <1>14, AtqConstants DEF Unlink, Goto, KeepLocals, TypeOK, Locals, Label,
      Op
<1>15. ASSUME NEW c \in Cpu, LoopExpires(c)
      PROVE  TypeOK'
  <2>1. CASE op[c] = "detach"
    BY <2>1, <1>15, AtqConstants DEF LoopExpires, Return, Goto, KeepLocals, TypeOK, Locals, Label, Op
  <2>2. CASE op[c] # "detach"
    BY SMTT(30), <2>2, <1>15, AtqConstants DEF LoopExpires, Return, Goto, KeepLocals, TypeOK, Locals, Label, Op
  <2>. QED
    BY Zenon, <2>1, <2>2
<1>16. ASSUME NEW c \in Cpu, WaitHolds(c)
      PROVE  TypeOK'
  BY <1>16, AtqConstants DEF WaitHolds, Return, Goto, TypeOK, Locals, Label,
      Op
<1>17. ASSUME NEW c \in Cpu, NEW q \in Queue, NEW v \in Vtime \cup {FIFO},
             Requeue(c, q, v)
      PROVE  TypeOK'
  BY Zenon, <1>17, AtqConstants DEF Requeue, Goto, TypeOK, Locals, Label, Op
<1>18. ASSUME NEW c \in Cpu, NEW t \in Task, NEW q \in Queue, NEW v \in Vtime \cup {FIFO},
             CallInsert(c, t, q, v)
      PROVE  TypeOK'
  BY Zenon, <1>18, AtqConstants DEF CallInsert, Callback, Goto, TypeOK, Locals,
      Label, Op
<1>19. ASSUME NEW c \in Cpu, NEW t \in Task, NEW o \in {"fini", "move", "detach"},
             CallUnlink(c, t, o)
      PROVE  TypeOK'
  BY Zenon, <1>19, AtqConstants DEF CallUnlink, Callback, Goto, TypeOK, Locals,
      Label, Op
<1>20. ASSUME NEW c \in Cpu, NEW q \in Queue, CallPop(c, q)
      PROVE  TypeOK'
  BY Zenon, <1>20, AtqConstants DEF CallPop, Goto, TypeOK, Locals, Label, Op
<1>21. ASSUME NEW t \in Task, TaskInit(t)
      PROVE  TypeOK'
  BY <1>21, AtqConstants DEF TaskInit, TypeOK, Locals, Label, Op
<1>22. CASE UNCHANGED vars
  BY Zenon, <1>22 DEF vars, TypeOK, Locals, Label, Op
<1>23. QED
  BY Zenon, <1>1, <1>2, <1>3, <1>4, <1>5, <1>6, <1>7, <1>8, <1>9, <1>10, <1>11,
      <1>12, <1>13, <1>14, <1>15, <1>16, <1>17, <1>18, <1>19, <1>20, <1>21,
      <1>22
  DEF Next, Step, Call

\* Every step keeps the locals in accordance with the program counters.
LEMMA LocalsStep ==
  TypeOK /\ Locals /\ [Next]_vars => Locals'
<1> SUFFICES ASSUME TypeOK /\ Locals, [Next]_vars PROVE Locals'
  BY Zenon
<1>1. ASSUME NEW c \in Cpu, InsertLock(c)
      PROVE  Locals'
  BY <1>1, AtqConstants DEF InsertLock, Acquire, Goto, KeepLocals, TypeOK,
      Locals, Label, Op
<1>2. ASSUME NEW c \in Cpu, InsertRefused(c)
      PROVE  Locals'
  <2>1. CASE op[c] = "insert"
    BY <2>1, <1>2, AtqConstants DEF InsertRefused, InsertReturns, Return, Release, Goto,
              KeepLocals, TypeOK, Locals, Label, Op
  <2>2. CASE op[c] # "insert"
    BY <2>2, <1>2, AtqConstants DEF InsertRefused, InsertReturns, Return, Release, Goto,
              KeepLocals, TypeOK, Locals, Label, Op
  <2>. QED
    BY Zenon, <2>1, <2>2
<1>3. ASSUME NEW c \in Cpu, InsertClaim(c)
      PROVE  Locals'
  BY <1>3, AtqConstants DEF InsertClaim, Goto, KeepLocals, TypeOK, Locals,
      Label, Op
<1>4. ASSUME NEW c \in Cpu, InsertLink(c)
      PROVE  Locals'
  <2>1. CASE op[c] = "insert"
    BY <2>1, <1>4, AtqConstants DEF InsertLink, InsertReturns, Return, Release, Goto,
              KeepLocals, TypeOK, Locals, Label, Op
  <2>2. CASE op[c] # "insert"
    BY <2>2, <1>4, AtqConstants DEF InsertLink, InsertReturns, Return, Release, Goto,
              KeepLocals, TypeOK, Locals, Label, Op
  <2>. QED
    BY Zenon, <2>1, <2>2
<1>5. ASSUME NEW c \in Cpu, PopLock(c)
      PROVE  Locals'
  BY <1>5, AtqConstants DEF PopLock, Acquire, Goto, KeepLocals, TypeOK,
      Locals, Label, Op
<1>6. ASSUME NEW c \in Cpu, PopEmpty(c)
      PROVE  Locals'
  BY <1>6, AtqConstants DEF PopEmpty, Return, Release, Goto, TypeOK, Locals,
      Label, Op
<1>7. ASSUME NEW c \in Cpu, PopTake(c)
      PROVE  Locals'
  BY <1>7, AtqConstants DEF PopTake, Least, Goto, TypeOK, Locals, Label, Op
<1>8. ASSUME NEW c \in Cpu, Publish(c)
      PROVE  Locals'
  <2>1. CASE op[c] = "fini"
    BY <2>1, <1>8, AtqConstants DEF Publish, Return, Release, Goto, KeepLocals,
              TypeOK, Locals, Label, Op
  <2>2. CASE op[c] # "fini"
    BY <2>2, <1>8, AtqConstants DEF Publish, Return, Release, Goto, KeepLocals,
              TypeOK, Locals, Label, Op
  <2>. QED
    BY Zenon, <2>1, <2>2
<1>9. ASSUME NEW c \in Cpu, Drop(c)
      PROVE  Locals'
  BY <1>9, AtqConstants DEF Drop, Return, Goto, TypeOK, Locals, Label, Op
<1>10. ASSUME NEW c \in Cpu, ReadAtq(c)
      PROVE  Locals'
  BY <1>10, AtqConstants DEF ReadAtq, Return, Goto, KeepLocals, TypeOK,
      Locals, Label, Op
<1>11. ASSUME NEW c \in Cpu, Latch(c)
      PROVE  Locals'
  BY <1>11, AtqConstants DEF Latch, Goto, KeepLocals, TypeOK, Locals, Label,
      Op
<1>12. ASSUME NEW c \in Cpu, UnlinkLock(c)
      PROVE  Locals'
  BY <1>12, AtqConstants DEF UnlinkLock, Acquire, Goto, KeepLocals, TypeOK,
      Locals, Label, Op
<1>13. ASSUME NEW c \in Cpu, UnlinkRetry(c)
      PROVE  Locals'
  BY <1>13, AtqConstants DEF UnlinkRetry, Release, Goto, KeepLocals, TypeOK,
      Locals, Label, Op
<1>14. ASSUME NEW c \in Cpu, Unlink(c)
      PROVE  Locals'
  BY <1>14, AtqConstants DEF Unlink, Goto, KeepLocals, TypeOK, Locals, Label,
      Op
<1>15. ASSUME NEW c \in Cpu, LoopExpires(c)
      PROVE  Locals'
  BY <1>15, AtqConstants DEF LoopExpires, Return, Goto, KeepLocals, TypeOK,
      Locals, Label, Op
<1>16. ASSUME NEW c \in Cpu, WaitHolds(c)
      PROVE  Locals'
  BY <1>16, AtqConstants DEF WaitHolds, Return, Goto, TypeOK, Locals, Label,
      Op
<1>17. ASSUME NEW c \in Cpu, NEW q \in Queue, NEW v \in Vtime \cup {FIFO},
             Requeue(c, q, v)
      PROVE  Locals'
  BY <1>17, AtqConstants DEF Requeue, Goto, TypeOK, Locals, Label, Op
<1>18. ASSUME NEW c \in Cpu, NEW t \in Task, NEW q \in Queue, NEW v \in Vtime \cup {FIFO},
             CallInsert(c, t, q, v)
      PROVE  Locals'
  BY <1>18, AtqConstants DEF CallInsert, Callback, Goto, TypeOK, Locals,
      Label, Op
<1>19. ASSUME NEW c \in Cpu, NEW t \in Task, NEW o \in {"fini", "move", "detach"},
             CallUnlink(c, t, o)
      PROVE  Locals'
  BY <1>19, AtqConstants DEF CallUnlink, Callback, Goto, TypeOK, Locals,
      Label, Op
<1>20. ASSUME NEW c \in Cpu, NEW q \in Queue, CallPop(c, q)
      PROVE  Locals'
  BY <1>20, AtqConstants DEF CallPop, Goto, TypeOK, Locals, Label, Op
<1>21. ASSUME NEW t \in Task, TaskInit(t)
      PROVE  Locals'
  BY <1>21, AtqConstants DEF TaskInit, TypeOK, Locals, Label, Op
<1>22. CASE UNCHANGED vars
  BY Zenon, <1>22 DEF vars, TypeOK, Locals, Label, Op
<1>23. QED
  BY Zenon, <1>1, <1>2, <1>3, <1>4, <1>5, <1>6, <1>7, <1>8, <1>9, <1>10, <1>11,
      <1>12, <1>13, <1>14, <1>15, <1>16, <1>17, <1>18, <1>19, <1>20, <1>21,
      <1>22
  DEF Next, Step, Call

\* Critical sections of one queue exclude each other.
LEMMA LocksStep ==
  TypeOK /\ Locals /\ Locks /\ [Next]_vars => Locks'
<1> SUFFICES ASSUME TypeOK /\ Locals /\ Locks, [Next]_vars PROVE Locks'
  BY Zenon
<1>1. ASSUME NEW c \in Cpu, InsertLock(c)
      PROVE  Locks'
  BY <1>1, AtqConstants DEF InsertLock, Acquire, Goto, KeepLocals, TypeOK,
      Locals, Locks, Critical
<1>2. ASSUME NEW c \in Cpu, InsertRefused(c)
      PROVE  Locks'
  <2>1. CASE op[c] = "insert"
    BY <2>1, <1>2, AtqConstants DEF InsertRefused, InsertReturns, Return, Release, Goto,
              KeepLocals, TypeOK, Locals, Locks, Critical
  <2>2. CASE op[c] # "insert"
    BY <2>2, <1>2, AtqConstants DEF InsertRefused, InsertReturns, Return, Release, Goto,
              KeepLocals, TypeOK, Locals, Locks, Critical
  <2>. QED
    BY Zenon, <2>1, <2>2
<1>3. ASSUME NEW c \in Cpu, InsertClaim(c)
      PROVE  Locks'
  BY <1>3, AtqConstants DEF InsertClaim, Goto, KeepLocals, TypeOK, Locals,
      Locks, Critical
<1>4. ASSUME NEW c \in Cpu, InsertLink(c)
      PROVE  Locks'
  <2>1. CASE op[c] = "insert"
    BY <2>1, <1>4, AtqConstants DEF InsertLink, InsertReturns, Return, Release, Goto,
              KeepLocals, TypeOK, Locals, Locks, Critical
  <2>2. CASE op[c] # "insert"
    BY <2>2, <1>4, AtqConstants DEF InsertLink, InsertReturns, Return, Release, Goto,
              KeepLocals, TypeOK, Locals, Locks, Critical
  <2>. QED
    BY Zenon, <2>1, <2>2
<1>5. ASSUME NEW c \in Cpu, PopLock(c)
      PROVE  Locks'
  BY <1>5, AtqConstants DEF PopLock, Acquire, Goto, KeepLocals, TypeOK,
      Locals, Locks, Critical
<1>6. ASSUME NEW c \in Cpu, PopEmpty(c)
      PROVE  Locks'
  BY <1>6, AtqConstants DEF PopEmpty, Return, Release, Goto, TypeOK, Locals,
      Locks, Critical
<1>7. ASSUME NEW c \in Cpu, PopTake(c)
      PROVE  Locks'
  BY <1>7, AtqConstants DEF PopTake, Least, Goto, TypeOK, Locals, Locks,
      Critical
<1>8. ASSUME NEW c \in Cpu, Publish(c)
      PROVE  Locks'
  <2>1. CASE op[c] = "fini"
    BY <2>1, <1>8, AtqConstants DEF Publish, Return, Release, Goto, KeepLocals,
              TypeOK, Locals, Locks, Critical
  <2>2. CASE op[c] # "fini"
    BY <2>2, <1>8, AtqConstants DEF Publish, Return, Release, Goto, KeepLocals,
              TypeOK, Locals, Locks, Critical
  <2>. QED
    BY Zenon, <2>1, <2>2
<1>9. ASSUME NEW c \in Cpu, Drop(c)
      PROVE  Locks'
  BY <1>9, AtqConstants DEF Drop, Return, Goto, TypeOK, Locals, Locks,
      Critical
<1>10. ASSUME NEW c \in Cpu, ReadAtq(c)
      PROVE  Locks'
  BY <1>10, AtqConstants DEF ReadAtq, Return, Goto, KeepLocals, TypeOK,
      Locals, Locks, Critical
<1>11. ASSUME NEW c \in Cpu, Latch(c)
      PROVE  Locks'
  BY <1>11, AtqConstants DEF Latch, Goto, KeepLocals, TypeOK, Locals, Locks,
      Critical
<1>12. ASSUME NEW c \in Cpu, UnlinkLock(c)
      PROVE  Locks'
  BY <1>12, AtqConstants DEF UnlinkLock, Acquire, Goto, KeepLocals, TypeOK,
      Locals, Locks, Critical
<1>13. ASSUME NEW c \in Cpu, UnlinkRetry(c)
      PROVE  Locks'
  BY <1>13, AtqConstants DEF UnlinkRetry, Release, Goto, KeepLocals, TypeOK,
      Locals, Locks, Critical
<1>14. ASSUME NEW c \in Cpu, Unlink(c)
      PROVE  Locks'
  BY <1>14, AtqConstants DEF Unlink, Goto, KeepLocals, TypeOK, Locals, Locks,
      Critical
<1>15. ASSUME NEW c \in Cpu, LoopExpires(c)
      PROVE  Locks'
  BY <1>15, AtqConstants DEF LoopExpires, Return, Goto, KeepLocals, TypeOK,
      Locals, Locks, Critical
<1>16. ASSUME NEW c \in Cpu, WaitHolds(c)
      PROVE  Locks'
  BY <1>16, AtqConstants DEF WaitHolds, Return, Goto, TypeOK, Locals, Locks,
      Critical
<1>17. ASSUME NEW c \in Cpu, NEW q \in Queue, NEW v \in Vtime \cup {FIFO},
             Requeue(c, q, v)
      PROVE  Locks'
  BY <1>17, AtqConstants DEF Requeue, Goto, TypeOK, Locals, Locks, Critical
<1>18. ASSUME NEW c \in Cpu, NEW t \in Task, NEW q \in Queue, NEW v \in Vtime \cup {FIFO},
             CallInsert(c, t, q, v)
      PROVE  Locks'
  BY <1>18, AtqConstants DEF CallInsert, Callback, Goto, TypeOK, Locals,
      Locks, Critical
<1>19. ASSUME NEW c \in Cpu, NEW t \in Task, NEW o \in {"fini", "move", "detach"},
             CallUnlink(c, t, o)
      PROVE  Locks'
  BY <1>19, AtqConstants DEF CallUnlink, Callback, Goto, TypeOK, Locals,
      Locks, Critical
<1>20. ASSUME NEW c \in Cpu, NEW q \in Queue, CallPop(c, q)
      PROVE  Locks'
  BY <1>20, AtqConstants DEF CallPop, Goto, TypeOK, Locals, Locks, Critical
<1>21. ASSUME NEW t \in Task, TaskInit(t)
      PROVE  Locks'
  BY Zenon, <1>21, AtqConstants DEF TaskInit, TypeOK, Locals, Locks, Critical
<1>22. CASE UNCHANGED vars
  BY Zenon, <1>22 DEF vars, TypeOK, Locals, Locks,
      Critical
<1>23. QED
  BY Zenon, <1>1, <1>2, <1>3, <1>4, <1>5, <1>6, <1>7, <1>8, <1>9, <1>10, <1>11,
      <1>12, <1>13, <1>14, <1>15, <1>16, <1>17, <1>18, <1>19, <1>20, <1>21,
      <1>22
  DEF Next, Step, Call

\* A callback keeps the runqueue lock of its task until it returns.
LEMMA CallbacksStep ==
  TypeOK /\ Locals /\ Callbacks /\ [Next]_vars => Callbacks'
<1> SUFFICES ASSUME TypeOK /\ Locals /\ Callbacks, [Next]_vars PROVE Callbacks'
  BY Zenon
<1>1. ASSUME NEW c \in Cpu, InsertLock(c)
      PROVE  Callbacks'
  BY Zenon, <1>1, AtqConstants DEF InsertLock, Acquire, Goto, KeepLocals, TypeOK,
      Locals, Callbacks
<1>2. ASSUME NEW c \in Cpu, InsertRefused(c)
      PROVE  Callbacks'
  <2>1. CASE op[c] = "insert"
    BY <2>1, <1>2, AtqConstants DEF InsertRefused, InsertReturns, Return, Release, Goto,
              KeepLocals, TypeOK, Locals, Callbacks
  <2>2. CASE op[c] # "insert"
    BY Zenon, <2>2, <1>2, AtqConstants DEF InsertRefused, InsertReturns, Return, Release, Goto,
              KeepLocals, TypeOK, Locals, Callbacks
  <2>. QED
    BY Zenon, <2>1, <2>2
<1>3. ASSUME NEW c \in Cpu, InsertClaim(c)
      PROVE  Callbacks'
  BY Zenon, <1>3, AtqConstants DEF InsertClaim, Goto, KeepLocals, TypeOK, Locals,
      Callbacks
<1>4. ASSUME NEW c \in Cpu, InsertLink(c)
      PROVE  Callbacks'
  <2>1. CASE op[c] = "insert"
    BY SMTT(30), <2>1, <1>4, AtqConstants DEF InsertLink, InsertReturns, Return, Release, Goto,
              KeepLocals, TypeOK, Locals, Callbacks
  <2>2. CASE op[c] # "insert"
    BY Zenon, <2>2, <1>4, AtqConstants DEF InsertLink, InsertReturns, Return, Release, Goto,
              KeepLocals, TypeOK, Locals, Callbacks
  <2>. QED
    BY Zenon, <2>1, <2>2
<1>5. ASSUME NEW c \in Cpu, PopLock(c)
      PROVE  Callbacks'
  BY Zenon, <1>5, AtqConstants DEF PopLock, Acquire, Goto, KeepLocals, TypeOK,
      Locals, Callbacks
<1>6. ASSUME NEW c \in Cpu, PopEmpty(c)
      PROVE  Callbacks'
  BY <1>6, AtqConstants DEF PopEmpty, Return, Release, Goto, TypeOK, Locals,
      Callbacks
<1>7. ASSUME NEW c \in Cpu, PopTake(c)
      PROVE  Callbacks'
  BY <1>7, AtqConstants DEF PopTake, Least, Goto, TypeOK, Locals, Callbacks
<1>8. ASSUME NEW c \in Cpu, Publish(c)
      PROVE  Callbacks'
  <2>1. CASE op[c] = "fini"
    BY SMTT(30), <2>1, <1>8, AtqConstants DEF Publish, Return, Release, Goto, KeepLocals,
              TypeOK, Locals, Callbacks
  <2>2. CASE op[c] # "fini"
    BY Zenon, <2>2, <1>8, AtqConstants DEF Publish, Return, Release, Goto, KeepLocals,
              TypeOK, Locals, Callbacks
  <2>. QED
    BY Zenon, <2>1, <2>2
<1>9. ASSUME NEW c \in Cpu, Drop(c)
      PROVE  Callbacks'
  BY <1>9, AtqConstants DEF Drop, Return, Goto, TypeOK, Locals, Callbacks
<1>10. ASSUME NEW c \in Cpu, ReadAtq(c)
      PROVE  Callbacks'
  BY <1>10, AtqConstants DEF ReadAtq, Return, Goto, KeepLocals, TypeOK,
      Locals, Callbacks
<1>11. ASSUME NEW c \in Cpu, Latch(c)
      PROVE  Callbacks'
  BY Zenon, <1>11, AtqConstants DEF Latch, Goto, KeepLocals, TypeOK, Locals,
      Callbacks
<1>12. ASSUME NEW c \in Cpu, UnlinkLock(c)
      PROVE  Callbacks'
  BY Zenon, <1>12, AtqConstants DEF UnlinkLock, Acquire, Goto, KeepLocals, TypeOK,
      Locals, Callbacks
<1>13. ASSUME NEW c \in Cpu, UnlinkRetry(c)
      PROVE  Callbacks'
  BY Zenon, <1>13, AtqConstants DEF UnlinkRetry, Release, Goto, KeepLocals, TypeOK,
      Locals, Callbacks
<1>14. ASSUME NEW c \in Cpu, Unlink(c)
      PROVE  Callbacks'
  BY Zenon, <1>14, AtqConstants DEF Unlink, Goto, KeepLocals, TypeOK, Locals,
      Callbacks
<1>15. ASSUME NEW c \in Cpu, LoopExpires(c)
      PROVE  Callbacks'
  BY <1>15, AtqConstants DEF LoopExpires, Return, Goto, KeepLocals, TypeOK,
      Locals, Callbacks
<1>16. ASSUME NEW c \in Cpu, WaitHolds(c)
      PROVE  Callbacks'
  BY <1>16, AtqConstants DEF WaitHolds, Return, Goto, TypeOK, Locals,
      Callbacks
<1>17. ASSUME NEW c \in Cpu, NEW q \in Queue, NEW v \in Vtime \cup {FIFO},
             Requeue(c, q, v)
      PROVE  Callbacks'
  BY Zenon, <1>17, AtqConstants DEF Requeue, Goto, TypeOK, Locals, Callbacks
<1>18. ASSUME NEW c \in Cpu, NEW t \in Task, NEW q \in Queue, NEW v \in Vtime \cup {FIFO},
             CallInsert(c, t, q, v)
      PROVE  Callbacks'
  BY <1>18, AtqConstants DEF CallInsert, Callback, Goto, TypeOK, Locals,
      Callbacks
<1>19. ASSUME NEW c \in Cpu, NEW t \in Task, NEW o \in {"fini", "move", "detach"},
             CallUnlink(c, t, o)
      PROVE  Callbacks'
  BY <1>19, AtqConstants DEF CallUnlink, Callback, Goto, TypeOK, Locals,
      Callbacks
<1>20. ASSUME NEW c \in Cpu, NEW q \in Queue, CallPop(c, q)
      PROVE  Callbacks'
  BY <1>20, AtqConstants DEF CallPop, Goto, TypeOK, Locals, Callbacks
<1>21. ASSUME NEW t \in Task, TaskInit(t)
      PROVE  Callbacks'
  BY Zenon, <1>21, AtqConstants DEF TaskInit, TypeOK, Locals, Callbacks
<1>22. CASE UNCHANGED vars
  BY Zenon, <1>22 DEF vars, TypeOK, Locals, Callbacks
<1>23. QED
  BY Zenon, <1>1, <1>2, <1>3, <1>4, <1>5, <1>6, <1>7, <1>8, <1>9, <1>10, <1>11,
      <1>12, <1>13, <1>14, <1>15, <1>16, <1>17, <1>18, <1>19, <1>20, <1>21,
      <1>22
  DEF Next, Step, Call

\* Linked nodes and taskc->atq agree across every step.
LEMMA NodesStep ==
  TypeOK /\ Locals /\ Locks /\ Nodes /\ Dead /\ [Next]_vars => Nodes'
<1> SUFFICES ASSUME TypeOK /\ Locals /\ Locks /\ Nodes /\ Dead, [Next]_vars PROVE Nodes'
  BY Zenon
<1>1. ASSUME NEW c \in Cpu, InsertLock(c)
      PROVE  Nodes'
  BY <1>1, AtqConstants DEF InsertLock, Acquire, Goto, KeepLocals, TypeOK,
      Locals, Locks, Critical, Nodes, Dead
<1>2. ASSUME NEW c \in Cpu, InsertRefused(c)
      PROVE  Nodes'
  <2>1. CASE op[c] = "insert"
    BY SMTT(30), <2>1, <1>2, AtqConstants DEF InsertRefused, InsertReturns, Return, Release, Goto,
              KeepLocals, TypeOK, Locals, Locks, Critical, Nodes, Dead
  <2>2. CASE op[c] # "insert"
    BY <2>2, <1>2, AtqConstants DEF InsertRefused, InsertReturns, Return, Release, Goto,
              KeepLocals, TypeOK, Locals, Locks, Critical, Nodes, Dead
  <2>. QED
    BY Zenon, <2>1, <2>2
<1>3. ASSUME NEW c \in Cpu, InsertClaim(c)
      PROVE  Nodes'
  BY SMTT(30), <1>3, AtqConstants DEF InsertClaim, Goto, KeepLocals, TypeOK, Locals,
      Locks, Critical, Nodes, Dead
<1>4. ASSUME NEW c \in Cpu, InsertLink(c)
      PROVE  Nodes'
  <2>1. /\ task[c] \in Task /\ queue[c] \in Queue
        /\ atq[task[c]] = queue[c] /\ task[c] \notin tree[queue[c]]
    BY Zenon, <1>4 DEF InsertLink, TypeOK, Locals, Nodes
  <2>2. /\ pc'[c] \in {"idle", "drop"}
        /\ \A d \in Cpu \ {c} : /\ pc'[d] = pc[d]
                               /\ task'[d] = task[d]
                               /\ queue'[d] = queue[d]
    BY <1>4 DEF InsertLink, InsertReturns, Return, Goto, KeepLocals, TypeOK
  <2>3. \A d \in Cpu \ {c} : pc[d] \in {"ins_link", "publish"} =>
            /\ queue[d] \in Queue /\ queue[d] # queue[c]
            /\ task[d] \in Task /\ task[d] # task[c]
    BY SMTT(30), <1>4, <2>1 DEF InsertLink, TypeOK, Locals, Locks, Critical, Nodes
  <2>4. CASE /\ tree' = [tree EXCEPT ![queue[c]] = @ \cup {task[c]}]
             /\ atq' = atq
    BY SMTT(30), <2>1, <2>2, <2>3, <2>4 DEF Nodes, TypeOK
  <2>5. CASE /\ tree' = tree
             /\ atq' = [atq EXCEPT ![task[c]] = NULL]
    <3>1. \A q \in Queue : task[c] \notin tree[q]
      BY Zenon, <2>1 DEF Nodes
    <3>. QED
      BY <2>1, <2>2, <2>3, <2>5, <3>1 DEF Nodes, TypeOK
  <2>. QED
    BY Zenon, <1>4, <2>4, <2>5 DEF InsertLink
<1>5. ASSUME NEW c \in Cpu, PopLock(c)
      PROVE  Nodes'
  BY SMTT(30), <1>5, AtqConstants DEF PopLock, Acquire, Goto, KeepLocals, TypeOK,
      Locals, Locks, Critical, Nodes, Dead
<1>6. ASSUME NEW c \in Cpu, PopEmpty(c)
      PROVE  Nodes'
  BY SMTT(30), <1>6, AtqConstants DEF PopEmpty, Return, Release, Goto, TypeOK, Locals,
      Locks, Critical, Nodes, Dead
<1>7. ASSUME NEW c \in Cpu, PopTake(c)
      PROVE  Nodes'
  BY <1>7, AtqConstants DEF PopTake, Least, Goto, TypeOK, Locals, Locks,
      Critical, Nodes, Dead
<1>8. ASSUME NEW c \in Cpu, Publish(c)
      PROVE  Nodes'
  <2>1. CASE op[c] = "fini"
    BY SMTT(30), <2>1, <1>8, AtqConstants DEF Publish, Return, Release, Goto, KeepLocals,
              TypeOK, Locals, Locks, Critical, Nodes, Dead
  <2>2. CASE op[c] # "fini"
    BY SMTT(30), <2>2, <1>8, AtqConstants DEF Publish, Return, Release, Goto, KeepLocals,
              TypeOK, Locals, Locks, Critical, Nodes, Dead
  <2>. QED
    BY Zenon, <2>1, <2>2
<1>9. ASSUME NEW c \in Cpu, Drop(c)
      PROVE  Nodes'
  BY SMTT(30), <1>9, AtqConstants DEF Drop, Return, Goto, TypeOK, Locals, Locks,
      Critical, Nodes, Dead
<1>10. ASSUME NEW c \in Cpu, ReadAtq(c)
      PROVE  Nodes'
  BY SMTT(30), <1>10, AtqConstants DEF ReadAtq, Return, Goto, KeepLocals, TypeOK,
      Locals, Locks, Critical, Nodes, Dead
<1>11. ASSUME NEW c \in Cpu, Latch(c)
      PROVE  Nodes'
  BY <1>11, AtqConstants DEF Latch, Goto, KeepLocals, TypeOK, Locals, Locks,
      Critical, Nodes, Dead
<1>12. ASSUME NEW c \in Cpu, UnlinkLock(c)
      PROVE  Nodes'
  BY <1>12, AtqConstants DEF UnlinkLock, Acquire, Goto, KeepLocals, TypeOK,
      Locals, Locks, Critical, Nodes, Dead
<1>13. ASSUME NEW c \in Cpu, UnlinkRetry(c)
      PROVE  Nodes'
  BY SMTT(30), <1>13, AtqConstants DEF UnlinkRetry, Release, Goto, KeepLocals, TypeOK,
      Locals, Locks, Critical, Nodes, Dead
<1>14. ASSUME NEW c \in Cpu, Unlink(c)
      PROVE  Nodes'
  BY SMTT(30), <1>14, AtqConstants DEF Unlink, Goto, KeepLocals, TypeOK, Locals, Locks,
      Critical, Nodes, Dead
<1>15. ASSUME NEW c \in Cpu, LoopExpires(c)
      PROVE  Nodes'
  BY SMTT(30), <1>15, AtqConstants DEF LoopExpires, Return, Goto, KeepLocals, TypeOK,
      Locals, Locks, Critical, Nodes, Dead
<1>16. ASSUME NEW c \in Cpu, WaitHolds(c)
      PROVE  Nodes'
  BY SMTT(30), <1>16, AtqConstants DEF WaitHolds, Return, Goto, TypeOK, Locals, Locks,
      Critical, Nodes, Dead
<1>17. ASSUME NEW c \in Cpu, NEW q \in Queue, NEW v \in Vtime \cup {FIFO},
             Requeue(c, q, v)
      PROVE  Nodes'
  BY SMTT(30), <1>17, AtqConstants DEF Requeue, Goto, TypeOK, Locals, Locks, Critical,
      Nodes, Dead
<1>18. ASSUME NEW c \in Cpu, NEW t \in Task, NEW q \in Queue, NEW v \in Vtime \cup {FIFO},
             CallInsert(c, t, q, v)
      PROVE  Nodes'
  BY <1>18, AtqConstants DEF CallInsert, Callback, Goto, TypeOK, Locals,
      Locks, Critical, Nodes, Dead
<1>19. ASSUME NEW c \in Cpu, NEW t \in Task, NEW o \in {"fini", "move", "detach"},
             CallUnlink(c, t, o)
      PROVE  Nodes'
  BY <1>19, AtqConstants DEF CallUnlink, Callback, Goto, TypeOK, Locals,
      Locks, Critical, Nodes, Dead
<1>20. ASSUME NEW c \in Cpu, NEW q \in Queue, CallPop(c, q)
      PROVE  Nodes'
  BY <1>20, AtqConstants DEF CallPop, Goto, TypeOK, Locals, Locks, Critical,
      Nodes, Dead
<1>21. ASSUME NEW t \in Task, TaskInit(t)
      PROVE  Nodes'
  BY <1>21, AtqConstants DEF TaskInit, TypeOK, Locals, Locks, Critical, Nodes,
      Dead
<1>22. CASE UNCHANGED vars
  BY Zenon, <1>22 DEF vars, TypeOK, Locals, Locks,
      Critical, Nodes, Dead
<1>23. QED
  BY Zenon, <1>1, <1>2, <1>3, <1>4, <1>5, <1>6, <1>7, <1>8, <1>9, <1>10, <1>11,
      <1>12, <1>13, <1>14, <1>15, <1>16, <1>17, <1>18, <1>19, <1>20, <1>21,
      <1>22
  DEF Next, Step, Call

\* A task that names a queue is in its tree, or in the hands of the lock holder.
LEMMA LinkedStep ==
  TypeOK /\ Locals /\ Locks /\ Nodes /\ Linked /\ [Next]_vars => Linked'
<1> SUFFICES ASSUME TypeOK /\ Locals /\ Locks /\ Nodes /\ Linked, [Next]_vars PROVE Linked'
  OBVIOUS
<1>1. ASSUME NEW c \in Cpu, InsertLock(c)
      PROVE  Linked'
  BY <1>1, AtqConstants DEF InsertLock, Acquire, Goto, KeepLocals, TypeOK,
      Locals, Locks, Critical, Nodes, Linked
<1>2. ASSUME NEW c \in Cpu, InsertRefused(c)
      PROVE  Linked'
  <2>1. CASE op[c] = "insert"
    BY SMTT(30), <2>1, <1>2, AtqConstants DEF InsertRefused, InsertReturns, Return, Release, Goto,
              KeepLocals, TypeOK, Locals, Locks, Critical, Nodes, Linked
  <2>2. CASE op[c] # "insert"
    BY SMTT(30), <2>2, <1>2, AtqConstants DEF InsertRefused, InsertReturns, Return, Release, Goto,
              KeepLocals, TypeOK, Locals, Locks, Critical, Nodes, Linked
  <2>. QED
    BY Zenon, <2>1, <2>2
<1>3. ASSUME NEW c \in Cpu, InsertClaim(c)
      PROVE  Linked'
  BY <1>3, AtqConstants DEF InsertClaim, Goto, KeepLocals, TypeOK, Locals,
      Locks, Critical, Nodes, Linked
<1>4. ASSUME NEW c \in Cpu, InsertLink(c)
      PROVE  Linked'
  <2>1. PICK t \in Task, q \in Queue : t = task[c] /\ q = queue[c] /\ atq[t] = q
    BY SMTT(30), <1>4 DEF InsertLink, TypeOK, Locals, Nodes
  <2>2. \A d \in Cpu \ {c} : /\ pc'[d] = pc[d]
                          /\ task'[d] = task[d]
                          /\ queue'[d] = queue[d]
    BY <1>4 DEF InsertLink, InsertReturns, Return, Goto, KeepLocals, TypeOK
  <2>3. \A u \in Task, r \in Queue : atq'[u] = r /\ u \notin tree'[r] =>
            u # t /\ atq[u] = r /\ u \notin tree[r]
    <3>1. CASE /\ tree' = [tree EXCEPT ![q] = @ \cup {t}]
               /\ atq' = atq
      BY <2>1, <3>1 DEF TypeOK
    <3>2. CASE /\ tree' = tree
               /\ atq' = [atq EXCEPT ![t] = NULL]
      BY <2>1, <3>2, AtqConstants DEF TypeOK
    <3>. QED
      BY Zenon, <1>4, <2>1, <3>1, <3>2 DEF InsertLink
  <2>4. SUFFICES ASSUME NEW u \in Task, NEW r \in Queue,
                        atq'[u] = r, u \notin tree'[r]
                 PROVE  \E d \in Cpu : /\ pc'[d] \in {"ins_link", "publish"}
                                       /\ task'[d] = u
                                       /\ queue'[d] = r
    BY <2>4 DEF Linked
  <2>5. u # t /\ atq[u] = r /\ u \notin tree[r]
    BY Zenon, <2>3, <2>4
  <2>6. PICK d \in Cpu : /\ pc[d] \in {"ins_link", "publish"}
                         /\ task[d] = u
                         /\ queue[d] = r
    BY <2>5 DEF Linked
  <2>. QED
    BY <2>1, <2>2, <2>5, <2>6
<1>5. ASSUME NEW c \in Cpu, PopLock(c)
      PROVE  Linked'
  BY SMTT(30), <1>5, AtqConstants DEF PopLock, Acquire, Goto, KeepLocals, TypeOK,
      Locals, Locks, Critical, Nodes, Linked
<1>6. ASSUME NEW c \in Cpu, PopEmpty(c)
      PROVE  Linked'
  BY SMTT(30), <1>6, AtqConstants DEF PopEmpty, Return, Release, Goto, TypeOK, Locals,
      Locks, Critical, Nodes, Linked
<1>7. ASSUME NEW c \in Cpu, PopTake(c)
      PROVE  Linked'
  BY <1>7, AtqConstants DEF PopTake, Least, Goto, TypeOK, Locals, Locks,
      Critical, Nodes, Linked
<1>8. ASSUME NEW c \in Cpu, Publish(c)
      PROVE  Linked'
  <2>1. CASE op[c] = "fini"
    BY SMTT(30), <2>1, <1>8, AtqConstants DEF Publish, Return, Release, Goto, KeepLocals,
              TypeOK, Locals, Locks, Critical, Nodes, Linked
  <2>2. CASE op[c] # "fini"
    BY SMTT(30), <2>2, <1>8, AtqConstants DEF Publish, Return, Release, Goto, KeepLocals,
              TypeOK, Locals, Locks, Critical, Nodes, Linked
  <2>. QED
    BY SMTT(30), <2>1, <2>2
<1>9. ASSUME NEW c \in Cpu, Drop(c)
      PROVE  Linked'
  BY SMTT(30), <1>9, AtqConstants DEF Drop, Return, Goto, TypeOK, Locals, Locks,
      Critical, Nodes, Linked
<1>10. ASSUME NEW c \in Cpu, ReadAtq(c)
      PROVE  Linked'
  BY SMTT(30), <1>10, AtqConstants DEF ReadAtq, Return, Goto, KeepLocals, TypeOK,
      Locals, Locks, Critical, Nodes, Linked
<1>11. ASSUME NEW c \in Cpu, Latch(c)
      PROVE  Linked'
  BY SMTT(30), <1>11, AtqConstants DEF Latch, Goto, KeepLocals, TypeOK, Locals, Locks,
      Critical, Nodes, Linked
<1>12. ASSUME NEW c \in Cpu, UnlinkLock(c)
      PROVE  Linked'
  BY SMTT(30), <1>12, AtqConstants DEF UnlinkLock, Acquire, Goto, KeepLocals, TypeOK,
      Locals, Locks, Critical, Nodes, Linked
<1>13. ASSUME NEW c \in Cpu, UnlinkRetry(c)
      PROVE  Linked'
  BY SMTT(30), <1>13, AtqConstants DEF UnlinkRetry, Release, Goto, KeepLocals, TypeOK,
      Locals, Locks, Critical, Nodes, Linked
<1>14. ASSUME NEW c \in Cpu, Unlink(c)
      PROVE  Linked'
  BY <1>14, AtqConstants DEF Unlink, Goto, KeepLocals, TypeOK, Locals, Locks,
      Critical, Nodes, Linked
<1>15. ASSUME NEW c \in Cpu, LoopExpires(c)
      PROVE  Linked'
  <2>1. CASE op[c] = "detach"
    BY SMTT(30), <2>1, <1>15, AtqConstants DEF LoopExpires, Return, Goto, KeepLocals, TypeOK, Locals, Locks, Critical, Nodes, Linked
  <2>2. CASE op[c] # "detach"
    BY SMTT(30), <2>2, <1>15, AtqConstants DEF LoopExpires, Return, Goto, KeepLocals, TypeOK, Locals, Locks, Critical, Nodes, Linked
  <2>. QED
    BY Zenon, <2>1, <2>2
<1>16. ASSUME NEW c \in Cpu, WaitHolds(c)
      PROVE  Linked'
  BY SMTT(30), <1>16, AtqConstants DEF WaitHolds, Return, Goto, TypeOK, Locals, Locks,
      Critical, Nodes, Linked
<1>17. ASSUME NEW c \in Cpu, NEW q \in Queue, NEW v \in Vtime \cup {FIFO},
             Requeue(c, q, v)
      PROVE  Linked'
  BY SMTT(30), <1>17, AtqConstants DEF Requeue, Goto, TypeOK, Locals, Locks, Critical,
      Nodes, Linked
<1>18. ASSUME NEW c \in Cpu, NEW t \in Task, NEW q \in Queue, NEW v \in Vtime \cup {FIFO},
             CallInsert(c, t, q, v)
      PROVE  Linked'
  BY SMTT(30), <1>18, AtqConstants DEF CallInsert, Callback, Goto, TypeOK, Locals,
      Locks, Critical, Nodes, Linked
<1>19. ASSUME NEW c \in Cpu, NEW t \in Task, NEW o \in {"fini", "move", "detach"},
             CallUnlink(c, t, o)
      PROVE  Linked'
  BY SMTT(30), <1>19, AtqConstants DEF CallUnlink, Callback, Goto, TypeOK, Locals,
      Locks, Critical, Nodes, Linked
<1>20. ASSUME NEW c \in Cpu, NEW q \in Queue, CallPop(c, q)
      PROVE  Linked'
  BY SMTT(30), <1>20, AtqConstants DEF CallPop, Goto, TypeOK, Locals, Locks, Critical,
      Nodes, Linked
<1>21. ASSUME NEW t \in Task, TaskInit(t)
      PROVE  Linked'
  BY SMTT(30), <1>21, AtqConstants DEF TaskInit, TypeOK, Locals, Locks, Critical, Nodes,
      Linked
<1>22. CASE UNCHANGED vars
  BY <1>22 DEF vars, TypeOK, Locals, Locks,
      Critical, Nodes, Linked
<1>23. QED
  BY SMTT(30), <1>1, <1>2, <1>3, <1>4, <1>5, <1>6, <1>7, <1>8, <1>9, <1>10, <1>11,
      <1>12, <1>13, <1>14, <1>15, <1>16, <1>17, <1>18, <1>19, <1>20, <1>21,
      <1>22
  DEF Next, Step, Call

\* The room a claim found is still there when it links.
LEMMA RoomStep ==
  TypeOK /\ Locals /\ Locks /\ Room /\ [Next]_vars => Room'
<1> SUFFICES ASSUME TypeOK /\ Locals /\ Locks /\ Room, [Next]_vars PROVE Room'
  OBVIOUS
<1>1. ASSUME NEW c \in Cpu, InsertLock(c)
      PROVE  Room'
  BY <1>1, AtqConstants DEF InsertLock, Acquire, Goto, KeepLocals, TypeOK,
      Locals, Room, Locks, Critical
<1>2. ASSUME NEW c \in Cpu, InsertRefused(c)
      PROVE  Room'
  <2>1. CASE op[c] = "insert"
    BY SMTT(30), <2>1, <1>2, AtqConstants DEF InsertRefused, InsertReturns, Return, Release, Goto,
              KeepLocals, TypeOK, Locals, Room
  <2>2. CASE op[c] # "insert"
    BY SMTT(30), <2>2, <1>2, AtqConstants DEF InsertRefused, InsertReturns, Return, Release, Goto,
              KeepLocals, TypeOK, Locals, Room
  <2>. QED
    BY Zenon, <2>1, <2>2
<1>3. ASSUME NEW c \in Cpu, InsertClaim(c)
      PROVE  Room'
  <2>1. PICK q \in Queue : q = queue[c]
    BY Zenon, <1>3 DEF InsertClaim, TypeOK, Locals
  <2>2. \A r \in Queue : Capacity[r] \in Int /\ size[r] \in Int
    BY AtqConstants DEF TypeOK
  <2>3. \A d \in Cpu : pc[d] = "ins_link" => queue[d] \in Queue
    BY Zenon DEF Locals
  <2>4. size' = size /\ queue' = queue /\ size[q] # Capacity[q]
    BY Zenon, <1>3, <2>1 DEF InsertClaim, KeepLocals
  <2>5. \A d \in Cpu : pc'[d] = "ins_link" => d = c \/ pc[d] = "ins_link"
    BY SMTT(30), <1>3 DEF InsertClaim, Goto, TypeOK
  <2>. QED
    BY <2>1, <2>2, <2>3, <2>4, <2>5 DEF Room
<1>4. ASSUME NEW c \in Cpu, InsertLink(c)
      PROVE  Room'
  <2>1. PICK q \in Queue : q = queue[c]
    BY <1>4 DEF InsertLink, TypeOK, Locals
  <2>2. \A r \in Queue : Capacity[r] \in Int /\ size[r] \in Int
    BY AtqConstants DEF TypeOK
  <2>3. \A d \in Cpu : pc[d] = "ins_link" => queue[d] \in Queue
    BY Zenon DEF Locals
  <2>4. size[q] < Capacity[q] /\ pc[c] = "ins_link" /\ lock[q] = c
    BY Zenon, <1>4, <2>1 DEF InsertLink, Room, Locks, Critical
  <2>5. \A d \in Cpu : pc'[d] = "ins_link" =>
            d # c /\ pc[d] = "ins_link" /\ queue'[d] = queue[d]
    BY <1>4 DEF InsertLink, InsertReturns, Return, Goto, KeepLocals, TypeOK
  <2>6. \A d \in Cpu \ {c} : pc[d] = "ins_link" => queue[d] # q
    BY <2>4 DEF Locks, Critical
  <2>7. size'[q] \in {size[q], size[q] + 1} /\ \A r \in Queue \ {q} : size'[r] = size[r]
    BY Zenon, <1>4, <2>1 DEF InsertLink, TypeOK
  <2>8. size'[q] <= Capacity[q]
    BY SMTT(30), <2>2, <2>4, <2>7
  <2>. QED
    BY SMTT(30), <2>1, <2>2, <2>3, <2>5, <2>6, <2>7, <2>8 DEF Room
<1>5. ASSUME NEW c \in Cpu, PopLock(c)
      PROVE  Room'
  BY SMTT(30), <1>5, AtqConstants DEF PopLock, Acquire, Goto, KeepLocals, TypeOK,
      Locals, Room, Locks, Critical
<1>6. ASSUME NEW c \in Cpu, PopEmpty(c)
      PROVE  Room'
  BY <1>6, AtqConstants DEF PopEmpty, Return, Release, Goto, TypeOK, Locals,
      Room, Locks, Critical
<1>7. ASSUME NEW c \in Cpu, PopTake(c)
      PROVE  Room'
  <2>1. PICK q \in Queue : q = queue[c]
    BY Zenon, <1>7 DEF PopTake, TypeOK, Locals
  <2>2. \A r \in Queue : Capacity[r] \in Int /\ size[r] \in Int
    BY AtqConstants DEF TypeOK
  <2>3. \A d \in Cpu : pc[d] = "ins_link" => queue[d] \in Queue
    BY Zenon DEF Locals
  <2>4. \A d \in Cpu : pc'[d] = "ins_link" => pc[d] = "ins_link" /\ queue'[d] = queue[d]
    BY <1>7 DEF PopTake, Goto, KeepLocals, TypeOK
  <2>5. size'[q] = size[q] - 1 /\ \A r \in Queue \ {q} : size'[r] = size[r]
    BY <1>7, <2>1 DEF PopTake, TypeOK
  <2>6. \A r \in Queue : size'[r] \in Int /\ size'[r] <= size[r]
    BY <2>2, <2>5
  <2>7. \A r \in Queue : size'[r] <= Capacity[r]
    BY <2>2, <2>6 DEF Room
  <2>8. \A r \in Queue : size[r] < Capacity[r] => size'[r] < Capacity[r]
    BY <2>2, <2>6
  <2>. QED
    BY Zenon, <2>3, <2>4, <2>7, <2>8 DEF Room
<1>8. ASSUME NEW c \in Cpu, Publish(c)
      PROVE  Room'
  <2>1. CASE op[c] = "fini"
    BY SMTT(30), <2>1, <1>8, AtqConstants DEF Publish, Return, Release, Goto, KeepLocals,
              TypeOK, Locals, Room
  <2>2. CASE op[c] # "fini"
    BY SMTT(30), <2>2, <1>8, AtqConstants DEF Publish, Return, Release, Goto, KeepLocals,
              TypeOK, Locals, Room
  <2>. QED
    BY Zenon, <2>1, <2>2
<1>9. ASSUME NEW c \in Cpu, Drop(c)
      PROVE  Room'
  BY SMTT(30), <1>9, AtqConstants DEF Drop, Return, Goto, TypeOK, Locals, Room, Locks,
      Critical
<1>10. ASSUME NEW c \in Cpu, ReadAtq(c)
      PROVE  Room'
  BY SMTT(30), <1>10, AtqConstants DEF ReadAtq, Return, Goto, KeepLocals, TypeOK,
      Locals, Room, Locks, Critical
<1>11. ASSUME NEW c \in Cpu, Latch(c)
      PROVE  Room'
  BY SMTT(30), <1>11, AtqConstants DEF Latch, Goto, KeepLocals, TypeOK, Locals, Room,
      Locks, Critical
<1>12. ASSUME NEW c \in Cpu, UnlinkLock(c)
      PROVE  Room'
  BY SMTT(30), <1>12, AtqConstants DEF UnlinkLock, Acquire, Goto, KeepLocals, TypeOK,
      Locals, Room, Locks, Critical
<1>13. ASSUME NEW c \in Cpu, UnlinkRetry(c)
      PROVE  Room'
  BY <1>13, AtqConstants DEF UnlinkRetry, Release, Goto, KeepLocals, TypeOK,
      Locals, Room, Locks, Critical
<1>14. ASSUME NEW c \in Cpu, Unlink(c)
      PROVE  Room'
  <2>1. PICK q \in Queue : q = queue[c]
    BY Zenon, <1>14 DEF Unlink, TypeOK, Locals
  <2>2. \A r \in Queue : Capacity[r] \in Int /\ size[r] \in Int
    BY AtqConstants DEF TypeOK
  <2>3. \A d \in Cpu : pc[d] = "ins_link" => queue[d] \in Queue
    BY Zenon DEF Locals
  <2>4. \A d \in Cpu : pc'[d] = "ins_link" => pc[d] = "ins_link" /\ queue'[d] = queue[d]
    BY <1>14 DEF Unlink, Goto, KeepLocals, TypeOK
  <2>5. size'[q] = size[q] - 1 /\ \A r \in Queue \ {q} : size'[r] = size[r]
    BY <1>14, <2>1 DEF Unlink, TypeOK
  <2>6. \A r \in Queue : size'[r] \in Int /\ size'[r] <= size[r]
    BY <2>2, <2>5
  <2>7. \A r \in Queue : size'[r] <= Capacity[r]
    BY <2>2, <2>6 DEF Room
  <2>8. \A r \in Queue : size[r] < Capacity[r] => size'[r] < Capacity[r]
    BY <2>2, <2>6
  <2>. QED
    BY Zenon, <2>3, <2>4, <2>7, <2>8 DEF Room
<1>15. ASSUME NEW c \in Cpu, LoopExpires(c)
      PROVE  Room'
  <2>1. CASE op[c] = "detach"
    BY SMTT(30), <2>1, <1>15, AtqConstants DEF LoopExpires, Return, Goto, KeepLocals, TypeOK, Locals, Room
  <2>2. CASE op[c] # "detach"
    BY SMTT(30), <2>2, <1>15, AtqConstants DEF LoopExpires, Return, Goto, KeepLocals, TypeOK, Locals, Room
  <2>. QED
    BY SMTT(30), <2>1, <2>2
<1>16. ASSUME NEW c \in Cpu, WaitHolds(c)
      PROVE  Room'
  BY SMTT(30), <1>16, AtqConstants DEF WaitHolds, Return, Goto, TypeOK, Locals, Room,
      Locks, Critical
<1>17. ASSUME NEW c \in Cpu, NEW q \in Queue, NEW v \in Vtime \cup {FIFO},
             Requeue(c, q, v)
      PROVE  Room'
  BY SMTT(30), <1>17, AtqConstants DEF Requeue, Goto, TypeOK, Locals, Room, Locks,
      Critical
<1>18. ASSUME NEW c \in Cpu, NEW t \in Task, NEW q \in Queue, NEW v \in Vtime \cup {FIFO},
             CallInsert(c, t, q, v)
      PROVE  Room'
  BY SMTT(30), <1>18, AtqConstants DEF CallInsert, Callback, Goto, TypeOK, Locals, Room,
      Locks, Critical
<1>19. ASSUME NEW c \in Cpu, NEW t \in Task, NEW o \in {"fini", "move", "detach"},
             CallUnlink(c, t, o)
      PROVE  Room'
  BY SMTT(30), <1>19, AtqConstants DEF CallUnlink, Callback, Goto, TypeOK, Locals, Room,
      Locks, Critical
<1>20. ASSUME NEW c \in Cpu, NEW q \in Queue, CallPop(c, q)
      PROVE  Room'
  BY <1>20, AtqConstants DEF CallPop, Goto, TypeOK, Locals, Room, Locks,
      Critical
<1>21. ASSUME NEW t \in Task, TaskInit(t)
      PROVE  Room'
  BY Zenon, <1>21, AtqConstants DEF TaskInit, TypeOK, Locals, Room, Locks, Critical
<1>22. CASE UNCHANGED vars
  BY SMTT(30), <1>22 DEF vars, TypeOK, Locals, Room, Locks,
      Critical
<1>23. QED
  BY SMTT(30), <1>1, <1>2, <1>3, <1>4, <1>5, <1>6, <1>7, <1>8, <1>9, <1>10, <1>11,
      <1>12, <1>13, <1>14, <1>15, <1>16, <1>17, <1>18, <1>19, <1>20, <1>21,
      <1>22
  DEF Next, Step, Call

\* FIFO keys stay distinct and below the next sequence number.
LEMMA KeysStep ==
  TypeOK /\ Locals /\ Locks /\ Nodes /\ Dead /\ Keys /\ [Next]_vars => Keys'
<1> SUFFICES ASSUME TypeOK /\ Locals /\ Locks /\ Nodes /\ Dead /\ Keys, [Next]_vars PROVE Keys'
  BY Zenon
<1>1. ASSUME NEW c \in Cpu, InsertLock(c)
      PROVE  Keys'
  BY <1>1, AtqConstants DEF InsertLock, Acquire, Goto, KeepLocals, TypeOK,
      Locals, Keys, Nodes, FifoKeysFresh, Dead
<1>2. ASSUME NEW c \in Cpu, InsertRefused(c)
      PROVE  Keys'
  <2>1. CASE op[c] = "insert"
    BY SMTT(30), <2>1, <1>2, AtqConstants DEF InsertRefused, InsertReturns, Return, Release, Goto,
              KeepLocals, TypeOK, Locals, Keys, FifoKeysFresh
  <2>2. CASE op[c] # "insert"
    BY SMTT(30), <2>2, <1>2, AtqConstants DEF InsertRefused, InsertReturns, Return, Release, Goto,
              KeepLocals, TypeOK, Locals, Keys, FifoKeysFresh
  <2>. QED
    BY SMTT(30), <2>1, <2>2
<1>3. ASSUME NEW c \in Cpu, InsertClaim(c)
      PROVE  Keys'
  BY SMTT(30), <1>3, AtqConstants DEF InsertClaim, Goto, KeepLocals, TypeOK, Locals,
      Keys, Nodes, FifoKeysFresh, Dead
<1>4. ASSUME NEW c \in Cpu, InsertLink(c)
      PROVE  Keys'
  BY SMTT(30), <1>4, AtqConstants DEF InsertLink, InsertReturns, Return, Release, Goto,
      KeepLocals, TypeOK, Locals, Keys, Nodes, FifoKeysFresh, Dead
<1>5. ASSUME NEW c \in Cpu, PopLock(c)
      PROVE  Keys'
  BY SMTT(30), <1>5, AtqConstants DEF PopLock, Acquire, Goto, KeepLocals, TypeOK,
      Locals, Keys, Nodes, FifoKeysFresh, Dead
<1>6. ASSUME NEW c \in Cpu, PopEmpty(c)
      PROVE  Keys'
  BY SMTT(30), <1>6, AtqConstants DEF PopEmpty, Return, Release, Goto, TypeOK, Locals,
      Keys, Nodes, FifoKeysFresh, Dead
<1>7. ASSUME NEW c \in Cpu, PopTake(c)
      PROVE  Keys'
  BY <1>7, AtqConstants DEF PopTake, Least, Goto, TypeOK, Locals, Keys, Nodes,
      FifoKeysFresh, Dead
<1>8. ASSUME NEW c \in Cpu, Publish(c)
      PROVE  Keys'
  <2>1. CASE op[c] = "fini"
    BY SMTT(30), <2>1, <1>8, AtqConstants DEF Publish, Return, Release, Goto, KeepLocals,
              TypeOK, Locals, Keys, FifoKeysFresh
  <2>2. CASE op[c] # "fini"
    BY SMTT(30), <2>2, <1>8, AtqConstants DEF Publish, Return, Release, Goto, KeepLocals,
              TypeOK, Locals, Keys, FifoKeysFresh
  <2>. QED
    BY Zenon, <2>1, <2>2
<1>9. ASSUME NEW c \in Cpu, Drop(c)
      PROVE  Keys'
  BY SMTT(30), <1>9, AtqConstants DEF Drop, Return, Goto, TypeOK, Locals, Keys, Nodes,
      FifoKeysFresh, Dead
<1>10. ASSUME NEW c \in Cpu, ReadAtq(c)
      PROVE  Keys'
  BY SMTT(30), <1>10, AtqConstants DEF ReadAtq, Return, Goto, KeepLocals, TypeOK,
      Locals, Keys, Nodes, FifoKeysFresh, Dead
<1>11. ASSUME NEW c \in Cpu, Latch(c)
      PROVE  Keys'
  BY SMTT(30), <1>11, AtqConstants DEF Latch, Goto, KeepLocals, TypeOK, Locals, Keys,
      Nodes, FifoKeysFresh, Dead
<1>12. ASSUME NEW c \in Cpu, UnlinkLock(c)
      PROVE  Keys'
  BY SMTT(30), <1>12, AtqConstants DEF UnlinkLock, Acquire, Goto, KeepLocals, TypeOK,
      Locals, Keys, Nodes, FifoKeysFresh, Dead
<1>13. ASSUME NEW c \in Cpu, UnlinkRetry(c)
      PROVE  Keys'
  BY SMTT(30), <1>13, AtqConstants DEF UnlinkRetry, Release, Goto, KeepLocals, TypeOK,
      Locals, Keys, Nodes, FifoKeysFresh, Dead
<1>14. ASSUME NEW c \in Cpu, Unlink(c)
      PROVE  Keys'
  BY <1>14, AtqConstants DEF Unlink, Goto, KeepLocals, TypeOK, Locals, Keys,
      Nodes, FifoKeysFresh, Dead
<1>15. ASSUME NEW c \in Cpu, LoopExpires(c)
      PROVE  Keys'
  <2>1. CASE op[c] = "detach"
    BY SMTT(30), <2>1, <1>15, AtqConstants DEF LoopExpires, Return, Goto, KeepLocals, TypeOK, Locals, Keys, FifoKeysFresh
  <2>2. CASE op[c] # "detach"
    BY SMTT(30), <2>2, <1>15, AtqConstants DEF LoopExpires, Return, Goto, KeepLocals, TypeOK, Locals, Keys, FifoKeysFresh
  <2>. QED
    BY SMTT(30), <2>1, <2>2
<1>16. ASSUME NEW c \in Cpu, WaitHolds(c)
      PROVE  Keys'
  BY SMTT(30), <1>16, AtqConstants DEF WaitHolds, Return, Goto, TypeOK, Locals, Keys,
      Nodes, FifoKeysFresh, Dead
<1>17. ASSUME NEW c \in Cpu, NEW q \in Queue, NEW v \in Vtime \cup {FIFO},
             Requeue(c, q, v)
      PROVE  Keys'
  BY SMTT(30), <1>17, AtqConstants DEF Requeue, Goto, TypeOK, Locals, Keys, Nodes,
      FifoKeysFresh, Dead
<1>18. ASSUME NEW c \in Cpu, NEW t \in Task, NEW q \in Queue, NEW v \in Vtime \cup {FIFO},
             CallInsert(c, t, q, v)
      PROVE  Keys'
  BY SMTT(30), <1>18, AtqConstants DEF CallInsert, Callback, Goto, TypeOK, Locals, Keys,
      Nodes, FifoKeysFresh, Dead
<1>19. ASSUME NEW c \in Cpu, NEW t \in Task, NEW o \in {"fini", "move", "detach"},
             CallUnlink(c, t, o)
      PROVE  Keys'
  BY SMTT(30), <1>19, AtqConstants DEF CallUnlink, Callback, Goto, TypeOK, Locals, Keys,
      Nodes, FifoKeysFresh, Dead
<1>20. ASSUME NEW c \in Cpu, NEW q \in Queue, CallPop(c, q)
      PROVE  Keys'
  BY SMTT(30), <1>20, AtqConstants DEF CallPop, Goto, TypeOK, Locals, Keys, Nodes,
      FifoKeysFresh, Dead
<1>21. ASSUME NEW t \in Task, TaskInit(t)
      PROVE  Keys'
  BY SMTT(30), <1>21, AtqConstants DEF TaskInit, TypeOK, Locals, Keys, Nodes,
      FifoKeysFresh, Dead
<1>22. CASE UNCHANGED vars
  BY SMTT(30), <1>22 DEF vars, TypeOK, Locals, Keys, Nodes,
      FifoKeysFresh, Dead
<1>23. QED
  BY Zenon, <1>1, <1>2, <1>3, <1>4, <1>5, <1>6, <1>7, <1>8, <1>9, <1>10, <1>11,
      <1>12, <1>13, <1>14, <1>15, <1>16, <1>17, <1>18, <1>19, <1>20, <1>21,
      <1>22
  DEF Next, Step, Call

-----------------------------------------------------------------------------
(* The holds, the nodes and the dead *)

\* A step that changes no hold and no CPU's pins keeps the count.
LEMMA HoldsSame ==
  ASSUME HoldsCounted, holdcnt' = holdcnt,
         \A d \in Cpu, u \in Task : Pins(d, u)' <=> Pins(d, u)
  PROVE  HoldsCounted'
<1>1. \A u \in Task : {d \in Cpu : Pins(d, u)}' = {d \in Cpu : Pins(d, u)}
  BY Zenon
<1>. QED
  BY Zenon, <1>1 DEF HoldsCounted

\* Taking a hold on t adds one CPU to the pins of t.
LEMMA HoldsAdd ==
  ASSUME TypeOK, HoldsCounted, NEW c \in Cpu, NEW t \in Task,
         ~ Pins(c, t), Pins(c, t)',
         \A d \in Cpu, u \in Task : d # c \/ u # t => (Pins(d, u)' <=> Pins(d, u)),
         holdcnt' = [holdcnt EXCEPT ![t] = @ + 1]
  PROVE  HoldsCounted'
<1> DEFINE P(u) == {d \in Cpu : Pins(d, u)}
<1>1. \A u \in Task \ {t} : P(u)' = P(u)
  BY Zenon
<1>2. P(t)' = P(t) \cup {c} /\ c \notin P(t)
  BY Zenon
<1>3. IsFiniteSet(P(t))
  BY Zenon, CpuFinite, FS_Subset
<1>4. Cardinality(P(t)') = Cardinality(P(t)) + 1
  BY Zenon, <1>2, <1>3, FS_AddElement
<1>5. holdcnt'[t] = holdcnt[t] + 1 /\ \A u \in Task \ {t} : holdcnt'[u] = holdcnt[u]
  BY Zenon DEF TypeOK
<1>. QED
  BY Zenon, <1>1, <1>4, <1>5 DEF HoldsCounted

\* Dropping a hold on t removes one.
LEMMA HoldsRemove ==
  ASSUME TypeOK, HoldsCounted, NEW c \in Cpu, NEW t \in Task,
         Pins(c, t), ~ Pins(c, t)',
         \A d \in Cpu, u \in Task : d # c \/ u # t => (Pins(d, u)' <=> Pins(d, u)),
         holdcnt' = [holdcnt EXCEPT ![t] = @ - 1]
  PROVE  HoldsCounted'
<1> DEFINE P(u) == {d \in Cpu : Pins(d, u)}
<1>1. \A u \in Task \ {t} : P(u)' = P(u)
  BY Zenon
<1>2. P(t)' = P(t) \ {c} /\ c \in P(t)
  BY Zenon
<1>3. IsFiniteSet(P(t))
  BY CpuFinite, FS_Subset
<1>4. Cardinality(P(t)') = Cardinality(P(t)) - 1
  BY ZenonT(30), <1>2, <1>3, FS_RemoveElement
<1>5. holdcnt'[t] = holdcnt[t] - 1 /\ \A u \in Task \ {t} : holdcnt'[u] = holdcnt[u]
  BY Zenon DEF TypeOK
<1>. QED
  BY Zenon, <1>1, <1>4, <1>5 DEF HoldsCounted

\* A count of zero means that no CPU pins the task.
LEMMA NoHolds ==
  ASSUME HoldsCounted, NEW t \in Task, holdcnt[t] <= 0
  PROVE  \A c \in Cpu : ~ Pins(c, t)
<1> DEFINE P == {d \in Cpu : Pins(d, t)}
<1>1. IsFiniteSet(P)
  BY Zenon, CpuFinite, FS_Subset
<1>2. Cardinality(P) \in Nat
  BY Zenon, <1>1, FS_CardinalityType
<1>3. Cardinality(P) = 0
  BY <1>2 DEF HoldsCounted
<1>4. P = {}
  BY SMTT(30), <1>1, <1>3, FS_EmptySet
<1>. QED
  BY <1>4

\* Every step keeps the hold counts equal to the number of pinning CPUs.
LEMMA HoldsStep ==
  TypeOK /\ Locals /\ Dead /\ HoldsCounted /\ [Next]_vars => HoldsCounted'
<1> SUFFICES ASSUME TypeOK /\ Locals /\ Dead /\ HoldsCounted, [Next]_vars PROVE HoldsCounted'
  BY Zenon
<1>1. ASSUME NEW c \in Cpu, InsertLock(c)
      PROVE  HoldsCounted'
  <2>1. \A d \in Cpu, u \in Task : Pins(d, u)' <=> Pins(d, u)
    BY <1>1, AtqConstants DEF InsertLock, Acquire, Goto, KeepLocals,
              Pins, TypeOK, Locals
  <2>2. holdcnt' = holdcnt
    BY SMTT(30), <1>1 DEF InsertLock
  <2>. QED
    BY Zenon, <2>1, <2>2, HoldsSame
<1>2. ASSUME NEW c \in Cpu, InsertRefused(c)
      PROVE  HoldsCounted'
  <2>1. \A d \in Cpu, u \in Task : Pins(d, u)' <=> Pins(d, u)
    BY <1>2, AtqConstants DEF InsertRefused, InsertReturns, Return, Release, Goto, KeepLocals,
              Pins, TypeOK, Locals
  <2>2. holdcnt' = holdcnt
    BY Zenon, <1>2 DEF InsertRefused
  <2>. QED
    BY Zenon, <2>1, <2>2, HoldsSame
<1>3. ASSUME NEW c \in Cpu, InsertClaim(c)
      PROVE  HoldsCounted'
  <2>1. \A d \in Cpu, u \in Task : Pins(d, u)' <=> Pins(d, u)
    BY <1>3, AtqConstants DEF InsertClaim, Goto, KeepLocals,
              Pins, TypeOK, Locals
  <2>2. holdcnt' = holdcnt
    BY ZenonT(30), <1>3 DEF InsertClaim
  <2>. QED
    BY Zenon, <2>1, <2>2, HoldsSame
<1>4. ASSUME NEW c \in Cpu, InsertLink(c)
      PROVE  HoldsCounted'
  <2>1. \A d \in Cpu, u \in Task : Pins(d, u)' <=> Pins(d, u)
    BY <1>4, AtqConstants DEF InsertLink, InsertReturns, Return, Release, Goto, KeepLocals,
              Pins, TypeOK, Locals
  <2>2. holdcnt' = holdcnt
    BY Zenon, <1>4 DEF InsertLink
  <2>. QED
    BY Zenon, <2>1, <2>2, HoldsSame
<1>5. ASSUME NEW c \in Cpu, PopLock(c)
      PROVE  HoldsCounted'
  <2>1. \A d \in Cpu, u \in Task : Pins(d, u)' <=> Pins(d, u)
    BY <1>5, AtqConstants DEF PopLock, Acquire, Goto, KeepLocals,
              Pins, TypeOK, Locals
  <2>2. holdcnt' = holdcnt
    BY Zenon, <1>5 DEF PopLock
  <2>. QED
    BY Zenon, <2>1, <2>2, HoldsSame
<1>6. ASSUME NEW c \in Cpu, PopEmpty(c)
      PROVE  HoldsCounted'
  <2>1. \A d \in Cpu, u \in Task : Pins(d, u)' <=> Pins(d, u)
    BY <1>6, AtqConstants DEF PopEmpty, Return, Release, Goto,
              Pins, TypeOK, Locals
  <2>2. holdcnt' = holdcnt
    BY Zenon, <1>6 DEF PopEmpty
  <2>. QED
    BY Zenon, <2>1, <2>2, HoldsSame
<1>7. ASSUME NEW c \in Cpu, PopTake(c)
      PROVE  HoldsCounted'
  <2>1. PICK t \in Least(queue[c]) :
            /\ holdcnt' = [holdcnt EXCEPT ![t] = @ + 1]
            /\ task' = [task EXCEPT ![c] = t]
    BY ZenonT(30), <1>7 DEF PopTake
  <2>2. t \in Task /\ op[c] = "pop" /\ task[c] = NULL
    BY Zenon, <1>7, <2>1 DEF PopTake, Least, TypeOK, Locals
  <2>3. ~ Pins(c, t) /\ Pins(c, t)'
    BY SMTT(30), <1>7, <2>1, <2>2, AtqConstants DEF PopTake, Pins, TypeOK
  <2>4. \A d \in Cpu, u \in Task : d # c \/ u # t => (Pins(d, u)' <=> Pins(d, u))
    BY SMTT(30), <1>7, <2>1, <2>2, AtqConstants DEF PopTake, Goto, Pins, TypeOK
  <2>. QED
    BY ZenonT(30), <2>1, <2>2, <2>3, <2>4, HoldsAdd
<1>8. ASSUME NEW c \in Cpu, Publish(c)
      PROVE  HoldsCounted'
  <2>1. \A d \in Cpu, u \in Task : Pins(d, u)' <=> Pins(d, u)
    BY <1>8, AtqConstants DEF Publish, Return, Release, Goto, KeepLocals,
              Pins, TypeOK, Locals
  <2>2. holdcnt' = holdcnt
    BY Zenon, <1>8 DEF Publish
  <2>. QED
    BY Zenon, <2>1, <2>2, HoldsSame
<1>9. ASSUME NEW c \in Cpu, Drop(c)
      PROVE  HoldsCounted'
  <2>1. PICK t \in Task : t = task[c]
    BY SMTT(30), <1>9 DEF Drop, TypeOK, Locals
  <2>2. Pins(c, t) /\ ~ Pins(c, t)'
    BY SMTT(30), <1>9, <2>1, AtqConstants DEF Drop, Return, Goto, Pins, TypeOK, Locals
  <2>3. \A d \in Cpu, u \in Task : d # c \/ u # t => (Pins(d, u)' <=> Pins(d, u))
    BY <1>9, <2>1, AtqConstants DEF Drop, Return, Goto, Pins, TypeOK
  <2>4. holdcnt' = [holdcnt EXCEPT ![t] = @ - 1]
    BY ZenonT(30), <1>9, <2>1 DEF Drop
  <2>. QED
    BY ZenonT(30), <2>2, <2>3, <2>4, HoldsRemove
<1>10. ASSUME NEW c \in Cpu, ReadAtq(c)
      PROVE  HoldsCounted'
  <2>1. \A d \in Cpu, u \in Task : Pins(d, u)' <=> Pins(d, u)
    BY <1>10, AtqConstants DEF ReadAtq, Return, Goto, KeepLocals,
              Pins, TypeOK, Locals
  <2>2. holdcnt' = holdcnt
    BY Zenon, <1>10 DEF ReadAtq
  <2>. QED
    BY Zenon, <2>1, <2>2, HoldsSame
<1>11. ASSUME NEW c \in Cpu, Latch(c)
      PROVE  HoldsCounted'
  <2>1. \A d \in Cpu, u \in Task : Pins(d, u)' <=> Pins(d, u)
    BY <1>11, AtqConstants DEF Latch, Goto, KeepLocals,
              Pins, TypeOK, Locals
  <2>2. holdcnt' = holdcnt
    BY Zenon, <1>11 DEF Latch
  <2>. QED
    BY Zenon, <2>1, <2>2, HoldsSame
<1>12. ASSUME NEW c \in Cpu, UnlinkLock(c)
      PROVE  HoldsCounted'
  <2>1. \A d \in Cpu, u \in Task : Pins(d, u)' <=> Pins(d, u)
    BY <1>12, AtqConstants DEF UnlinkLock, Acquire, Goto, KeepLocals,
              Pins, TypeOK, Locals
  <2>2. holdcnt' = holdcnt
    BY Zenon, <1>12 DEF UnlinkLock
  <2>. QED
    BY Zenon, <2>1, <2>2, HoldsSame
<1>13. ASSUME NEW c \in Cpu, UnlinkRetry(c)
      PROVE  HoldsCounted'
  <2>1. \A d \in Cpu, u \in Task : Pins(d, u)' <=> Pins(d, u)
    BY <1>13, AtqConstants DEF UnlinkRetry, Release, Goto, KeepLocals,
              Pins, TypeOK, Locals
  <2>2. holdcnt' = holdcnt
    BY Zenon, <1>13 DEF UnlinkRetry
  <2>. QED
    BY Zenon, <2>1, <2>2, HoldsSame
<1>14. ASSUME NEW c \in Cpu, Unlink(c)
      PROVE  HoldsCounted'
  <2>1. PICK t \in Task : t = task[c]
    BY <1>14 DEF Unlink, TypeOK, Locals
  <2>2. CASE op[c] = "move"
    <3>1. ~ Pins(c, t) /\ Pins(c, t)'
      BY Zenon, <1>14, <2>1, <2>2 DEF Unlink, Goto, KeepLocals, Pins, TypeOK
    <3>2. \A d \in Cpu, u \in Task : d # c \/ u # t => (Pins(d, u)' <=> Pins(d, u))
      BY SMTT(30), <1>14, <2>1 DEF Unlink, Goto, KeepLocals, Pins, TypeOK
    <3>3. holdcnt' = [holdcnt EXCEPT ![t] = @ + 1]
      BY <1>14, <2>1, <2>2 DEF Unlink
    <3>. QED
      BY ZenonT(30), <3>1, <3>2, <3>3, HoldsAdd
  <2>3. CASE op[c] # "move"
    <3>1. \A d \in Cpu, u \in Task : Pins(d, u)' <=> Pins(d, u)
      BY SMTT(30), <1>14, <2>3 DEF Unlink, Goto, KeepLocals, Pins, TypeOK, Locals
    <3>. QED
      BY Zenon, <1>14, <2>3, <3>1, HoldsSame DEF Unlink
  <2>. QED
    BY Zenon, <2>2, <2>3
<1>15. ASSUME NEW c \in Cpu, LoopExpires(c)
      PROVE  HoldsCounted'
  <2>1. \A d \in Cpu, u \in Task : Pins(d, u)' <=> Pins(d, u)
    BY <1>15, AtqConstants DEF LoopExpires, Return, Goto, KeepLocals,
              Pins, TypeOK, Locals
  <2>2. holdcnt' = holdcnt
    BY ZenonT(30), <1>15 DEF LoopExpires
  <2>. QED
    BY Zenon, <2>1, <2>2, HoldsSame
<1>16. ASSUME NEW c \in Cpu, WaitHolds(c)
      PROVE  HoldsCounted'
  <2>1. \A d \in Cpu, u \in Task : Pins(d, u)' <=> Pins(d, u)
    BY <1>16, AtqConstants DEF WaitHolds, Return, Goto,
              Pins, TypeOK, Locals
  <2>2. holdcnt' = holdcnt
    BY Zenon, <1>16 DEF WaitHolds
  <2>. QED
    BY Zenon, <2>1, <2>2, HoldsSame
<1>17. ASSUME NEW c \in Cpu, NEW q \in Queue, NEW v \in Vtime \cup {FIFO},
             Requeue(c, q, v)
      PROVE  HoldsCounted'
  <2>1. \A d \in Cpu, u \in Task : Pins(d, u)' <=> Pins(d, u)
    BY <1>17, AtqConstants DEF Requeue, Goto,
              Pins, TypeOK, Locals
  <2>2. holdcnt' = holdcnt
    BY Zenon, <1>17 DEF Requeue
  <2>. QED
    BY ZenonT(30), <2>1, <2>2, HoldsSame
<1>18. ASSUME NEW c \in Cpu, NEW t \in Task, NEW q \in Queue, NEW v \in Vtime \cup {FIFO},
             CallInsert(c, t, q, v)
      PROVE  HoldsCounted'
  <2>1. \A d \in Cpu, u \in Task : Pins(d, u)' <=> Pins(d, u)
    BY <1>18, AtqConstants DEF CallInsert, Callback, Goto,
              Pins, TypeOK, Locals
  <2>2. holdcnt' = holdcnt
    BY Zenon, <1>18 DEF CallInsert, Callback
  <2>. QED
    BY ZenonT(30), <2>1, <2>2, HoldsSame
<1>19. ASSUME NEW c \in Cpu, NEW t \in Task, NEW o \in {"fini", "move", "detach"},
             CallUnlink(c, t, o)
      PROVE  HoldsCounted'
  <2>1. \A d \in Cpu, u \in Task : Pins(d, u)' <=> Pins(d, u)
    BY <1>19, AtqConstants DEF CallUnlink, Callback, Goto,
              Pins, TypeOK, Locals
  <2>2. holdcnt' = holdcnt
    BY Zenon, <1>19 DEF CallUnlink, Callback
  <2>. QED
    BY Zenon, <2>1, <2>2, HoldsSame
<1>20. ASSUME NEW c \in Cpu, NEW q \in Queue, CallPop(c, q)
      PROVE  HoldsCounted'
  <2>1. \A d \in Cpu, u \in Task : Pins(d, u)' <=> Pins(d, u)
    BY <1>20, AtqConstants DEF CallPop, Goto,
              Pins, TypeOK, Locals
  <2>2. holdcnt' = holdcnt
    BY Zenon, <1>20 DEF CallPop
  <2>. QED
    BY Zenon, <2>1, <2>2, HoldsSame
<1>21. ASSUME NEW t \in Task, TaskInit(t)
      PROVE  HoldsCounted'
  <2>1. \A d \in Cpu, u \in Task : Pins(d, u)' <=> Pins(d, u)
    BY Zenon, <1>21 DEF TaskInit, Pins
  <2>2. {d \in Cpu : Pins(d, t)} = {}
    BY Zenon, <1>21 DEF TaskInit, Pins, Dead
  <2>3. holdcnt[t] = 0
    BY Zenon, <2>2, FS_EmptySet DEF HoldsCounted
  <2>4. holdcnt' = holdcnt
    BY SMTT(30), <1>21, <2>3 DEF TaskInit, TypeOK
  <2>. QED
    BY Zenon, <2>1, <2>4, HoldsSame
<1>22. CASE UNCHANGED vars
  BY SMTT(30), <1>22 DEF vars, HoldsCounted, Pins
<1>23. QED
  BY SMTT(30), <1>1, <1>2, <1>3, <1>4, <1>5, <1>6, <1>7, <1>8, <1>9, <1>10, <1>11,
      <1>12, <1>13, <1>14, <1>15, <1>16, <1>17, <1>18, <1>19, <1>20, <1>21,
      <1>22
  DEF Next, Step, Call

\* A step that revives nobody, frees nothing and leaves its CPU with a task
\* that is not freed keeps the dead dead.
LEMMA DeadKept ==
  ASSUME TypeOK, Locals, Dead, NEW c \in Cpu, freed' = freed,
         \A d \in Cpu \ {c} : pc'[d] = pc[d] /\ task'[d] = task[d],
         \A t \in Task : atq[t] = DEAD => atq'[t] = DEAD,
         pc'[c] = "wait" => atq'[task'[c]] = DEAD,
         task'[c] \notin freed
  PROVE  Dead'
<1>1. ASSUME NEW d \in Cpu, pc'[d] = "wait" PROVE atq'[task'[d]] = DEAD
  <2>1. CASE d = c
    BY Zenon, <1>1, <2>1
  <2>2. CASE d # c
    <3>1. pc[d] = "wait" /\ task'[d] = task[d]
      BY Zenon, <1>1, <2>2
    <3>2. pc[d] \notin {"idle", "pop_lock", "pop_take"}
      BY <3>1
    <3>. QED
      BY Zenon, <3>1, <3>2 DEF Locals, Dead
  <2>. QED
    BY Zenon, <2>1, <2>2
<1>2. ASSUME NEW t \in freed PROVE atq'[t] = DEAD /\ \A d \in Cpu : task'[d] # t
  <2>1. t \in Task /\ atq[t] = DEAD /\ \A d \in Cpu : task[d] # t
    BY Zenon DEF TypeOK, Dead
  <2>2. ASSUME NEW d \in Cpu PROVE task'[d] # t
    <3>1. CASE d = c
      BY Zenon, <3>1
    <3>2. CASE d # c
      BY Zenon, <2>1, <3>2
    <3>. QED
      BY Zenon, <3>1, <3>2
  <2>. QED
    BY Zenon, <2>1, <2>2
<1>. QED
  BY Zenon, <1>1, <1>2 DEF Dead

\* So does a step on the way of an operation,
LEMMA DeadGoes ==
  ASSUME TypeOK, Locals, Dead, NEW c \in Cpu, NEW l, Goto(c, l), l # "wait", task' = task, freed' = freed,
         \A t \in Task : atq[t] = DEAD => atq'[t] = DEAD
  PROVE  Dead'
<1>1. pc'[c] = l /\ \A d \in Cpu \ {c} : pc'[d] = pc[d]
  BY Zenon DEF Goto, TypeOK
<1>2. task'[c] \notin freed
  BY Zenon DEF Dead
<1>. QED
  BY Zenon, <1>1, <1>2, DeadKept

\* and the return from one.
LEMMA DeadReturns ==
  ASSUME TypeOK, Locals, Dead, NEW c \in Cpu, Return(c), freed' = freed,
         \A t \in Task : atq[t] = DEAD => atq'[t] = DEAD
  PROVE  Dead'
<1>1. pc'[c] = "idle" /\ task'[c] = NULL /\ \A d \in Cpu \ {c} : pc'[d] = pc[d] /\ task'[d] = task[d]
  BY Zenon DEF Return, Goto, TypeOK
<1>2. pc'[c] # "wait"
  BY <1>1
<1>3. task'[c] \notin freed
  BY Zenon, <1>1, AtqConstants DEF TypeOK
<1>. QED
  BY Zenon, <1>1, <1>2, <1>3, DeadKept

\* Clearing the membership of a task that a queue has revives nobody.
LEMMA NotRevived ==
  ASSUME TypeOK, NEW u \in Task, atq[u] # DEAD, NEW a, atq' = [atq EXCEPT ![u] = a]
  PROVE  \A t \in Task : atq[t] = DEAD => atq'[t] = DEAD
BY Zenon DEF TypeOK

\* Only dead contexts that no CPU can reach are freed.
LEMMA DeadStep ==
  DetachWaits /\ IInv /\ [Next]_vars => Dead'
<1> SUFFICES ASSUME DetachWaits, IInv, [Next]_vars PROVE Dead'
  BY Zenon
<1>0. TypeOK /\ Locals /\ Dead
  BY Zenon DEF IInv
<1>30. /\ "ins_claim" # "wait" /\ "ins_link" # "wait" /\ "pop_take" # "wait" /\ "unlink" # "wait"
       /\ "read" # "wait" /\ "publish" # "wait" /\ "ins_lock" # "wait" /\ "pop_lock" # "wait"
       /\ "lock" # "wait" /\ "latch" # "wait" /\ "drop" # "wait" /\ "held" # "wait"
  OBVIOUS
<1>1. ASSUME NEW c \in Cpu, InsertLock(c)
      PROVE  Dead'
  BY Zenon, <1>0, <1>1, <1>30, DeadGoes DEF InsertLock, KeepLocals
<1>2. ASSUME NEW c \in Cpu, InsertRefused(c)
      PROVE  Dead'
  <2>1. atq' = atq /\ freed' = freed /\ InsertReturns(c)
    BY Zenon, <1>2 DEF InsertRefused
  <2>2. CASE op[c] = "insert"
    BY Zenon, <1>0, <2>1, <2>2, DeadReturns DEF InsertReturns
  <2>3. CASE op[c] # "insert"
    BY Zenon, <1>0, <1>30, <2>1, <2>3, DeadGoes DEF InsertReturns, KeepLocals
  <2>. QED
    BY Zenon, <2>2, <2>3
<1>3. ASSUME NEW c \in Cpu, InsertClaim(c)
      PROVE  Dead'
  <2>1. /\ pc[c] = "ins_claim" /\ atq[task[c]] = NULL /\ atq' = [atq EXCEPT ![task[c]] = queue[c]]
        /\ Goto(c, "ins_link") /\ task' = task /\ freed' = freed
    BY Zenon, <1>3 DEF InsertClaim, KeepLocals
  <2>2. task[c] \in Task /\ atq[task[c]] # DEAD
    BY <1>0, <2>1, AtqConstants DEF Locals
  <2>3. \A t \in Task : atq[t] = DEAD => atq'[t] = DEAD
    BY Zenon, <1>0, <2>1, <2>2, NotRevived
  <2>. QED
    BY Zenon, <1>0, <1>30, <2>1, <2>3, DeadGoes
<1>4. ASSUME NEW c \in Cpu, InsertLink(c)
      PROVE  Dead'
  <2>1. /\ pc[c] = "ins_link" /\ (atq' = atq \/ atq' = [atq EXCEPT ![task[c]] = NULL])
        /\ freed' = freed /\ InsertReturns(c)
    BY Zenon, <1>4 DEF InsertLink
  <2>2. task[c] \in Task /\ queue[c] \in Queue /\ atq[task[c]] = queue[c]
    BY <2>1 DEF IInv, Locals, Nodes
  <2>3. atq[task[c]] # DEAD
    BY Zenon, <2>2, AtqConstants
  <2>4. \A t \in Task : atq[t] = DEAD => atq'[t] = DEAD
    BY Zenon, <1>0, <2>1, <2>2, <2>3, NotRevived
  <2>5. CASE op[c] = "insert"
    BY Zenon, <1>0, <2>1, <2>4, <2>5, DeadReturns DEF InsertReturns
  <2>6. CASE op[c] # "insert"
    BY Zenon, <1>0, <1>30, <2>1, <2>4, <2>6, DeadGoes DEF InsertReturns, KeepLocals
  <2>. QED
    BY Zenon, <2>5, <2>6
<1>5. ASSUME NEW c \in Cpu, PopLock(c)
      PROVE  Dead'
  BY Zenon, <1>0, <1>5, <1>30, DeadGoes DEF PopLock, KeepLocals
<1>6. ASSUME NEW c \in Cpu, PopEmpty(c)
      PROVE  Dead'
  BY Zenon, <1>0, <1>6, DeadReturns DEF PopEmpty
<1>7. ASSUME NEW c \in Cpu, PopTake(c)
      PROVE  Dead'
  <2>1. /\ pc[c] = "pop_take" /\ Goto(c, "publish") /\ atq' = atq /\ freed' = freed
        /\ \E t \in Least(queue[c]) : task' = [task EXCEPT ![c] = t]
    BY Zenon, <1>7 DEF PopTake
  <2>2. queue[c] \in Queue
    BY <1>0, <2>1 DEF Locals
  <2>3. PICK t \in tree[queue[c]] : task' = [task EXCEPT ![c] = t]
    BY Zenon, <2>1 DEF Least
  <2>4. t \in Task /\ atq[t] = queue[c]
    BY Zenon, <1>0, <2>2, <2>3 DEF TypeOK, IInv, Nodes
  <2>5. t \notin freed
    BY Zenon, <1>0, <2>2, <2>4, AtqConstants DEF Dead
  <2>6. task'[c] = t /\ pc'[c] = "publish"
          /\ \A d \in Cpu \ {c} : pc'[d] = pc[d] /\ task'[d] = task[d]
    BY Zenon, <1>0, <2>1, <2>3 DEF Goto, TypeOK
  <2>. QED
    BY Zenon, <1>0, <1>30, <2>1, <2>5, <2>6, DeadKept
<1>8. ASSUME NEW c \in Cpu, Publish(c)
      PROVE  Dead'
  <2>1. /\ pc[c] = "publish" /\ atq' = [atq EXCEPT ![task[c]] = IF op[c] = "detach" THEN DEAD ELSE NULL]
        /\ freed' = freed
        /\ IF op[c] = "fini"
           THEN Return(c)
           ELSE Goto(c, IF op[c] = "detach" THEN "wait" ELSE "held") /\ KeepLocals
    BY Zenon, <1>8 DEF Publish
  <2>2. task[c] \in Task /\ queue[c] \in Queue /\ atq[task[c]] = queue[c]
    BY <2>1 DEF IInv, Locals, Nodes
  <2>3. atq[task[c]] # DEAD
    BY Zenon, <2>2, AtqConstants
  <2>4. \A t \in Task : atq[t] = DEAD => atq'[t] = DEAD
    BY Zenon, <1>0, <2>1, <2>2, <2>3, NotRevived
  <2>5. CASE op[c] = "fini"
    BY Zenon, <1>0, <2>1, <2>4, <2>5, DeadReturns
  <2>6. CASE op[c] # "fini" /\ op[c] # "detach"
    BY Zenon, <1>0, <1>30, <2>1, <2>4, <2>6, DeadGoes DEF KeepLocals
  <2>7. CASE op[c] = "detach"
    <3>1. op[c] # "fini"
      BY <2>7
    <3>2. atq'[task[c]] = DEAD /\ task' = task /\ pc' = [pc EXCEPT ![c] = "wait"]
      BY Zenon, <1>0, <2>1, <2>2, <2>7, <3>1 DEF Goto, KeepLocals, TypeOK
    <3>3. \A d \in Cpu \ {c} : pc'[d] = pc[d] /\ task'[d] = task[d]
      BY Zenon, <1>0, <3>2 DEF TypeOK
    <3>4. task'[c] \notin freed
      BY Zenon, <1>0, <3>2 DEF Dead
    <3>. QED
      BY Zenon, <1>0, <2>1, <2>4, <3>2, <3>3, <3>4, DeadKept
  <2>. QED
    BY Zenon, <2>5, <2>6, <2>7
<1>9. ASSUME NEW c \in Cpu, Drop(c)
      PROVE  Dead'
  BY Zenon, <1>0, <1>9, DeadReturns DEF Drop
<1>10. ASSUME NEW c \in Cpu, ReadAtq(c)
      PROVE  Dead'
  <2>1. /\ pc[c] = "read" /\ atq' = atq /\ freed' = freed
        /\ \/ Goto(c, "lock") /\ task' = task
           \/ /\ atq[task[c]] \notin Queue /\ task' = task
              /\ Goto(c, IF atq[task[c]] = NULL THEN "latch" ELSE "wait")
           \/ Return(c)
    BY Zenon, <1>10 DEF ReadAtq, KeepLocals
  <2>2. CASE Goto(c, "lock") /\ task' = task
    BY Zenon, <1>0, <1>30, <2>1, <2>2, DeadGoes
  <2>3. CASE Return(c)
    BY Zenon, <1>0, <2>1, <2>3, DeadReturns
  <2>4. CASE atq[task[c]] = NULL /\ task' = task /\ Goto(c, "latch")
    BY Zenon, <1>0, <1>30, <2>1, <2>4, DeadGoes
  <2>5. CASE atq[task[c]] \notin Queue \cup {NULL} /\ task' = task /\ Goto(c, "wait")
    <3>1. task[c] \in Task
      BY <1>0, <2>1 DEF Locals
    <3>2. atq[task[c]] = DEAD
      BY Zenon, <1>0, <2>5, <3>1 DEF TypeOK
    <3>3. \A d \in Cpu \ {c} : pc'[d] = pc[d] /\ task'[d] = task[d]
      BY Zenon, <1>0, <2>5 DEF Goto, TypeOK
    <3>4. task'[c] \notin freed
      BY Zenon, <1>0, <2>5 DEF Dead
    <3>. QED
      BY Zenon, <1>0, <2>1, <2>5, <3>2, <3>3, <3>4, DeadKept
  <2>. QED
    BY Zenon, <2>1, <2>2, <2>3, <2>4, <2>5
<1>11. ASSUME NEW c \in Cpu, Latch(c)
      PROVE  Dead'
  <2>1. /\ pc[c] = "latch" /\ task' = task /\ freed' = freed
        /\ IF atq[task[c]] = NULL
           THEN atq' = [atq EXCEPT ![task[c]] = DEAD] /\ Goto(c, "wait")
           ELSE atq' = atq /\ Goto(c, "read")
    BY Zenon, <1>11 DEF Latch, KeepLocals
  <2>2. task[c] \in Task
    BY <1>0, <2>1 DEF Locals
  <2>3. CASE atq[task[c]] = NULL
    <3>1. atq'[task[c]] = DEAD /\ \A t \in Task : atq[t] = DEAD => atq'[t] = DEAD
      BY Zenon, <1>0, <2>1, <2>2, <2>3 DEF TypeOK
    <3>2. \A d \in Cpu \ {c} : pc'[d] = pc[d] /\ task'[d] = task[d]
      BY Zenon, <1>0, <2>1, <2>3 DEF Goto, TypeOK
    <3>3. task'[c] \notin freed
      BY Zenon, <1>0, <2>1 DEF Dead
    <3>. QED
      BY Zenon, <1>0, <2>1, <3>1, <3>2, <3>3, DeadKept
  <2>4. CASE atq[task[c]] # NULL
    BY Zenon, <1>0, <1>30, <2>1, <2>4, DeadGoes
  <2>. QED
    BY Zenon, <2>3, <2>4
<1>12. ASSUME NEW c \in Cpu, UnlinkLock(c)
      PROVE  Dead'
  BY Zenon, <1>0, <1>12, <1>30, DeadGoes DEF UnlinkLock, KeepLocals
<1>13. ASSUME NEW c \in Cpu, UnlinkRetry(c)
      PROVE  Dead'
  BY Zenon, <1>0, <1>13, <1>30, DeadGoes DEF UnlinkRetry, KeepLocals
<1>14. ASSUME NEW c \in Cpu, Unlink(c)
      PROVE  Dead'
  BY Zenon, <1>0, <1>14, <1>30, DeadGoes DEF Unlink, KeepLocals
<1>15. ASSUME NEW c \in Cpu, LoopExpires(c)
      PROVE  Dead'
  <2>1. op[c] # "detach"
    BY Zenon, <1>15 DEF LoopExpires, DetachWaits
  <2>. QED
    BY Zenon, <1>0, <1>15, <2>1, DeadReturns DEF LoopExpires
<1>16. ASSUME NEW c \in Cpu, WaitHolds(c)
      PROVE  Dead'
  <2>1. PICK t \in Task : t = task[c]
    BY <1>16 DEF WaitHolds, IInv, TypeOK, Locals
  <2>2. op[c] = "detach" /\ atq[t] = DEAD
    BY Zenon, <1>16, <2>1 DEF WaitHolds, IInv, Locals, Dead
  <2>3. \A d \in Cpu : ~ Pins(d, t)
    BY Zenon, <1>16, <2>1, NoHolds DEF WaitHolds, DetachWaits, IInv
  <2>4. \A d \in Cpu \ {c} : task[d] # t
    <3> SUFFICES ASSUME NEW d \in Cpu \ {c}, task[d] = t PROVE FALSE
      BY Zenon
    <3>1. op[d] \notin {"insert", "fini", "move", "detach"}
      BY Zenon, <2>1, <2>2 DEF IInv, Callbacks, IInv, TypeOK
    <3>2. op[d] # "pop"
      BY SMTT(30), <2>3 DEF Pins
    <3>3. pc[d] # "idle" /\ pc[d] \in Label
      BY SMTT(30), AtqConstants DEF Locals, IInv, TypeOK
    <3>. QED
      BY <3>1, <3>2, <3>3 DEF Locals, IInv, TypeOK, Op, Label
  <2>. QED
    BY SMTT(30), <1>16, <2>1, <2>2, <2>4, AtqConstants DEF WaitHolds, Return, Goto, Dead, IInv, TypeOK
<1>17. ASSUME NEW c \in Cpu, NEW q \in Queue, NEW v \in Vtime \cup {FIFO},
             Requeue(c, q, v)
      PROVE  Dead'
  BY Zenon, <1>0, <1>17, <1>30, DeadGoes DEF Requeue
<1>18. ASSUME NEW c \in Cpu, NEW t \in Task, NEW o, NEW l, l # "wait", Callback(c, t, o), Goto(c, l)
      PROVE  Dead'
  <2>1. t \notin freed /\ task' = [task EXCEPT ![c] = t] /\ atq' = atq /\ freed' = freed
    BY Zenon, <1>18 DEF Callback
  <2>2. task'[c] = t /\ pc'[c] = l /\ \A d \in Cpu \ {c} : pc'[d] = pc[d] /\ task'[d] = task[d]
    BY Zenon, <1>0, <1>18, <2>1 DEF Goto, TypeOK
  <2>. QED
    BY Zenon, <1>0, <1>18, <2>1, <2>2, DeadKept
<1>19. ASSUME NEW c \in Cpu, Call(c)
      PROVE  Dead'
  <2>1. ASSUME NEW q \in Queue, CallPop(c, q)
        PROVE  Dead'
    BY Zenon, <1>0, <1>30, <2>1, DeadGoes DEF CallPop
  <2>2. ASSUME NEW t \in Task, NEW q \in Queue, NEW v \in Vtime \cup {FIFO}, CallInsert(c, t, q, v)
        PROVE  Dead'
    BY Zenon, <1>18, <1>30, <2>2 DEF CallInsert
  <2>3. ASSUME NEW t \in Task, NEW o \in {"fini", "move", "detach"}, CallUnlink(c, t, o)
        PROVE  Dead'
    BY Zenon, <1>18, <1>30, <2>3 DEF CallUnlink
  <2>. QED
    BY Zenon, <1>19, <2>1, <2>2, <2>3 DEF Call
<1>21. ASSUME NEW t \in Task, TaskInit(t)
      PROVE  Dead'
  <2>1. /\ t \in freed /\ freed' = freed \ {t} /\ pc' = pc /\ task' = task
        /\ \A u \in Task \ {t} : atq'[u] = atq[u]
    BY Zenon, <1>0, <1>21 DEF TaskInit, TypeOK
  <2>2. ASSUME NEW d \in Cpu, pc[d] = "wait" PROVE atq'[task[d]] = DEAD
    <3>1. pc[d] \notin {"idle", "pop_lock", "pop_take"}
      BY <2>2
    <3>. QED
      BY Zenon, <1>0, <2>1, <2>2, <3>1 DEF Locals, Dead
  <2>3. \A u \in freed \ {t} : atq'[u] = DEAD /\ \A d \in Cpu : task[d] # u
    BY Zenon, <1>0, <2>1 DEF TypeOK, Dead
  <2>. QED
    BY Zenon, <2>1, <2>2, <2>3 DEF Dead
<1>22. CASE UNCHANGED vars
  BY Zenon, <1>0, <1>22 DEF vars, Dead
<1>23. QED
  BY Zenon, <1>1, <1>2, <1>3, <1>4, <1>5, <1>6, <1>7, <1>8, <1>9, <1>10, <1>11,
      <1>12, <1>13, <1>14, <1>15, <1>16, <1>17, <1>19, <1>21, <1>22
  DEF Next, Step

\* Linking a node that was not in the tree keeps the size exact.
LEMMA SizesAdd ==
  ASSUME TypeOK, Sizes, NEW q \in Queue, NEW t \in Task, t \notin tree[q],
         tree' = [tree EXCEPT ![q] = @ \cup {t}],
         size' = [size EXCEPT ![q] = @ + 1]
  PROVE  Sizes'
<1>1. tree'[q] = tree[q] \cup {t} /\ size'[q] = size[q] + 1
  BY Zenon DEF TypeOK
<1>2. IsFiniteSet(tree'[q]) /\ Cardinality(tree'[q]) = Cardinality(tree[q]) + 1
  BY SMTT(30), <1>1, FS_AddElement DEF Sizes
<1>3. \A r \in Queue \ {q} : tree'[r] = tree[r] /\ size'[r] = size[r]
  BY DEF TypeOK
<1>. QED
  BY <1>1, <1>2, <1>3 DEF Sizes

\* Unlinking a node that was in the tree keeps the size exact.
LEMMA SizesRemove ==
  ASSUME TypeOK, Sizes, NEW q \in Queue, NEW t \in tree[q],
         tree' = [tree EXCEPT ![q] = @ \ {t}],
         size' = [size EXCEPT ![q] = @ - 1]
  PROVE  Sizes'
<1>1. tree'[q] = tree[q] \ {t} /\ size'[q] = size[q] - 1
  BY Zenon DEF TypeOK
<1>2. IsFiniteSet(tree'[q]) /\ Cardinality(tree'[q]) = Cardinality(tree[q]) - 1
  BY <1>1, FS_RemoveElement DEF Sizes
<1>3. \A r \in Queue \ {q} : tree'[r] = tree[r] /\ size'[r] = size[r]
  BY Zenon DEF TypeOK
<1>. QED
  BY SMTT(30), <1>1, <1>2, <1>3 DEF Sizes

\* atq->size is the number of linked nodes across every step.
LEMMA SizesStep ==
  TypeOK /\ Locals /\ Locks /\ Nodes /\ Linked /\ Sizes /\ [Next]_vars => Sizes'
<1> SUFFICES ASSUME TypeOK /\ Locals /\ Locks /\ Nodes /\ Linked /\ Sizes, [Next]_vars PROVE Sizes'
  BY Zenon
<1>1. ASSUME NEW c \in Cpu, InsertLock(c)
      PROVE  Sizes'
  BY Zenon, <1>1 DEF InsertLock, Sizes
<1>2. ASSUME NEW c \in Cpu, InsertRefused(c)
      PROVE  Sizes'
  BY ZenonT(30), <1>2 DEF InsertRefused, Sizes
<1>3. ASSUME NEW c \in Cpu, InsertClaim(c)
      PROVE  Sizes'
  BY SMTT(30), <1>3 DEF InsertClaim, Sizes
<1>4. ASSUME NEW c \in Cpu, InsertLink(c)
      PROVE  Sizes'
  <2>1. PICK t \in Task, q \in Queue : t = task[c] /\ q = queue[c] /\ t \notin tree[q]
    BY Zenon, <1>4 DEF InsertLink, TypeOK, Locals, Nodes
  <2>2. CASE /\ tree' = [tree EXCEPT ![q] = @ \cup {t}]
             /\ size' = [size EXCEPT ![q] = @ + 1]
    BY ZenonT(30), <2>1, <2>2, SizesAdd
  <2>3. CASE UNCHANGED <<tree, size>>
    BY Zenon, <2>3 DEF Sizes
  <2>. QED
    BY <1>4, <2>1, <2>2, <2>3 DEF InsertLink
<1>5. ASSUME NEW c \in Cpu, PopLock(c)
      PROVE  Sizes'
  BY ZenonT(30), <1>5 DEF PopLock, Sizes
<1>6. ASSUME NEW c \in Cpu, PopEmpty(c)
      PROVE  Sizes'
  BY <1>6 DEF PopEmpty, Sizes
<1>7. ASSUME NEW c \in Cpu, PopTake(c)
      PROVE  Sizes'
  <2>1. PICK q \in Queue : q = queue[c]
    BY Zenon, <1>7 DEF PopTake, TypeOK, Locals
  <2>2. PICK t \in Least(q) : tree' = [tree EXCEPT ![q] = @ \ {t}]
    BY ZenonT(30), <1>7, <2>1 DEF PopTake
  <2>3. size' = [size EXCEPT ![q] = @ - 1]
    BY Zenon, <1>7, <2>1 DEF PopTake
  <2>4. t \in tree[q]
    BY ZenonT(30), <2>2 DEF Least
  <2>. QED
    BY ZenonT(30), <2>2, <2>3, <2>4, SizesRemove
<1>8. ASSUME NEW c \in Cpu, Publish(c)
      PROVE  Sizes'
  BY Zenon, <1>8 DEF Publish, Sizes
<1>9. ASSUME NEW c \in Cpu, Drop(c)
      PROVE  Sizes'
  BY Zenon, <1>9 DEF Drop, Sizes
<1>10. ASSUME NEW c \in Cpu, ReadAtq(c)
      PROVE  Sizes'
  BY ZenonT(30), <1>10 DEF ReadAtq, Sizes
<1>11. ASSUME NEW c \in Cpu, Latch(c)
      PROVE  Sizes'
  BY <1>11 DEF Latch, Sizes
<1>12. ASSUME NEW c \in Cpu, UnlinkLock(c)
      PROVE  Sizes'
  BY Zenon, <1>12 DEF UnlinkLock, Sizes
<1>13. ASSUME NEW c \in Cpu, UnlinkRetry(c)
      PROVE  Sizes'
  BY Zenon, <1>13 DEF UnlinkRetry, Sizes
<1>14. ASSUME NEW c \in Cpu, Unlink(c)
      PROVE  Sizes'
  <2>1. PICK t \in Task, q \in Queue : t = task[c] /\ q = queue[c] /\ atq[t] = q
    BY <1>14 DEF Unlink, TypeOK, Locals
  <2>2. t \in tree[q]
    <3> SUFFICES ASSUME t \notin tree[q] PROVE FALSE
      OBVIOUS
    <3>1. PICK d \in Cpu : pc[d] \in {"ins_link", "publish"} /\ queue[d] = q
      BY <2>1 DEF Linked
    <3>2. lock[q] = c /\ lock[q] = d
      BY Zenon, <1>14, <2>1, <3>1 DEF Unlink, Locks, Critical
    <3>. QED
      BY Zenon, <1>14, <3>1, <3>2 DEF Unlink
  <2>. QED
    BY ZenonT(30), <1>14, <2>1, <2>2, SizesRemove DEF Unlink
<1>15. ASSUME NEW c \in Cpu, LoopExpires(c)
      PROVE  Sizes'
  BY Zenon, <1>15 DEF LoopExpires, Sizes
<1>16. ASSUME NEW c \in Cpu, WaitHolds(c)
      PROVE  Sizes'
  BY Zenon, <1>16 DEF WaitHolds, Sizes
<1>17. ASSUME NEW c \in Cpu, NEW q \in Queue, NEW v \in Vtime \cup {FIFO},
             Requeue(c, q, v)
      PROVE  Sizes'
  BY Zenon, <1>17 DEF Requeue, Sizes
<1>18. ASSUME NEW c \in Cpu, NEW t \in Task, NEW q \in Queue, NEW v \in Vtime \cup {FIFO},
             CallInsert(c, t, q, v)
      PROVE  Sizes'
  BY Zenon, <1>18 DEF CallInsert, Callback, Sizes
<1>19. ASSUME NEW c \in Cpu, NEW t \in Task, NEW o \in {"fini", "move", "detach"},
             CallUnlink(c, t, o)
      PROVE  Sizes'
  BY Zenon, <1>19 DEF CallUnlink, Callback, Sizes
<1>20. ASSUME NEW c \in Cpu, NEW q \in Queue, CallPop(c, q)
      PROVE  Sizes'
  BY SMTT(30), <1>20 DEF CallPop, Sizes
<1>21. ASSUME NEW t \in Task, TaskInit(t)
      PROVE  Sizes'
  BY <1>21 DEF TaskInit, Sizes
<1>22. CASE UNCHANGED vars
  BY Zenon, <1>22 DEF vars, TypeOK, Sizes
<1>23. QED
  BY Zenon, <1>1, <1>2, <1>3, <1>4, <1>5, <1>6, <1>7, <1>8, <1>9, <1>10, <1>11,
      <1>12, <1>13, <1>14, <1>15, <1>16, <1>17, <1>18, <1>19, <1>20, <1>21,
      <1>22
  DEF Next, Step, Call

\* No step revives a dead context that has not been freed.
LEMMA DeadStays ==
  TypeOK /\ Locals /\ Nodes /\ [Next]_vars => \A x \in Task : atq[x] = DEAD /\ x \notin freed => atq'[x] = DEAD
<1> SUFFICES ASSUME TypeOK /\ Locals /\ Nodes, [Next]_vars PROVE \A x \in Task : atq[x] = DEAD /\ x \notin freed => atq'[x] = DEAD
  BY SMTT(30)
<1>1. ASSUME NEW c \in Cpu, InsertLock(c)
      PROVE  \A x \in Task : atq[x] = DEAD /\ x \notin freed => atq'[x] = DEAD
  BY <1>1 DEF InsertLock, TypeOK
<1>2. ASSUME NEW c \in Cpu, InsertRefused(c)
      PROVE  \A x \in Task : atq[x] = DEAD /\ x \notin freed => atq'[x] = DEAD
  BY ZenonT(30), <1>2 DEF InsertRefused, TypeOK
<1>3. ASSUME NEW c \in Cpu, InsertClaim(c)
      PROVE  \A x \in Task : atq[x] = DEAD /\ x \notin freed => atq'[x] = DEAD
  BY SMTT(30), <1>3, AtqConstants DEF InsertClaim, TypeOK, Locals
<1>4. ASSUME NEW c \in Cpu, InsertLink(c)
      PROVE  \A x \in Task : atq[x] = DEAD /\ x \notin freed => atq'[x] = DEAD
  BY <1>4, AtqConstants DEF InsertLink, TypeOK, Locals, Nodes
<1>5. ASSUME NEW c \in Cpu, PopLock(c)
      PROVE  \A x \in Task : atq[x] = DEAD /\ x \notin freed => atq'[x] = DEAD
  BY Zenon, <1>5 DEF PopLock, TypeOK
<1>6. ASSUME NEW c \in Cpu, PopEmpty(c)
      PROVE  \A x \in Task : atq[x] = DEAD /\ x \notin freed => atq'[x] = DEAD
  BY Zenon, <1>6 DEF PopEmpty, TypeOK
<1>7. ASSUME NEW c \in Cpu, PopTake(c)
      PROVE  \A x \in Task : atq[x] = DEAD /\ x \notin freed => atq'[x] = DEAD
  BY SMTT(30), <1>7 DEF PopTake, TypeOK
<1>8. ASSUME NEW c \in Cpu, Publish(c)
      PROVE  \A x \in Task : atq[x] = DEAD /\ x \notin freed => atq'[x] = DEAD
  BY <1>8, AtqConstants DEF Publish, TypeOK, Locals, Nodes
<1>9. ASSUME NEW c \in Cpu, Drop(c)
      PROVE  \A x \in Task : atq[x] = DEAD /\ x \notin freed => atq'[x] = DEAD
  BY Zenon, <1>9 DEF Drop, TypeOK
<1>10. ASSUME NEW c \in Cpu, ReadAtq(c)
      PROVE  \A x \in Task : atq[x] = DEAD /\ x \notin freed => atq'[x] = DEAD
  BY SMTT(30), <1>10 DEF ReadAtq, TypeOK
<1>11. ASSUME NEW c \in Cpu, Latch(c)
      PROVE  \A x \in Task : atq[x] = DEAD /\ x \notin freed => atq'[x] = DEAD
  BY SMTT(30), <1>11, AtqConstants DEF Latch, TypeOK, Locals
<1>12. ASSUME NEW c \in Cpu, UnlinkLock(c)
      PROVE  \A x \in Task : atq[x] = DEAD /\ x \notin freed => atq'[x] = DEAD
  BY <1>12 DEF UnlinkLock, TypeOK
<1>13. ASSUME NEW c \in Cpu, UnlinkRetry(c)
      PROVE  \A x \in Task : atq[x] = DEAD /\ x \notin freed => atq'[x] = DEAD
  BY Zenon, <1>13 DEF UnlinkRetry, TypeOK
<1>14. ASSUME NEW c \in Cpu, Unlink(c)
      PROVE  \A x \in Task : atq[x] = DEAD /\ x \notin freed => atq'[x] = DEAD
  BY Zenon, <1>14 DEF Unlink, TypeOK
<1>15. ASSUME NEW c \in Cpu, LoopExpires(c)
      PROVE  \A x \in Task : atq[x] = DEAD /\ x \notin freed => atq'[x] = DEAD
  BY SMTT(30), <1>15 DEF LoopExpires, TypeOK
<1>16. ASSUME NEW c \in Cpu, WaitHolds(c)
      PROVE  \A x \in Task : atq[x] = DEAD /\ x \notin freed => atq'[x] = DEAD
  BY <1>16 DEF WaitHolds, TypeOK
<1>17. ASSUME NEW c \in Cpu, NEW q \in Queue, NEW v \in Vtime \cup {FIFO},
             Requeue(c, q, v)
      PROVE  \A x \in Task : atq[x] = DEAD /\ x \notin freed => atq'[x] = DEAD
  BY Zenon, <1>17 DEF Requeue, TypeOK
<1>18. ASSUME NEW c \in Cpu, NEW t \in Task, NEW q \in Queue, NEW v \in Vtime \cup {FIFO},
             CallInsert(c, t, q, v)
      PROVE  \A x \in Task : atq[x] = DEAD /\ x \notin freed => atq'[x] = DEAD
  BY SMTT(30), <1>18 DEF CallInsert, Callback, TypeOK
<1>19. ASSUME NEW c \in Cpu, NEW t \in Task, NEW o \in {"fini", "move", "detach"},
             CallUnlink(c, t, o)
      PROVE  \A x \in Task : atq[x] = DEAD /\ x \notin freed => atq'[x] = DEAD
  BY <1>19 DEF CallUnlink, Callback, TypeOK
<1>20. ASSUME NEW c \in Cpu, NEW q \in Queue, CallPop(c, q)
      PROVE  \A x \in Task : atq[x] = DEAD /\ x \notin freed => atq'[x] = DEAD
  BY Zenon, <1>20 DEF CallPop, TypeOK
<1>21. ASSUME NEW u \in Task, TaskInit(u)
      PROVE  \A x \in Task : atq[x] = DEAD /\ x \notin freed => atq'[x] = DEAD
  BY SMTT(30), <1>21 DEF TaskInit, TypeOK
<1>22. CASE UNCHANGED vars
  BY <1>22 DEF vars, TypeOK
<1>23. QED
  BY ZenonT(30), <1>1, <1>2, <1>3, <1>4, <1>5, <1>6, <1>7, <1>8, <1>9, <1>10, <1>11,
      <1>12, <1>13, <1>14, <1>15, <1>16, <1>17, <1>18, <1>19, <1>20, <1>21,
      <1>22
  DEF Next, Step, Call

-----------------------------------------------------------------------------
(* Theorems *)

\* Init establishes the whole invariant.
LEMMA InitInv == Init => FullInv
<1> SUFFICES ASSUME Init PROVE FullInv
  BY SMTT(30)
<1>1. TypeOK /\ Locals /\ Locks /\ Callbacks
  BY AtqConstants DEF Init, TypeOK, Label, Op, Locals, Locks, Critical, Callbacks
<1>2. Nodes /\ Linked /\ Dead
  BY Zenon, AtqConstants DEF Init, Nodes, Linked, Dead
<1>3. \A t \in Task : {c \in Cpu : Pins(c, t)} = {}
  BY Zenon DEF Init, Pins
<1>4. HoldsCounted
  BY SMTT(30), <1>3, FS_EmptySet DEF Init, HoldsCounted
<1>5. Sizes
  BY Zenon, FS_EmptySet DEF Init, Sizes
<1>6. Room
  BY AtqConstants DEF Init, Room
<1>7. Keys
  BY Zenon, AtqConstants DEF Init, Keys, FifoKeysFresh
<1>. QED
  BY <1>1, <1>2, <1>4, <1>5, <1>6, <1>7 DEF FullInv, IInv

\* The variables keep their types, whatever loop runs out of its budget.
THEOREM TypeCorrect == Spec => []TypeOK
<1>1. Init => TypeOK /\ Locals
  BY Zenon, InitInv DEF FullInv, IInv
<1>2. TypeOK /\ Locals /\ [Next]_vars => (TypeOK /\ Locals)'
  BY Zenon, TypeStep, LocalsStep
<1>. QED
  BY <1>1, <1>2, PTL DEF Spec

\* The inductive invariant, when a detach never gives up early.
THEOREM Invariant ==
  ASSUME DetachWaits
  PROVE  Spec => []FullInv
<1>1. FullInv /\ [Next]_vars => FullInv'
  <2> SUFFICES ASSUME FullInv, [Next]_vars PROVE FullInv'
    BY Zenon
  <2>1. /\ TypeOK /\ Locals /\ Locks /\ Callbacks /\ Nodes /\ Dead
        /\ HoldsCounted /\ Linked /\ Sizes /\ Room /\ Keys /\ IInv
    BY DEF FullInv, IInv
  <2>2. TypeOK' /\ Locals' /\ Locks' /\ Callbacks'
    BY Zenon, <2>1, TypeStep, LocalsStep, LocksStep, CallbacksStep
  <2>3. Nodes' /\ Linked' /\ Sizes'
    BY <2>1, NodesStep, LinkedStep, SizesStep
  <2>4. Dead' /\ HoldsCounted'
    BY Zenon, <2>1, DeadStep, HoldsStep
  <2>5. Room' /\ Keys'
    BY <2>1, RoomStep, KeysStep
  <2>. QED
    BY <2>2, <2>3, <2>4, <2>5 DEF FullInv, IInv
<1>. QED
  BY InitInv, <1>1, PTL DEF Spec

\* A task is linked in at most one red-black tree.
THEOREM OneTree ==
  ASSUME DetachWaits
  PROVE  Spec => []NodeInOneTree
<1>1. FullInv => NodeInOneTree
  BY Zenon DEF FullInv, IInv, Nodes, NodeInOneTree
<1>. QED
  BY Invariant, <1>1, PTL

\* A context that scx_atq_task_detach let go of is out of every tree and out of
\* the hands of every CPU.
THEOREM SafeToFree ==
  ASSUME DetachWaits
  PROVE  Spec => []NoUseAfterFree
<1>1. FullInv => NoUseAfterFree
  BY AtqConstants DEF FullInv, IInv, TypeOK, Nodes, Dead, NoUseAfterFree
<1>. QED
  BY Invariant, <1>1, PTL

\* taskc->atq, the tree and atq->size agree while the queue is unlocked.
THEOREM Membership ==
  ASSUME DetachWaits
  PROVE  Spec => []MembershipAgrees
<1>1. FullInv => MembershipAgrees
  <2> SUFFICES ASSUME FullInv, NEW q \in Queue, lock[q] = NULL
               PROVE  tree[q] = {t \in Task : atq[t] = q} /\ size[q] = Cardinality(tree[q])
    BY Zenon DEF MembershipAgrees
  <2>1. \A t \in Task : t \in tree[q] => atq[t] = q
    BY Zenon DEF FullInv, IInv, Nodes
  <2>2. \A c \in Cpu : pc[c] \in {"ins_link", "publish"} => queue[c] # q
    BY ZenonT(30), AtqConstants DEF FullInv, IInv, Locks, Critical
  <2>3. \A t \in Task : atq[t] = q => t \in tree[q]
    BY ZenonT(30), <2>2 DEF FullInv, Linked
  <2>. QED
    BY Zenon, <2>1, <2>3 DEF FullInv, IInv, TypeOK, Sizes
<1>. QED
  BY Invariant, <1>1, PTL

\* taskc->holdcnt is the number of CPUs that pin the task.
THEOREM Holds ==
  ASSUME DetachWaits
  PROVE  Spec => []HoldsCounted
<1>1. FullInv => HoldsCounted
  BY DEF FullInv, IInv
<1>. QED
  BY Invariant, <1>1, PTL

\* A bounded queue stays within its capacity.
THEOREM Bounded ==
  ASSUME DetachWaits
  PROVE  Spec => []CapacityRespected
<1>1. FullInv => CapacityRespected
  BY Zenon DEF FullInv, Sizes, Room, CapacityRespected
<1>. QED
  BY Invariant, <1>1, PTL

\* A FIFO queue hands tasks out in insertion order.
THEOREM FifoOrder ==
  ASSUME DetachWaits
  PROVE  Spec => []FifoKeysFresh
<1>1. FullInv => FifoKeysFresh
  BY Zenon DEF FullInv, Keys
<1>. QED
  BY Invariant, <1>1, PTL

\* SCX_ATQ_DEAD is never overwritten before the context is freed.
THEOREM DeadIsFinal ==
  ASSUME DetachWaits
  PROVE  Spec => DeadLatched
<1>1. FullInv /\ [Next]_vars =>
          [\A t \in Task : atq[t] = DEAD /\ t \notin freed => atq'[t] = DEAD]_vars
  BY ZenonT(30), DeadStays DEF FullInv, IInv
<1>. QED
  BY Invariant, <1>1, PTL DEF Spec, DeadLatched
=============================================================================
