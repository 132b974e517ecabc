--------------------------- MODULE CbwTaskProofs ---------------------------
(***************************************************************************)
(* The properties of CbwTask hold for every number of CPUs, tasks, cgroups *)
(* and LLC contexts, and for every batch size.                             *)
(*                                                                         *)
(* The argument.  The root is mapped to RootLlcx for ever, so a put-aside  *)
(* that turns to the root is never refused (Locals).  A put-aside that has *)
(* verified has the lock, and an exit looks under that lock whether the    *)
(* BTQ is empty, after it has taken the map entry away: an LLC context     *)
(* about to be recycled is empty and stays so (Reaped).  Hence a free one  *)
(* is empty (Owners gives the rest of NoTaskStranded).                     *)
(***************************************************************************)
EXTENDS CbwTask, FiniteSetTheorems, TLAPS

Label == {"idle", "lookup", "lock", "verify", "insert", "cancel", "reap", "recycle",
          "check", "pop", "callback"}

\* The variables that the argument is about.
TypeOK ==
    /\ map \in [Ids -> Llcx \cup {NULL}]
    /\ free \subseteq Llcx
    /\ life \in [Cgrp -> {"new", "live", "gone"}]
    /\ btq \in [Llcx -> SUBSET Task]
    /\ lock \in [Llcx -> Cpu \cup {NULL}]
    /\ home \in [Task -> Ids]
    /\ place \in [Task -> {"sched", "btq", "cpu", "lost"}]
    /\ pc \in [Cpu -> Label]
    /\ op \in [Cpu -> {"none", "enqueue", "move", "exit", "drain"}]
    /\ task \in [Cpu -> Task \cup {NULL}]
    /\ cgrp \in [Cpu -> Ids \cup {NULL}]
    /\ llcx \in [Cpu -> Llcx \cup {NULL}]
    /\ doomed \in [Cpu -> Llcx \cup {NULL}]

\* A CPU at one of these labels answers for the task it has in hand.
Answers(c) == pc[c] \in {"lookup", "lock", "verify", "insert", "callback"}

\* What the variables of a CPU hold at each label.  Only an exit or a move
\* bills the root, and the root is always found.
Locals ==
    /\ map[Root] = RootLlcx
    /\ \A c \in Cpu :
        /\ Answers(c) \/ pc[c] = "cancel" => task[c] \in Task
        /\ pc[c] \in {"lookup", "lock", "verify", "insert"} =>
            /\ op[c] \in {"enqueue", "move", "exit"}
            /\ cgrp[c] \in Ids
            /\ op[c] = "exit" => cgrp[c] = Root
        /\ pc[c] \in {"lock", "verify", "insert"} =>
            /\ llcx[c] \in Llcx
            /\ cgrp[c] = Root => llcx[c] = RootLlcx
        /\ pc[c] = "cancel" => op[c] = "move" /\ cgrp[c] \in Ids
        /\ pc[c] \in {"check", "pop", "callback"} => op[c] = "drain" /\ llcx[c] \in Llcx
        /\ pc[c] \in {"reap", "recycle"} => op[c] = "exit" /\ cgrp[c] = Root
        /\ op[c] = "exit" <=> doomed[c] # NULL
        /\ pc[c] = "idle" => op[c] = "none"

\* Who has an LLC context: one cgroup, one exit or the free list.
Owners ==
    /\ \A g \in Cgrp : life[g] = "live" <=> map[g] # NULL
    /\ \A g, h \in Ids : map[g] = map[h] /\ map[g] # NULL => g = h
    /\ \A c, d \in Cpu : doomed[c] = doomed[d] /\ doomed[c] # NULL => c = d
    /\ \A g \in Ids, c \in Cpu : map[g] = doomed[c] => map[g] = NULL
    /\ \A g \in Ids : map[g] \notin free
    /\ \A c \in Cpu : doomed[c] \notin free
    /\ \A x \in Llcx : \/ x \in free
                       \/ \E g \in Ids : map[g] = x
                       \/ \E c \in Cpu : doomed[c] = x

\* Whoever has verified its LLC context has the lock of the BTQ.
Locked == \A c \in Cpu : pc[c] \in {"verify", "insert"} => lock[llcx[c]] = c

\* A verified LLC context is still the billed cgroup's, or its exit has not yet
\* found the BTQ empty; one that is free or about to be recycled is empty.
Reaped ==
    /\ \A c \in Cpu : pc[c] = "insert" =>
        \/ map[cgrp[c]] = llcx[c]
        \/ \E d \in Cpu : doomed[d] = llcx[c] /\ pc[d] # "recycle"
    /\ \A c \in Cpu : pc[c] = "recycle" => btq[doomed[c]] = {}
    /\ \A x \in free : btq[x] = {}

\* A task is where place says.
Placed ==
    \A t \in Task :
        /\ place[t] # "lost"
        /\ place[t] = "btq" <=> \E x \in Llcx : t \in btq[x]
        /\ \A x, y \in Llcx : t \in btq[x] /\ t \in btq[y] => x = y
        /\ place[t] = "cpu" => \E c \in Cpu : task[c] = t /\ Answers(c)

IInv == TypeOK /\ Locals /\ Owners /\ Locked /\ Reaped /\ Placed

\* A handler that returns leaves its CPU's variables in their types.
LEMMA ReturnTypes ==
    ASSUME TypeOK, NEW c \in Cpu, Return(c)
    PROVE  /\ pc' \in [Cpu -> Label]
           /\ op' \in [Cpu -> {"none", "enqueue", "move", "exit", "drain"}]
           /\ task' \in [Cpu -> Task \cup {NULL}]
           /\ cgrp' \in [Cpu -> Ids \cup {NULL}]
           /\ llcx' \in [Cpu -> Llcx \cup {NULL}]
BY Zenon DEF TypeOK, Return, Goto, Label

\* Every step keeps the types.
LEMMA TypeStep == IInv /\ Next => TypeOK'
<1> SUFFICES ASSUME IInv, Next PROVE TypeOK'
    BY Zenon
<1>1. ASSUME NEW g \in Cgrp, Throttle(g) PROVE TypeOK'
    BY Zenon, <1>1 DEF Throttle, IInv, TypeOK, cpus
<1>2. ASSUME NEW g \in Cgrp, NEW x \in Llcx, Manage(g, x) PROVE TypeOK'
    BY Zenon, <1>2 DEF Manage, IInv, TypeOK, cpus
<1>3. ASSUME NEW c \in Cpu, Lookup(c) PROVE TypeOK'
    <2>1. CASE map[cgrp[c]] # NULL
        BY <1>3, <2>1 DEF Lookup, IInv, At, Goto, TypeOK, Label, Locals
    <2>2. CASE map[cgrp[c]] = NULL
        <3>1. cgrp[c] # Root /\ Refused(c)
            BY Zenon, <1>3, <2>2, CbwTaskConstants DEF Lookup, IInv, Locals
        <3>2. CASE op[c] = "enqueue"
            <4>1. Return(c) /\ Released(task[c])
                BY Zenon, <3>1, <3>2 DEF Refused
            <4>2. place' \in [Task -> {"sched", "btq", "cpu", "lost"}]
                BY Zenon, <4>1 DEF Released, Becomes, IInv, TypeOK
            <4> QED BY Zenon, <1>3, <4>1, <4>2, ReturnTypes, CbwTaskConstants
                       DEF Lookup, IInv, TypeOK
        <3>3. CASE op[c] = "move"
            BY <1>3, <3>1, <3>3 DEF Lookup, Refused, IInv, Ids, At, Goto, TypeOK
        <3> QED BY Zenon, <1>3, <3>1, <3>2, <3>3 DEF Lookup, IInv, At, Locals
    <2> QED BY Zenon, <2>1, <2>2
<1>4. ASSUME NEW c \in Cpu, Lock(c) PROVE TypeOK'
    BY Zenon, <1>4 DEF Lock, IInv, Goto, TypeOK, Label
<1>5. ASSUME NEW c \in Cpu, Verify(c) PROVE TypeOK'
    <2>1. CASE map[cgrp[c]] = llcx[c]
        BY <1>5, <2>1 DEF Verify, IInv, Goto, TypeOK, Label
    <2>2. CASE map[cgrp[c]] # llcx[c]
        <3>1. cgrp[c] # Root /\ Refused(c)
            BY Zenon, <1>5, <2>2 DEF Verify, IInv, At, Locals
        <3>2. CASE op[c] = "enqueue"
            <4>1. Return(c) /\ Released(task[c])
                BY Zenon, <3>1, <3>2 DEF Refused
            <4>2. place' \in [Task -> {"sched", "btq", "cpu", "lost"}]
                BY Zenon, <4>1 DEF Released, Becomes, IInv, TypeOK
            <4> QED BY <1>5, <4>1, <4>2, ReturnTypes, CbwTaskConstants DEF Verify, IInv, TypeOK
        <3>3. CASE op[c] = "move"
            BY <1>5, <3>1, <3>3 DEF Verify, Refused, IInv, Ids, Goto, TypeOK, Label
        <3> QED BY Zenon, <1>5, <3>1, <3>2, <3>3 DEF Verify, IInv, At, Locals
    <2> QED BY Zenon, <2>1, <2>2
<1>6. ASSUME NEW c \in Cpu, Insert(c) PROVE TypeOK'
    <2>1. CASE op[c] = "exit"
        BY <1>6, <2>1 DEF Insert, Becomes, BtqOf, IInv, At, Goto, TypeOK, Label, Locals, Answers
    <2>2. CASE op[c] # "exit"
        <3>1. Return(c)
            BY Zenon, <1>6, <2>2 DEF Insert
        <3> QED BY <1>6, <3>1, ReturnTypes
                   DEF Insert, Becomes, BtqOf, IInv, At, TypeOK, Locals, Answers
    <2> QED BY Zenon, <2>1, <2>2
<1>7. ASSUME NEW c \in Cpu, Cancel(c) PROVE TypeOK'
    <2>1. CASE BtqOf(task[c]) = {} /\ Return(c) /\ UNCHANGED <<btq, place>>
        BY Zenon, <1>7, <2>1 DEF Cancel, Return, IInv, Goto, TypeOK, Label
    <2>2. ASSUME NEW x \in BtqOf(task[c]), Remove(task[c], x), Becomes(task[c], "cpu"),
                 cgrp' = [cgrp EXCEPT ![c] = Bill(@)], Goto(c, "lookup"),
                 UNCHANGED <<rq, op, task, llcx, n>>
          PROVE  TypeOK'
        BY <1>7 DEF Cancel, Remove, Becomes, Bill, IInv, Ids, Goto, TypeOK, Label
    <2> QED BY Zenon, <1>7, <2>1, <2>2 DEF Cancel
<1>8. ASSUME NEW c \in Cpu, NEW t \in Task, ReapTask(c, t) PROVE TypeOK'
    BY Zenon, <1>8 DEF ReapTask, Remove, Becomes, IInv, Goto, TypeOK, Label
<1>9. ASSUME NEW c \in Cpu, NEW t \in Task, DrainPop(c, t) PROVE TypeOK'
    BY Zenon, <1>9 DEF DrainPop, Remove, Becomes, IInv, Goto, TypeOK, Label
<1>10. ASSUME NEW c \in Cpu, ReapEmpty(c) PROVE TypeOK'
    BY Zenon, <1>10 DEF ReapEmpty, IInv, Goto, TypeOK, Label
<1>11. ASSUME NEW c \in Cpu, Recycle(c) PROVE TypeOK'
    BY <1>11 DEF Recycle, Return, IInv, At, Goto, TypeOK, Label, Locals
<1>12. ASSUME NEW c \in Cpu, DrainCheck(c) PROVE TypeOK'
    <2>1. CASE Return(c)
        BY Zenon, <1>12, <2>1, ReturnTypes DEF DrainCheck, IInv, TypeOK
    <2>2. CASE Goto(c, "pop") /\ UNCHANGED <<op, task, cgrp, llcx>>
        BY Zenon, <1>12, <2>2 DEF DrainCheck, IInv, Goto, TypeOK, Label
    <2> QED BY Zenon, <1>12, <2>1, <2>2 DEF DrainCheck, IInv
<1>13. ASSUME NEW c \in Cpu, DrainCallback(c) PROVE TypeOK'
    BY Zenon, <1>13 DEF DrainCallback, Released, Becomes, BtqOf, IInv, Goto, TypeOK, Label
<1>14. ASSUME NEW c \in Cpu, DrainEnd(c) PROVE TypeOK'
    BY Zenon, <1>14 DEF DrainEnd, Return, IInv, Goto, TypeOK, Label
<1>15. ASSUME NEW c \in Cpu, NEW t \in Task, Enqueue(c, t) PROVE TypeOK'
    BY <1>15 DEF Enqueue, Becomes, Begin, Bill, IInv, Goto, TypeOK, Label
<1>16. ASSUME NEW c \in Cpu, NEW t \in Task, NEW x \in Llcx, Dequeue(c, t, x) PROVE TypeOK'
    BY Zenon, <1>16 DEF Dequeue, Remove, Becomes, IInv, Ids, TypeOK, cpus
<1>17. ASSUME NEW c \in Cpu, NEW t \in Task, NEW g \in Ids, MoveOnly(c, t, g) PROVE TypeOK'
    BY Zenon, <1>17 DEF MoveOnly, IInv, Ids, TypeOK, cpus
<1>18. ASSUME NEW c \in Cpu, NEW t \in Task, NEW g \in Ids, MoveThrottled(c, t, g) PROVE TypeOK'
    BY Zenon, <1>18 DEF MoveThrottled, Begin, IInv, Goto, TypeOK, Label
<1>19. ASSUME NEW c \in Cpu, NEW g \in Cgrp, Exit(c, g) PROVE TypeOK'
    BY Zenon, <1>19 DEF Exit, Begin, IInv, Ids, Goto, TypeOK, Label
<1>20. ASSUME NEW c \in Cpu, NEW g \in Ids, Drain(c, g) PROVE TypeOK'
    BY <1>20 DEF Drain, Begin, IInv, Goto, TypeOK, Label
<1>21. ASSUME NEW c \in Cpu, Step(c) PROVE TypeOK'
    BY Zenon, <1>21, <1>3, <1>4, <1>5, <1>6, <1>7, <1>8, <1>9, <1>10, <1>11, <1>12, <1>13,
       <1>14
       DEF Step
<1>22. ASSUME NEW c \in Cpu, Call(c) PROVE TypeOK'
    BY Zenon, <1>22, <1>15, <1>16, <1>17, <1>18, <1>19, <1>20 DEF Call
<1> QED BY Zenon, <1>1, <1>2, <1>21, <1>22 DEF Next

\* Every step keeps what a CPU knows at its label.
LEMMA LocalsStep == IInv /\ Next => Locals'
<1> SUFFICES ASSUME IInv, Next PROVE Locals'
    BY Zenon
<1>1. ASSUME NEW g \in Cgrp, Throttle(g) PROVE Locals'
    BY Zenon, <1>1 DEF Throttle, IInv, Locals, Answers, cpus
<1>2. ASSUME NEW g \in Cgrp, NEW x \in Llcx, Manage(g, x) PROVE Locals'
    BY <1>2, CbwTaskConstants DEF Manage, IInv, Locals, Answers, cpus
<1>3. ASSUME NEW c \in Cpu, Lookup(c) PROVE Locals'
    BY <1>3
       DEF Lookup, Refused, Becomes, BtqOf, Return, IInv, Ids, At, Goto, TypeOK, Locals,
           Answers
<1>4. ASSUME NEW c \in Cpu, Lock(c) PROVE Locals'
    BY <1>4 DEF Lock, IInv, At, Goto, Locals, Answers
<1>5. ASSUME NEW c \in Cpu, Verify(c) PROVE Locals'
    BY <1>5
       DEF Verify, Refused, Becomes, BtqOf, Return, IInv, Ids, At, Goto, TypeOK, Locals,
           Answers
<1>6. ASSUME NEW c \in Cpu, Insert(c) PROVE Locals'
    BY <1>6 DEF Insert, Return, IInv, At, Goto, TypeOK, Locals, Answers
<1>7. ASSUME NEW c \in Cpu, Cancel(c) PROVE Locals'
    BY <1>7
       DEF Cancel, Return, Remove, Becomes, Bill, IInv, Ids, At, Goto, TypeOK, Locals, Answers
<1>8. ASSUME NEW c \in Cpu, NEW t \in Task, ReapTask(c, t) PROVE Locals'
    BY <1>8, CbwTaskConstants DEF ReapTask, IInv, At, Goto, TypeOK, Locals, Answers
<1>9. ASSUME NEW c \in Cpu, NEW t \in Task, DrainPop(c, t) PROVE Locals'
    BY <1>9 DEF DrainPop, IInv, At, Goto, TypeOK, Locals, Answers
<1>10. ASSUME NEW c \in Cpu, ReapEmpty(c) PROVE Locals'
    BY <1>10 DEF ReapEmpty, IInv, At, Goto, Locals, Answers
<1>11. ASSUME NEW c \in Cpu, Recycle(c) PROVE Locals'
    BY <1>11 DEF Recycle, Return, IInv, Goto, TypeOK, Locals, Answers
<1>12. ASSUME NEW c \in Cpu, DrainCheck(c) PROVE Locals'
    BY <1>12 DEF DrainCheck, Return, IInv, At, Goto, TypeOK, Locals, Answers
<1>13. ASSUME NEW c \in Cpu, DrainCallback(c) PROVE Locals'
    BY <1>13 DEF DrainCallback, BtqOf, IInv, At, Goto, TypeOK, Locals, Answers
<1>14. ASSUME NEW c \in Cpu, DrainEnd(c) PROVE Locals'
    BY <1>14 DEF DrainEnd, Return, IInv, At, Goto, TypeOK, Locals, Answers
<1>15. ASSUME NEW c \in Cpu, NEW t \in Task, Enqueue(c, t) PROVE Locals'
    BY <1>15 DEF Enqueue, Becomes, Begin, Bill, IInv, At, Goto, TypeOK, Locals, Answers
<1>16. ASSUME NEW c \in Cpu, NEW t \in Task, NEW x \in Llcx, Dequeue(c, t, x) PROVE Locals'
    BY <1>16 DEF Dequeue, IInv, Locals, Answers, cpus
<1>17. ASSUME NEW c \in Cpu, NEW t \in Task, NEW g \in Ids, MoveOnly(c, t, g) PROVE Locals'
    BY <1>17 DEF MoveOnly, IInv, Locals, Answers, cpus
<1>18. ASSUME NEW c \in Cpu, NEW t \in Task, NEW g \in Ids, MoveThrottled(c, t, g) PROVE Locals'
    BY <1>18 DEF MoveThrottled, Begin, IInv, At, Goto, TypeOK, Locals, Answers
<1>19. ASSUME NEW c \in Cpu, NEW g \in Cgrp, Exit(c, g) PROVE Locals'
    <2>1. map[g] # NULL
        BY Zenon, <1>19 DEF Exit, Owners, IInv
    <2> QED BY <1>19, <2>1, CbwTaskConstants
               DEF Exit, Begin, IInv, Goto, TypeOK, Locals, Answers
<1>20. ASSUME NEW c \in Cpu, NEW g \in Ids, Drain(c, g) PROVE Locals'
    BY <1>20 DEF Drain, Begin, IInv, At, Goto, TypeOK, Locals, Answers
<1>21. ASSUME NEW c \in Cpu, Step(c) PROVE Locals'
    BY Zenon, <1>21, <1>3, <1>4, <1>5, <1>6, <1>7, <1>8, <1>9, <1>10, <1>11, <1>12, <1>13,
       <1>14
       DEF Step
<1>22. ASSUME NEW c \in Cpu, Call(c) PROVE Locals'
    BY Zenon, <1>22, <1>15, <1>16, <1>17, <1>18, <1>19, <1>20 DEF Call
<1> QED BY Zenon, <1>1, <1>2, <1>21, <1>22 DEF Next

\* Every step leaves each LLC context with one owner: a cgroup gets it from the
\* free list, its exit has it next, and gives it back.
LEMMA OwnersStep == IInv /\ Next => Owners'
<1> SUFFICES ASSUME IInv, Next PROVE Owners'
    BY Zenon
<1>1. ASSUME NEW g \in Cgrp, NEW x \in Llcx, Manage(g, x) PROVE Owners'
    BY <1>1, CbwTaskConstants DEF Manage, IInv, Ids, TypeOK, Owners, cpus
<1>2. ASSUME NEW c \in Cpu, NEW g \in Cgrp, Exit(c, g) PROVE Owners'
    BY <1>2, CbwTaskConstants DEF Exit, Begin, At, IInv, Ids, TypeOK, Locals, Owners
<1>3. ASSUME NEW c \in Cpu, Recycle(c) PROVE Owners'
    <2>1. doomed[c] \in Llcx
        BY Zenon, <1>3 DEF Recycle, At, IInv, TypeOK, Locals
    <2>2. /\ free' = free \cup {doomed[c]}
          /\ doomed' = [doomed EXCEPT ![c] = NULL]
          /\ UNCHANGED <<map, life>>
        BY Zenon, <1>3 DEF Recycle
    <2> QED BY <2>1, <2>2, CbwTaskConstants DEF IInv, TypeOK, Owners
<1>4. UNCHANGED <<map, free, life, doomed>> => Owners'
    BY DEF IInv, Owners
<1>5. ASSUME NEW c \in Cpu, Step(c), ~Recycle(c) PROVE UNCHANGED <<map, free, life, doomed>>
    BY Zenon, <1>5
       DEF Step, Lookup, Lock, Verify, Insert, Cancel, ReapTask, DrainPop, ReapEmpty,
           DrainCheck, DrainCallback, DrainEnd
<1>6. ASSUME NEW c \in Cpu, Call(c), \A g \in Cgrp : ~Exit(c, g)
      PROVE  UNCHANGED <<map, free, life, doomed>>
    BY Zenon, <1>6 DEF Call, Enqueue, Dequeue, MoveOnly, MoveThrottled, Drain, cpus
<1>7. ASSUME NEW g \in Cgrp, Throttle(g) PROVE UNCHANGED <<map, free, life, doomed>>
    BY Zenon, <1>7 DEF Throttle, cpus
<1> QED BY Zenon, <1>1, <1>2, <1>3, <1>4, <1>5, <1>6, <1>7 DEF Next

\* A step of c after which it has no lock and is not about to recycle, and by which
\* no BTQ gains a task and no LLC context changes hands.
Quiet(c) ==
    /\ pc'[c] \notin {"verify", "insert", "recycle"}
    /\ \A d \in Cpu \ {c} : pc'[d] = pc[d] /\ cgrp'[d] = cgrp[d] /\ llcx'[d] = llcx[d]
    /\ UNCHANGED <<map, free, lock, doomed>>
    /\ \A x \in Llcx : btq'[x] \subseteq btq[x]

\* The steps that are quiet.
LEMMA QuietStep ==
    ASSUME TypeOK, NEW c \in Cpu,
           \/ Lookup(c) \/ Cancel(c) \/ DrainCheck(c) \/ DrainCallback(c) \/ DrainEnd(c)
           \/ \E t \in Task : ReapTask(c, t) \/ DrainPop(c, t) \/ Enqueue(c, t)
           \/ \E t \in Task, x \in Llcx : Dequeue(c, t, x)
           \/ \E t \in Task, g \in Ids : MoveOnly(c, t, g) \/ MoveThrottled(c, t, g)
           \/ \E g \in Ids : Drain(c, g)
    PROVE  Quiet(c)
<1>1. Lookup(c) => Quiet(c)
    BY DEF Lookup, Refused, Return, TypeOK, Quiet, Goto
<1>2. Cancel(c) => Quiet(c)
    BY SMTT(30) DEF Cancel, Return, Remove, TypeOK, Quiet, Goto
<1>3. DrainCheck(c) \/ DrainCallback(c) \/ DrainEnd(c) => Quiet(c)
    BY DEF DrainCheck, DrainCallback, DrainEnd, Return, TypeOK, Quiet, At, Goto
<1>4. ASSUME NEW t \in Task, ReapTask(c, t) \/ DrainPop(c, t) PROVE Quiet(c)
    BY <1>4 DEF ReapTask, DrainPop, Remove, TypeOK, Quiet, Goto
<1>5. ASSUME NEW t \in Task, Enqueue(c, t) PROVE Quiet(c)
    BY Zenon, <1>5 DEF Enqueue, Begin, TypeOK, Quiet, Goto
<1>6. ASSUME NEW t \in Task, NEW x \in Llcx, Dequeue(c, t, x) PROVE Quiet(c)
    BY Zenon, <1>6 DEF Dequeue, Remove, cpus, TypeOK, Quiet, At
<1>7. ASSUME NEW t \in Task, NEW g \in Ids, MoveOnly(c, t, g) \/ MoveThrottled(c, t, g)
      PROVE  Quiet(c)
    BY <1>7 DEF MoveOnly, MoveThrottled, Begin, cpus, TypeOK, Quiet, At, Goto
<1>8. ASSUME NEW g \in Ids, Drain(c, g) PROVE Quiet(c)
    BY <1>8 DEF Drain, Begin, TypeOK, Quiet, Goto
<1> QED BY Zenon, <1>1, <1>2, <1>3, <1>4, <1>5, <1>6, <1>7, <1>8

\* Every step keeps the lock with whoever has verified.
LEMMA LockedStep == IInv /\ Next => Locked'
<1> SUFFICES ASSUME IInv, Next PROVE Locked'
    BY Zenon
<1>1. ASSUME NEW c \in Cpu, Quiet(c) PROVE Locked'
    BY Zenon, <1>1 DEF IInv, Quiet, Locked
<1>2. ASSUME NEW g \in Cgrp, Throttle(g) \/ (\E x \in Llcx : Manage(g, x)) PROVE Locked'
    BY Zenon, <1>2 DEF Throttle, Manage, IInv, Locked, cpus
<1>3. ASSUME NEW c \in Cpu, Lock(c) PROVE Locked'
    BY <1>3, CbwTaskConstants DEF Lock, At, Goto, IInv, TypeOK, Locals, Locked
<1>4. ASSUME NEW c \in Cpu, Verify(c) PROVE Locked'
    <2>1. CASE map[cgrp[c]] = llcx[c]
        BY Zenon, <1>4, <2>1 DEF Verify, At, Goto, IInv, TypeOK, Locked
    <2>2. CASE map[cgrp[c]] # llcx[c]
        <3>1. /\ lock' = [lock EXCEPT ![llcx[c]] = NULL] /\ lock[llcx[c]] = c
              /\ pc'[c] \in {"idle", "lookup", "reap"}
              /\ \A d \in Cpu \ {c} : pc'[d] = pc[d] /\ llcx'[d] = llcx[d]
            BY <1>4, <2>2 DEF Verify, Refused, Return, At, Goto, IInv, TypeOK, Locked
        <3> QED BY <3>1 DEF IInv, Locked
    <2> QED BY Zenon, <2>1, <2>2
<1>5. ASSUME NEW c \in Cpu, Insert(c) PROVE Locked'
    BY <1>5 DEF Insert, Return, At, Goto, IInv, TypeOK, Locked
<1>6. ASSUME NEW c \in Cpu, ReapEmpty(c) \/ Recycle(c) \/ (\E g \in Cgrp : Exit(c, g))
      PROVE  Locked'
    BY <1>6 DEF ReapEmpty, Recycle, Exit, Begin, Return, Goto, IInv, TypeOK, Locked
<1>7. TypeOK
    BY Zenon DEF IInv
<1> QED BY Zenon, <1>1, <1>2, <1>3, <1>4, <1>5, <1>6, <1>7, QuietStep DEF Next, Step, Call

\* Every step keeps what is free or about to be recycled empty: an exit that finds
\* the BTQ empty has the lock to itself, and nobody can verify after it has taken
\* the map entry away.
LEMMA ReapedStep == IInv /\ Next => Reaped'
<1> SUFFICES ASSUME IInv, Next PROVE Reaped'
    BY Zenon
<1>9. \A d \in Cpu : pc[d] = "recycle" => doomed[d] \in Llcx
    BY Zenon DEF IInv, TypeOK, Locals
<1>1. ASSUME NEW c \in Cpu, Quiet(c) PROVE Reaped'
    <2>1. ASSUME NEW d \in Cpu, pc'[d] = "insert" PROVE
              \/ map'[cgrp'[d]] = llcx'[d]
              \/ \E e \in Cpu : doomed'[e] = llcx'[d] /\ pc'[e] # "recycle"
        BY <1>1, <2>1 DEF Quiet, Reaped, IInv
    <2>2. ASSUME NEW d \in Cpu, pc'[d] = "recycle" PROVE btq'[doomed'[d]] = {}
        BY <1>9, <1>1, <2>2 DEF Quiet, Reaped, IInv
    <2>3. ASSUME NEW x \in free' PROVE btq'[x] = {}
        BY Zenon, <1>1 DEF Quiet, Reaped, TypeOK, IInv
    <2> QED BY Zenon, <2>1, <2>2, <2>3 DEF Reaped
<1>2. ASSUME NEW g \in Cgrp, Throttle(g) PROVE Reaped'
    BY Zenon, <1>2 DEF Throttle, Reaped, cpus, IInv
<1>3. ASSUME NEW g \in Cgrp, NEW x \in Llcx, Manage(g, x) PROVE Reaped'
    <2>1. map[g] = NULL /\ map' = [map EXCEPT ![g] = x] /\ free' = free \ {x}
          /\ UNCHANGED <<btq, pc, cgrp, llcx, doomed>>
        BY Zenon, <1>3 DEF Manage, Owners, cpus, IInv
    <2> QED BY <2>1, CbwTaskConstants DEF Locals, Reaped, IInv
<1>4. ASSUME NEW c \in Cpu, Verify(c) PROVE Reaped'
    <2>1. CASE map[cgrp[c]] = llcx[c]
        <3>1. pc[c] = "verify" /\ pc' = [pc EXCEPT ![c] = "insert"]
              /\ UNCHANGED <<map, free, btq, cgrp, llcx, doomed>>
            BY Zenon, <1>4, <2>1 DEF Verify, At, Goto
        <3> QED BY <2>1, <3>1 DEF Reaped, IInv
    <2>2. CASE map[cgrp[c]] # llcx[c]
        <3>1. /\ pc'[c] \in {"idle", "lookup", "reap"}
              /\ \A d \in Cpu \ {c} : pc'[d] = pc[d] /\ cgrp'[d] = cgrp[d] /\ llcx'[d] = llcx[d]
              /\ UNCHANGED <<map, free, btq, doomed>>
            BY <1>4, <2>2 DEF Verify, Refused, Return, TypeOK, Goto, IInv
        <3> QED BY <3>1 DEF Reaped, IInv
    <2> QED BY Zenon, <2>1, <2>2
<1>5. ASSUME NEW c \in Cpu, Insert(c) PROVE Reaped'
    <2> DEFINE x == llcx[c]
    <2>1. /\ pc[c] = "insert" /\ x \in Llcx /\ cgrp[c] \in Ids
          /\ \A y \in Llcx \ {x} : btq'[y] = btq[y]
          /\ UNCHANGED <<map, free, doomed>>
        BY <1>5 DEF Insert, At, Locals, IInv
    <2>2. /\ pc'[c] \in {"idle", "reap"}
          /\ \A d \in Cpu \ {c} : pc'[d] = pc[d] /\ cgrp'[d] = cgrp[d] /\ llcx'[d] = llcx[d]
        BY <1>5 DEF Insert, Return, TypeOK, Goto, IInv
    <2>3. \/ map[cgrp[c]] = x
          \/ \E d \in Cpu : doomed[d] = x /\ pc[d] # "recycle"
        BY Zenon, <2>1 DEF Reaped, IInv
    <2>4. x \notin free /\ x # NULL
        BY Zenon, <2>1, <2>3, CbwTaskConstants DEF Owners, IInv
    <2>5. \A d \in Cpu : pc[d] = "recycle" => doomed[d] # x
        BY <2>1, <2>3, <2>4 DEF Owners, IInv
    <2>6. ASSUME NEW d \in Cpu, pc'[d] = "insert" PROVE
              \/ map'[cgrp'[d]] = llcx'[d]
              \/ \E e \in Cpu : doomed'[e] = llcx'[d] /\ pc'[e] # "recycle"
        BY <2>1, <2>2, <2>6 DEF Reaped, IInv
    <2>7. ASSUME NEW d \in Cpu, pc'[d] = "recycle" PROVE btq'[doomed'[d]] = {}
        BY <1>9, <2>1, <2>2, <2>5, <2>7 DEF Reaped, IInv
    <2>8. ASSUME NEW y \in free' PROVE btq'[y] = {}
        BY <2>1, <2>4 DEF Reaped, TypeOK, IInv
    <2> QED BY Zenon, <2>6, <2>7, <2>8 DEF Reaped
<1>6. ASSUME NEW c \in Cpu, ReapEmpty(c) PROVE Reaped'
    <2>1. /\ pc' = [pc EXCEPT ![c] = "recycle"]
          /\ btq[doomed[c]] = {} /\ lock[doomed[c]] = NULL
          /\ UNCHANGED <<map, free, btq, cgrp, llcx, doomed>>
        BY Zenon, <1>6 DEF ReapEmpty, Goto
    <2>2. \A d \in Cpu : pc[d] = "insert" => llcx[d] # doomed[c]
        BY Zenon, <2>1, CbwTaskConstants DEF Locked, IInv
    <2> QED BY <2>1, <2>2 DEF Reaped, IInv
<1>7. ASSUME NEW c \in Cpu, Recycle(c) PROVE Reaped'
    <2>1. /\ pc[c] = "recycle" /\ pc' = [pc EXCEPT ![c] = "idle"]
          /\ \A d \in Cpu \ {c} : cgrp'[d] = cgrp[d] /\ llcx'[d] = llcx[d]
          /\ free' = free \cup {doomed[c]}
          /\ doomed' = [doomed EXCEPT ![c] = NULL]
          /\ UNCHANGED <<map, btq>>
        BY Zenon, <1>7 DEF Recycle, Return, TypeOK, At, Goto, IInv
    <2> QED BY <2>1 DEF TypeOK, Reaped, IInv
<1>8. ASSUME NEW c \in Cpu, NEW g \in Cgrp, Exit(c, g) PROVE Reaped'
    <2>1. /\ pc[c] = "idle" /\ pc' = [pc EXCEPT ![c] = "reap"]
          /\ \A d \in Cpu \ {c} : cgrp'[d] = cgrp[d] /\ llcx'[d] = llcx[d]
          /\ map' = [map EXCEPT ![g] = NULL]
          /\ doomed' = [doomed EXCEPT ![c] = map[g]]
          /\ UNCHANGED <<free, btq>>
        BY Zenon, <1>8 DEF Exit, Begin, TypeOK, At, Goto, IInv
    <2>2. doomed[c] = NULL
        BY Zenon, <2>1 DEF Locals, IInv
    <2> QED BY <2>1 DEF TypeOK, Locals, Reaped, IInv
<1>10. ASSUME NEW c \in Cpu, Lock(c) PROVE Reaped'
    <2>1. /\ pc' = [pc EXCEPT ![c] = "verify"]
          /\ UNCHANGED <<map, free, btq, cgrp, llcx, doomed>>
        BY Zenon, <1>10 DEF Lock, Goto
    <2>2. \A d \in Cpu : pc'[d] = IF d = c THEN "verify" ELSE pc[d]
        BY Zenon, <2>1 DEF TypeOK, IInv
    <2>3. \A d \in Cpu : (pc'[d] = "insert" => pc[d] = "insert")
                         /\ (pc'[d] = "recycle" => pc[d] = "recycle")
        BY <2>2
    <2>4. \A d \in Cpu : pc[d] # "recycle" => pc'[d] # "recycle"
        BY <2>2
    <2> QED BY Zenon, <2>1, <2>3, <2>4 DEF IInv, Reaped
<1>11. TypeOK
    BY Zenon DEF IInv
<1> QED BY Zenon, <1>1, <1>2, <1>3, <1>4, <1>5, <1>6, <1>7, <1>8, <1>10, <1>11, QuietStep
           DEF Next, Step, Call

\* The CPUs other than c go on answering for the tasks they have in hand.
Others(c) == \A d \in Cpu \ {c} : Answers(d) => Answers(d)' /\ task'[d] = task[d]

\* A step that moves no task.
LEMMA Kept ==
    ASSUME Placed, UNCHANGED <<place, btq>>,
           \A d \in Cpu : Answers(d) => Answers(d)' /\ task'[d] = task[d]
    PROVE  Placed'
BY Zenon DEF Placed

\* A CPU takes a task out of a BTQ.
LEMMA Taken ==
    ASSUME TypeOK, Placed, NEW c \in Cpu, NEW t \in Task, NEW x \in Llcx, t \in btq[x],
           Remove(t, x), Becomes(t, "cpu"), ~Answers(c), Others(c),
           Answers(c)', task'[c] = t
    PROVE  Placed'
<1>1. \A s \in Task \ {t} : place'[s] = place[s]
      /\ \A y \in Llcx : s \in btq'[y] <=> s \in btq[y]
    BY Zenon DEF TypeOK, Remove, Becomes
<1>2. \A y \in Llcx : t \notin btq'[y]
    BY DEF TypeOK, Placed, Remove
<1>3. place'[t] = "cpu"
    BY Zenon DEF TypeOK, Becomes
<1>4. \A d \in Cpu : Answers(d) => Answers(d)' /\ task'[d] = task[d]
    BY Zenon DEF Others
<1> QED BY <1>1, <1>2, <1>3, <1>4 DEF Placed

\* A CPU gives the task it has in hand to the scheduler, unless another CPU has put
\* it in a BTQ.
LEMMA Given ==
    ASSUME TypeOK, Placed, NEW c \in Cpu, task[c] \in Task, Released(task[c]),
           UNCHANGED btq, Others(c)
    PROVE  Placed'
<1>1. \A s \in Task \ {task[c]} : place'[s] = place[s]
    BY Zenon DEF TypeOK, Released, Becomes
<1>2. place'[task[c]] = IF \E x \in Llcx : task[c] \in btq[x] THEN "btq" ELSE "sched"
    BY Zenon DEF TypeOK, Released, Becomes, BtqOf
<1>3. \A d \in Cpu : Answers(d) /\ task[d] # task[c] => Answers(d)' /\ task'[d] = task[d]
    BY Zenon DEF Others
<1> QED BY <1>1, <1>2, <1>3 DEF Placed

\* A put-aside that is refused gives the task to the scheduler, or turns to the root.
LEMMA RefusedPlaced ==
    ASSUME IInv, NEW c \in Cpu, pc[c] \in {"lookup", "verify"}, cgrp[c] # Root,
           Refused(c), UNCHANGED btq
    PROVE  Placed'
<1>1. task[c] \in Task /\ op[c] \in {"enqueue", "move"}
    BY Zenon DEF IInv, Locals, Answers
<1>2. CASE op[c] = "enqueue"
    <2>1. Released(task[c]) /\ Return(c)
        BY Zenon, <1>2 DEF Refused
    <2>2. Others(c)
        BY Zenon, <2>1 DEF IInv, TypeOK, Return, Goto, Others, Answers
    <2> QED BY Zenon, <1>1, <2>1, <2>2, Given DEF IInv
<1>3. CASE op[c] = "move"
    <2>1. Goto(c, "lookup") /\ UNCHANGED <<place, task>>
        BY Zenon, <1>3 DEF Refused
    <2> QED BY Zenon, <2>1, Kept DEF IInv, TypeOK, Goto, Answers
<1> QED BY Zenon, <1>1, <1>2, <1>3

\* Every step leaves every task in one place.
LEMMA PlacedStep == IInv /\ Next => Placed'
<1> SUFFICES ASSUME IInv, Next PROVE Placed'
    BY Zenon
<1>1. ASSUME UNCHANGED <<place, btq, pc, task>> PROVE Placed'
    BY Zenon, <1>1, Kept DEF Answers, IInv
<1>2. ASSUME NEW c \in Cpu, NEW l, Goto(c, l), UNCHANGED <<place, btq>>, ~Answers(c),
             \A d \in Cpu \ {c} : task'[d] = task[d]
      PROVE  Placed'
    BY Zenon, <1>2, Kept DEF TypeOK, Goto, Answers, IInv
<1>3. ASSUME NEW c \in Cpu, Lookup(c) PROVE Placed'
    <2>1. CASE map[cgrp[c]] # NULL
        BY <1>3, <2>1, Kept DEF Lookup, TypeOK, Goto, Answers, IInv
    <2>2. CASE map[cgrp[c]] = NULL
        BY Zenon, <1>3, <2>2, RefusedPlaced, CbwTaskConstants DEF Lookup, Locals, At, IInv
    <2> QED BY Zenon, <2>1, <2>2
<1>4. ASSUME NEW c \in Cpu, Lock(c) PROVE Placed'
    BY Zenon, <1>4, Kept DEF Lock, TypeOK, Goto, Answers, IInv
<1>5. ASSUME NEW c \in Cpu, Verify(c) PROVE Placed'
    <2>1. CASE map[cgrp[c]] = llcx[c]
        BY <1>5, <2>1, Kept DEF Verify, TypeOK, Goto, Answers, IInv
    <2>2. CASE map[cgrp[c]] # llcx[c]
        BY Zenon, <1>5, <2>2, RefusedPlaced DEF Verify, Locals, At, IInv
    <2> QED BY Zenon, <2>1, <2>2
<1>6. ASSUME NEW c \in Cpu, Insert(c) PROVE Placed'
    <2> DEFINE t == task[c]
    <2>1. t \in Task /\ llcx[c] \in Llcx
        BY Zenon, <1>6 DEF Insert, At, Locals, Answers, IInv
    <2>2. /\ place' = [place EXCEPT ![t] = "btq"]
          /\ btq' = [btq EXCEPT ![llcx[c]] = IF BtqOf(t) = {} THEN @ \cup {t} ELSE @]
        BY Zenon, <1>6 DEF Insert, Becomes
    <2>3. Others(c)
        BY <1>6 DEF Insert, Return, TypeOK, Goto, Others, Answers, IInv
    <2>4. ASSUME NEW s \in Task \ {t} PROVE
              place'[s] = place[s] /\ \A y \in Llcx : s \in btq'[y] <=> s \in btq[y]
        BY Zenon, <2>2 DEF TypeOK, IInv
    <2>5. place'[t] = "btq" /\ \E x \in Llcx : t \in btq'[x]
        BY Zenon, <2>1, <2>2 DEF TypeOK, BtqOf, IInv
    <2>6. \A x, y \in Llcx : t \in btq'[x] /\ t \in btq'[y] => x = y
        BY <2>1, <2>2 DEF BtqOf, Placed, IInv
    <2>7. \A d \in Cpu : Answers(d) /\ task[d] # t => Answers(d)' /\ task'[d] = task[d]
        BY Zenon, <2>3 DEF Others
    <2> HIDE DEF t
    <2>8. ASSUME NEW s \in Task \ {t}, place[s] = "cpu"
          PROVE  \E d \in Cpu : task'[d] = s /\ Answers(d)'
        BY Zenon, <2>7, <2>8 DEF Placed, IInv
    <2>9. \A s \in Task \ {t} :
              /\ place'[s] # "lost"
              /\ place'[s] = "btq" <=> \E x \in Llcx : s \in btq'[x]
              /\ \A x, y \in Llcx : s \in btq'[x] /\ s \in btq'[y] => x = y
        BY <2>4 DEF Placed, IInv
    <2> QED BY <2>4, <2>5, <2>6, <2>8, <2>9 DEF Placed
<1>7. ASSUME NEW c \in Cpu, Cancel(c) PROVE Placed'
    <2>1. CASE Return(c) /\ UNCHANGED <<btq, place>>
        BY Zenon, <1>2, <1>7, <2>1 DEF Cancel, Return, TypeOK, At, Answers, IInv
    <2>2. ASSUME NEW x \in BtqOf(task[c]), Remove(task[c], x), Becomes(task[c], "cpu"),
                 Goto(c, "lookup"), UNCHANGED task
          PROVE  Placed'
        <3>1. task[c] \in Task /\ ~Answers(c)
            BY Zenon, <1>7 DEF Cancel, At, Locals, Answers, IInv
        <3>2. Others(c) /\ Answers(c)'
            BY Zenon, <2>2 DEF TypeOK, Goto, Others, Answers, IInv
        <3> QED BY Zenon, <2>2, <3>1, <3>2, Taken DEF BtqOf, IInv
    <2> QED BY Zenon, <1>7, <2>1, <2>2 DEF Cancel
<1>8. ASSUME NEW c \in Cpu, NEW t \in Task, ReapTask(c, t) PROVE Placed'
    <2>1. /\ doomed[c] \in Llcx /\ ~Answers(c)
          /\ Others(c) /\ Answers(c)' /\ task'[c] = t
        BY <1>8 DEF ReapTask, At, Goto, TypeOK, Locals, Others, Answers, IInv
    <2> QED BY Zenon, <1>8, <2>1, Taken DEF ReapTask, IInv
<1>9. ASSUME NEW c \in Cpu, NEW t \in Task, DrainPop(c, t) PROVE Placed'
    <2>1. /\ llcx[c] \in Llcx /\ ~Answers(c)
          /\ Others(c) /\ Answers(c)' /\ task'[c] = t
        BY <1>9 DEF DrainPop, At, Goto, TypeOK, Locals, Others, Answers, IInv
    <2> QED BY Zenon, <1>9, <2>1, Taken DEF DrainPop, IInv
<1>10. ASSUME NEW c \in Cpu, DrainCallback(c) PROVE Placed'
    <2>1. task[c] \in Task /\ Others(c)
        BY <1>10 DEF DrainCallback, At, Goto, Locals, Others, Answers, IInv
    <2> QED BY Zenon, <1>10, <2>1, Given DEF DrainCallback, IInv
<1>11. ASSUME NEW c \in Cpu, NEW t \in Task, Enqueue(c, t) PROVE Placed'
    <2>1. /\ \A x \in Llcx : t \notin btq[x]
          /\ place' = [place EXCEPT ![t] = "cpu"] /\ UNCHANGED btq
        BY Zenon, <1>11 DEF Enqueue, BtqOf, Becomes
    <2>2. /\ task'[c] = t /\ Answers(c)'
          /\ \A d \in Cpu : Answers(d) => Answers(d)' /\ task'[d] = task[d]
        BY <1>11 DEF Enqueue, Begin, At, Goto, TypeOK, Answers, IInv
    <2>3. place'[t] = "cpu" /\ \A s \in Task \ {t} : place'[s] = place[s]
        BY Zenon, <2>1 DEF TypeOK, IInv
    <2> QED BY <2>1, <2>2 DEF Placed, IInv
<1>12. ASSUME NEW c \in Cpu, NEW t \in Task, NEW x \in Llcx, Dequeue(c, t, x) PROVE Placed'
    <2>1. /\ t \in btq[x]
          /\ btq' = [btq EXCEPT ![x] = @ \ {t}] /\ place' = [place EXCEPT ![t] = "sched"]
          /\ UNCHANGED <<pc, task>>
        BY Zenon, <1>12 DEF Dequeue, Remove, Becomes, cpus
    <2> QED BY <2>1 DEF TypeOK, Placed, Answers, IInv
<1>13. ASSUME NEW c \in Cpu, ReapEmpty(c) \/ Recycle(c) \/ DrainCheck(c) \/ DrainEnd(c)
       PROVE  Placed'
    BY Zenon, <1>2, <1>13
       DEF ReapEmpty, Recycle, DrainCheck, DrainEnd, Return, At, TypeOK, Answers, IInv
<1>14. ASSUME NEW c \in Cpu, NEW t \in Task, NEW g \in Ids, MoveThrottled(c, t, g) PROVE Placed'
    BY Zenon, <1>2, <1>14 DEF MoveThrottled, Begin, At, TypeOK, Answers, IInv
<1>15. ASSUME NEW c \in Cpu, NEW g \in Ids, Drain(c, g) PROVE Placed'
    BY Zenon, <1>2, <1>15 DEF Drain, Begin, At, TypeOK, Answers, IInv
<1>16. ASSUME NEW c \in Cpu, NEW g \in Cgrp, Exit(c, g) PROVE Placed'
    BY Zenon, <1>2, <1>16 DEF Exit, Begin, At, TypeOK, Answers, IInv
<1>17. ASSUME NEW c \in Cpu, NEW t \in Task, NEW g \in Ids, MoveOnly(c, t, g) PROVE Placed'
    BY Zenon, <1>1, <1>17 DEF MoveOnly, cpus
<1>18. ASSUME NEW g \in Cgrp, Throttle(g) \/ (\E x \in Llcx : Manage(g, x)) PROVE Placed'
    BY <1>1, <1>18 DEF Throttle, Manage, cpus
<1> QED BY <1>3, <1>4, <1>5, <1>6, <1>7, <1>8, <1>9, <1>10, <1>11, <1>12, <1>13, <1>14, <1>15,
           <1>16, <1>17, <1>18
           DEF Next, Step, Call

\* The initial state satisfies the invariant.
LEMMA InitInv == Init => IInv
<1> SUFFICES ASSUME Init PROVE IInv
    BY Zenon
<1> USE CbwTaskConstants DEF Init, Ids
<1>1. TypeOK
    BY Zenon DEF TypeOK, Label
<1>2. Locals /\ Locked
    BY Zenon DEF Locals, Answers, Locked
<1>3. Owners
    BY Zenon DEF Owners
<1>4. Reaped /\ Placed
    BY Zenon DEF Reaped, Placed
<1> QED BY ONLY Zenon, <1>1, <1>2, <1>3, <1>4 DEF IInv

\* The inductive invariant: one owner per LLC context, a lock for whoever has
\* verified, empty BTQs where nobody will look, and one place per task.
THEOREM Invariant == Spec => []IInv
<1>1. ASSUME IInv, UNCHANGED vars PROVE IInv'
    <2> USE <1>1 DEF IInv, vars
    <2>1. TypeOK'
        BY Zenon DEF TypeOK
    <2>2. Locals' /\ Locked'
        BY DEF Locals, Answers, Locked
    <2>3. Owners'
        BY Zenon DEF Owners
    <2>4. Reaped' /\ Placed'
        BY DEF Reaped, Placed, Answers
    <2> QED BY ONLY Zenon, <2>1, <2>2, <2>3, <2>4
<1>2. IInv /\ Next => IInv'
    BY Zenon, TypeStep, LocalsStep, OwnersStep, LockedStep, ReapedStep, PlacedStep DEF IInv
<1> QED BY InitInv, <1>1, <1>2, PTL DEF Spec

\* NoTaskStranded: a task put aside is in a BTQ that a drain or a reaping exit
\* visits, whatever exits and is recycled meanwhile.
THEOREM Stranded == Spec => []NoTaskStranded
<1>1. IInv => NoTaskStranded
    BY Zenon DEF IInv, Owners, Reaped, NoTaskStranded
<1> QED BY Invariant, <1>1, PTL

\* NoTaskLost: a task that is drained, moved, dequeued or reaped is with the
\* scheduler, in exactly one BTQ, or with a CPU that has not finished with it.
THEOREM Lost == Spec => []NoTaskLost
<1>1. ASSUME IInv, NEW t \in Task PROVE
          \/ place[t] = "sched" /\ BtqOf(t) = {}
          \/ place[t] = "btq" /\ Cardinality(BtqOf(t)) = 1
          \/ place[t] = "cpu" /\ BtqOf(t) = {} /\ \E c \in Cpu : task[c] = t
    <2>1. CASE place[t] = "btq"
        <3>1. PICK x \in Llcx : t \in btq[x]
            BY Zenon, <1>1, <2>1 DEF IInv, Placed
        <3>2. BtqOf(t) = {x}
            BY <1>1, <3>1 DEF IInv, Placed, BtqOf
        <3>3. Cardinality(BtqOf(t)) = 1
            BY <3>2, FS_Singleton, Zenon
        <3> QED BY Zenon, <2>1, <3>3
    <2>2. CASE place[t] # "btq"
        BY <1>1, <2>2 DEF IInv, TypeOK, Placed, BtqOf
    <2> QED BY Zenon, <2>1, <2>2
<1>2. IInv => NoTaskLost
    BY Zenon, <1>1 DEF NoTaskLost
<1> QED BY Invariant, <1>2, PTL

\* LlcxOwnedOnce: an LLC context is mapped by one cgroup, being reaped by one exit,
\* or free, and never two of these.
THEOREM OwnedOnce == Spec => []LlcxOwnedOnce
<1>1. ASSUME IInv, NEW x \in Llcx PROVE
          Cardinality({g \in Ids : map[g] = x}) + Cardinality({c \in Cpu : doomed[c] = x})
              + (IF x \in free THEN 1 ELSE 0) = 1
    <2> DEFINE G == {g \in Ids : map[g] = x}
               D == {c \in Cpu : doomed[c] = x}
    <2>1. x # NULL
        BY Zenon, CbwTaskConstants
    <2>2. CASE x \in free
        <3>1. G = {} /\ D = {}
            BY <1>1, <2>2 DEF IInv, Owners
        <3>2. Cardinality(G) = 0 /\ Cardinality(D) = 0
            BY <3>1, FS_EmptySet, Zenon
        <3> QED BY <2>2, <3>2
    <2>3. ASSUME NEW g \in Ids, map[g] = x PROVE
              Cardinality(G) + Cardinality(D) + (IF x \in free THEN 1 ELSE 0) = 1
        <3>1. G = {g} /\ D = {} /\ x \notin free
            BY <1>1, <2>1, <2>3 DEF IInv, Owners
        <3>2. Cardinality(G) = 1 /\ Cardinality(D) = 0
            BY <3>1, FS_EmptySet, FS_Singleton, Zenon
        <3> QED BY <3>1, <3>2
    <2>4. ASSUME NEW c \in Cpu, doomed[c] = x PROVE
              Cardinality(G) + Cardinality(D) + (IF x \in free THEN 1 ELSE 0) = 1
        <3>1. G = {} /\ D = {c} /\ x \notin free
            BY <1>1, <2>1, <2>4 DEF IInv, Owners
        <3>2. Cardinality(G) = 0 /\ Cardinality(D) = 1
            BY <3>1, FS_EmptySet, FS_Singleton, Zenon
        <3> QED BY <3>1, <3>2
    <2> QED BY Zenon, <1>1, <2>2, <2>3, <2>4 DEF IInv, Owners
<1>2. IInv => LlcxOwnedOnce
    BY Zenon, <1>1 DEF LlcxOwnedOnce
<1> QED BY Invariant, <1>2, PTL

\* PutAsideIsBilled: between the check of the map under the BTQ lock and the
\* insert, the LLC context does not pass to another cgroup.
THEOREM Billed == Spec => []PutAsideIsBilled
<1>1. IInv => PutAsideIsBilled
    BY Zenon DEF IInv, Reaped, PutAsideIsBilled
<1> QED BY Invariant, <1>1, PTL
=============================================================================
