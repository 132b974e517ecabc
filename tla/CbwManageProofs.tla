--------------------------- MODULE CbwManageProofs ---------------------------
(***************************************************************************)
(* Proofs about CbwManage, for any number of CPUs, cgroups, LLCs and       *)
(* creations.  First what each CPU and each cgroup relies on: the types,   *)
(* who works for which cgroup and what the maps hold, and what each step   *)
(* of scx_cgroup_bw_init, set and exit does to the reservations, to what   *)
(* the reserve owes its cgroup and to the slots.  Then the counters are    *)
(* added up.                                                               *)
(*                                                                         *)
(* A cgroup has one handler, or several writes to its cpu.max.  So a step  *)
(* needs to be compared only with the other writes on its own cgroup, and  *)
(* the ...Frame lemmas say that nothing else changes for anybody else.     *)
(*                                                                         *)
(* A write draws its contexts from the reserve, so the reserve has to      *)
(* cover, at every moment, what it still owes: to each live cgroup without *)
(* a context a whole set, less what its write has drawn; and to a cgroup   *)
(* being created the part of its spare that is built.  An init claims only *)
(* above the floor, which is what the pending reservations could ever be   *)
(* owed, so it takes nothing that is owed, unless the floor has risen      *)
(* since it was read and the supply is back at the value it had (stale).   *)
(* Two writes on one cgroup would draw on one reservation twice (raced).   *)
(***************************************************************************)
EXTENDS CbwManage, FiniteSetTheorems, TLAPS

-----------------------------------------------------------------------------
(* Types *)

\* The types of what each CPU has to itself, and of what they share.
CpuTypes ==
    /\ op \in [Proc -> {"none", "init", "set", "exit"}]
    /\ pc \in [Proc -> Label]
    /\ cg \in [Proc -> Cgrp \cup {None}]
    /\ i \in [Proc -> 0..NrLlc + 1]
    /\ f \in [Proc -> Nat]

GlobalTypes ==
    /\ pending \in Int
    /\ free \in [Kind -> Nat]
    /\ nrCgx \in Int
    /\ managed \subseteq Cgrp
    /\ llcs \in [Cgrp -> SUBSET LLC]
    /\ life \in [Cgrp -> {"none", "init", "live", "exit"}]
    /\ inits \in 0..MaxInits

\* What the variables of a CPU hold at each label.
Local(p) ==
    /\ pc[p] = "idle" <=> op[p] = "none"
    /\ pc[p] = "idle" <=> cg[p] = None
    /\ pc[p] \in {"idle", "slot", "take", "raced", "delete"} => i[p] = 0
    /\ pc[p] \in {"llc", "exists", "publish", "release", "count"} => i[p] # 0
    /\ i[p] <= NrLlc
    /\ pc[p] = "publish" => i[p] = NrLlc
    /\ pc[p] \in {"spare", "fresh"} => op[p] = "init"
    /\ pc[p] = "delete" => op[p] = "exit"
    /\ op[p] = "exit" => pc[p] \in {"delete", "recycle", "uncount", "release", "count"}
    /\ pc[p] = "cas" => f[p] > 0

\* A step of p leaves the other CPUs where they are.
Others(p) ==
    \A q \in Proc \ {p} : /\ op'[q] = op[q] /\ pc'[q] = pc[q] /\ cg'[q] = cg[q]
                          /\ i'[q] = i[q] /\ f'[q] = f[q]

\* An LLC is below the last one or it is the last one.
LEMMA BelowOrLast ==
    ASSUME NEW N \in Nat, NEW n \in 0..N PROVE n < N \/ n = N
    BY SMT

\* A CPU that goes on, begins or returns keeps the types, and moves no other CPU.
LEMMA GotoCpu ==
    ASSUME CpuTypes, NEW p \in Proc, NEW l \in Label, Goto(p, l)
    PROVE  CpuTypes' /\ Others(p) /\ pc'[p] = l /\ UNCHANGED <<op, cg, i, f>>
BY Zenon DEF CpuTypes, Goto, Others

\* The same when it also sets the LLC index.
LEMMA GotoForCpu ==
    ASSUME CpuTypes, NEW p \in Proc, NEW l \in Label, NEW n \in 0..NrLlc + 1, GotoFor(p, l, n)
    PROVE  CpuTypes' /\ Others(p) /\ pc'[p] = l /\ i'[p] = n /\ UNCHANGED <<op, cg>>
<1>1. 0 \in Nat
    BY Zenon
<1> QED BY <1>1, Zenon DEF CpuTypes, GotoFor, Others

\* A handler that returns leaves nothing behind.
LEMMA ReturnCpu ==
    ASSUME CpuTypes, NEW p \in Proc, Return(p)
    PROVE  CpuTypes' /\ Others(p) /\ pc'[p] = "idle" /\ op'[p] = "none" /\ cg'[p] = None
           /\ i'[p] = 0 /\ f'[p] = 0 /\ Local(p)'
<1>1. 0 \in Nat /\ 0 \in 0..NrLlc + 1 /\ "idle" \in Label
    BY CbwManageConstants DEF Label
<1>2. CpuTypes' /\ Others(p) /\ pc'[p] = "idle" /\ op'[p] = "none" /\ cg'[p] = None
      /\ i'[p] = 0 /\ f'[p] = 0
    BY <1>1, Zenon DEF CpuTypes, Return, Others
<1> QED BY <1>2, CbwManageConstants DEF Local

\* A handler starts on an idle CPU.
LEMMA BeginCpu ==
    ASSUME CpuTypes, NEW p \in Proc, NEW o \in {"init", "set", "exit"}, NEW g \in Cgrp,
           NEW l \in Label, Begin(p, o, g, l)
    PROVE  CpuTypes' /\ Others(p) /\ pc[p] = "idle" /\ pc'[p] = l /\ op'[p] = o /\ cg'[p] = g
           /\ UNCHANGED <<i, f>>
BY Zenon DEF CpuTypes, Begin, At, Others

\* The Kind of context that p is at, and the floor it sees.
LEMMA KindFloor ==
    ASSUME GlobalTypes, NEW p \in Proc
    PROVE  KindOf(p) \in Kind /\ Floor(p) \in Nat
<1>1. KindOf(p) \in Kind
    BY Zenon DEF KindOf, Kind
<1>2. Floor(p) \in Nat
    BY CbwManageConstants DEF Floor, GlobalTypes
<1> QED BY Zenon, <1>1, <1>2

\* What a step of p does to the CPUs.
LEMMA StepCpu ==
    ASSUME GlobalTypes, CpuTypes, NEW p \in Proc, Local(p), Step(p)
    PROVE  CpuTypes' /\ Others(p) /\ Local(p)'
<1>1. CASE Return(p)
    BY Zenon, <1>1, ReturnCpu
<1>2. ASSUME NEW l \in Label, Goto(p, l) PROVE CpuTypes' /\ Others(p) /\ UNCHANGED <<op, cg, i, f>> /\ pc'[p] = l
    BY Zenon, <1>2, GotoCpu
<1>0. i[p] \in 0..NrLlc /\ NrLlc \in 0..NrLlc + 1 /\ 1 \in 0..NrLlc /\ i[p] + 1 \in 0..NrLlc + 1 /\ pc[p] \in Label /\ NrLlc \in Nat /\ op[p] \in {"none", "init", "set", "exit"}
      /\ f[p] \in Nat
    BY CbwManageConstants DEF CpuTypes, Local
<1>3. ASSUME BuildSpare(p) PROVE CpuTypes' /\ Others(p) /\ Local(p)'
    BY <1>0, <1>1, <1>2, <1>3, GotoForCpu DEF BuildSpare, At, Local, Label
<1>4. ASSUME SlotCheck(p) PROVE CpuTypes' /\ Others(p) /\ Local(p)'
    BY Zenon, <1>0, <1>1, <1>2, <1>4, GotoForCpu DEF SlotCheck, At, Local, Label
<1>5. ASSUME SlotTake(p) PROVE CpuTypes' /\ Others(p) /\ Local(p)'
    BY Zenon, <1>0, <1>1, <1>2, <1>5, GotoForCpu DEF SlotTake, At, Local, Label
<1>6. ASSUME SlotRaced(p) PROVE CpuTypes' /\ Others(p) /\ Local(p)'
    BY Zenon, <1>0, <1>1, <1>2, <1>6, GotoForCpu DEF SlotRaced, At, Local, Label
<1>7. ASSUME ReadFloor(p) PROVE CpuTypes' /\ Others(p) /\ Local(p)'
    BY <1>0, <1>1, <1>2, <1>7, GotoForCpu, KindFloor DEF ReadFloor, At, Local, Label, Floor
<1>8. ASSUME ClaimCas(p) PROVE CpuTypes' /\ Others(p) /\ Local(p)'
    BY <1>0, <1>1, <1>2, <1>8, GotoForCpu DEF ClaimCas, At, Local, Label, Claimed
<1>9. ASSUME Fresh(p) PROVE CpuTypes' /\ Others(p) /\ Local(p)'
    BY <1>0, <1>1, <1>2, <1>9, GotoForCpu DEF Fresh, At, Local, Label, Claimed
<1>10. ASSUME PublishLlc(p) PROVE CpuTypes' /\ Others(p) /\ Local(p)'
    BY <1>0, <1>1, <1>2, <1>10, GotoForCpu DEF PublishLlc, At, Local, Label
<1>11. ASSUME LlcExists(p) PROVE CpuTypes' /\ Others(p) /\ Local(p)'
    BY Zenon, <1>0, <1>1, <1>2, <1>11, GotoForCpu DEF LlcExists, At, Local, Label
<1>12. ASSUME Lost(p) PROVE CpuTypes' /\ Others(p) /\ Local(p)'
    BY Zenon, <1>0, <1>1, <1>2, <1>12, GotoForCpu DEF Lost, At, Local, Label
<1>13. ASSUME Yield(p) PROVE CpuTypes' /\ Others(p) /\ Local(p)'
    BY Zenon, <1>0, <1>1, <1>2, <1>13, GotoForCpu DEF Yield, At, Local, Label
<1>14. ASSUME Publish(p) PROVE CpuTypes' /\ Others(p) /\ Local(p)'
    BY Zenon, <1>0, <1>1, <1>2, <1>14, GotoForCpu DEF Publish, At, Local, Label
<1>15. ASSUME Unreserve(p) PROVE CpuTypes' /\ Others(p) /\ Local(p)'
    BY Zenon, <1>0, <1>1, <1>2, <1>15, GotoForCpu DEF Unreserve, At, Local, Label
<1>16. ASSUME NoMemory(p) PROVE CpuTypes' /\ Others(p) /\ Local(p)'
    BY <1>0, <1>1, <1>2, <1>16, GotoForCpu DEF NoMemory, At, Local, Label
<1>17. ASSUME Delete(p) PROVE CpuTypes' /\ Others(p) /\ Local(p)'
    BY Zenon, <1>0, <1>1, <1>2, <1>17, GotoForCpu DEF Delete, At, Local, Label
<1>18. ASSUME Recycle(p) PROVE CpuTypes' /\ Others(p) /\ Local(p)'
    BY Zenon, <1>0, <1>1, <1>2, <1>18, GotoForCpu DEF Recycle, At, Local, Label
<1>19. ASSUME Uncount(p) PROVE CpuTypes' /\ Others(p) /\ Local(p)'
    BY <1>0, <1>1, <1>2, <1>19, GotoForCpu DEF Uncount, At, Local, Label
<1>20. ASSUME ReleaseLlc(p) PROVE CpuTypes' /\ Others(p) /\ Local(p)'
    BY Zenon, <1>0, <1>1, <1>2, <1>20, GotoForCpu DEF ReleaseLlc, At, Local, Label
<1>21. ASSUME ReleaseNone(p) PROVE CpuTypes' /\ Others(p) /\ Local(p)'
    BY <1>0, <1>1, <1>2, <1>21, GotoForCpu DEF ReleaseNone, At, Local, Label, NextLlc, LlcsDone
<1>22. ASSUME CountLlc(p) PROVE CpuTypes' /\ Others(p) /\ Local(p)'
    BY <1>0, <1>1, <1>2, <1>22, GotoForCpu DEF CountLlc, At, Local, Label, NextLlc, LlcsDone
<1>23. ASSUME ReadSupply(p) PROVE CpuTypes' /\ Others(p) /\ Local(p)'
    BY Zenon, <1>23, KindFloor DEF ReadSupply, At, Local, CpuTypes, GlobalTypes, Others, Label
<1> QED BY Zenon, <1>3, <1>4, <1>5, <1>6, <1>7, <1>8, <1>9, <1>10, <1>11, <1>12, <1>13, <1>14, <1>15, <1>16, <1>17, <1>18, <1>19, <1>20, <1>21, <1>22, <1>23 DEF Step

\* What a call does to the CPUs.
LEMMA CallCpu ==
    ASSUME CpuTypes, NEW p \in Proc, NEW g \in Cgrp, Local(p), Call(p, g)
    PROVE  CpuTypes' /\ Others(p) /\ Local(p)'
<1>1. ASSUME NEW o \in {"init", "set", "exit"}, NEW l \in Label, Begin(p, o, g, l),
             <<o, l>> \in {<<"init", "spare">>, <<"init", "slot">>, <<"set", "slot">>, <<"exit", "delete">>}
      PROVE  CpuTypes' /\ Others(p) /\ Local(p)'
    <2>1. CpuTypes' /\ Others(p) /\ pc[p] = "idle" /\ pc'[p] = l /\ op'[p] = o /\ cg'[p] = g
          /\ UNCHANGED <<i, f>>
        BY Zenon, <1>1, BeginCpu
    <2> QED BY Zenon, <1>1, <2>1, CbwManageConstants DEF Local
<1>2. CASE ExitUnmanaged(p, g)
    BY <1>2, Zenon DEF ExitUnmanaged, CpuTypes, Others, Local
<1>3. {"spare", "slot", "delete"} \subseteq Label
    BY Zenon DEF Label
<1> QED BY Zenon, <1>1, <1>2, <1>3 DEF Call, InitUnlimited, InitLimited, SetLimit, ExitManaged

\* A CPU that is not idle works for a cgroup.
LEMMA Busy ==
    ASSUME CpuTypes, NEW p \in Proc, Local(p), pc[p] # "idle"
    PROVE  cg[p] \in Cgrp /\ op[p] \in {"init", "set", "exit"}
BY Zenon DEF CpuTypes, Local

\* The supply and the life of a cgroup keep their types.
LEMMA AddTypes ==
    ASSUME GlobalTypes, NEW k \in Kind, Add(k, 1)
    PROVE  free' \in [Kind -> Nat]
BY DEF GlobalTypes, Add

\* What becomes of a cgroup keeps the type of its life.
LEMMA BecomesTypes ==
    ASSUME GlobalTypes, NEW g \in Cgrp, NEW l \in {"none", "init", "live", "exit"}, Becomes(g, l)
    PROVE  life' \in [Cgrp -> {"none", "init", "live", "exit"}]
BY Zenon DEF GlobalTypes, Becomes

\* Every step keeps the types of what the CPUs share.
LEMMA StepGlobal ==
    ASSUME GlobalTypes, CpuTypes, NEW p \in Proc, Local(p), Step(p)
    PROVE  GlobalTypes'
<1>1. pc[p] # "idle" => cg[p] \in Cgrp
    BY Zenon, Busy
<1>2. "cgx" \in Kind /\ "llcx" \in Kind /\ KindOf(p) \in Kind
    BY Zenon, KindFloor DEF Kind
<1>3. ASSUME SlotCheck(p) \/ ReadSupply(p) \/ ReadFloor(p) \/ Fresh(p) \/ NoMemory(p)
      PROVE  GlobalTypes'
    BY Zenon, <1>3 DEF SlotCheck, ReadSupply, ReadFloor, Fresh, NoMemory, global, GlobalTypes
<1>4. ASSUME SlotTake(p) \/ SlotRaced(p) \/ Uncount(p) PROVE GlobalTypes'
    BY <1>4 DEF SlotTake, SlotRaced, Uncount, GlobalTypes
<1>5. ASSUME BuildSpare(p) PROVE GlobalTypes'
    BY Zenon, <1>1, <1>2, <1>5, AddTypes, BecomesTypes DEF BuildSpare, At, GlobalTypes
<1>6. ASSUME ClaimCas(p) PROVE GlobalTypes'
    <2>1. CASE free[KindOf(p)] = f[p]
        BY <1>2, <1>6, <2>1 DEF ClaimCas, At, Add, Local, GlobalTypes
    <2>2. CASE free[KindOf(p)] # f[p]
        BY Zenon, <1>6, <2>2 DEF ClaimCas, GlobalTypes
    <2> QED BY Zenon, <2>1, <2>2
<1>7. ASSUME PublishLlc(p) PROVE GlobalTypes'
    BY <1>1, <1>7 DEF PublishLlc, At, Local, CpuTypes, LLC, GlobalTypes
<1>8. ASSUME ReleaseLlc(p) PROVE GlobalTypes'
    BY Zenon, <1>1, <1>8 DEF ReleaseLlc, At, GlobalTypes
<1>9. ASSUME LlcExists(p) \/ Lost(p) \/ Recycle(p) PROVE GlobalTypes'
    BY Zenon, <1>2, <1>9, AddTypes DEF LlcExists, Lost, Recycle, GlobalTypes
<1>10. ASSUME Publish(p) \/ Delete(p) PROVE GlobalTypes'
    BY Zenon, <1>1, <1>10 DEF Publish, Delete, At, GlobalTypes
<1>11. ASSUME Yield(p) \/ Unreserve(p) PROVE GlobalTypes'
    BY <1>1, <1>11, BecomesTypes DEF Yield, Unreserve, At, GlobalTypes
<1>12. ASSUME ReleaseNone(p) \/ CountLlc(p) PROVE GlobalTypes'
    BY Zenon, <1>1, <1>2, <1>12, AddTypes, BecomesTypes
       DEF ReleaseNone, CountLlc, NextLlc, LlcsDone, At, GlobalTypes
<1> QED BY Zenon, <1>3, <1>4, <1>5, <1>6, <1>7, <1>8, <1>9, <1>10, <1>11, <1>12 DEF Step

\* Every call keeps them too.
LEMMA CallGlobal ==
    ASSUME GlobalTypes, NEW p \in Proc, NEW g \in Cgrp, Call(p, g)
    PROVE  GlobalTypes'
<1>1. CASE InitUnlimited(p, g) \/ InitLimited(p, g)
    BY <1>1, BecomesTypes, CbwManageConstants DEF InitUnlimited, InitLimited, GlobalTypes
<1>2. CASE SetLimit(p, g)
    BY Zenon, <1>2 DEF SetLimit, global, GlobalTypes
<1>3. CASE ExitUnmanaged(p, g) \/ ExitManaged(p, g)
    BY <1>3, BecomesTypes DEF ExitUnmanaged, ExitManaged, GlobalTypes
<1> QED BY Zenon, <1>1, <1>2, <1>3 DEF Call

-----------------------------------------------------------------------------
(* Who works for which cgroup *)

\* What a CPU may rely on about the cgroup it works for.
Live(p) ==
    /\ op[p] = "init" => life[cg[p]] = "init"
    /\ op[p] = "set" => life[cg[p]] = "live"
    /\ op[p] = "exit" => life[cg[p]] = "exit"
    /\ op[p] = "init" /\ pc[p] # "unreserve" => cg[p] \notin managed
    /\ op[p] = "set" /\ pc[p] = "unreserve" => cg[p] \in managed
    /\ op[p] = "exit" => (cg[p] \in managed <=> pc[p] = "delete")
\* Only writes share a cgroup, and every mapped cgroup exists.
Lives ==
    /\ \A p \in Proc : Live(p)
    /\ \A p, q \in Proc : p # q /\ cg[p] = cg[q] /\ cg[p] # None => op[p] = "set"
    /\ \A g \in managed : life[g] # "none"

\* What a step of p for cgroup g may do to the cgroups.
OnlyFor(p, g) ==
    /\ \A h \in Cgrp \ {g} : life'[h] = life[h] /\ (h \in managed' <=> h \in managed)
    /\ cg'[p] \in {g, None}
    /\ \A q \in Proc \ {p} : cg[q] = g =>
           /\ op[q] = "set" /\ op'[p] \in {"set", "none"}
           /\ life'[g] = "live" /\ (g \in managed => g \in managed')
    /\ Live(p)'
    /\ g \in managed' => life'[g] # "none"

\* A CPU goes on with its handler, or returns from it.
Stays(p) == (cg'[p] = cg[p] /\ op'[p] = op[p]) \/ (cg'[p] = None /\ op'[p] = "none")

\* Such a step keeps what every CPU relies on.
LEMMA LivesFrame ==
    ASSUME CpuTypes, CpuTypes', GlobalTypes', NEW p \in Proc, NEW g \in Cgrp, Others(p),
           \A q \in Proc : Local(q), Local(p)', Lives, OnlyFor(p, g)
    PROVE  Lives'
<1>1. ASSUME NEW q \in Proc \ {p} PROVE Live(q)'
    <2>1. op'[q] = op[q] /\ pc'[q] = pc[q] /\ cg'[q] = cg[q]
        BY Zenon DEF Others
    <2>2. CASE cg[q] = g
        BY <2>1, <2>2 DEF OnlyFor, Lives, Live
    <2>3. CASE cg[q] # g /\ cg[q] # None
        <3>1. cg[q] \in Cgrp \ {g}
            BY Zenon, <2>3 DEF CpuTypes
        <3> QED BY <2>1, <3>1 DEF OnlyFor, Lives, Live
    <2>4. CASE cg[q] = None
        BY Zenon, <2>1, <2>4 DEF Local, Live
    <2> QED BY Zenon, <2>2, <2>3, <2>4
<1>2. \A q \in Proc : Live(q)'
    BY Zenon, <1>1 DEF OnlyFor
<1>3. ASSUME NEW q \in Proc, NEW r \in Proc, q # r, cg'[q] = cg'[r], cg'[q] # None
      PROVE  op'[q] = "set"
    <2>1. CASE q # p /\ r # p
        BY <1>3, <2>1, Zenon DEF Lives, Others
    <2>2. CASE q = p
        BY ZenonT(30), <1>3, <2>2 DEF OnlyFor, Others, Local
    <2>3. CASE r = p
        BY <1>3, <2>3 DEF OnlyFor, Others
    <2> QED BY Zenon, <2>1, <2>2, <2>3
<1>4. \A h \in managed' : life'[h] # "none"
    BY Zenon DEF OnlyFor, Lives, GlobalTypes
<1> QED BY <1>2, <1>3, <1>4, Zenon DEF Lives

\* Every step is for the cgroup of its CPU.
LEMMA StepLives ==
    ASSUME CpuTypes, CpuTypes', GlobalTypes, GlobalTypes', NEW p \in Proc, Others(p),
           \A q \in Proc : Local(q), Local(p)', Lives, Step(p)
    PROVE  Lives' /\ OnlyFor(p, cg[p]) /\ Stays(p)
<1> DEFINE g == cg[p]
<1>1. pc[p] # "idle"
    BY Zenon DEF Step, At, BuildSpare, SlotCheck, SlotTake, SlotRaced, ReadSupply, ReadFloor, ClaimCas,
       Fresh, PublishLlc, LlcExists, Lost, Yield, Publish, Unreserve, NoMemory, Delete, Recycle, Uncount,
       ReleaseLlc, ReleaseNone, CountLlc
<1>2. g \in Cgrp /\ op[p] \in {"init", "set", "exit"}
    BY Zenon, <1>1, Busy
<1>3. \A q \in Proc \ {p} : cg[q] = g => op[q] = "set" /\ op[p] = "set"
    BY Zenon, <1>2, CbwManageConstants DEF Lives
<1> DEFINE Keeps ==
        /\ Stays(p)
        /\ \A h \in Cgrp \ {g} : life'[h] = life[h] /\ (h \in managed' <=> h \in managed)
        /\ op[p] = "set" => life'[g] = "live" /\ (g \in managed => g \in managed')
        /\ g \in managed' => life'[g] # "none"
        /\ Live(p)'
<1>4. SUFFICES Keeps
    <2>1. OnlyFor(p, g)
        BY Zenon, <1>2, <1>3, <1>4 DEF OnlyFor, Stays
    <2> QED BY Zenon, <1>2, <1>4, <2>1, LivesFrame
<1>5. Live(p) /\ Local(p) /\ (g \in managed => life[g] # "none")
    BY Zenon DEF Lives
<1> HIDE DEF Keeps
<1>6. ASSUME UNCHANGED <<life, managed, op, cg>>, pc[p] \notin {"unreserve", "delete"},
             pc'[p] # "delete", pc'[p] = "unreserve" => op[p] = "init"
      PROVE  Keeps
    BY Zenon, <1>5, <1>6, <1>2 DEF Keeps, Stays, Live
<1>7. ASSUME Return(p), UNCHANGED managed, NEW l, Becomes(g, l) \/ UNCHANGED life,
             op[p] = "set" => life'[g] = "live", g \in managed => life'[g] # "none"
      PROVE  Keeps
    <2>1. cg'[p] = None /\ op'[p] = "none"
        BY Zenon, <1>7, ReturnCpu
    <2>2. \A h \in Cgrp \ {g} : life'[h] = life[h]
        BY Zenon, <1>7 DEF Becomes, GlobalTypes
    <2> QED BY Zenon, <1>7, <2>1, <2>2 DEF Keeps, Stays, Live
<1>8. \A l : Becomes(g, l) => life'[g] = l
    BY <1>2, Zenon DEF Becomes, GlobalTypes
<1>9. \A l : Goto(p, l) => pc'[p] = l /\ op' = op /\ cg' = cg
    BY Zenon DEF Goto, CpuTypes
<1>20. \A l, k : GotoFor(p, l, k) => pc'[p] = l /\ op' = op /\ cg' = cg
    BY Zenon DEF GotoFor, CpuTypes
<1>10. CASE SlotTake(p) \/ ReadFloor(p)
    BY <1>6, <1>9, <1>20, <1>10 DEF SlotTake, ReadFloor, At, global
<1>11. CASE ReadSupply(p)
    BY Zenon, <1>6, <1>11 DEF ReadSupply, At, global, CpuTypes
<1>12. CASE ClaimCas(p) \/ Fresh(p)
    BY <1>6, <1>9, <1>20, <1>12 DEF ClaimCas, Fresh, Claimed, At, global
<1>13. CASE PublishLlc(p) \/ LlcExists(p) \/ Lost(p)
    BY <1>6, <1>9, <1>20, <1>13 DEF PublishLlc, LlcExists, Lost, At
<1>14. CASE NoMemory(p) \/ Recycle(p) \/ ReleaseLlc(p)
    BY <1>6, <1>9, <1>20, <1>14 DEF NoMemory, Recycle, ReleaseLlc, At, global
<1>15. CASE SlotCheck(p) \/ SlotRaced(p) \/ Uncount(p)
    <2>1. CASE Return(p)
        BY Zenon, <1>5, <1>7, <1>15, <2>1 DEF SlotCheck, SlotRaced, Uncount, global, Live
    <2>2. CASE ~Return(p)
        BY <1>2, <1>6, <1>9, <1>20, <1>15, <2>2 DEF SlotCheck, SlotRaced, Uncount, At, global
    <2> QED BY Zenon, <2>1, <2>2
<1>16. CASE BuildSpare(p)
    BY Zenon, <1>5, <1>6, <1>7, <1>8, <1>9, <1>20, <1>16 DEF BuildSpare, At, Local
<1>17. CASE ReleaseNone(p) \/ CountLlc(p)
    BY <1>5, <1>6, <1>7, <1>8, <1>9, <1>20, <1>17 DEF ReleaseNone, CountLlc, NextLlc, LlcsDone, At, Live
<1>18. CASE Yield(p) \/ Unreserve(p)
    BY Zenon, <1>7, <1>8, <1>18 DEF Yield, Unreserve
<1>19. CASE Publish(p) \/ Delete(p)
    <2>1. pc'[p] \in {"unreserve", "recycle"} /\ UNCHANGED <<op, cg, life>>
        BY Zenon, <1>9, <1>20, <1>19 DEF Publish, Delete
    <2>2. CASE Publish(p)
        <3>1. op[p] # "exit" /\ pc'[p] = "unreserve" /\ managed' = managed \cup {g}
            BY Zenon, <1>5, <1>9, <2>2 DEF Publish, Local, At
        <3>2. life[g] \in {"init", "live"} /\ (op[p] = "set" => life[g] = "live")
              /\ (op[p] = "init" => life[g] = "init")
            BY Zenon, <1>2, <1>5, <3>1 DEF Live
        <3>3. Live(p)'
            BY Zenon, <2>1, <3>1, <3>2 DEF Live
        <3> QED BY Zenon, <2>1, <3>1, <3>2, <3>3 DEF Keeps, Stays
    <2>3. CASE Delete(p)
        BY Zenon, <1>2, <1>5, <2>1, <2>3 DEF Delete, Keeps, Stays, Live, Local, At
    <2> QED BY Zenon, <1>19, <2>2, <2>3
<1> QED BY Zenon, <1>10, <1>11, <1>12, <1>13, <1>14, <1>15, <1>16, <1>17, <1>18, <1>19 DEF Step

\* Every call is for a cgroup that nobody is on, or that other writes are on.
LEMMA CallLives ==
    ASSUME CpuTypes, CpuTypes', GlobalTypes, GlobalTypes', NEW p \in Proc, NEW g \in Cgrp, Others(p),
           \A q \in Proc : Local(q), Local(p)', Lives, Call(p, g)
    PROVE  Lives' /\ OnlyFor(p, g)
<1>1. \A l : Becomes(g, l) => life'[g] = l /\ \A h \in Cgrp \ {g} : life'[h] = life[h]
    BY Zenon DEF Becomes, GlobalTypes
<1>2. \A q \in Proc : cg[q] = g =>
          op[q] \in {"init", "set", "exit"} /\ life[g] = IF op[q] = "set" THEN "live" ELSE op[q]
    BY CbwManageConstants DEF Lives, Live, Local, CpuTypes
<1>3. ASSUME NEW o \in {"init", "set", "exit"}, NEW l \in Label, Begin(p, o, g, l)
      PROVE  pc'[p] = l /\ op'[p] = o /\ cg'[p] = g
    BY Zenon, <1>3, BeginCpu
<1>4. {"spare", "slot", "delete"} \subseteq Label
    BY Zenon DEF Label
<1>5. CASE InitUnlimited(p, g) \/ InitLimited(p, g)
    <2>1. op'[p] = "init" /\ cg'[p] = g /\ pc'[p] \in {"spare", "slot"} /\ life[g] = "none"
          /\ life'[g] = "init" /\ managed' = managed /\ g \notin managed
        BY Zenon, <1>1, <1>3, <1>4, <1>5 DEF InitUnlimited, InitLimited, Lives
    <2>2. OnlyFor(p, g)
        BY Zenon, <1>1, <1>2, <1>5, <2>1 DEF InitUnlimited, InitLimited, OnlyFor, Live
    <2> QED BY Zenon, <2>2, LivesFrame
<1>6. CASE SetLimit(p, g)
    <2>1. op'[p] = "set" /\ cg'[p] = g /\ pc'[p] = "slot" /\ life[g] = "live" /\ UNCHANGED <<life, managed>>
        BY Zenon, <1>3, <1>4, <1>6 DEF SetLimit, global
    <2>2. OnlyFor(p, g)
        BY Zenon, <1>2, <2>1 DEF OnlyFor, Live
    <2> QED BY Zenon, <2>2, LivesFrame
<1>7. CASE ExitUnmanaged(p, g)
    <2>1. op'[p] = "none" /\ cg'[p] = None /\ life'[g] = "none" /\ managed' = managed /\ g \notin managed
        BY Zenon, <1>1, <1>7 DEF ExitUnmanaged, Local, At
    <2>2. OnlyFor(p, g)
        BY Zenon, <1>1, <1>7, <2>1 DEF ExitUnmanaged, NobodyOn, OnlyFor, Live
    <2> QED BY Zenon, <2>2, LivesFrame
<1>8. CASE ExitManaged(p, g)
    <2>1. op'[p] = "exit" /\ cg'[p] = g /\ pc'[p] = "delete" /\ life'[g] = "exit" /\ managed' = managed
          /\ g \in managed
        BY Zenon, <1>1, <1>3, <1>4, <1>8 DEF ExitManaged
    <2>2. OnlyFor(p, g)
        BY Zenon, <1>1, <1>8, <2>1 DEF ExitManaged, NobodyOn, OnlyFor, Live
    <2> QED BY Zenon, <2>2, LivesFrame
<1> QED BY Zenon, <1>5, <1>6, <1>7, <1>8 DEF Call

-----------------------------------------------------------------------------
(* The maps *)

\* p has entered LLC contexts of a cgroup it has not published, up to Upto(p).
Builds(p) ==
    \/ pc[p] \in {"supply", "floor", "cas", "fresh", "llc", "nomem"} /\ i[p] > 1
    \/ pc[p] = "publish"
Upto(p) == IF pc[p] = "publish" THEN i[p] ELSE i[p] - 1
\* p answers for the LLC contexts of a cgroup that is not mapped.
Holds(p) == Builds(p) \/ pc[p] \in {"release", "count"} \/ (op[p] = "exit" /\ pc[p] # "delete")

\* A write never fails, and an init never loses.
NoFail(p) ==
    /\ op[p] = "set" => pc[p] \notin {"nomem", "release", "count", "recycle", "uncount"}
    /\ op[p] = "init" => pc[p] \notin {"exists", "yield"}
\* What is entered so far, and what is still left to take down.
Built(p) == Builds(p) => cg[p] \notin managed /\ llcs[cg[p]] = 1..Upto(p)
Left(p) ==
    /\ pc[p] = "release" => llcs[cg[p]] \subseteq i[p]..NrLlc
    /\ pc[p] = "count" => llcs[cg[p]] \subseteq i[p] + 1..NrLlc
\* Two CPUs on one cgroup never both build, nor both release its reservation.
Clash(p, q) ==
    \/ Builds(p) /\ Builds(q)
    \/ pc[p] = "unreserve" /\ pc[q] = "unreserve"

\* While the reserve suffices: what the maps hold, and who answers for the rest.
Complete ==
    /\ \A p \in Proc : NoFail(p) /\ Built(p) /\ Left(p)
    /\ \A p, q \in Proc : p # q /\ cg[p] = cg[q] => ~Clash(p, q)
    /\ \A g \in managed : llcs[g] = LLC
    /\ \A g \in Cgrp \ managed : llcs[g] # {} => \E p \in Proc : cg[p] = g /\ Holds(p)

\* What a step of p for g has to show.
CompleteFor(p, g) ==
    /\ \A h \in Cgrp \ {g} : llcs'[h] = llcs[h] /\ (h \in managed' <=> h \in managed)
    /\ cg[p] \in {g, None} /\ cg'[p] \in {g, None}
    /\ NoFail(p)' /\ Built(p)' /\ Left(p)'
    /\ \A q \in Proc \ {p} : cg[q] = g => Built(q)' /\ Left(q)' /\ ~Clash(p, q)'
    /\ g \in managed' => llcs'[g] = LLC
    /\ g \notin managed' /\ llcs'[g] # {} => \E q \in Proc : cg'[q] = g /\ Holds(q)'

\* A CPU that does not move is where it was.
LEMMA OtherCpu ==
    ASSUME NEW p \in Proc, NEW q \in Proc \ {p}, Others(p)
    PROVE  /\ op'[q] = op[q] /\ pc'[q] = pc[q] /\ cg'[q] = cg[q] /\ i'[q] = i[q]
           /\ (Builds(q)' <=> Builds(q)) /\ Upto(q)' = Upto(q) /\ (Holds(q)' <=> Holds(q))
           /\ (NoFail(q)' <=> NoFail(q))
<1>1. op'[q] = op[q] /\ pc'[q] = pc[q] /\ cg'[q] = cg[q] /\ i'[q] = i[q]
    BY Zenon DEF Others
<1> QED BY <1>1, Zenon DEF Builds, Upto, Holds, NoFail

\* Whoever builds has entered the first LLC context.
LEMMA NotBegun ==
    ASSUME NEW q \in Proc, Local(q), i[q] \in 0..NrLlc + 1, Built(q), 1 \notin llcs[cg[q]]
    PROVE  ~Builds(q)
BY CbwManageConstants DEF Built, Builds, Upto, Local

\* Such a step keeps the contexts complete.
LEMMA CompleteFrame ==
    ASSUME CpuTypes, CpuTypes', GlobalTypes, GlobalTypes', NEW p \in Proc, NEW g \in Cgrp, Others(p),
           \A q \in Proc : Local(q), Local(p)', Complete, CompleteFor(p, g)
    PROVE  Complete'
<1>1. ASSUME NEW q \in Proc \ {p} PROVE NoFail(q)' /\ Built(q)' /\ Left(q)'
    <2>1. NoFail(q)'
        BY OtherCpu, Zenon DEF Complete
    <2>2. CASE cg[q] = g
        BY <2>1, <2>2, Zenon DEF CompleteFor
    <2>3. CASE cg[q] # g /\ cg[q] # None
        <3>1. cg[q] \in Cgrp \ {g}
            BY <2>3, Zenon DEF CpuTypes
        <3>2. llcs'[cg[q]] = llcs[cg[q]] /\ (cg[q] \in managed' <=> cg[q] \in managed)
            BY <3>1, Zenon DEF CompleteFor
        <3>3. Built(q) /\ Left(q)
            BY Zenon DEF Complete
        <3>4. Built(q)'
            BY <3>2, <3>3, OtherCpu, Zenon DEF Built
        <3>5. Left(q)'
            BY <3>2, <3>3, OtherCpu, Zenon DEF Left
        <3> QED BY Zenon, <2>1, <3>4, <3>5
    <2>4. CASE cg[q] = None
        <3>1. pc[q] = "idle" /\ pc'[q] = pc[q]
            BY <2>4, Zenon DEF Local, Others
        <3> QED BY Zenon, <2>1, <3>1 DEF Built, Left, Builds
    <2> QED BY Zenon, <2>2, <2>3, <2>4
<1>2. \A q \in Proc : NoFail(q)' /\ Built(q)' /\ Left(q)'
    BY <1>1, Zenon DEF CompleteFor
<1>3. ASSUME NEW q \in Proc, NEW r \in Proc, q # r, cg'[q] = cg'[r] PROVE ~Clash(q, r)'
    <2>1. CASE q # p /\ r # p
        <3>1. cg[q] = cg[r] /\ (Clash(q, r)' => Clash(q, r))
            BY <1>3, <2>1, OtherCpu, Zenon DEF Clash
        <3> QED BY <1>3, <3>1, Zenon DEF Complete
    <2>2. ASSUME NEW s \in Proc \ {p}, cg'[s] = cg'[p] PROVE ~Clash(p, s)' /\ ~Clash(s, p)'
        <3>1. CASE cg'[p] = g
            BY <2>2, <3>1, OtherCpu, Zenon DEF CompleteFor, Clash
        <3>2. CASE cg'[p] = None
            <4>1. pc'[p] = "idle"
                BY <3>2, Zenon DEF Local
            <4> QED BY Zenon, <4>1 DEF Clash, Builds
        <3> QED BY <3>1, <3>2, Zenon DEF CompleteFor
    <2> QED BY Zenon, <1>3, <2>1, <2>2
<1>4. \A h \in managed' : llcs'[h] = LLC
    BY Zenon DEF CompleteFor, Complete, GlobalTypes
<1>5. ASSUME NEW h \in Cgrp \ managed', llcs'[h] # {} PROVE \E q \in Proc : cg'[q] = h /\ Holds(q)'
    <2>1. CASE h = g
        BY <1>5, <2>1, Zenon DEF CompleteFor
    <2>2. CASE h # g
        <3>1. PICK q \in Proc : cg[q] = h /\ Holds(q)
            BY <1>5, <2>2, Zenon DEF CompleteFor, Complete
        <3>2. q # p
            BY <3>1, <2>2, <1>5, CbwManageConstants, Zenon DEF CompleteFor
        <3> QED BY <3>1, <3>2, OtherCpu, Zenon
    <2> QED BY Zenon, <2>1, <2>2
<1> QED BY <1>2, <1>3, <1>4, <1>5, Zenon DEF Complete

\* A step that leaves the maps alone.
LEMMA CompleteQuiet ==
    ASSUME CpuTypes, CpuTypes', GlobalTypes, GlobalTypes', NEW p \in Proc, NEW g \in Cgrp, Others(p),
           \A q \in Proc : Local(q), Local(p)', Complete, UNCHANGED <<llcs, managed>>,
           cg[p] \in {g, None}, cg'[p] \in {g, None}, NoFail(p)', Left(p)',
           Builds(p)' => Builds(p) /\ Upto(p)' = Upto(p) /\ cg[p] = g /\ cg'[p] = g,
           pc'[p] = "unreserve" => \A q \in Proc \ {p} : cg[q] # g,
           cg[p] = g /\ Holds(p) => llcs[g] = {} \/ (cg'[p] = g /\ Holds(p)')
    PROVE  Complete'
<1>1. Built(p)'
    BY Zenon DEF Complete, Built
<1>2. ASSUME NEW q \in Proc \ {p}, cg[q] = g PROVE Built(q)' /\ Left(q)' /\ ~Clash(p, q)'
    <2>0. Built(q) /\ Left(q)
        BY Zenon DEF Complete
    <2>1. Built(q)'
        BY <2>0, OtherCpu, Zenon DEF Built
    <2>3. Left(q)'
        BY <2>0, OtherCpu, Zenon DEF Left
    <2>2. Builds(q)' => ~Builds(p)'
        BY <1>2, OtherCpu, Zenon DEF Complete, Clash
    <2> QED BY <1>2, <2>1, <2>2, <2>3, OtherCpu, Zenon DEF Clash
<1>3. ASSUME g \notin managed', llcs'[g] # {} PROVE \E q \in Proc : cg'[q] = g /\ Holds(q)'
    <2>1. PICK q \in Proc : cg[q] = g /\ Holds(q)
        BY <1>3, Zenon DEF Complete
    <2> QED BY <1>3, <2>1, OtherCpu, Zenon
<1>4. CompleteFor(p, g)
    BY <1>1, <1>2, <1>3, Zenon DEF CompleteFor, Complete
<1> QED BY Zenon, <1>4, CompleteFrame

\* Where a CPU goes.
LEMMA Moves ==
    ASSUME CpuTypes, NEW p \in Proc
    PROVE  /\ \A l : Goto(p, l) => pc'[p] = l /\ op' = op /\ cg' = cg /\ i' = i
           /\ \A l, k : GotoFor(p, l, k) => pc'[p] = l /\ op' = op /\ cg' = cg /\ i'[p] = k
BY Zenon DEF Goto, GotoFor, CpuTypes

\* A CPU that takes a step is on a cgroup, which only writes share.
LEMMA Acting ==
    ASSUME CpuTypes, NEW p \in Proc, \A q \in Proc : Local(q), Lives, Step(p)
    PROVE  /\ cg[p] \in Cgrp /\ op[p] \in {"init", "set", "exit"}
           /\ \A q \in Proc \ {p} : cg[q] = cg[p] => op[q] = "set" /\ op[p] = "set"
<1>1. pc[p] # "idle"
    BY Zenon DEF Step, At, BuildSpare, SlotCheck, SlotTake, SlotRaced, ReadSupply, ReadFloor, ClaimCas,
       Fresh, PublishLlc, LlcExists, Lost, Yield, Publish, Unreserve, NoMemory, Delete, Recycle, Uncount,
       ReleaseLlc, ReleaseNone, CountLlc
<1>2. cg[p] \in Cgrp /\ op[p] \in {"init", "set", "exit"}
    BY Zenon, <1>1, Busy
<1>3. \A q \in Proc \ {p} : cg[q] = cg[p] => op[q] = "set" /\ op[p] = "set"
    BY Zenon, <1>2, CbwManageConstants DEF Lives
<1> QED BY Zenon, <1>2, <1>3

\* Nobody but p has anything to do with the LLC contexts of its cgroup.
LEMMA NoneLeft ==
    ASSUME CpuTypes, NEW p \in Proc, \A q \in Proc : Local(q), Lives, Complete, Step(p),
           ~Holds(p), cg[p] \notin managed, \A q \in Proc \ {p} : cg[q] = cg[p] => ~Builds(q)
    PROVE  llcs[cg[p]] = {}
<1>1. SUFFICES ASSUME NEW q \in Proc, cg[q] = cg[p], Holds(q) PROVE FALSE
    BY Acting, Zenon DEF Complete
<1>2. q # p /\ op[q] = "set" /\ NoFail(q) /\ ~Builds(q)
    BY Acting, <1>1, Zenon DEF Complete
<1> QED BY Zenon, <1>1, <1>2 DEF Holds, NoFail

\* A step that leaves the maps alone keeps the contexts complete, unless a write starves.
LEMMA StepQuiet ==
    ASSUME CpuTypes, CpuTypes', GlobalTypes, GlobalTypes', NEW p \in Proc, Others(p),
           \A q \in Proc : Local(q), Local(p)', Lives, Complete, Step(p), ~Starving(p)',
           ~PublishLlc(p), ~Publish(p), ~Delete(p), ~ReleaseLlc(p)
    PROVE  Complete'
<1> DEFINE g == cg[p]
<1>2. g \in Cgrp /\ op[p] \in {"init", "set", "exit"}
    BY Zenon, Acting
<1>3. \A q \in Proc \ {p} : cg[q] = g => op[q] = "set" /\ op[p] = "set"
    BY Zenon, Acting
<1>4. Local(p) /\ Live(p) /\ NoFail(p) /\ Built(p) /\ Left(p) /\ i[p] \in 0..NrLlc + 1
    BY Zenon DEF Lives, Complete, CpuTypes
<1>5. \A l : Goto(p, l) => pc'[p] = l /\ op' = op /\ cg' = cg /\ i' = i
    BY Zenon, Moves
<1>6. \A l, k : GotoFor(p, l, k) => pc'[p] = l /\ op' = op /\ cg' = cg /\ i'[p] = k
    BY Zenon, Moves
<1>7. ASSUME ~Holds(p), g \notin managed, \A q \in Proc \ {p} : cg[q] = g => ~Builds(q)
      PROVE  llcs[g] = {}
    BY Zenon, <1>7, NoneLeft
\* The CPU goes on in a step that leaves the maps alone.
<1>8. ASSUME UNCHANGED <<llcs, managed, op, cg>>, NoFail(p)', Left(p)',
             Builds(p)' => Builds(p) /\ Upto(p)' = Upto(p),
             pc'[p] = "unreserve" => op[p] = "init",
             Holds(p) => llcs[g] = {} \/ Holds(p)'
      PROVE  Complete'
    <2>1. pc'[p] = "unreserve" => \A q \in Proc \ {p} : cg[q] # g
        BY Zenon, <1>3, <1>8
    <2> QED BY Zenon, <1>2, <1>8, <2>1, CompleteQuiet
\* It returns.
<1>9. ASSUME UNCHANGED <<llcs, managed>>, Return(p), Holds(p) => llcs[g] = {}
      PROVE  Complete'
    <2>1. pc'[p] = "idle" /\ cg'[p] = None /\ op'[p] = "none"
        BY Zenon, <1>9, ReturnCpu
    <2>2. ~Builds(p)' /\ NoFail(p)' /\ Left(p)'
        BY Zenon, <2>1 DEF Builds, NoFail, Left
    <2> QED BY Zenon, <1>2, <1>9, <2>1, <2>2, CompleteQuiet
<1>10. CASE SlotTake(p) \/ Lost(p)
    <2>1. pc[p] \in {"take", "exists"} /\ pc'[p] \in {"supply", "raced", "yield"} /\ UNCHANGED <<llcs, managed, op, cg, i>>
          /\ (pc'[p] = "yield" => pc[p] = "exists") /\ (pc'[p] = "supply" => pc[p] = "take")
        BY <1>5, <1>10 DEF SlotTake, Lost, At
    <2> QED BY SMTT(30), <1>4, <1>8, <2>1 DEF Local, NoFail, Left, Builds, Holds
<1>11. CASE ReadSupply(p) \/ ReadFloor(p)
    <2>1. pc[p] \in {"supply", "floor"} /\ pc'[p] \in {"floor", "cas", "fresh", "nomem"}
          /\ UNCHANGED <<llcs, managed, op, cg, i>>
        BY Zenon, <1>5, <1>11 DEF ReadSupply, ReadFloor, At, global, CpuTypes
    <2>2. NoFail(p)'
        BY Zenon, <2>1 DEF NoFail, Starving, At
    <2> QED BY Zenon, <1>8, <2>1, <2>2 DEF Left, Builds, Upto, Holds
<1>12. CASE ClaimCas(p) \/ Fresh(p)
    <2>1. /\ pc[p] \in {"cas", "fresh"} /\ UNCHANGED <<llcs, managed, op, cg>>
          /\ \/ pc'[p] \in {"supply", "llc", "nomem"} /\ i' = i
             \/ pc'[p] = "supply" /\ i[p] = 0 /\ i'[p] = 1
        BY <1>5, <1>6, <1>12 DEF ClaimCas, Fresh, Claimed, At, global
    <2>2. NoFail(p)'
        BY Zenon, <2>1 DEF NoFail, Starving, At
    <2>3. Left(p)' /\ pc'[p] # "unreserve"
        BY Zenon, <2>1 DEF Left
    <2>4. Builds(p)' => Builds(p) /\ Upto(p)' = Upto(p)
        BY SMTT(30), <2>1 DEF Builds, Upto
    <2>5. Holds(p) => Holds(p)'
        BY <1>4, <2>1 DEF Builds, Holds, Local
    <2> QED BY ZenonT(30), <1>8, <2>1, <2>2, <2>3, <2>4, <2>5
<1>13. CASE LlcExists(p)
    <2>1. pc[p] = "llc" /\ pc'[p] = "exists" /\ UNCHANGED <<llcs, managed, op, cg, i>> /\ i[p] \in llcs[g]
        BY Zenon, <1>5, <1>13 DEF LlcExists, At
    <2>2. ~Builds(p)
        BY <1>4, <2>1 DEF Built, Builds, Upto
    <2>3. ~Holds(p)
        BY Zenon, <1>4, <2>1, <2>2 DEF Holds, Local
    <2>4. op[p] # "init"
        BY Zenon, <1>3, <1>4, <1>7, <2>1, <2>3 DEF Live
    <2> QED BY Zenon, <1>8, <2>1, <2>3, <2>4 DEF NoFail, Left, Builds
<1>14. llcs[g] \subseteq 1..NrLlc
    BY Zenon, <1>2 DEF GlobalTypes, LLC
<1>15. CASE NoMemory(p)
    <2>1. /\ pc[p] = "nomem" /\ UNCHANGED <<llcs, managed, op, cg>> /\ op[p] = "init"
          /\ \/ pc'[p] = "uncount" /\ i[p] = 0
             \/ pc'[p] = "release" /\ i'[p] = 1
        BY Zenon, <1>2, <1>4, <1>5, <1>6, <1>15 DEF NoMemory, At, global, NoFail, Local
    <2> QED BY <1>8, <1>14, <2>1 DEF NoFail, Left, Builds, Holds
<1>16. CASE Recycle(p)
    <2>1. pc[p] = "recycle" /\ pc'[p] = "uncount" /\ UNCHANGED <<llcs, managed, op, cg>> /\ op[p] # "set"
        BY Zenon, <1>4, <1>5, <1>16 DEF Recycle, At, NoFail
    <2> QED BY Zenon, <1>8, <2>1 DEF NoFail, Left, Builds, Holds
<1>17. CASE Uncount(p)
    <2>1. /\ pc[p] = "uncount" /\ UNCHANGED <<llcs, managed, op, cg>>
          /\ \/ pc'[p] = "release" /\ i'[p] = 1 /\ op[p] = "exit"
             \/ pc'[p] = "unreserve" /\ op[p] = "init"
        BY Zenon, <1>2, <1>4, <1>5, <1>6, <1>17 DEF Uncount, At, NoFail
    <2> QED BY Zenon, <1>8, <1>14, <2>1 DEF NoFail, Left, Builds, Holds
<1>18. CASE SlotCheck(p) \/ SlotRaced(p)
    <2>1. ~Holds(p)
        BY Zenon, <1>4, <1>18 DEF SlotCheck, SlotRaced, At, Holds, Builds, Local
    <2>2. CASE Return(p)
        BY Zenon, <1>9, <1>18, <2>1, <2>2 DEF SlotCheck, SlotRaced, global
    <2>3. CASE ~Return(p)
        <3>1. /\ UNCHANGED <<llcs, managed, op, cg>>
              /\ pc'[p] = "take" \/ (pc'[p] = "unreserve" /\ op[p] = "init")
            BY Zenon, <1>5, <1>18, <2>3 DEF SlotCheck, SlotRaced, global
        <3> QED BY Zenon, <1>8, <2>1, <3>1 DEF NoFail, Left, Builds
    <2> QED BY Zenon, <2>2, <2>3
<1>19. CASE BuildSpare(p)
    <2>1. ~Holds(p) /\ UNCHANGED <<llcs, managed>>
        BY Zenon, <1>4, <1>19 DEF BuildSpare, At, Holds, Builds, Local
    <2>2. CASE Return(p)
        BY Zenon, <1>9, <2>1, <2>2
    <2>3. CASE ~Return(p)
        <3>1. pc'[p] = "spare" /\ UNCHANGED <<op, cg>>
            BY Zenon, <1>6, <1>19, <2>3 DEF BuildSpare
        <3> QED BY Zenon, <1>8, <2>1, <3>1 DEF NoFail, Left, Builds
    <2> QED BY Zenon, <2>2, <2>3
<1>20. CASE Yield(p) \/ Unreserve(p)
    <2>1. ~Holds(p)
        BY Zenon, <1>4, <1>20 DEF Yield, Unreserve, At, Holds, Builds, Local
    <2> QED BY Zenon, <1>9, <1>20, <2>1 DEF Yield, Unreserve
<1>21. CASE ReleaseNone(p) \/ CountLlc(p)
    <2>1. UNCHANGED <<llcs, managed>> /\ pc[p] \in {"release", "count"} /\ op[p] # "set"
          /\ llcs[g] \subseteq i[p] + 1..NrLlc
        BY <1>4, <1>21 DEF ReleaseNone, CountLlc, At, NoFail, Left
    <2>2. CASE i[p] # NrLlc
        <3>1. pc'[p] = "release" /\ i'[p] = i[p] + 1 /\ UNCHANGED <<op, cg>>
            BY Zenon, <1>6, <1>21, <2>2 DEF ReleaseNone, CountLlc, NextLlc
        <3> QED BY Zenon, <1>8, <2>1, <3>1 DEF NoFail, Left, Builds, Holds
    <2>3. CASE i[p] = NrLlc
        <3>1. llcs[g] = {}
            BY <2>1, <2>3, CbwManageConstants
        <3>2. CASE op[p] = "exit"
            BY Zenon, <1>9, <1>21, <2>1, <2>3, <3>1, <3>2 DEF ReleaseNone, CountLlc, NextLlc, LlcsDone
        <3>3. CASE op[p] # "exit"
            <4>1. pc'[p] = "recycle" /\ UNCHANGED <<op, cg>>
                BY Zenon, <1>5, <1>21, <2>3, <3>3 DEF ReleaseNone, CountLlc, NextLlc, LlcsDone
            <4> QED BY Zenon, <1>8, <2>1, <3>1, <4>1 DEF NoFail, Left, Builds
        <3> QED BY Zenon, <3>2, <3>3
    <2> QED BY Zenon, <2>2, <2>3
<1> QED BY Zenon, <1>10, <1>11, <1>12, <1>13, <1>15, <1>16, <1>17, <1>18, <1>19, <1>20, <1>21 DEF Step

\* And so does one that enters or deletes something.
LEMMA StepMaps ==
    ASSUME CpuTypes, CpuTypes', GlobalTypes, GlobalTypes', NEW p \in Proc, Others(p),
           \A q \in Proc : Local(q), Local(p)', Lives, Complete, Step(p),
           PublishLlc(p) \/ Publish(p) \/ Delete(p) \/ ReleaseLlc(p)
    PROVE  Complete'
<1> DEFINE g == cg[p]
<1>2. g \in Cgrp /\ op[p] \in {"init", "set", "exit"}
    BY Zenon, Acting
<1>3. \A q \in Proc \ {p} : cg[q] = g => op[q] = "set" /\ op[p] = "set"
    BY Zenon, Acting
<1>4. Local(p) /\ Live(p) /\ NoFail(p) /\ Built(p) /\ Left(p) /\ i[p] \in 0..NrLlc + 1
    BY Zenon DEF Lives, Complete, CpuTypes
<1>5. \A l : Goto(p, l) => pc'[p] = l /\ op' = op /\ cg' = cg /\ i' = i
    BY Zenon, Moves
<1>6. \A l, k : GotoFor(p, l, k) => pc'[p] = l /\ op' = op /\ cg' = cg /\ i'[p] = k
    BY Zenon, Moves
<1>7. ASSUME ~Holds(p), g \notin managed, \A q \in Proc \ {p} : cg[q] = g => ~Builds(q)
      PROVE  llcs[g] = {}
    BY Zenon, <1>7, NoneLeft
\* The other CPUs for g are writes, which never take contexts down.
<1>22. ASSUME NEW q \in Proc \ {p}, cg[q] = g
       PROVE  op[p] = "set" /\ op[q] = "set" /\ Left(q)' /\ NoFail(q) /\ (Builds(q)' <=> Builds(q))
              /\ pc'[q] = pc[q] /\ Built(q) /\ ~Clash(p, q)
    <2>1. op[p] = "set" /\ op[q] = "set" /\ NoFail(q) /\ Built(q) /\ ~Clash(p, q)
        BY <1>3, <1>22, Zenon DEF Complete
    <2>2. pc'[q] = pc[q] /\ (Builds(q)' <=> Builds(q))
        BY OtherCpu, Zenon
    <2> QED BY Zenon, <2>1, <2>2 DEF Left, NoFail
<1>23. CASE PublishLlc(p)
    <2>1. pc[p] = "llc" /\ i[p] \notin llcs[g] /\ i[p] \in LLC /\ UNCHANGED <<managed, op, cg>>
        BY <1>4, <1>5, <1>6, <1>23 DEF PublishLlc, At, Local, LLC
    <2>2. /\ llcs'[g] = llcs[g] \cup {i[p]}
          /\ \A h \in Cgrp \ {g} : llcs'[h] = llcs[h]
        BY <1>2, <1>23, Zenon DEF PublishLlc, GlobalTypes
    <2>3. \/ pc'[p] = "publish" /\ i'[p] = i[p]
          \/ pc'[p] = "supply" /\ i'[p] = i[p] + 1
        BY Zenon, <1>5, <1>6, <1>23 DEF PublishLlc
    <2>4. g \notin managed
        BY Zenon, <2>1 DEF Complete
    <2>5. Builds(p) <=> i[p] > 1
        BY Zenon, <2>1 DEF Builds
    <2>6. ASSUME NEW q \in Proc \ {p}, cg[q] = g PROVE ~Builds(q)
        <3>1. CASE i[p] > 1
            BY Zenon, <1>22, <2>5, <2>6, <3>1 DEF Clash
        <3>2. CASE ~(i[p] > 1)
            <4>1. i[p] = 1
                BY <2>1, <3>2 DEF LLC
            <4>2. Local(q) /\ i[q] \in 0..NrLlc + 1 /\ Built(q)
                BY <1>22, <2>6, Zenon DEF CpuTypes
            <4> QED BY Zenon, <2>1, <2>6, <4>1, <4>2, NotBegun
        <3> QED BY Zenon, <3>1, <3>2
    <2>7. llcs[g] = 1..i[p] - 1
        <3>1. CASE i[p] > 1
            BY Zenon, <1>4, <2>1, <2>5, <3>1 DEF Built, Upto
        <3>2. CASE ~(i[p] > 1)
            <4>1. ~Holds(p)
                BY Zenon, <1>4, <2>1, <2>5, <3>2 DEF Holds, Local
            <4>2. llcs[g] = {} /\ i[p] = 1
                BY <1>7, <2>1, <2>4, <2>6, <3>2, <4>1 DEF LLC
            <4> QED BY <4>2
        <3> QED BY Zenon, <3>1, <3>2
    <2>8. llcs'[g] = 1..i[p]
        BY SMTT(30), <2>1, <2>2, <2>7 DEF LLC
    <2>9. Builds(p)' /\ Upto(p)' = i[p] /\ NoFail(p)' /\ Left(p)' /\ Built(p)'
        BY <2>1, <2>3, <2>4, <2>8 DEF Builds, Upto, NoFail, Left, Built, LLC
    <2>10. Holds(p)'
        BY Zenon, <2>9 DEF Holds
    <2>11. ASSUME NEW q \in Proc \ {p}, cg[q] = g PROVE Built(q)' /\ Left(q)' /\ ~Clash(p, q)'
        BY Zenon, <1>22, <2>3, <2>6, <2>11 DEF Built, Clash
    <2>12. CompleteFor(p, g)
        BY <2>1, <2>2, <2>4, <2>9, <2>10, <2>11, Zenon DEF CompleteFor
    <2> QED BY ZenonT(30), <1>2, <2>12, CompleteFrame
<1>24. CASE Publish(p)
    <2>1. /\ pc[p] = "publish" /\ pc'[p] = "unreserve" /\ managed' = managed \cup {g}
          /\ UNCHANGED <<llcs, op, cg>>
        BY Zenon, <1>5, <1>24 DEF Publish, At
    <2>2. g \notin managed /\ llcs[g] = LLC
        BY Zenon, <1>4, <2>1 DEF Built, Builds, Upto, Local, LLC
    <2>3. NoFail(p)' /\ Built(p)' /\ Left(p)'
        BY Zenon, <2>1 DEF NoFail, Built, Left, Builds
    <2>4. ASSUME NEW q \in Proc \ {p}, cg[q] = g PROVE Built(q)' /\ Left(q)' /\ ~Clash(p, q)'
        <3>1. ~Builds(q) /\ Live(q)
            BY Zenon, <1>22, <2>1, <2>4 DEF Clash, Builds, Lives
        <3>2. pc[q] # "unreserve"
            BY Zenon, <1>22, <2>2, <2>4, <3>1 DEF Live
        <3> QED BY Zenon, <1>22, <2>1, <2>4, <3>1, <3>2 DEF Built, Clash
    <2>5. CompleteFor(p, g)
        BY Zenon, <2>1, <2>2, <2>3, <2>4 DEF CompleteFor
    <2> QED BY Zenon, <1>2, <2>5, CompleteFrame
<1>25. CASE Delete(p)
    <2>1. /\ op[p] = "exit" /\ pc'[p] = "recycle" /\ managed' = managed \ {g} /\ UNCHANGED <<llcs, op, cg>>
        BY Zenon, <1>4, <1>5, <1>25 DEF Delete, At, Local
    <2>2. NoFail(p)' /\ Built(p)' /\ Left(p)' /\ Holds(p)'
        BY Zenon, <2>1 DEF NoFail, Built, Left, Builds, Holds
    <2>3. CompleteFor(p, g)
        BY Zenon, <1>22, <2>1, <2>2 DEF CompleteFor
    <2> QED BY Zenon, <1>2, <2>3, CompleteFrame
<1>26. CASE ReleaseLlc(p)
    <2>1. pc[p] = "release" /\ op[p] # "set" /\ pc'[p] = "count" /\ UNCHANGED <<managed, op, cg, i>>
        BY Zenon, <1>4, <1>5, <1>26 DEF ReleaseLlc, At, NoFail
    <2>2. /\ llcs'[g] = llcs[g] \ {i[p]}
          /\ \A h \in Cgrp \ {g} : llcs'[h] = llcs[h]
        BY <1>2, <1>26, Zenon DEF ReleaseLlc, GlobalTypes
    <2>3. g \notin managed
        BY Zenon, <1>2, <1>4, <2>1 DEF Live
    <2>4. NoFail(p)' /\ Built(p)' /\ Left(p)' /\ Holds(p)'
        BY <1>4, <2>1, <2>2 DEF NoFail, Built, Left, Builds, Holds
    <2>5. CompleteFor(p, g)
        BY <1>22, <2>1, <2>2, <2>3, <2>4, Zenon DEF CompleteFor
    <2> QED BY Zenon, <1>2, <2>5, CompleteFrame
<1> QED BY Zenon, <1>23, <1>24, <1>25, <1>26

\* A call keeps the contexts complete.
LEMMA CallComplete ==
    ASSUME CpuTypes, CpuTypes', GlobalTypes, GlobalTypes', NEW p \in Proc, NEW g \in Cgrp, Others(p),
           \A q \in Proc : Local(q), Local(p)', Complete, Call(p, g)
    PROVE  Complete'
<1>1. /\ pc[p] = "idle" /\ cg[p] = None /\ UNCHANGED <<llcs, managed>>
      /\ \/ pc'[p] \in {"spare", "slot", "delete"} /\ cg'[p] = g
         \/ pc'[p] = "idle" /\ cg'[p] = None
    BY Zenon DEF Call, InitUnlimited, InitLimited, SetLimit, ExitUnmanaged, ExitManaged, Begin, At, Local,
       CpuTypes, global
<1>2. NoFail(p)' /\ Left(p)' /\ ~Builds(p)'
    BY Zenon, <1>1 DEF NoFail, Left, Builds
<1>3. cg[p] # g
    BY Zenon, <1>1, CbwManageConstants
<1> QED BY Zenon, <1>1, <1>2, <1>3, CompleteQuiet

-----------------------------------------------------------------------------
(* The reservations *)

\* What a step does to the reservation of its cgroup.
LEMMA StepShape ==
    ASSUME CpuTypes, GlobalTypes, NEW p \in Proc, Local(p), cg[p] \in Cgrp, Step(p)
    PROVE  \/ Unreserve(p) \/ Publish(p) \/ Delete(p)
           \/ /\ UNCHANGED <<pending, managed>> /\ pc[p] # "unreserve"
              /\ (op[p] = "set" => pc'[p] # "unreserve") /\ (pc[p] # "spare" => pc'[p] # "spare")
              /\ \/ life' = life
                 \/ op[p] = "init" /\ pc[p] = "spare" /\ life'[cg[p]] = "live"
                 \/ pc[p] = "yield" /\ life'[cg[p]] = "live"
                 \/ op[p] = "exit" /\ life'[cg[p]] = "none"
<1>1. \A l : Goto(p, l) => pc'[p] = l
    BY Zenon, Moves
<1>2. \A l, k : GotoFor(p, l, k) => pc'[p] = l
    BY Zenon, Moves
<1>3. Return(p) => pc'[p] = "idle"
    BY Zenon, ReturnCpu
<1>4. \A l : Becomes(cg[p], l) => life'[cg[p]] = l
    BY Zenon DEF Becomes, GlobalTypes
<1>5. CASE BuildSpare(p)
    BY Zenon, <1>2, <1>3, <1>4, <1>5 DEF BuildSpare, At, Local
<1>6. CASE SlotCheck(p) \/ SlotTake(p) \/ SlotRaced(p)
    BY Zenon, <1>1, <1>3, <1>6 DEF SlotCheck, SlotTake, SlotRaced, At, global
<1>7. CASE ReadSupply(p)
    BY Zenon, <1>7 DEF ReadSupply, At, global, CpuTypes
<1>8. CASE ReadFloor(p) \/ ClaimCas(p) \/ Fresh(p)
    BY Zenon, <1>1, <1>2, <1>8 DEF ReadFloor, ClaimCas, Fresh, Claimed, At, global
<1>9. CASE PublishLlc(p) \/ LlcExists(p) \/ Lost(p) \/ Yield(p)
    BY Zenon, <1>1, <1>2, <1>3, <1>4, <1>9 DEF PublishLlc, LlcExists, Lost, Yield, At
<1>10. CASE NoMemory(p) \/ Recycle(p) \/ Uncount(p) \/ ReleaseLlc(p)
    BY Zenon, <1>1, <1>2, <1>3, <1>10 DEF NoMemory, Recycle, Uncount, ReleaseLlc, At, global
<1>11. CASE ReleaseNone(p) \/ CountLlc(p)
    BY Zenon, <1>1, <1>2, <1>3, <1>4, <1>11 DEF ReleaseNone, CountLlc, NextLlc, LlcsDone, At
<1> QED BY Zenon, <1>5, <1>6, <1>7, <1>8, <1>9, <1>10, <1>11 DEF Step

\* A step for g changes nothing for the reservations of the others.
LEMMA ReservingFrame ==
    ASSUME NEW p \in Proc, NEW g \in Cgrp, Others(p), OnlyFor(p, g), cg[p] \in {g, None}
    PROVE  \A h \in Cgrp \ {g} : h \in Reserving' <=> h \in Reserving
<1> SUFFICES ASSUME NEW h \in Cgrp \ {g} PROVE h \in Reserving' <=> h \in Reserving
    BY Zenon
<1>1. life'[h] = life[h] /\ (h \in managed' <=> h \in managed)
    BY Zenon DEF OnlyFor
<1>2. cg[p] # h /\ cg'[p] # h
    BY CbwManageConstants, Zenon DEF OnlyFor
<1>3. \A q \in Proc : cg[q] = h /\ op[q] = "set" /\ At(q, "unreserve")
                  <=> cg'[q] = h /\ op'[q] = "set" /\ At(q, "unreserve")'
    BY <1>2, Zenon DEF Others, At
<1> QED BY <1>1, <1>3, Zenon DEF Reserving

\* A cgroup is reserved by its life, or by a write about to release it.
LEMMA ReservingAt ==
    ASSUME NEW g \in Cgrp, \A q \in Proc : ~(cg[q] = g /\ op[q] = "set" /\ pc[q] = "unreserve")
    PROVE  g \in Reserving <=> life[g] = "init" \/ (life[g] = "live" /\ g \notin managed)
BY Zenon DEF Reserving, At

\* A step releases the reservation exactly when the cgroup stops needing it.
LEMMA StepReserving ==
    ASSUME CpuTypes, CpuTypes', GlobalTypes, GlobalTypes', NEW p \in Proc, Others(p),
           \A q \in Proc : Local(q), Local(p)', Lives, Lives', Complete, Step(p), OnlyFor(p, cg[p]), Stays(p)
    PROVE  \/ pending' = pending /\ (cg[p] \in Reserving' <=> cg[p] \in Reserving)
           \/ pending' = pending - 1 /\ cg[p] \in Reserving /\ cg[p] \notin Reserving'
<1> DEFINE g == cg[p]
<1>1. g \in Cgrp /\ op[p] \in {"init", "set", "exit"}
    BY Zenon, Acting
<1>2. \A q \in Proc \ {p} : cg[q] = g => op[q] = "set" /\ op[p] = "set"
    BY Zenon, Acting
<1>3. Local(p) /\ Live(p) /\ NoFail(p) /\ Live(p)'
    BY Zenon DEF Lives, Complete
<1>4. \A q \in Proc \ {p} : op'[q] = op[q] /\ pc'[q] = pc[q] /\ cg'[q] = cg[q]
    BY Zenon DEF Others
<1>5. g \notin {None}
    BY Zenon, <1>1, CbwManageConstants
<1>6. ASSUME op[p] # "set"
      PROVE  /\ g \in Reserving <=> life[g] = "init" \/ (life[g] = "live" /\ g \notin managed)
             /\ g \in Reserving' <=> life'[g] = "init" \/ (life'[g] = "live" /\ g \notin managed')
    <2>1. \A q \in Proc : ~(cg[q] = g /\ op[q] = "set" /\ pc[q] = "unreserve")
        BY Zenon, <1>2, <1>6
    <2>2. \A q \in Proc : ~(cg'[q] = g /\ op'[q] = "set" /\ pc'[q] = "unreserve")
        BY Zenon, <1>2, <1>4, <1>6 DEF Stays
    <2>3. g \in Reserving <=> life[g] = "init" \/ (life[g] = "live" /\ g \notin managed)
        BY Zenon, <1>1, <2>1, ReservingAt
    <2>4. g \in Reserving' <=> life'[g] = "init" \/ (life'[g] = "live" /\ g \notin managed')
        BY <1>1, <2>2, Zenon DEF Reserving, At
    <2> QED BY Zenon, <2>3, <2>4
<1>7. CASE op[p] = "init"
    <2>1. life[g] = "init" /\ (pc[p] # "unreserve" => g \notin managed) /\ pc[p] \notin {"yield", "delete"}
        BY Zenon, <1>3, <1>7 DEF Live, NoFail, Local
    <2>2. CASE Unreserve(p)
        <3>1. pending' = pending - 1 /\ life'[g] = IF g \in managed THEN "live" ELSE "none"
            BY Zenon, <1>1, <1>7, <2>2 DEF Unreserve, Becomes, GlobalTypes
        <3>2. managed' = managed
            BY Zenon, <2>2 DEF Unreserve
        <3> QED BY Zenon, <1>6, <1>7, <2>1, <3>1, <3>2
    <2>3. CASE Publish(p)
        BY Zenon, <1>6, <1>7, <2>1, <2>3 DEF Publish
    <2>4. ~Delete(p)
        BY Zenon, <2>1 DEF Delete, At
    <2> QED BY Zenon, <1>1, <1>3, <1>6, <1>7, <2>1, <2>2, <2>3, <2>4, StepShape
<1>8. CASE op[p] = "exit"
    <2>1. life[g] = "exit" /\ pc[p] \notin {"yield", "unreserve", "publish"}
        BY Zenon, <1>3, <1>8 DEF Live, Local
    <2>2. ~Unreserve(p) /\ ~Publish(p)
        BY Zenon, <2>1 DEF Unreserve, Publish, At
    <2>3. CASE Delete(p)
        BY Zenon, <1>6, <1>8, <2>1, <2>3 DEF Delete
    <2> QED BY Zenon, <1>1, <1>3, <1>6, <1>8, <2>1, <2>2, <2>3, StepShape
<1>9. CASE op[p] = "set"
    <2>1. life[g] = "live" /\ ~Delete(p)
        BY Zenon, <1>3, <1>9 DEF Live, Delete, At, Local
    <2>2. CASE Unreserve(p)
        <3>1. pc[p] = "unreserve" /\ g \in managed /\ managed' = managed /\ pending' = pending - 1
            BY Zenon, <1>3, <1>9, <2>2 DEF Unreserve, Live, At
        <3>2. life'[g] = "live" /\ pc'[p] = "idle"
            BY Zenon, <1>1, <1>9, <2>2, ReturnCpu DEF Unreserve, Becomes, GlobalTypes
        <3>3. g \in Reserving
            BY <1>1, <1>9, <3>1, Zenon DEF Reserving, At
        <3>4. \A q \in Proc \ {p} : cg[q] = g => pc[q] # "unreserve"
            BY <3>1, Zenon DEF Complete, Clash
        <3>5. g \notin Reserving'
            BY ZenonT(30), <1>4, <3>1, <3>2, <3>4 DEF Reserving, At
        <3> QED BY Zenon, <3>1, <3>3, <3>5
    <2>3. CASE Publish(p)
        <3>1. g \notin managed
            BY <2>3, Zenon DEF Complete, Built, Builds, Publish, At
        <3>2. cg'[p] = g /\ op'[p] = "set" /\ pc'[p] = "unreserve" /\ pending' = pending
            BY Zenon, <1>9, <2>3, Moves DEF Publish
        <3>3. g \in Reserving
            BY <1>1, <2>1, <3>1, Zenon DEF Reserving
        <3>4. g \in Reserving'
            BY <1>1, <3>2, Zenon DEF Reserving, At
        <3> QED BY Zenon, <3>2, <3>3, <3>4
    <2>4. CASE ~Unreserve(p) /\ ~Publish(p)
        <3>1. UNCHANGED <<pending, managed>> /\ pc[p] # "unreserve" /\ pc'[p] # "unreserve"
              /\ life'[g] = "live"
            BY Zenon, <1>1, <1>3, <1>9, <2>1, <2>4, StepShape
        <3>2. \A q \in Proc : cg[q] = g /\ op[q] = "set" /\ At(q, "unreserve")
                           <=> cg'[q] = g /\ op'[q] = "set" /\ At(q, "unreserve")'
            BY <1>4, <3>1, Zenon DEF At
        <3> QED BY <2>1, <3>1, <3>2, Zenon DEF Reserving
    <2> QED BY Zenon, <2>2, <2>3, <2>4
<1> QED BY Zenon, <1>1, <1>7, <1>8, <1>9

\* And a call takes one when the cgroup starts needing it.
LEMMA CallReserving ==
    ASSUME CpuTypes, CpuTypes', GlobalTypes, GlobalTypes', NEW p \in Proc, NEW g \in Cgrp, Others(p),
           \A q \in Proc : Local(q), Local(p)', Lives, Call(p, g)
    PROVE  \/ pending' = pending /\ (g \in Reserving' <=> g \in Reserving)
           \/ pending' = pending + 1 /\ g \notin Reserving /\ g \in Reserving'
           \/ pending' = pending - 1 /\ g \in Reserving /\ g \notin Reserving'
<1>1. /\ pc[p] = "idle" /\ cg[p] = None /\ op[p] = "none" /\ managed' = managed /\ pc'[p] # "unreserve"
    BY Zenon DEF Call, InitUnlimited, InitLimited, SetLimit, ExitUnmanaged, ExitManaged, Begin, At, Local,
       CpuTypes, global
<1>2. \A q \in Proc : cg[q] = g /\ op[q] = "set" /\ At(q, "unreserve")
                   <=> cg'[q] = g /\ op'[q] = "set" /\ At(q, "unreserve")'
    BY <1>1, Zenon DEF Others, At
<1>3. \A q \in Proc : cg[q] = g /\ op[q] = "set" => life[g] = "live"
    BY Zenon DEF Lives, Live
<1>4. \A l : Becomes(g, l) => life'[g] = l
    BY Zenon DEF Becomes, GlobalTypes
<1>5. CASE InitUnlimited(p, g) \/ InitLimited(p, g)
    <2>1. life[g] = "none" /\ life'[g] = "init" /\ pending' = pending + 1
        BY Zenon, <1>4, <1>5 DEF InitUnlimited, InitLimited
    <2> QED BY Zenon, <1>3, <2>1 DEF Reserving
<1>6. CASE SetLimit(p, g)
    <2>1. UNCHANGED <<life, pending>>
        BY Zenon, <1>6 DEF SetLimit, global
    <2> QED BY <1>1, <1>2, <2>1, Zenon DEF Reserving
<1>7. CASE ExitUnmanaged(p, g) \/ ExitManaged(p, g)
    <2>1. life[g] = "live" /\ life'[g] \in {"none", "exit"} /\ (\A q \in Proc : cg[q] # g)
          /\ pending' = IF g \in managed THEN pending ELSE pending - 1
        BY Zenon, <1>4, <1>7 DEF ExitUnmanaged, ExitManaged, NobodyOn
    <2>2. g \in Reserving <=> g \notin managed
        BY Zenon, <2>1 DEF Reserving
    <2>3. g \notin Reserving'
        BY Zenon, <1>2, <2>1 DEF Reserving
    <2> QED BY Zenon, <2>1, <2>2, <2>3
<1> QED BY Zenon, <1>5, <1>6, <1>7 DEF Call

-----------------------------------------------------------------------------
(* What the reserve owes *)

\* p has drawn from the reserve what a write needs for n: 0 the cgx, l the llcx of LLC l.
Drawn(p, n) ==
    op[p] = "set" /\ (n < i[p] \/ (n = i[p] /\ pc[p] \in {"llc", "publish"}))
\* The reserve still owes cgroup g a context for n.
Owed(g, n) ==
    \/ \E p \in Proc : cg[p] = g /\ pc[p] = "spare" /\ n < i[p]
    \/ life[g] = "live" /\ g \notin managed /\ ~\E p \in Proc : cg[p] = g /\ Drawn(p, n)
\* A write without a rival never loses, and finds a supply.
Draws(p) ==
    op[p] = "set" => /\ pc[p] \notin {"exists", "yield"}
                     /\ pc[p] # "unreserve" => cg[p] \notin managed
                     /\ pc[p] = "floor" => f[p] > 0
\* No cgroup has two handlers.
Solo == \A p, q \in Proc : p # q /\ cg[p] = cg[q] => cg[p] = None

\* What the reserve owes one cgroup is not another's business.
LEMMA OwedFrame ==
    ASSUME NEW p \in Proc, NEW g \in Cgrp, Others(p), OnlyFor(p, g), cg[p] \in {g, None}
    PROVE  \A h \in Cgrp \ {g} : \A n \in 0..NrLlc : Owed(h, n)' <=> Owed(h, n)
<1> SUFFICES ASSUME NEW h \in Cgrp \ {g}, NEW n \in 0..NrLlc PROVE Owed(h, n)' <=> Owed(h, n)
    BY Zenon
<1>1. life'[h] = life[h] /\ (h \in managed' <=> h \in managed)
    BY Zenon DEF OnlyFor
<1>2. cg[p] # h /\ cg'[p] # h
    BY CbwManageConstants, Zenon DEF OnlyFor
<1>3. \A q \in Proc : cg'[q] = h <=> cg[q] = h
    BY <1>2, Zenon DEF Others
<1>4. \A q \in Proc : cg[q] = h =>
         op'[q] = op[q] /\ pc'[q] = pc[q] /\ i'[q] = i[q]
    BY <1>2, Zenon DEF Others
<1>5. \A q \in Proc : cg[q] = h => (Drawn(q, n)' <=> Drawn(q, n))
    BY <1>4, Zenon DEF Drawn
<1> QED BY <1>1, <1>3, <1>4, <1>5, Zenon DEF Owed

\* What a step does to the supply.
LEMMA StepFree ==
    ASSUME CpuTypes, GlobalTypes, NEW p \in Proc, Step(p), ~BuildSpare(p), ~(ClaimCas(p) /\ free[KindOf(p)] = f[p])
    PROVE  \A k \in Kind : free'[k] >= free[k]
<1>1. free \in [Kind -> Nat]
    BY Zenon DEF GlobalTypes
<1>2. \A k \in Kind : Add(k, 1) => \A l \in Kind : free'[l] >= free[l]
    BY <1>1 DEF Add
<1>3. "cgx" \in Kind /\ "llcx" \in Kind
    BY Zenon DEF Kind
<1>4. CASE LlcExists(p) \/ Lost(p) \/ Recycle(p) \/ CountLlc(p)
    BY <1>2, <1>3, <1>4, Zenon DEF LlcExists, Lost, Recycle, CountLlc
<1>5. CASE free' = free
    BY <1>1, <1>5
<1> QED BY <1>4, <1>5, Zenon DEF Step, SlotCheck, SlotTake, SlotRaced, ReadSupply, ReadFloor, ClaimCas,
       Fresh, PublishLlc, Yield, Publish, Unreserve, NoMemory, Delete, Uncount, ReleaseLlc, ReleaseNone, global

\* The steps a write takes while it has its cgroup to itself.
LEMMA WriteStep ==
    ASSUME CpuTypes, GlobalTypes, NEW p \in Proc, \A q \in Proc : Local(q), Lives, Complete, Solo, Draws(p),
           Step(p), op[p] = "set", cg[p] \notin managed
    PROVE  \/ SlotCheck(p) \/ SlotTake(p) \/ SlotRaced(p) \/ ReadSupply(p) \/ ReadFloor(p) \/ ClaimCas(p)
           \/ PublishLlc(p) \/ Publish(p)
<1>1. Local(p) /\ Live(p) /\ NoFail(p) /\ Built(p) /\ i[p] \in 0..NrLlc + 1
    BY Zenon DEF Lives, Complete, CpuTypes
<1>2. ~LlcExists(p)
    <2>1. SUFFICES ASSUME pc[p] = "llc", i[p] \in llcs[cg[p]] PROVE FALSE
        BY Zenon DEF LlcExists, At
    <2>2. ~Builds(p)
        BY <1>1, <2>1 DEF Built, Builds, Upto
    <2>3. ~Holds(p)
        BY Zenon, <2>1, <2>2 DEF Holds
    <2>4. \A q \in Proc \ {p} : cg[q] # cg[p]
        BY Zenon, Acting, CbwManageConstants DEF Solo
    <2> QED BY Zenon, <2>1, <2>3, <2>4, NoneLeft
<1>3. pc[p] \notin {"spare", "fresh", "delete", "exists", "yield", "unreserve", "nomem", "recycle", "uncount",
                  "release", "count"}
    BY Zenon, <1>1 DEF Local, Draws, NoFail, Live
<1> QED BY <1>2, <1>3, Zenon DEF Step, BuildSpare, At, Fresh, Lost, Yield, Unreserve, NoMemory, Delete, Recycle,
       Uncount, ReleaseLlc, ReleaseNone, CountLlc

\* A claim from the reserve draws what it claims, and nothing else.
LEMMA ClaimDraws ==
    ASSUME CpuTypes, NEW p \in Proc, op[p] = "set", ClaimCas(p), free[KindOf(p)] = f[p], i[p] \in 0..NrLlc + 1,
           NEW n \in 0..NrLlc
    PROVE  /\ cg'[p] = cg[p] /\ pc[p] = "cas" /\ pc'[p] # "spare" /\ managed' = managed /\ life' = life
           /\ ~Drawn(p, i[p]) /\ (Drawn(p, n)' <=> Drawn(p, n) \/ n = i[p])
<1>1. pc[p] = "cas" /\ managed' = managed /\ life' = life
    BY Zenon DEF ClaimCas, At
<1>2. op'[p] = "set" /\ cg'[p] = cg[p] /\ (IF i[p] = 0 THEN pc'[p] = "supply" /\ i'[p] = 1
                                        ELSE pc'[p] = "llc" /\ i'[p] = i[p])
    BY ZenonT(30), Moves DEF ClaimCas, Claimed
<1> QED BY <1>1, <1>2 DEF Drawn

\* An init claims once.
LEMMA InitClaims ==
    ASSUME CpuTypes, NEW p \in Proc, Local(p), op[p] \in {"init", "exit"}, ClaimCas(p), free[KindOf(p)] = f[p]
    PROVE  op[p] = "init" /\ pc[p] = "cas" /\ pc'[p] # "cas" /\ Add(KindOf(p), -1)
<1>1. op[p] = "init" /\ pc[p] = "cas"
    BY Zenon DEF ClaimCas, At, Local
<1>2. pc'[p] # "cas"
    BY Moves DEF ClaimCas, Claimed
<1>3. Add(KindOf(p), -1)
    BY Zenon DEF ClaimCas
<1> QED BY Zenon, <1>1, <1>2, <1>3

\* A write that goes on keeps what it has drawn.
LEMMA WriteKeeps ==
    ASSUME CpuTypes, NEW p \in Proc, op[p] = "set", ~Return(p), i[p] \in 0..NrLlc + 1, Local(p),
           ~(ClaimCas(p) /\ free[KindOf(p)] = f[p]),
           \/ SlotCheck(p) \/ SlotTake(p) \/ SlotRaced(p) \/ ReadSupply(p) \/ ReadFloor(p) \/ ClaimCas(p)
           \/ PublishLlc(p),
           NEW n \in 0..NrLlc
    PROVE  op'[p] = "set" /\ pc'[p] # "spare" /\ (Drawn(p, n) => Drawn(p, n)')
<1>1. /\ op'[p] = "set" /\ pc'[p] # "spare"
      /\ \/ i'[p] = i[p] /\ (pc[p] \in {"llc", "publish"} => pc'[p] = "publish")
         \/ i'[p] = i[p] + 1
    <2>1. CASE SlotCheck(p) \/ SlotTake(p) \/ SlotRaced(p)
        BY <2>1, Moves DEF SlotCheck, SlotTake, SlotRaced, At
    <2>2. CASE ReadSupply(p)
        BY Zenon, <2>2 DEF ReadSupply, At, CpuTypes
    <2>3. CASE ReadFloor(p) \/ ClaimCas(p)
        BY SMTT(30), <2>3, Moves DEF ReadFloor, ClaimCas, At
    <2>4. CASE PublishLlc(p)
        BY SMTT(30), <2>4, Moves DEF PublishLlc, At
    <2> QED BY Zenon, <2>1, <2>2, <2>3, <2>4
<1> QED BY <1>1 DEF Drawn, Local

\* A write that returns has drawn nothing.
LEMMA ReturnsEmpty ==
    ASSUME CpuTypes, NEW p \in Proc, op[p] = "set", Return(p), i[p] \in 0..NrLlc + 1, Local(p),
           \/ SlotCheck(p) \/ SlotTake(p) \/ SlotRaced(p) \/ ReadSupply(p) \/ ReadFloor(p) \/ ClaimCas(p)
           \/ PublishLlc(p),
           NEW n \in 0..NrLlc
    PROVE  ~Drawn(p, n)
<1>1. pc[p] \in {"slot", "raced"}
    BY Zenon, ReturnCpu DEF At, SlotCheck, SlotRaced, SlotTake, ReadSupply, ReadFloor, ClaimCas, PublishLlc, Goto,
       GotoFor, Claimed, CpuTypes
<1> QED BY <1>1 DEF Drawn, Local

\* A write that publishes or has published leaves its cgroup mapped.
LEMMA WriteDone ==
    ASSUME CpuTypes, NEW p \in Proc, Step(p), op[p] = "set", Draws(p), cg[p] \in managed \/ Publish(p)
    PROVE  ~ClaimCas(p) /\ ~BuildSpare(p) /\ cg[p] \in managed' /\ pc'[p] # "spare"
<1>1. pc[p] \in {"unreserve", "publish"}
    BY Zenon DEF Draws, Publish, At
<1>2. Unreserve(p) \/ Publish(p)
    BY <1>1, Zenon DEF Step, BuildSpare, At, SlotCheck, SlotTake, SlotRaced, ReadSupply, ReadFloor, ClaimCas,
       Fresh, PublishLlc, LlcExists, Lost, Yield, NoMemory, Delete, Recycle, Uncount,
       ReleaseLlc, ReleaseNone, CountLlc
<1>3. ~ClaimCas(p) /\ ~BuildSpare(p)
    BY ZenonT(30), <1>1 DEF ClaimCas, BuildSpare, At
<1>4. cg[p] \in managed' /\ pc'[p] # "spare"
    BY <1>2, Moves, ReturnCpu DEF Publish, Unreserve
<1> QED BY Zenon, <1>3, <1>4

\* An init that is past its spare, or an exit, leaves nothing owed to its cgroup.
LEMMA OtherOwes ==
    ASSUME CpuTypes, GlobalTypes, NEW p \in Proc, Step(p), ~BuildSpare(p), op[p] \in {"init", "exit"},
           Local(p), Live(p), NoFail(p), cg[p] \in Cgrp
    PROVE  pc'[p] # "spare" /\ (life'[cg[p]] # "live" \/ cg[p] \in managed')
<1>1. pc[p] # "spare"
    BY Zenon DEF Step, BuildSpare, At, SlotCheck, SlotTake, SlotRaced, ReadSupply, ReadFloor, ClaimCas,
       Fresh, PublishLlc, LlcExists, Lost, Yield, Publish, Unreserve, NoMemory, Delete, Recycle, Uncount,
       ReleaseLlc, ReleaseNone, CountLlc
<1>2. life[cg[p]] \in {"init", "exit"} /\ pc[p] # "yield"
    BY Zenon DEF Live, NoFail, Local
<1>3. CASE Unreserve(p)
    BY Zenon, <1>3, ReturnCpu DEF Unreserve, Becomes, GlobalTypes, Local, At
<1>4. CASE Publish(p) \/ Delete(p)
    BY <1>2, <1>4, Moves DEF Publish, Delete
<1> QED BY Zenon, <1>1, <1>2, <1>3, <1>4, StepShape

\* What a step does to what the reserve owes its cgroup: a spare adds to it, a
\* write's claim takes away what it claims, and nothing else adds to it.
LEMMA StepOwed ==
    ASSUME CpuTypes, CpuTypes', GlobalTypes, GlobalTypes', NEW p \in Proc, Others(p),
           \A q \in Proc : Local(q), Local(p)', Lives, Complete, Solo, Draws(p), Step(p),
           NEW g \in Cgrp, g = cg[p], OnlyFor(p, g), Stays(p), NEW n \in 0..NrLlc
    PROVE  IF op[p] = "set" /\ ClaimCas(p) /\ free[KindOf(p)] = f[p]
           THEN Owed(g, i[p]) /\ (Owed(g, n)' => Owed(g, n) /\ n # i[p])
           ELSE Owed(g, n)' => Owed(g, n) \/ (BuildSpare(p) /\ n = i[p])
<1>1. op[p] \in {"init", "set", "exit"} /\ g # None
    BY Zenon, Acting, CbwManageConstants
<1>2. Local(p) /\ Live(p) /\ NoFail(p) /\ Built(p) /\ i[p] \in 0..NrLlc + 1
    BY Zenon DEF Lives, Complete, CpuTypes
<1>3. (\A q \in Proc : cg[q] = g <=> q = p) /\ \A q \in Proc \ {p} : cg'[q] # g
    BY <1>1, Zenon DEF Solo, Others
<1>4. Owed(g, n) <=> \/ pc[p] = "spare" /\ n < i[p]
                     \/ life[g] = "live" /\ g \notin managed /\ ~Drawn(p, n)
    BY <1>3, Zenon DEF Owed
<1>9. Owed(g, i[p]) <=> \/ pc[p] = "spare" /\ i[p] < i[p]
                        \/ life[g] = "live" /\ g \notin managed /\ ~Drawn(p, i[p])
    BY <1>3, Zenon DEF Owed
<1>5. Owed(g, n)' <=> \/ cg'[p] = g /\ pc'[p] = "spare" /\ n < i'[p]
                      \/ life'[g] = "live" /\ g \notin managed' /\ ~(cg'[p] = g /\ Drawn(p, n)')
    BY <1>3, Zenon DEF Owed
<1>6. CASE BuildSpare(p)
    <2>1. op[p] = "init" /\ pc[p] = "spare" /\ managed' = managed /\ ~ClaimCas(p)
        BY Zenon, <1>2, <1>6 DEF BuildSpare, At, Local, ClaimCas
    <2>2. CASE i[p] = NrLlc
        <3>1. n < i[p] \/ n = i[p]
            BY ZenonT(30), <2>2, CbwManageConstants, BelowOrLast
        <3> QED BY Zenon, <1>4, <1>6, <2>1, <3>1
    <2>3. CASE i[p] # NrLlc
        <3>1. pc'[p] = "spare" /\ i'[p] = i[p] + 1 /\ life' = life
            BY Zenon, <1>6, <2>3, Moves DEF BuildSpare
        <3>2. life[g] = "init"
            BY Zenon, <1>2, <2>1 DEF Live
        <3> QED BY SMTT(30), <1>2, <1>4, <1>5, <1>6, <2>1, <3>1, <3>2
    <2> QED BY Zenon, <2>2, <2>3
<1>7. CASE op[p] # "set" /\ ~BuildSpare(p)
    BY Zenon, <1>1, <1>2, <1>5, <1>7, OtherOwes
<1>8. CASE op[p] = "set" /\ (g \in managed \/ Publish(p))
    BY Zenon, <1>5, <1>8, WriteDone
<1>10. CASE op[p] = "set" /\ ClaimCas(p) /\ free[KindOf(p)] = f[p]
    <2>1. life[g] = "live" /\ g \notin managed
        BY Zenon, <1>2, <1>10 DEF ClaimCas, At, Live, Draws
    <2>2. /\ cg'[p] = g /\ pc[p] = "cas" /\ pc'[p] # "spare" /\ managed' = managed /\ life' = life
          /\ ~Drawn(p, i[p]) /\ (Drawn(p, n)' <=> Drawn(p, n) \/ n = i[p])
        BY Zenon, <1>2, <1>10, ClaimDraws
    <2> QED BY Zenon, <1>4, <1>5, <1>9, <1>10, <2>1, <2>2
<1>11. CASE op[p] = "set" /\ g \notin managed /\ ~Publish(p) /\ ~(ClaimCas(p) /\ free[KindOf(p)] = f[p])
    <2>1. pc[p] # "spare" /\ life[g] = "live"
        BY Zenon, <1>2, <1>11 DEF Live, Local
    <2>2. \/ SlotCheck(p) \/ SlotTake(p) \/ SlotRaced(p) \/ ReadSupply(p) \/ ReadFloor(p) \/ ClaimCas(p)
          \/ PublishLlc(p)
        BY Zenon, <1>11, WriteStep
    <2>3. CASE Return(p)
        <3>1. ~Drawn(p, n)
            BY Zenon, <1>2, <1>11, <2>2, <2>3, ReturnsEmpty
        <3> QED BY Zenon, <1>4, <1>11, <2>1, <3>1
    <2>4. CASE ~Return(p)
        <3>1. op'[p] = "set" /\ pc'[p] # "spare" /\ (Drawn(p, n) => Drawn(p, n)')
            BY Zenon, <1>2, <1>11, <2>2, <2>4, WriteKeeps
        <3>2. cg'[p] = g
            BY Zenon, <3>1 DEF Stays
        <3> QED BY Zenon, <1>4, <1>5, <1>11, <2>1, <3>1, <3>2
    <2> QED BY Zenon, <2>3, <2>4
<1> QED BY Zenon, <1>1, <1>6, <1>7, <1>8, <1>10, <1>11

\* A call adds nothing to it.
LEMMA CallOwed ==
    ASSUME CpuTypes, GlobalTypes, NEW p \in Proc, NEW g \in Cgrp, Others(p), Local(p), Call(p, g),
           NEW n \in 0..NrLlc, Owed(g, n)'
    PROVE  Owed(g, n) /\ UNCHANGED free
<1>1. /\ pc[p] = "idle" /\ cg[p] = None /\ managed' = managed /\ free' = free /\ i'[p] = 0
    BY Zenon DEF Call, InitUnlimited, InitLimited, SetLimit, ExitUnmanaged, ExitManaged, Begin, At, Local,
       CpuTypes, global
<1>2. g # None
    BY Zenon, CbwManageConstants
<1>3. \A q \in Proc : cg[q] = g => cg'[q] = g /\ (Drawn(q, n)' <=> Drawn(q, n))
    BY <1>1, <1>2, ZenonT(30) DEF Others, Drawn
<1>4. \A q \in Proc : cg'[q] = g /\ pc'[q] = "spare" /\ n < i'[q] => cg[q] = g /\ pc[q] = "spare" /\ n < i[q]
    BY <1>1 DEF Others
<1>5. \A l : Becomes(g, l) => life'[g] = l
    BY Zenon DEF Becomes, GlobalTypes
<1>6. life'[g] = "live" => life[g] = "live"
    BY Zenon, <1>5 DEF Call, InitUnlimited, InitLimited, SetLimit, ExitUnmanaged, ExitManaged, global
<1> QED BY <1>1, <1>3, <1>4, <1>6, Zenon DEF Owed

\* A write draws from a supply that is there, and so never starves.
LEMMA WriteDraws ==
    ASSUME CpuTypes, GlobalTypes, NEW p \in Proc, \A q \in Proc : Local(q), Lives, Complete, Solo, Draws(p),
           Step(p), Stays(p), op[p] = "set" /\ pc[p] = "supply" => free[KindOf(p)] > 0
    PROVE  Draws(p)' /\ ~Starving(p)'
<1>1. CASE op'[p] # "set"
    BY Zenon, <1>1 DEF Draws, Starving
<1>2. CASE op'[p] = "set"
    <2>1. op[p] = "set" /\ cg'[p] = cg[p]
        BY Zenon, <1>2 DEF Stays
    <2>2. Live(p) /\ Local(p) /\ cg[p] \in Cgrp
        BY Zenon, <2>1, Acting DEF Lives
    <2>3. ~Return(p)
        BY Zenon, <1>2, ReturnCpu
    <2>4. CASE cg[p] \in managed
        <3>1. Unreserve(p)
            BY <2>1, <2>4, Zenon DEF Draws, Step, BuildSpare, At, SlotCheck, SlotTake, SlotRaced, ReadSupply,
               ReadFloor, ClaimCas, Fresh, PublishLlc, LlcExists, Lost, Yield, Publish, NoMemory, Delete, Recycle,
               Uncount, ReleaseLlc, ReleaseNone, CountLlc
        <3> QED BY Zenon, <2>3, <3>1 DEF Unreserve
    <2>5. CASE cg[p] \notin managed
        <3>1. CASE Publish(p)
            BY <2>1, <3>1, Moves DEF Publish, Draws, Starving, At
        <3>2. CASE ReadSupply(p)
            BY Zenon, <2>1, <2>5, <3>2 DEF ReadSupply, Draws, Starving, At, global, CpuTypes
        <3>3. CASE ReadFloor(p)
            <4>1. f[p] > 0 /\ Floor(p) = 0
                BY Zenon, <2>1, <3>3 DEF Draws, ReadFloor, Floor, At
            <4>2. pc'[p] = "cas" /\ managed' = managed
                BY Zenon, <2>1, <3>3, <4>1, Moves DEF ReadFloor, global
            <4> QED BY Zenon, <2>1, <2>5, <4>2 DEF Draws, Starving, At
        <3>4. CASE SlotCheck(p) \/ SlotTake(p) \/ SlotRaced(p) \/ ClaimCas(p) \/ PublishLlc(p)
            <4>1. pc'[p] \in {"take", "supply", "raced", "llc", "publish"} /\ managed' = managed
                <5>1. CASE SlotCheck(p) \/ SlotTake(p) \/ SlotRaced(p)
                    BY Zenon, <2>1, <2>3, <5>1, Moves DEF SlotCheck, SlotTake, SlotRaced, global
                <5>2. CASE ClaimCas(p)
                    BY Zenon, <2>1, <5>2, Moves DEF ClaimCas, Claimed, global
                <5>3. CASE PublishLlc(p)
                    BY Zenon, <2>1, <5>3, Moves DEF PublishLlc, global
                <5> QED BY Zenon, <3>4, <5>1, <5>2, <5>3
            <4> QED BY Zenon, <2>1, <2>5, <4>1 DEF Draws, Starving, At
        <3> QED BY Zenon, <2>1, <2>5, <3>1, <3>2, <3>3, <3>4, WriteStep
    <2> QED BY Zenon, <2>4, <2>5
<1> QED BY Zenon, <1>1, <1>2

-----------------------------------------------------------------------------
(* The slots *)

\* What a step does to the slots: the slot of p, the map and cbw_nr_cgx.
LEMMA StepSlots ==
    ASSUME CpuTypes, CpuTypes', GlobalTypes, NEW p \in Proc, \A q \in Proc : Local(q), Lives, Step(p)
    PROVE  \/ /\ nrCgx' = nrCgx + 1 /\ managed' = managed /\ ~HasSlot(p) /\ HasSlot(p)'
              /\ pc[p] # "raced" /\ (pc'[p] = "raced" <=> ~(nrCgx < NrCgrpMax))
           \/ /\ nrCgx' = nrCgx - 1 /\ managed' = managed /\ HasSlot(p) /\ ~HasSlot(p)' /\ pc'[p] # "raced"
           \/ /\ nrCgx' = nrCgx /\ managed' = managed \cup {cg[p]} /\ HasSlot(p) /\ ~HasSlot(p)'
              /\ pc[p] = "publish" /\ pc'[p] # "raced"
           \/ /\ nrCgx' = nrCgx /\ managed' = managed \ {cg[p]} /\ ~HasSlot(p) /\ HasSlot(p)'
              /\ cg[p] \in managed /\ pc[p] # "raced" /\ pc'[p] # "raced"
           \/ /\ nrCgx' = nrCgx /\ managed' = managed /\ (HasSlot(p)' <=> HasSlot(p))
              /\ pc[p] # "raced" /\ pc'[p] # "raced"
<1>1. \A l : Goto(p, l) => pc'[p] = l /\ op' = op
    BY Zenon, Moves
<1>2. \A l, k : GotoFor(p, l, k) => pc'[p] = l /\ op' = op
    BY Zenon, Moves
<1>3. Return(p) => pc'[p] = "idle"
    BY Zenon, ReturnCpu
<1>4. op[p] \in {"init", "set", "exit"} /\ Local(p) /\ Live(p)
    BY Zenon, Acting DEF Lives
<1>5. CASE SlotTake(p)
    BY SMTT(30), <1>1, <1>5 DEF SlotTake, At, HasSlot
<1>6. CASE SlotRaced(p)
    BY <1>1, <1>3, <1>6 DEF SlotRaced, At, HasSlot
<1>7. CASE Uncount(p)
    BY SMTT(30), <1>1, <1>2, <1>3, <1>4, <1>7 DEF Uncount, At, HasSlot
<1>8. CASE Yield(p)
    BY Zenon, <1>3, <1>8 DEF Yield, At, HasSlot
<1>9. CASE Publish(p)
    BY SMTT(30), <1>1, <1>9 DEF Publish, At, HasSlot
<1>10. CASE Delete(p)
    BY SMTT(30), <1>1, <1>4, <1>10 DEF Delete, At, HasSlot, Live, Local
<1>11. CASE BuildSpare(p)
    BY Zenon, <1>2, <1>3, <1>11 DEF BuildSpare, At, HasSlot
<1>12. CASE SlotCheck(p)
    BY SMTT(30), <1>1, <1>3, <1>12 DEF SlotCheck, At, HasSlot, global
<1>13. CASE ReadSupply(p)
    BY Zenon, <1>13 DEF ReadSupply, At, HasSlot, global, CpuTypes
<1>14. CASE ReadFloor(p)
    BY SMTT(30), <1>1, <1>14 DEF ReadFloor, At, HasSlot, global
<1>15. CASE ClaimCas(p) \/ Fresh(p)
    <2>1. /\ nrCgx' = nrCgx /\ managed' = managed
          /\ pc[p] \in {"cas", "fresh"} /\ pc'[p] \in {"supply", "llc", "nomem"}
        BY ZenonT(30), <1>1, <1>2, <1>15 DEF ClaimCas, Fresh, Claimed, At, global
    <2> QED BY Zenon, <2>1 DEF HasSlot
<1>16. CASE PublishLlc(p) \/ LlcExists(p) \/ Lost(p)
    BY SMTT(30), <1>1, <1>2, <1>16 DEF PublishLlc, LlcExists, Lost, At, HasSlot
<1>17. CASE Unreserve(p)
    BY ZenonT(30), <1>3, <1>17 DEF Unreserve, At, HasSlot
<1>18. CASE NoMemory(p)
    BY SMTT(30), <1>1, <1>2, <1>4, <1>18 DEF NoMemory, At, HasSlot, global, Local
<1>19. CASE Recycle(p) \/ ReleaseLlc(p)
    BY SMTT(30), <1>1, <1>19 DEF Recycle, ReleaseLlc, At, HasSlot
<1>20. CASE ReleaseNone(p) \/ CountLlc(p)
    BY SMTT(30), <1>1, <1>2, <1>3, <1>20 DEF ReleaseNone, CountLlc, NextLlc, LlcsDone, At, HasSlot
<1> QED BY ZenonT(30), <1>5, <1>6, <1>7, <1>8, <1>9, <1>10, <1>11, <1>12, <1>13, <1>14, <1>15, <1>16, <1>17,
       <1>18, <1>19, <1>20 DEF Step

\* A call takes none.
LEMMA CallSlots ==
    ASSUME CpuTypes, NEW p \in Proc, NEW g \in Cgrp, Call(p, g)
    PROVE  UNCHANGED <<nrCgx, managed>> /\ ~HasSlot(p) /\ ~HasSlot(p)' /\ pc[p] # "raced" /\ pc'[p] # "raced"
BY Zenon DEF Call, InitUnlimited, InitLimited, SetLimit, ExitUnmanaged, ExitManaged, Begin, At, HasSlot,
       CpuTypes, global

-----------------------------------------------------------------------------
(* Counting *)

\* What the reserve owes in all, and that it can pay.
OwedCgx == {g \in Cgrp : Owed(g, 0)}
OwedLlcx == {gl \in Cgrp \X LLC : Owed(gl[1], gl[2])}
Reserve ==
    /\ \A p \in Proc : Draws(p)
    /\ free["cgx"] >= Cardinality(OwedCgx)
    /\ free["llcx"] >= Cardinality(OwedLlcx)

\* The CPUs that hold a slot, and those about to give back one too many.
SlotOwners == {p \in Proc : HasSlot(p)}
Retreating == {p \in Proc : pc[p] = "raced"}

\* Two subsets of a finite set that differ at most in one element.
LEMMA Recount ==
    ASSUME NEW T, IsFiniteSet(T), NEW A \in SUBSET T, NEW B \in SUBSET T, NEW x \in T,
           \A y \in T \ {x} : y \in A <=> y \in B
    PROVE  /\ Cardinality(A) \in Nat /\ Cardinality(B) \in Nat
           /\ (x \in A <=> x \in B) => Cardinality(B) = Cardinality(A)
           /\ x \notin A /\ x \in B => Cardinality(B) = Cardinality(A) + 1
           /\ x \in A /\ x \notin B => Cardinality(B) = Cardinality(A) - 1
<1>1. IsFiniteSet(A) /\ IsFiniteSet(B)
    BY Zenon, FS_Subset
<1>2. Cardinality(A) \in Nat /\ Cardinality(B) \in Nat
    BY Zenon, <1>1, FS_CardinalityType
<1>3. CASE x \in A <=> x \in B
    <2>1. A = B
        BY <1>3
    <2> QED BY Zenon, <1>2, <1>3, <2>1
<1>4. CASE x \notin A /\ x \in B
    <2>1. B = A \cup {x}
        BY Zenon, <1>4
    <2> QED BY Zenon, <1>1, <1>2, <1>4, <2>1, FS_AddElement
<1>5. CASE x \in A /\ x \notin B
    <2>1. B = A \ {x}
        BY Zenon, <1>5
    <2> QED BY Zenon, <1>1, <1>2, <1>5, <2>1, FS_RemoveElement
<1> QED BY Zenon, <1>3, <1>4, <1>5

\* What a set that lost elements, or gained at most one, may count.
LEMMA Bounds ==
    ASSUME NEW A, NEW B, IsFiniteSet(A), NEW x
    PROVE  /\ Cardinality(A) \in Nat
           /\ B \subseteq A => Cardinality(B) \in Nat /\ Cardinality(B) <= Cardinality(A)
           /\ B \subseteq A \cup {x} => Cardinality(B) \in Nat /\ Cardinality(B) <= Cardinality(A) + 1
           /\ x \in A /\ B \subseteq A \ {x} => Cardinality(B) \in Nat /\ Cardinality(B) <= Cardinality(A) - 1
<1>1. Cardinality(A) \in Nat
    BY Zenon, FS_CardinalityType
<1>2. ASSUME NEW C, IsFiniteSet(C), B \subseteq C
      PROVE  Cardinality(B) \in Nat /\ Cardinality(B) <= Cardinality(C)
    BY Zenon, <1>2, FS_Subset, FS_CardinalityType
<1>3. ASSUME B \subseteq A \cup {x}
      PROVE  Cardinality(B) \in Nat /\ Cardinality(B) <= Cardinality(A) + 1
    <2>1. IsFiniteSet(A \cup {x}) /\ Cardinality(A \cup {x}) \in {Cardinality(A), Cardinality(A) + 1}
        BY Zenon, FS_AddElement
    <2>2. Cardinality(B) \in Nat /\ Cardinality(B) <= Cardinality(A \cup {x})
        BY Zenon, <1>2, <1>3, <2>1
    <2> QED BY <1>1, <2>1, <2>2
<1>4. ASSUME x \in A, B \subseteq A \ {x}
      PROVE  Cardinality(B) \in Nat /\ Cardinality(B) <= Cardinality(A) - 1
    <2>1. IsFiniteSet(A \ {x}) /\ Cardinality(A \ {x}) = Cardinality(A) - 1
        BY Zenon, <1>4, FS_RemoveElement
    <2>2. Cardinality(B) \in Nat /\ Cardinality(B) <= Cardinality(A \ {x})
        BY Zenon, <1>2, <1>4, <2>1
    <2> QED BY Zenon, <2>1, <2>2
<1> QED BY Zenon, <1>1, <1>2, <1>3, <1>4

\* The reservations stay exact.
LEMMA ReservedStep ==
    ASSUME NEW g \in Cgrp, pending = Cardinality(Reserving),
           \A h \in Cgrp \ {g} : h \in Reserving' <=> h \in Reserving,
           \/ pending' = pending /\ (g \in Reserving' <=> g \in Reserving)
           \/ pending' = pending + 1 /\ g \notin Reserving /\ g \in Reserving'
           \/ pending' = pending - 1 /\ g \in Reserving /\ g \notin Reserving'
    PROVE  pending' = Cardinality(Reserving')
<1> DEFINE A == Reserving
           B == Reserving'
<1>1. A \in SUBSET Cgrp /\ B \in SUBSET Cgrp /\ IsFiniteSet(Cgrp)
    BY Zenon, CbwManageConstants DEF Reserving
<1> HIDE DEF A, B
<1>2. /\ (g \in A <=> g \in B) => Cardinality(B) = Cardinality(A)
      /\ g \notin A /\ g \in B => Cardinality(B) = Cardinality(A) + 1
      /\ g \in A /\ g \notin B => Cardinality(B) = Cardinality(A) - 1
    BY <1>1, Recount DEF A, B
<1> QED BY Zenon, <1>2 DEF A, B

-----------------------------------------------------------------------------
(* Counting the slots *)

\* No slot is lost: cbw_nr_cgx covers the contexts, and passes nr_cgrp_max only
\* by the CPUs about to retreat.  While the reserve suffices it is exact.
Slots ==
    /\ nrCgx >= Cardinality(managed) + Cardinality(SlotOwners)
    /\ nrCgx <= NrCgrpMax + Cardinality(Retreating)
SlotsCount == nrCgx = Cardinality(managed) + Cardinality(SlotOwners)

\* How the CPUs with a slot are counted when p moves.
LEMMA OwnersCount ==
    ASSUME NEW p \in Proc, Others(p)
    PROVE  /\ Cardinality(SlotOwners) \in Nat /\ Cardinality(SlotOwners') \in Nat
           /\ (HasSlot(p) <=> HasSlot(p)') => Cardinality(SlotOwners') = Cardinality(SlotOwners)
           /\ ~HasSlot(p) /\ HasSlot(p)' => Cardinality(SlotOwners') = Cardinality(SlotOwners) + 1
           /\ HasSlot(p) /\ ~HasSlot(p)' => Cardinality(SlotOwners') = Cardinality(SlotOwners) - 1
           /\ Cardinality(Retreating) \in Nat /\ Cardinality(Retreating') \in Nat
           /\ (pc[p] = "raced" <=> pc'[p] = "raced") => Cardinality(Retreating') = Cardinality(Retreating)
           /\ pc[p] # "raced" /\ pc'[p] = "raced" => Cardinality(Retreating') = Cardinality(Retreating) + 1
           /\ pc[p] = "raced" /\ pc'[p] # "raced" => Cardinality(Retreating') = Cardinality(Retreating) - 1
<1> DEFINE A == SlotOwners
           B == SlotOwners'
           C == Retreating
           D == Retreating'
<1>1. IsFiniteSet(Proc)
    BY Zenon, CbwManageConstants
<1>2. /\ A \in SUBSET Proc /\ B \in SUBSET Proc /\ C \in SUBSET Proc /\ D \in SUBSET Proc
      /\ (p \in A <=> HasSlot(p)) /\ (p \in B <=> HasSlot(p)')
      /\ (p \in C <=> pc[p] = "raced") /\ (p \in D <=> pc'[p] = "raced")
    BY Zenon DEF SlotOwners, Retreating
<1>3. \A q \in Proc \ {p} : q \in A <=> q \in B
    BY Zenon DEF SlotOwners, Others, HasSlot
<1>4. \A q \in Proc \ {p} : q \in C <=> q \in D
    BY Zenon DEF Retreating, Others
<1> HIDE DEF A, B, C, D
<1>5. /\ Cardinality(A) \in Nat /\ Cardinality(B) \in Nat
      /\ (p \in A <=> p \in B) => Cardinality(B) = Cardinality(A)
      /\ p \notin A /\ p \in B => Cardinality(B) = Cardinality(A) + 1
      /\ p \in A /\ p \notin B => Cardinality(B) = Cardinality(A) - 1
    BY SMTT(30), <1>1, <1>2, <1>3, Recount
<1>6. /\ Cardinality(C) \in Nat /\ Cardinality(D) \in Nat
      /\ (p \in C <=> p \in D) => Cardinality(D) = Cardinality(C)
      /\ p \notin C /\ p \in D => Cardinality(D) = Cardinality(C) + 1
      /\ p \in C /\ p \notin D => Cardinality(D) = Cardinality(C) - 1
    BY <1>1, <1>2, <1>4, Recount
<1> QED BY <1>2, <1>5, <1>6, Zenon DEF A, B, C, D

\* How the mapped cgroups are counted.
LEMMA MappedCount ==
    ASSUME GlobalTypes, NEW g \in Cgrp
    PROVE  /\ Cardinality(managed) \in Nat
           /\ Cardinality(managed \cup {g}) = IF g \in managed THEN Cardinality(managed) ELSE Cardinality(managed) + 1
           /\ g \in managed => Cardinality(managed \ {g}) = Cardinality(managed) - 1
<1>1. IsFiniteSet(managed)
    BY Zenon, FS_Subset, CbwManageConstants DEF GlobalTypes
<1> QED BY Zenon, <1>1, FS_CardinalityType, FS_AddElement, FS_RemoveElement

\* Every step takes and gives back slots as it should.
LEMMA SlotsStep ==
    ASSUME CpuTypes, CpuTypes', GlobalTypes, GlobalTypes', NEW p \in Proc, Others(p), \A q \in Proc : Local(q),
           Lives, Slots, Step(p)
    PROVE  Slots' /\ (Complete /\ SlotsCount => SlotsCount')
<1> DEFINE g == cg[p]
           m == Cardinality(managed)
           mm == Cardinality(managed')
           s == Cardinality(SlotOwners)
           ss == Cardinality(SlotOwners')
           r == Cardinality(Retreating)
           rr == Cardinality(Retreating')
<1>1. g \in Cgrp
    BY Zenon, Acting
<1>2. m \in Nat /\ s \in Nat /\ ss \in Nat /\ r \in Nat /\ rr \in Nat /\ nrCgx \in Int /\ nrCgx' \in Int /\ NrCgrpMax \in Nat
    BY Zenon, <1>1, MappedCount, OwnersCount, CbwManageConstants DEF GlobalTypes
<1>3. /\ (HasSlot(p) <=> HasSlot(p)') => ss = s
      /\ ~HasSlot(p) /\ HasSlot(p)' => ss = s + 1
      /\ HasSlot(p) /\ ~HasSlot(p)' => ss = s - 1
      /\ (pc[p] = "raced" <=> pc'[p] = "raced") => rr = r
      /\ pc[p] # "raced" /\ pc'[p] = "raced" => rr = r + 1
      /\ pc[p] = "raced" /\ pc'[p] # "raced" => rr = r - 1
    BY Zenon, OwnersCount
<1>4. /\ managed' = managed => mm = m
      /\ managed' = managed \cup {g} => mm = IF g \in managed THEN m ELSE m + 1
      /\ managed' = managed \ {g} /\ g \in managed => mm = m - 1
    BY Zenon, <1>1, MappedCount
<1>5. Complete /\ pc[p] = "publish" => g \notin managed
    BY Zenon DEF Complete, Built, Builds
<1>6. /\ Slots <=> nrCgx >= m + s /\ nrCgx <= NrCgrpMax + r
      /\ Slots' <=> nrCgx' >= mm + ss /\ nrCgx' <= NrCgrpMax + rr
      /\ SlotsCount <=> nrCgx = m + s
      /\ SlotsCount' <=> nrCgx' = mm + ss
    BY Zenon DEF Slots, SlotsCount
<1> HIDE DEF m, mm, s, ss, r, rr, g
<1>7. CASE /\ nrCgx' = nrCgx + 1 /\ managed' = managed /\ ~HasSlot(p) /\ HasSlot(p)'
           /\ pc[p] # "raced" /\ (pc'[p] = "raced" <=> ~(nrCgx < NrCgrpMax))
    BY SMTT(30), <1>2, <1>3, <1>4, <1>6, <1>7
<1>8. CASE /\ nrCgx' = nrCgx - 1 /\ managed' = managed /\ HasSlot(p) /\ ~HasSlot(p)' /\ pc'[p] # "raced"
    BY SMTT(30), <1>2, <1>3, <1>4, <1>6, <1>8
<1>9. CASE /\ nrCgx' = nrCgx /\ managed' = managed \cup {g} /\ HasSlot(p) /\ ~HasSlot(p)'
           /\ pc[p] = "publish" /\ pc'[p] # "raced"
    BY SMTT(30), <1>2, <1>3, <1>4, <1>5, <1>6, <1>9
<1>10. CASE /\ nrCgx' = nrCgx /\ managed' = managed \ {g} /\ ~HasSlot(p) /\ HasSlot(p)'
            /\ g \in managed /\ pc[p] # "raced" /\ pc'[p] # "raced"
    BY SMTT(30), <1>2, <1>3, <1>4, <1>6, <1>10
<1>11. CASE /\ nrCgx' = nrCgx /\ managed' = managed /\ (HasSlot(p)' <=> HasSlot(p))
            /\ pc[p] # "raced" /\ pc'[p] # "raced"
    BY Zenon, <1>2, <1>3, <1>4, <1>6, <1>11
<1> QED BY Zenon, <1>7, <1>8, <1>9, <1>10, <1>11, StepSlots DEF g

\* A call leaves the slots alone.
LEMMA SlotsCall ==
    ASSUME CpuTypes, GlobalTypes, NEW p \in Proc, NEW g \in Cgrp, Others(p), Slots, Call(p, g)
    PROVE  Slots' /\ (SlotsCount => SlotsCount')
<1>1. UNCHANGED <<nrCgx, managed>> /\ ~HasSlot(p) /\ ~HasSlot(p)' /\ pc[p] # "raced" /\ pc'[p] # "raced"
    BY Zenon, CallSlots
<1>2. Cardinality(SlotOwners') = Cardinality(SlotOwners) /\ Cardinality(Retreating') = Cardinality(Retreating)
    BY Zenon, <1>1, OwnersCount
<1> QED BY <1>1, <1>2, Zenon DEF Slots, SlotsCount

-----------------------------------------------------------------------------
(* Paying what the reserve owes *)

\* What the reserve owes is finite, and owed to cgroups with a reservation.
LEMMA OwedFinite ==
    ASSUME CpuTypes, GlobalTypes, \A q \in Proc : Local(q), Lives, pending = Cardinality(Reserving)
    PROVE  /\ IsFiniteSet(OwedCgx) /\ IsFiniteSet(OwedLlcx)
           /\ pending \in Nat /\ Cardinality(OwedCgx) <= pending /\ Cardinality(OwedLlcx) <= pending * NrLlc
<1> DEFINE R == Reserving
           A == OwedCgx
           B == OwedLlcx
<1>1. \A q \in Proc : pc[q] = "spare" => life[cg[q]] = "init"
    BY Zenon DEF Lives, Live, Local
<1>2. \A g \in Cgrp : \A n : Owed(g, n) => g \in R
    BY <1>1, Zenon DEF Owed, Reserving
<1>3. A \subseteq R
    BY <1>2, Zenon DEF OwedCgx
<1>4. B \subseteq R \X LLC
    <2>1. ASSUME NEW gl \in B PROVE gl \in R \X LLC
        <3>1. gl \in Cgrp \X LLC /\ Owed(gl[1], gl[2])
            BY <2>1, Zenon DEF OwedLlcx
        <3>2. PICK h \in Cgrp, l \in LLC : gl = <<h, l>>
            BY <3>1
        <3>3. h \in R
            BY Zenon, <1>2, <3>1, <3>2
        <3> QED BY Zenon, <3>2, <3>3
    <2> QED BY Zenon, <2>1
<1>5. R \subseteq Cgrp /\ IsFiniteSet(Cgrp)
    BY Zenon, CbwManageConstants DEF Reserving
<1> HIDE DEF R, A, B
<1>6. IsFiniteSet(R) /\ Cardinality(R) \in Nat
    BY Zenon, <1>5, FS_Subset, FS_CardinalityType
<1>7. IsFiniteSet(LLC) /\ Cardinality(LLC) = NrLlc
    BY FS_Interval, CbwManageConstants DEF LLC
<1>8. IsFiniteSet(R \X LLC) /\ Cardinality(R \X LLC) = Cardinality(R) * NrLlc
    BY Zenon, <1>6, <1>7, FS_Product
<1>9. IsFiniteSet(A) /\ Cardinality(A) <= Cardinality(R)
    BY Zenon, <1>3, <1>6, FS_Subset
<1>10. IsFiniteSet(B) /\ Cardinality(B) <= Cardinality(R) * NrLlc
    BY <1>4, <1>8, FS_Subset
<1>11. pending = Cardinality(R)
    BY Zenon DEF R
<1> QED BY Zenon, <1>6, <1>9, <1>10, <1>11 DEF A, B

\* A write that is about to draw finds what it is owed.
LEMMA SupplyThere ==
    ASSUME CpuTypes, GlobalTypes, IsFiniteSet(OwedCgx), IsFiniteSet(OwedLlcx), NEW p \in Proc,
           \A q \in Proc : Local(q), Lives, Solo, Reserve, op[p] = "set", pc[p] = "supply"
    PROVE  free[KindOf(p)] > 0
<1> DEFINE g == cg[p]
<1>1. g \in Cgrp /\ g # None /\ life[g] = "live" /\ g \notin managed /\ i[p] \in 0..NrLlc
    BY SMTT(30), Busy, CbwManageConstants DEF Lives, Live, Reserve, Draws, Local, CpuTypes
<1>2. ~Drawn(p, i[p])
    BY <1>1 DEF Drawn
<1>3. Owed(g, i[p])
    BY <1>1, <1>2, Zenon DEF Owed, Solo
<1>4. \A S : IsFiniteSet(S) /\ S # {} => Cardinality(S) \in Nat /\ Cardinality(S) > 0
    BY FS_EmptySet, FS_CardinalityType
<1>5. free["cgx"] \in Nat /\ free["llcx"] \in Nat
    BY Zenon DEF GlobalTypes, Kind
<1>6. CASE i[p] = 0
    <2>1. g \in OwedCgx
        BY <1>1, <1>3, <1>6, Zenon DEF OwedCgx
    <2>2. Cardinality(OwedCgx) \in Nat /\ Cardinality(OwedCgx) > 0
        BY <1>4, <2>1, Zenon
    <2> QED BY <1>5, <1>6, <2>2 DEF Reserve, KindOf
<1>7. CASE i[p] # 0
    <2>1. <<g, i[p]>> \in OwedLlcx
        BY <1>1, <1>3, <1>7 DEF OwedLlcx, LLC
    <2>2. Cardinality(OwedLlcx) \in Nat /\ Cardinality(OwedLlcx) > 0
        BY <1>4, <2>1, Zenon
    <2> QED BY SMTT(30), <1>5, <1>7, <2>2 DEF Reserve, KindOf
<1> QED BY Zenon, <1>6, <1>7

\* What the two sets hold.
LEMMA OwedMembers ==
    /\ \A h : h \in OwedCgx' <=> h \in Cgrp /\ Owed(h, 0)'
    /\ \A h : h \in OwedCgx <=> h \in Cgrp /\ Owed(h, 0)
    /\ \A gl : gl \in OwedLlcx' <=> gl \in Cgrp \X LLC /\ Owed(gl[1], gl[2])'
    /\ \A gl : gl \in OwedLlcx <=> gl \in Cgrp \X LLC /\ Owed(gl[1], gl[2])
    /\ 0 \in 0..NrLlc /\ LLC \subseteq 0..NrLlc /\ 0 \notin LLC /\ (\A n \in 0..NrLlc : n # 0 => n \in LLC)
    /\ \A gl \in Cgrp \X LLC : gl[1] \in Cgrp /\ gl[2] \in LLC /\ gl = <<gl[1], gl[2]>>
<1>1. \A h : h \in OwedCgx' <=> h \in Cgrp /\ Owed(h, 0)'
    BY Zenon DEF OwedCgx
<1>2. \A h : h \in OwedCgx <=> h \in Cgrp /\ Owed(h, 0)
    BY Zenon DEF OwedCgx
<1>3. \A gl : gl \in OwedLlcx' <=> gl \in Cgrp \X LLC /\ Owed(gl[1], gl[2])'
    BY Zenon DEF OwedLlcx
<1>4. \A gl : gl \in OwedLlcx <=> gl \in Cgrp \X LLC /\ Owed(gl[1], gl[2])
    BY Zenon DEF OwedLlcx
<1>5. 0 \in 0..NrLlc /\ LLC \subseteq 0..NrLlc /\ 0 \notin LLC /\ (\A n \in 0..NrLlc : n # 0 => n \in LLC)
    BY CbwManageConstants DEF LLC
<1>6. \A gl \in Cgrp \X LLC : gl[1] \in Cgrp /\ gl[2] \in LLC /\ gl = <<gl[1], gl[2]>>
    OBVIOUS
<1> QED BY <1>1, <1>2, <1>3, <1>4, <1>5, <1>6, Zenon

\* What is owed for g does not grow.
LEMMA OwedShrinks ==
    ASSUME NEW g \in Cgrp, \A h \in Cgrp \ {g} : \A k \in 0..NrLlc : Owed(h, k)' <=> Owed(h, k),
           \A k \in 0..NrLlc : Owed(g, k)' => Owed(g, k)
    PROVE  OwedCgx' \subseteq OwedCgx /\ OwedLlcx' \subseteq OwedLlcx
BY OwedMembers, Zenon

\* It grows at n.
LEMMA OwedGrows ==
    ASSUME NEW g \in Cgrp, \A h \in Cgrp \ {g} : \A k \in 0..NrLlc : Owed(h, k)' <=> Owed(h, k),
           NEW n \in 0..NrLlc, \A k \in 0..NrLlc : Owed(g, k)' => Owed(g, k) \/ k = n
    PROVE  /\ n = 0 => OwedCgx' \subseteq OwedCgx \cup {g} /\ OwedLlcx' \subseteq OwedLlcx
           /\ n # 0 => OwedCgx' \subseteq OwedCgx /\ OwedLlcx' \subseteq OwedLlcx \cup {<<g, n>>}
<1>1. CASE n = 0
    BY <1>1, OwedMembers, Zenon
<1>2. CASE n # 0
    <2>1. OwedCgx' \subseteq OwedCgx
        BY <1>2, OwedMembers, Zenon
    <2>2. ASSUME NEW gl \in OwedLlcx' PROVE gl \in OwedLlcx \cup {<<g, n>>}
        <3>1. gl[1] \in Cgrp /\ gl[2] \in 0..NrLlc /\ gl = <<gl[1], gl[2]>> /\ gl \in Cgrp \X LLC
              /\ Owed(gl[1], gl[2])'
            BY <2>2, OwedMembers, Zenon
        <3>2. Owed(gl[1], gl[2]) \/ gl = <<g, n>>
            BY <3>1, Zenon
        <3> QED BY <3>1, <3>2, OwedMembers, Zenon
    <2> QED BY <1>2, <2>1, <2>2, Zenon
<1> QED BY Zenon, <1>1, <1>2

\* It shrinks at n.
LEMMA OwedDrawn ==
    ASSUME NEW g \in Cgrp, \A h \in Cgrp \ {g} : \A k \in 0..NrLlc : Owed(h, k)' <=> Owed(h, k),
           NEW n \in 0..NrLlc, Owed(g, n), \A k \in 0..NrLlc : Owed(g, k)' => Owed(g, k) /\ k # n
    PROVE  /\ OwedCgx' \subseteq OwedCgx /\ OwedLlcx' \subseteq OwedLlcx
           /\ n = 0 => g \in OwedCgx /\ OwedCgx' \subseteq OwedCgx \ {g}
           /\ n # 0 => <<g, n>> \in OwedLlcx /\ OwedLlcx' \subseteq OwedLlcx \ {<<g, n>>}
<1>1. OwedCgx' \subseteq OwedCgx /\ OwedLlcx' \subseteq OwedLlcx
    BY OwedShrinks, Zenon
<1>2. n = 0 => g \in OwedCgx /\ g \notin OwedCgx'
    BY OwedMembers, Zenon
<1>3. <<g, n>>[1] = g /\ <<g, n>>[2] = n /\ (n \in LLC => <<g, n>> \in Cgrp \X LLC)
    BY Zenon
<1>4. n # 0 => <<g, n>> \in OwedLlcx /\ <<g, n>> \notin OwedLlcx'
    BY <1>3, OwedMembers, Zenon
<1> QED BY <1>1, <1>2, <1>4, Zenon

\* Every step keeps the reserve, and no write starves, as long as no claim was stale.
LEMMA ReserveStep ==
    ASSUME CpuTypes, CpuTypes', GlobalTypes, GlobalTypes', NEW p \in Proc, Others(p), \A q \in Proc : Local(q),
           Local(p)', Lives, NEW g \in Cgrp, g = cg[p], OnlyFor(p, g), Stays(p), Complete, Solo,
           pending = Cardinality(Reserving), Reserve, Step(p), ~ClaimsStale(p)
    PROVE  Reserve' /\ ~Starving(p)'
<1>1. /\ IsFiniteSet(OwedCgx) /\ IsFiniteSet(OwedLlcx)
      /\ pending \in Nat /\ Cardinality(OwedCgx) <= pending /\ Cardinality(OwedLlcx) <= pending * NrLlc
    BY Zenon, OwedFinite
<1>2. op[p] = "set" /\ pc[p] = "supply" => free[KindOf(p)] > 0
    BY Zenon, <1>1, SupplyThere
<1>3. Draws(p)' /\ ~Starving(p)'
    BY Zenon, <1>2, WriteDraws DEF Reserve
<1>4. \A q \in Proc : Draws(q)'
    <2>1. ASSUME NEW q \in Proc \ {p}, op'[q] = "set" PROVE Draws(q)'
        <3>1. op'[q] = op[q] /\ pc'[q] = pc[q] /\ cg'[q] = cg[q] /\ f'[q] = f[q]
            BY Zenon DEF Others
        <3>2. cg[q] \in Cgrp \ {g}
            BY Zenon, <2>1, <3>1, CbwManageConstants DEF Solo, Local, CpuTypes
        <3> QED BY <3>1, <3>2, Zenon DEF OnlyFor, Reserve, Draws
    <2> QED BY <1>3, <2>1, Zenon DEF Draws
<1>5. \A h \in Cgrp \ {g} : \A k \in 0..NrLlc : Owed(h, k)' <=> Owed(h, k)
    BY Zenon, OwedFrame
<1>6. \A k \in 0..NrLlc :
         IF op[p] = "set" /\ ClaimCas(p) /\ free[KindOf(p)] = f[p]
         THEN Owed(g, i[p]) /\ (Owed(g, k)' => Owed(g, k) /\ k # i[p])
         ELSE Owed(g, k)' => Owed(g, k) \/ (BuildSpare(p) /\ k = i[p])
    BY Zenon, StepOwed DEF Reserve
<1>7. i[p] \in 0..NrLlc /\ free["cgx"] \in Nat /\ free["llcx"] \in Nat /\ free'["cgx"] \in Nat /\ free'["llcx"] \in Nat
    BY CbwManageConstants DEF CpuTypes, Local, GlobalTypes, Kind
<1> DEFINE a == Cardinality(OwedCgx)
           b == Cardinality(OwedLlcx)
           aa == Cardinality(OwedCgx')
           bb == Cardinality(OwedLlcx')
<1>8. /\ a \in Nat /\ b \in Nat
      /\ OwedCgx' \subseteq OwedCgx => aa \in Nat /\ aa <= a
      /\ OwedLlcx' \subseteq OwedLlcx => bb \in Nat /\ bb <= b
      /\ OwedCgx' \subseteq OwedCgx \cup {g} => aa \in Nat /\ aa <= a + 1
      /\ OwedLlcx' \subseteq OwedLlcx \cup {<<g, i[p]>>} => bb \in Nat /\ bb <= b + 1
      /\ g \in OwedCgx /\ OwedCgx' \subseteq OwedCgx \ {g} => aa \in Nat /\ aa <= a - 1
      /\ <<g, i[p]>> \in OwedLlcx /\ OwedLlcx' \subseteq OwedLlcx \ {<<g, i[p]>>} => bb \in Nat /\ bb <= b - 1
    BY Zenon, <1>1, Bounds
<1>9. free["cgx"] >= a /\ free["llcx"] >= b
    BY Zenon DEF Reserve
<1>10. SUFFICES free'["cgx"] >= aa /\ free'["llcx"] >= bb
    BY Zenon, <1>3, <1>4 DEF Reserve
<1> HIDE DEF a, b, aa, bb
<1>11. "cgx" # "llcx" /\ KindOf(p) = IF i[p] = 0 THEN "cgx" ELSE "llcx"
    BY Zenon DEF KindOf
<1>12. Add(KindOf(p), -1) =>
          /\ i[p] = 0 => free'["cgx"] = free["cgx"] - 1 /\ free'["llcx"] = free["llcx"]
          /\ i[p] # 0 => free'["cgx"] = free["cgx"] /\ free'["llcx"] = free["llcx"] - 1
    BY Zenon, <1>7, <1>11 DEF Add, GlobalTypes, Kind
<1>16. Add(KindOf(p), 1) =>
          /\ i[p] = 0 => free'["cgx"] = free["cgx"] + 1 /\ free'["llcx"] = free["llcx"]
          /\ i[p] # 0 => free'["cgx"] = free["cgx"] /\ free'["llcx"] = free["llcx"] + 1
    BY Zenon, <1>7, <1>11 DEF Add, GlobalTypes, Kind
<1>13. CASE op[p] = "set" /\ ClaimCas(p) /\ free[KindOf(p)] = f[p]
    <2>1. Add(KindOf(p), -1)
        BY <1>13, Zenon DEF ClaimCas
    <2>2. /\ OwedCgx' \subseteq OwedCgx /\ OwedLlcx' \subseteq OwedLlcx
          /\ i[p] = 0 => g \in OwedCgx /\ OwedCgx' \subseteq OwedCgx \ {g}
          /\ i[p] # 0 => <<g, i[p]>> \in OwedLlcx /\ OwedLlcx' \subseteq OwedLlcx \ {<<g, i[p]>>}
        BY <1>5, <1>6, <1>7, <1>13, OwedDrawn, ZenonT(30)
    <2>3. CASE i[p] = 0
        <3>1. aa \in Nat /\ bb \in Nat /\ aa <= a - 1 /\ bb <= b
            BY <1>8, <2>2, <2>3, Zenon
        <3>2. free'["cgx"] = free["cgx"] - 1 /\ free'["llcx"] = free["llcx"]
            BY Zenon, <1>12, <2>1, <2>3
        <3> QED BY SMTT(30), <1>7, <1>8, <1>9, <3>1, <3>2
    <2>4. CASE i[p] # 0
        <3>1. aa \in Nat /\ bb \in Nat /\ aa <= a /\ bb <= b - 1
            BY <1>8, <2>2, <2>4, Zenon
        <3>2. free'["cgx"] = free["cgx"] /\ free'["llcx"] = free["llcx"] - 1
            BY Zenon, <1>12, <2>1, <2>4
        <3> QED BY SMTT(30), <1>7, <1>8, <1>9, <3>1, <3>2
    <2> QED BY Zenon, <2>3, <2>4
<1>14. CASE BuildSpare(p)
    <2>1. Add(KindOf(p), 1)
        BY <1>14, Zenon DEF BuildSpare, KindOf
    <2>2. ~ClaimCas(p)
        BY Zenon, <1>14 DEF BuildSpare, ClaimCas, At
    <2>3. \A k \in 0..NrLlc : Owed(g, k)' => Owed(g, k) \/ k = i[p]
        BY <1>6, <2>2, Zenon
    <2>4. /\ i[p] = 0 => OwedCgx' \subseteq OwedCgx \cup {g} /\ OwedLlcx' \subseteq OwedLlcx
          /\ i[p] # 0 => OwedCgx' \subseteq OwedCgx /\ OwedLlcx' \subseteq OwedLlcx \cup {<<g, i[p]>>}
        BY <1>5, <1>7, <2>3, OwedGrows, ZenonT(30)
    <2>5. CASE i[p] = 0
        <3>1. aa \in Nat /\ bb \in Nat /\ aa <= a + 1 /\ bb <= b
            BY <1>8, <2>4, <2>5, ZenonT(30)
        <3>2. free'["cgx"] = free["cgx"] + 1 /\ free'["llcx"] = free["llcx"]
            BY Zenon, <1>16, <2>1, <2>5
        <3> QED BY SMTT(30), <1>7, <1>8, <1>9, <3>1, <3>2
    <2>6. CASE i[p] # 0
        <3>1. aa \in Nat /\ bb \in Nat /\ aa <= a /\ bb <= b + 1
            BY <1>8, <2>4, <2>6, Zenon
        <3>2. free'["cgx"] = free["cgx"] /\ free'["llcx"] = free["llcx"] + 1
            BY Zenon, <1>16, <2>1, <2>6
        <3> QED BY SMTT(30), <1>7, <1>8, <1>9, <3>1, <3>2
    <2> QED BY Zenon, <2>5, <2>6
<1>15. CASE ~BuildSpare(p) /\ ~(op[p] = "set" /\ ClaimCas(p) /\ free[KindOf(p)] = f[p])
    <2>1. OwedCgx' \subseteq OwedCgx /\ OwedLlcx' \subseteq OwedLlcx
        BY <1>5, <1>6, <1>15, OwedShrinks, Zenon
    <2>2. aa \in Nat /\ bb \in Nat /\ aa <= a /\ bb <= b
        BY <1>8, <2>1, Zenon
    <2>3. CASE ClaimCas(p) /\ free[KindOf(p)] = f[p]
        <3>1. op[p] \in {"init", "exit"}
            BY Zenon, <1>15, <2>3, Acting
        <3>2. op[p] = "init" /\ pc[p] = "cas" /\ pc'[p] # "cas" /\ Add(KindOf(p), -1)
            BY Zenon, <2>3, <3>1, InitClaims
        <3>3. ~(f[p] <= Floor(p)) /\ f[p] \in Nat
            BY <2>3, <3>2, ZenonT(30) DEF ClaimsStale, At, CpuTypes
        <3>4. CASE i[p] = 0
            <4>1. free["cgx"] > pending
                BY SMTT(30), <1>1, <1>11, <2>3, <3>2, <3>3, <3>4 DEF Floor
            <4>2. free'["cgx"] = free["cgx"] - 1 /\ free'["llcx"] = free["llcx"]
                BY Zenon, <1>12, <3>2, <3>4
            <4>3. a <= pending
                BY Zenon, <1>1 DEF a
            <4> QED BY SMTT(30), <1>1, <1>7, <1>8, <1>9, <2>2, <4>1, <4>2, <4>3
        <3>5. CASE i[p] # 0
            <4>1. pending * NrLlc \in Nat
                BY SMTT(30), <1>1, CbwManageConstants
            <4>2. free["llcx"] > pending * NrLlc
                BY SMTT(30), <1>1, <1>11, <2>3, <3>2, <3>3, <3>5, <4>1 DEF Floor
            <4>3. free'["cgx"] = free["cgx"] /\ free'["llcx"] = free["llcx"] - 1
                BY Zenon, <1>12, <3>2, <3>5
            <4>4. b <= pending * NrLlc
                BY ZenonT(30), <1>1 DEF b
            <4> QED BY SMTT(30), <1>7, <1>8, <1>9, <2>2, <4>1, <4>2, <4>3, <4>4
        <3> QED BY Zenon, <3>4, <3>5
    <2>4. CASE ~(ClaimCas(p) /\ free[KindOf(p)] = f[p])
        <3>1. free'["cgx"] >= free["cgx"] /\ free'["llcx"] >= free["llcx"]
            BY Zenon, <1>15, <2>4, StepFree DEF Kind
        <3> QED BY SMTT(30), <1>7, <1>8, <1>9, <2>2, <3>1
    <2> QED BY Zenon, <2>3, <2>4
<1> QED BY Zenon, <1>13, <1>14, <1>15

\* A call keeps it too.
LEMMA ReserveCall ==
    ASSUME CpuTypes, CpuTypes', GlobalTypes, GlobalTypes', NEW p \in Proc, NEW g \in Cgrp, Others(p),
           \A q \in Proc : Local(q), Lives, OnlyFor(p, g), pending = Cardinality(Reserving), Reserve, Call(p, g)
    PROVE  Reserve' /\ ~Starving(p)'
<1>1. IsFiniteSet(OwedCgx) /\ IsFiniteSet(OwedLlcx)
    BY Zenon, OwedFinite
<1>2. /\ cg[p] = None /\ managed' = managed /\ free' = free
      /\ op'[p] = "set" => pc'[p] = "slot" /\ cg'[p] = g /\ g \notin managed
    BY Zenon DEF Call, InitUnlimited, InitLimited, SetLimit, ExitUnmanaged, ExitManaged, Begin, At, Local,
       CpuTypes, global
<1>3. Draws(p)' /\ ~Starving(p)'
    BY Zenon, <1>2 DEF Draws, Starving, At
<1>4. \A q \in Proc : Draws(q)'
    BY <1>2, <1>3, Zenon DEF Others, Reserve, Draws
<1>5. \A h \in Cgrp \ {g} : \A k \in 0..NrLlc : Owed(h, k)' <=> Owed(h, k)
    BY Zenon, <1>2, OwedFrame
<1>6. \A k \in 0..NrLlc : Owed(g, k)' => Owed(g, k)
    BY Zenon, CallOwed
<1>7. 0 \in 0..NrLlc
    BY CbwManageConstants
<1>8. OwedCgx' \subseteq OwedCgx /\ OwedLlcx' \subseteq OwedLlcx
    BY <1>5, <1>6, OwedShrinks, Zenon
<1>9. free["cgx"] \in Nat /\ free["llcx"] \in Nat
    BY Zenon DEF GlobalTypes, Kind
<1>10. /\ Cardinality(OwedCgx) \in Nat /\ Cardinality(OwedCgx') \in Nat
       /\ Cardinality(OwedCgx') <= Cardinality(OwedCgx)
       /\ Cardinality(OwedLlcx) \in Nat /\ Cardinality(OwedLlcx') \in Nat
       /\ Cardinality(OwedLlcx') <= Cardinality(OwedLlcx)
    BY Zenon, <1>1, <1>8, Bounds
<1> QED BY SMTT(30), <1>2, <1>3, <1>4, <1>9, <1>10 DEF Reserve

-----------------------------------------------------------------------------
(* The invariant *)

\* As long as the reserve sufficed, the contexts are complete and the two
\* counters exact; as long as no write raced another on its cgroup and no init
\* claimed through a stale floor, the reserve suffices.
Histories == raced \in BOOLEAN /\ starved \in BOOLEAN /\ stale \in BOOLEAN
Exact == Complete /\ pending = Cardinality(Reserving) /\ SlotsCount
IInv ==
    /\ CpuTypes /\ GlobalTypes /\ Histories
    /\ \A p \in Proc : Local(p)
    /\ Lives
    /\ Slots
    /\ ~starved => Exact
    /\ ~raced => Solo
    /\ ~raced /\ ~stale => ~starved /\ Reserve

\* What the history variables say of a step.
LEMMA HistoryStep ==
    ASSUME Histories, History
    PROVE  /\ Histories'
           /\ ~starved' => ~starved /\ \A q \in Proc : ~Starving(q)'
           /\ ~raced' => ~raced /\ \A q, r \in Proc : ~Racing(q, r)'
           /\ ~stale' => ~stale /\ \A q \in Proc : ~ClaimsStale(q)
           /\ ~starved /\ (\A q \in Proc : ~Starving(q)') => ~starved'
<1>1. Histories'
    BY Zenon DEF Histories, History
<1>2. /\ ~starved' => ~starved /\ \A q \in Proc : ~Starving(q)'
      /\ ~raced' => ~raced /\ \A q, r \in Proc : ~Racing(q, r)'
      /\ ~stale' => ~stale /\ \A q \in Proc : ~ClaimsStale(q)
      /\ ~starved /\ (\A q \in Proc : ~Starving(q)') => ~starved'
    BY Zenon DEF History
<1> QED BY <1>1, <1>2, Zenon

\* Two handlers on one cgroup are two writes, so without a race there are none.
LEMMA SoloKept ==
    ASSUME Lives', \A q, r \in Proc : ~Racing(q, r)'
    PROVE  Solo'
BY Zenon DEF Lives, Racing, Solo

\* A CPU that does not move keeps what it holds, and does not begin to starve.
LEMMA OtherLocal ==
    ASSUME NEW p \in Proc, Others(p), \A q \in Proc : Local(q), Local(p)'
    PROVE  /\ \A q \in Proc : Local(q)'
           /\ Complete /\ ~Starving(p)' => \A q \in Proc : ~Starving(q)'
<1>1. ASSUME NEW q \in Proc PROVE Local(q)'
    <2>1. CASE q = p
        BY <2>1, Zenon
    <2>2. CASE q # p
        <3>1. op'[q] = op[q] /\ pc'[q] = pc[q] /\ cg'[q] = cg[q] /\ i'[q] = i[q] /\ f'[q] = f[q]
            BY <2>2, Zenon DEF Others
        <3>2. Local(q)
            BY Zenon
        <3> QED BY <3>1, <3>2, Zenon DEF Local
    <2> QED BY <2>1, <2>2, Zenon
<1>2. ASSUME Complete, ~Starving(p)', NEW q \in Proc PROVE ~Starving(q)'
    <2>1. CASE q = p
        BY <1>2, <2>1, Zenon
    <2>2. CASE q # p
        <3>1. op'[q] = op[q] /\ pc'[q] = pc[q]
            BY <2>2, Zenon DEF Others
        <3>2. op[q] = "set" => pc[q] # "nomem"
            BY <1>2, Zenon DEF Complete, NoFail
        <3> QED BY <3>1, <3>2, Zenon DEF Starving, At
    <2> QED BY <2>1, <2>2, Zenon
<1> QED BY <1>1, <1>2, Zenon

\* A step keeps everything exact, as long as the reserve suffices.
LEMMA ExactStep ==
    ASSUME CpuTypes, CpuTypes', GlobalTypes, GlobalTypes', NEW p \in Proc, Others(p), \A q \in Proc : Local(q),
           Local(p)', Lives, Lives', OnlyFor(p, cg[p]), Stays(p), Slots, Exact, Step(p), ~Starving(p)'
    PROVE  Exact'
<1>1. Complete /\ pending = Cardinality(Reserving) /\ SlotsCount
    BY Zenon DEF Exact
<1>2. SlotsCount'
    BY <1>1, SlotsStep, Zenon
<1>3. Complete'
    <2>1. CASE PublishLlc(p) \/ Publish(p) \/ Delete(p) \/ ReleaseLlc(p)
        BY <1>1, <2>1, StepMaps, Zenon
    <2>2. CASE ~PublishLlc(p) /\ ~Publish(p) /\ ~Delete(p) /\ ~ReleaseLlc(p)
        BY <1>1, <2>2, StepQuiet, Zenon
    <2> QED BY <2>1, <2>2, Zenon
<1>4. cg[p] \in Cgrp
    BY Acting, Zenon
<1>5. PICK g \in Cgrp : g = cg[p]
    BY <1>4, Zenon
<1>6. OnlyFor(p, g) /\ cg[p] \in {g, None}
    BY <1>5, Zenon
<1>7. \A h \in Cgrp \ {g} : h \in Reserving' <=> h \in Reserving
    BY <1>6, ReservingFrame, Zenon
<1>8. \/ pending' = pending /\ (g \in Reserving' <=> g \in Reserving)
      \/ pending' = pending - 1 /\ g \in Reserving /\ g \notin Reserving'
    BY <1>1, <1>5, StepReserving, Zenon
<1>9. pending' = Cardinality(Reserving')
    BY <1>1, <1>7, <1>8, ReservedStep, Zenon
<1> QED BY <1>2, <1>3, <1>9, Zenon DEF Exact

\* And so does a call.
LEMMA ExactCall ==
    ASSUME CpuTypes, CpuTypes', GlobalTypes, GlobalTypes', NEW p \in Proc, NEW g \in Cgrp, Others(p),
           \A q \in Proc : Local(q), Local(p)', Lives, OnlyFor(p, g), Slots, Exact, Call(p, g)
    PROVE  Exact'
<1>1. Complete /\ pending = Cardinality(Reserving) /\ SlotsCount
    BY Zenon DEF Exact
<1>2. SlotsCount'
    BY <1>1, SlotsCall, Zenon
<1>3. Complete'
    BY <1>1, CallComplete, Zenon
<1>4. cg[p] \in {g, None}
    <2>1. pc[p] = "idle"
        BY Zenon DEF Call, InitUnlimited, InitLimited, SetLimit, ExitUnmanaged, ExitManaged, Begin, At
    <2> QED BY <2>1, Zenon DEF Local
<1>5. \A h \in Cgrp \ {g} : h \in Reserving' <=> h \in Reserving
    BY <1>4, ReservingFrame, Zenon
<1>6. pending' = Cardinality(Reserving')
    BY <1>1, <1>5, CallReserving, ReservedStep, Zenon
<1> QED BY <1>2, <1>3, <1>6, Zenon DEF Exact

\* IInv holds initially.
LEMMA InitInv == Init => IInv
<1> SUFFICES ASSUME Init PROVE IInv
    BY Zenon
<1>1. CpuTypes /\ (\A p \in Proc : Local(p) /\ pc[p] = "idle" /\ op[p] = "none" /\ cg[p] = None)
    BY CbwManageConstants DEF Init, CpuTypes, Local, Label
<1>2. GlobalTypes /\ pending = 0 /\ nrCgx = 0 /\ managed = {}
      /\ (\A g \in Cgrp : life[g] = "none" /\ llcs[g] = {}) /\ free["cgx"] = 0 /\ free["llcx"] = 0
    BY CbwManageConstants DEF Init, GlobalTypes, Kind
<1>3. Histories /\ ~raced /\ ~starved /\ ~stale
    BY Zenon DEF Init, Histories
<1>4. Lives
    BY <1>1, <1>2, Zenon DEF Lives, Live
<1>5. SlotOwners = {} /\ Retreating = {}
    BY Zenon, <1>1 DEF SlotOwners, Retreating, HasSlot
<1>6. Cardinality({}) = 0
    BY Zenon, FS_EmptySet
<1>7. Slots /\ SlotsCount
    BY SMTT(30), <1>2, <1>5, <1>6, CbwManageConstants DEF Slots, SlotsCount
<1>8. Complete
    BY Zenon, <1>1, <1>2 DEF Complete, NoFail, Built, Left, Clash, Builds
<1>9. pending = Cardinality(Reserving)
    <2>1. Reserving = {}
        BY Zenon, <1>1, <1>2 DEF Reserving, At
    <2> QED BY <1>2, <1>6, <2>1, Zenon
<1>10. Solo
    BY <1>1, Zenon DEF Solo
<1>11. Reserve
    <2>1. \A g \in Cgrp : \A n : ~Owed(g, n)
        BY Zenon, <1>1, <1>2 DEF Owed
    <2>2. OwedCgx = {}
        BY <2>1, Zenon DEF OwedCgx
    <2>3. OwedLlcx = {}
        BY Zenon, <2>1 DEF OwedLlcx
    <2>4. \A p \in Proc : Draws(p)
        BY Zenon, <1>1 DEF Draws
    <2> QED BY SMTT(30), <1>2, <1>6, <2>2, <2>3, <2>4 DEF Reserve
<1> QED BY <1>1, <1>2, <1>3, <1>4, <1>7, <1>8, <1>9, <1>10, <1>11, Zenon DEF IInv, Exact

\* A step of a handler keeps IInv.
LEMMA StepInv ==
    ASSUME IInv, NEW p \in Proc, Step(p), History
    PROVE  IInv'
<1>1. /\ CpuTypes /\ GlobalTypes /\ Histories /\ (\A q \in Proc : Local(q)) /\ Lives /\ Slots
      /\ (~starved => Exact) /\ (~raced => Solo) /\ (~raced /\ ~stale => ~starved /\ Reserve)
    BY Zenon DEF IInv
<1>2. CpuTypes' /\ Others(p) /\ Local(p)'
    BY <1>1, StepCpu, Zenon
<1>3. GlobalTypes'
    BY <1>1, StepGlobal, Zenon
<1>4. Lives' /\ OnlyFor(p, cg[p]) /\ Stays(p)
    BY <1>1, <1>2, <1>3, StepLives, Zenon
<1>5. Slots'
    BY <1>1, <1>2, <1>3, SlotsStep, ZenonT(30)
<1>6. ~starved' => Exact'
    <2> SUFFICES ASSUME ~starved' PROVE Exact'
        BY Zenon
    <2>1. Exact /\ ~Starving(p)'
        BY <1>1, HistoryStep, Zenon
    <2> QED BY <1>1, <1>2, <1>3, <1>4, <2>1, ExactStep, Zenon
<1>7. ~raced' => Solo'
    BY <1>1, <1>4, HistoryStep, SoloKept, Zenon
<1>8. ~raced' /\ ~stale' => ~starved' /\ Reserve'
    <2> SUFFICES ASSUME ~raced', ~stale' PROVE ~starved' /\ Reserve'
        BY Zenon
    <2>1. ~raced /\ ~stale /\ ~ClaimsStale(p)
        BY <1>1, HistoryStep, Zenon
    <2>2. ~starved /\ Reserve /\ Solo /\ Complete /\ pending = Cardinality(Reserving)
        BY <1>1, <2>1, Zenon DEF Exact
    <2>3. PICK g \in Cgrp : g = cg[p]
        BY <1>1, Acting, Zenon
    <2>4. OnlyFor(p, g)
        BY <1>4, <2>3, Zenon
    <2>5. Reserve' /\ ~Starving(p)'
        BY <1>1, <1>2, <1>3, <1>4, <2>1, <2>2, <2>3, <2>4, ReserveStep, Zenon
    <2>6. ~starved'
        BY <1>1, <1>2, <2>2, <2>5, OtherLocal, HistoryStep, Zenon
    <2> QED BY <2>5, <2>6, Zenon
<1>9. Histories' /\ \A q \in Proc : Local(q)'
    BY <1>1, <1>2, HistoryStep, OtherLocal, Zenon
<1> QED BY <1>2, <1>3, <1>4, <1>5, <1>6, <1>7, <1>8, <1>9, Zenon DEF IInv

\* A call of a handler keeps IInv.
LEMMA CallInv ==
    ASSUME IInv, NEW p \in Proc, NEW g \in Cgrp, Call(p, g), History
    PROVE  IInv'
<1>1. /\ CpuTypes /\ GlobalTypes /\ Histories /\ (\A q \in Proc : Local(q)) /\ Lives /\ Slots
      /\ (~starved => Exact) /\ (~raced => Solo) /\ (~raced /\ ~stale => ~starved /\ Reserve)
    BY Zenon DEF IInv
<1>2. CpuTypes' /\ Others(p) /\ Local(p)'
    BY <1>1, CallCpu, Zenon
<1>3. GlobalTypes'
    BY <1>1, CallGlobal, Zenon
<1>4. Lives' /\ OnlyFor(p, g)
    BY <1>1, <1>2, <1>3, CallLives, Zenon
<1>5. Slots'
    BY <1>1, <1>2, <1>3, SlotsCall, Zenon
<1>6. ~starved' => Exact'
    <2> SUFFICES ASSUME ~starved' PROVE Exact'
        BY Zenon
    <2>1. Exact
        BY <1>1, HistoryStep, Zenon
    <2> QED BY <1>1, <1>2, <1>3, <1>4, <2>1, ExactCall, Zenon
<1>7. ~raced' => Solo'
    BY <1>1, <1>4, HistoryStep, SoloKept, Zenon
<1>8. ~raced' /\ ~stale' => ~starved' /\ Reserve'
    <2> SUFFICES ASSUME ~raced', ~stale' PROVE ~starved' /\ Reserve'
        BY Zenon
    <2>1. ~raced /\ ~stale
        BY <1>1, HistoryStep, Zenon
    <2>2. ~starved /\ Reserve /\ Complete /\ pending = Cardinality(Reserving)
        BY <1>1, <2>1, Zenon DEF Exact
    <2>3. Reserve' /\ ~Starving(p)'
        BY <1>1, <1>2, <1>3, <1>4, <2>2, ReserveCall, Zenon
    <2>4. ~starved'
        BY <1>1, <1>2, <2>2, <2>3, OtherLocal, HistoryStep, Zenon
    <2> QED BY <2>3, <2>4, Zenon
<1>9. Histories' /\ \A q \in Proc : Local(q)'
    BY <1>1, <1>2, HistoryStep, OtherLocal, Zenon
<1> QED BY <1>2, <1>3, <1>4, <1>5, <1>6, <1>7, <1>8, <1>9, Zenon DEF IInv

\* IInv is an invariant of scx_cgroup_bw_init, set and exit, for any number of
\* CPUs, cgroups, LLCs and creations.
THEOREM Invariant == Spec => []IInv
<1>1. Init => IInv
    BY Zenon, InitInv
<1>2. IInv /\ [Next]_vars => IInv'
    <2>1. ASSUME IInv, Next PROVE IInv'
        <3>1. CASE \E p \in Proc : Step(p) /\ History
            BY <2>1, <3>1, StepInv, Zenon
        <3>2. CASE \E p \in Proc, g \in Cgrp : Call(p, g) /\ History
            BY <2>1, <3>2, CallInv, Zenon
        <3> QED BY <2>1, <3>1, <3>2, Zenon DEF Next
    <2>2. ASSUME IInv, UNCHANGED vars PROVE IInv'
        <3>1. /\ pending' = pending /\ free' = free /\ nrCgx' = nrCgx /\ managed' = managed /\ llcs' = llcs
              /\ life' = life /\ inits' = inits /\ op' = op /\ pc' = pc /\ cg' = cg /\ i' = i /\ f' = f
              /\ raced' = raced /\ starved' = starved /\ stale' = stale
            BY Zenon, <2>2 DEF vars
        <3>2. (CpuTypes' <=> CpuTypes) /\ (GlobalTypes' <=> GlobalTypes) /\ (Histories' <=> Histories)
            BY <3>1, Zenon DEF CpuTypes, GlobalTypes, Histories
        <3>3. \A p \in Proc : Local(p)' <=> Local(p)
            BY <3>1, SMT DEF Local
        <3>4. Lives' <=> Lives
            BY <3>1, Zenon DEF Lives, Live
        <3>5. SlotOwners' = SlotOwners /\ Retreating' = Retreating
            BY <3>1, Zenon DEF SlotOwners, Retreating, HasSlot
        <3>6. (Slots' <=> Slots) /\ (SlotsCount' <=> SlotsCount)
            BY <3>1, <3>5, Zenon DEF Slots, SlotsCount
        <3>7. Complete' <=> Complete
            BY <3>1, SMT DEF Complete, NoFail, Built, Left, Clash, Builds, Upto, Holds
        <3>8. Reserving' = Reserving
            BY <3>1, Zenon DEF Reserving, At
        <3>9. Solo' <=> Solo
            BY <3>1, Zenon DEF Solo
        <3>10. \A g, n : Owed(g, n)' <=> Owed(g, n)
            BY <3>1, Zenon DEF Owed, Drawn
        <3>11. OwedCgx' = OwedCgx /\ OwedLlcx' = OwedLlcx
            BY <3>10, Zenon DEF OwedCgx, OwedLlcx
        <3>12. \A p \in Proc : Draws(p)' <=> Draws(p)
            BY <3>1, Zenon DEF Draws
        <3>13. Reserve' <=> Reserve
            BY <3>1, <3>11, <3>12, Zenon DEF Reserve
        <3> QED BY <2>2, <3>1, <3>2, <3>3, <3>4, <3>6, <3>7, <3>8, <3>9, <3>13, Zenon DEF IInv, Exact
    <2> QED BY <2>1, <2>2, Zenon
<1> QED BY <1>1, <1>2, PTL DEF Spec

\* cbw_nr_pending_reservations counts the cgroups that hold a reservation.
THEOREM Reservations == Spec => []ReservationsExact
<1>1. IInv => ReservationsExact
    BY Zenon DEF IInv, Exact, ReservationsExact
<1> QED BY <1>1, Invariant, PTL

\* The reserve never fails cbw_manage_cgroup, unless writes to one cpu.max
\* overlapped or an init's swap in cbw_claim_free succeeded on a stale floor.
THEOREM NeverStarves == Spec => []MaterializeNeverStarves
<1>1. IInv => MaterializeNeverStarves
    BY Zenon DEF IInv, MaterializeNeverStarves, Histories
<1> QED BY <1>1, Invariant, PTL

\* A cgroup found in cbw_cgrp_map has all its LLC contexts, and one that is gone none.
THEOREM Mapped == Spec => []MappedIsComplete
<1>1. IInv => MappedIsComplete
    BY Zenon DEF IInv, Exact, Complete, MappedIsComplete, NobodyOn
<1> QED BY <1>1, Invariant, PTL

\* cbw_nr_cgx counts the contexts that are mapped, being built or torn down.
THEOREM SlotsAreExact == Spec => []SlotsExact
<1>1. IInv => SlotsExact
    BY Zenon DEF IInv, Exact, SlotsCount, SlotOwners, SlotsExact
<1> QED BY <1>1, Invariant, PTL

\* The types; in particular cbw_nr_cgx passes nr_cgrp_max by at most one per CPU.
THEOREM TypeCorrect == Spec => []TypeOK
<1>1. IInv => TypeOK
    <2> SUFFICES ASSUME IInv PROVE TypeOK
        BY Zenon
    <2>1. CpuTypes /\ GlobalTypes /\ Histories /\ Slots
        BY Zenon DEF IInv
    <2>2. /\ Cardinality(SlotOwners) \in Nat /\ Cardinality(managed) \in Nat
          /\ Cardinality(Retreating) \in Nat /\ Cardinality(Proc) \in Nat
          /\ Cardinality(Retreating) <= Cardinality(Proc)
        <3>1. SlotOwners \subseteq Proc /\ Retreating \subseteq Proc
            BY Zenon DEF SlotOwners, Retreating
        <3>2. managed \subseteq Cgrp
            BY <2>1, Zenon DEF GlobalTypes
        <3> QED BY Zenon, <3>1, <3>2, Bounds, FS_CardinalityType, FS_Subset, CbwManageConstants
    <2>3. nrCgx \in 0..NrCgrpMax + Cardinality(Proc)
        BY <2>1, <2>2, CbwManageConstants DEF Slots, GlobalTypes
    <2> QED BY <2>1, <2>3, Zenon DEF TypeOK, CpuTypes, GlobalTypes, Histories
<1> QED BY <1>1, Invariant, PTL
==============================================================================
