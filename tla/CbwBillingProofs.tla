-------------------------- MODULE CbwBillingProofs --------------------------
(***************************************************************************)
(* Proofs about CbwBilling, for every tree of cgroups and any number of    *)
(* tasks and writers: time is charged where it was consumed, and to no     *)
(* cgroup above the nearest one whose management was announced; and the    *)
(* bounds are exact when no write is under way, unless writes to nested    *)
(* cgroups overlapped.                                                     *)
(*                                                                         *)
(* The ancestors are a least closed set, so that what holds of them is     *)
(* shown by giving a closed set.  That the way up ends at the root, and    *)
(* that it has a nearest cgroup of a given set, needs an induction over    *)
(* the tree; it is done with the first cgroup, in the order of the walk,   *)
(* for which the claim fails.                                              *)
(***************************************************************************)
EXTENDS CbwBilling, WellFoundedInduction, TLAPS

-----------------------------------------------------------------------------
(* The tree *)

\* A set of numbers that is not empty has a least element.
LEMMA LeastNat ==
  ASSUME NEW T \in SUBSET Nat, T # {}
  PROVE  \E x \in T : \A y \in T : x <= y
<1> DEFINE R == {ss \in Nat \X Nat : ss[1] < ss[2]}
<1>1. IsWellFoundedOn(R, Nat)
  BY NatLessThanWellFounded DEF OpToRel
<1> HIDE DEF R
<1>2. PICK x \in T : \A y \in T : ~ (<<y, x>> \in R)
  BY Zenon, <1>1, WFMin
<1>3. \A y \in T : ~ (y < x)
  BY Zenon, <1>2 DEF R
<1>. QED
  BY <1>3

\* The root is a cgroup, and so is the parent of every other cgroup.
LEMMA TreeNodes == Root \in Cgroup /\ \A g \in Cgroup \ {Root} : Parent[g] \in Cgroup
<1>1. 1 \in 1..Len(Cgrp)
  BY TreeAssumption
<1>2. Root \in Cgroup
  BY Zenon, <1>1 DEF Root, Cgroup
<1>. QED
  BY Zenon, <1>2, TreeAssumption

\* A set of cgroups that is not empty has a first one in the order of the
\* walk: it is the root, or its parent is not in the set.
LEMMA FirstOf ==
  ASSUME NEW S \in SUBSET Cgroup, S # {}
  PROVE  First(S) \in S /\ (First(S) # Root => Parent[First(S)] \notin S)
<1> DEFINE T == {i \in 1..Len(Cgrp) : Cgrp[i] \in S}
           P(h) == \E i \in 1..Len(Cgrp) : Cgrp[i] = h /\ \A j \in 1..(i - 1) : Cgrp[j] \notin S
<1>1. T \in SUBSET Nat
  BY TreeAssumption
<1>2. T # {}
  BY Zenon DEF Cgroup
<1>3. PICK i \in T : \A j \in T : i <= j
  BY Zenon, <1>1, <1>2, LeastNat
<1>4. Cgrp[i] \in S /\ i \in 1..Len(Cgrp)
  BY Zenon, <1>3
<1>5. \A j \in 1..(i - 1) : Cgrp[j] \notin S
  <2>1. \A j \in 1..(i - 1) : j \in 1..Len(Cgrp) /\ ~ (i <= j)
    BY <1>4, TreeAssumption
  <2>. QED
    BY Zenon, <1>3, <2>1
<1>6. First(S) \in S /\ P(First(S))
  BY Zenon, <1>4, <1>5 DEF First
<1>7. PICK k \in 1..Len(Cgrp) : Cgrp[k] = First(S) /\ \A j \in 1..(k - 1) : Cgrp[j] \notin S
  BY Zenon, <1>6
<1>8. CASE k = 1
  BY Zenon, <1>6, <1>7, <1>8 DEF Root
<1>9. CASE k # 1
  <2>1. k \in 2..Len(Cgrp)
    BY <1>7, <1>9, TreeAssumption
  <2>2. PICK j \in 1..(k - 1) : Cgrp[j] = Parent[Cgrp[k]]
    BY Zenon, <2>1, TreeAssumption
  <2>. QED
    BY Zenon, <1>6, <1>7, <2>2
<1>. QED
  BY Zenon, <1>8, <1>9

\* What it means to be an ancestor.
LEMMA ChainIs ==
  ASSUME NEW g \in Cgroup
  PROVE  \A a : a \in Chain[g] <=>
            a \in Cgroup /\ \A S \in SUBSET Cgroup : (g \in S /\ UpClosed(S)) => a \in S
BY Zenon DEF Chain

\* A cgroup is one of its ancestors.
LEMMA ChainSelf == \A g \in Cgroup : g \in Chain[g]
BY Zenon, ChainIs

\* The ancestors of a cgroup are cgroups.
LEMMA ChainNodes == \A g \in Cgroup : Chain[g] \in SUBSET Cgroup
BY Zenon, ChainIs

\* The ancestors of an ancestor are ancestors.
LEMMA ChainTrans ==
  ASSUME NEW g \in Cgroup, NEW h \in Chain[g], NEW a \in Chain[h]
  PROVE  a \in Chain[g]
<1>1. h \in Cgroup
  BY Zenon, ChainIs
<1>2. a \in Cgroup
  BY Zenon, <1>1, ChainIs
<1>. SUFFICES ASSUME NEW S \in SUBSET Cgroup, g \in S, UpClosed(S)
             PROVE  a \in S
  BY Zenon, <1>2, ChainIs
<1>3. h \in S
  BY Zenon, ChainIs
<1>. QED
  BY Zenon, <1>1, <1>3, ChainIs

\* The parent of an ancestor is one.
LEMMA ChainClosed ==
  ASSUME NEW g \in Cgroup
  PROVE  UpClosed(Chain[g])
<1>. SUFFICES ASSUME NEW h \in Chain[g], h # Root
             PROVE  Parent[h] \in Chain[g]
  BY Zenon DEF UpClosed
<1>1. h \in Cgroup \ {Root}
  BY Zenon, ChainNodes
<1>2. Parent[h] \in Cgroup
  BY Zenon, <1>1, TreeNodes
<1>3. ASSUME NEW S \in SUBSET Cgroup, g \in S, UpClosed(S)
      PROVE  Parent[h] \in S
  <2>1. h \in S
    BY Zenon, <1>3, ChainIs
  <2>. QED
    BY Zenon, <1>3, <2>1 DEF UpClosed
<1>. QED
  BY Zenon, <1>2, <1>3, ChainIs

\* The ancestors of a cgroup are itself and those of its parent.
LEMMA ChainUp ==
  ASSUME NEW g \in Cgroup, g # Root
  PROVE  Parent[g] \in Chain[g] /\ \A a \in Chain[g] : a = g \/ a \in Chain[Parent[g]]
<1>1. Parent[g] \in Cgroup
  BY Zenon, TreeNodes
<1>2. Parent[g] \in Chain[g]
  BY Zenon, ChainClosed, ChainSelf DEF UpClosed
<1> DEFINE S == {g} \cup Chain[Parent[g]]
<1>3. S \in SUBSET Cgroup
  BY Zenon, <1>1, ChainNodes
<1>4. UpClosed(S)
  <2>1. Parent[g] \in S
    BY Zenon, <1>1, ChainSelf
  <2>2. UpClosed(Chain[Parent[g]])
    BY Zenon, <1>1, ChainClosed
  <2>. QED
    BY Zenon, <2>1, <2>2 DEF UpClosed
<1>5. g \in S
  BY Zenon
<1>6. \A a \in S : a = g \/ a \in Chain[Parent[g]]
  BY Zenon
<1> HIDE DEF S
<1>7. \A a \in Chain[g] : a \in S
  BY Zenon, <1>3, <1>4, <1>5, ChainIs
<1>. QED
  BY Zenon, <1>2, <1>6, <1>7

\* The root is its only ancestor.
LEMMA ChainRoot == \A a \in Chain[Root] : a = Root
<1>1. Root \in Cgroup
  BY Zenon, TreeNodes
<1>2. {Root} \in SUBSET Cgroup /\ UpClosed({Root})
  BY Zenon, <1>1 DEF UpClosed
<1>. QED
  BY Zenon, <1>1, <1>2, ChainIs

\* The way up ends at the root.
LEMMA RootAbove == \A g \in Cgroup : Root \in Chain[g]
<1>. SUFFICES ASSUME NEW g \in Cgroup
             PROVE  Root \in Chain[g]
  BY Zenon
<1>1. Chain[g] \in SUBSET Cgroup /\ Chain[g] # {}
  BY Zenon, ChainNodes, ChainSelf
<1>2. PICK h \in Chain[g] : h = Root \/ Parent[h] \notin Chain[g]
  BY Zenon, <1>1, FirstOf
<1>3. h # Root => Parent[h] \in Chain[g]
  BY Zenon, <1>2, ChainClosed DEF UpClosed
<1>. QED
  BY Zenon, <1>2, <1>3

\* There is a nearest cgroup of G on the way up: the root is the nearest of
\* its own, and where a cgroup is not in G its parent's nearest is its own.
LEMMA NearestExists ==
  ASSUME NEW G \in SUBSET Cgroup
  PROVE  \A g \in Cgroup : \E a \in Chain[g] \cap (G \cup {Root}) :
            \A b \in Chain[g] \cap (G \cup {Root}) : b \in Chain[a]
<1> DEFINE E(g) == \E a \in Chain[g] \cap (G \cup {Root}) :
                      \A b \in Chain[g] \cap (G \cup {Root}) : b \in Chain[a]
           Bad == {g \in Cgroup : ~ E(g)}
<1>. SUFFICES ASSUME Bad # {}
             PROVE  FALSE
  BY Zenon
<1>0. Bad \in SUBSET Cgroup /\ \A g \in Cgroup : g \in Bad <=> ~ E(g)
  BY Zenon
<1> HIDE DEF Bad
<1>9. First(Bad) \in Bad /\ (First(Bad) # Root => Parent[First(Bad)] \notin Bad)
  BY Zenon, <1>0, FirstOf
<1>1. PICK g \in Bad : g = Root \/ Parent[g] \notin Bad
  BY Zenon, <1>9
<1>2. g \in Cgroup /\ ~ E(g)
  BY Zenon, <1>0, <1>1
<1>3. g \notin G \cup {Root}
  BY Zenon, <1>2, ChainSelf
<1>4. Parent[g] \in Cgroup /\ E(Parent[g])
  BY Zenon, <1>0, <1>1, <1>2, <1>3, TreeNodes
<1>5. PICK a \in Chain[Parent[g]] \cap (G \cup {Root}) :
         \A b \in Chain[Parent[g]] \cap (G \cup {Root}) : b \in Chain[a]
  BY Zenon, <1>4
<1>6. a \in Chain[g]
  BY Zenon, <1>2, <1>3, <1>5, ChainUp, ChainTrans
<1>7. \A b \in Chain[g] \cap (G \cup {Root}) : b \in Chain[Parent[g]]
  BY Zenon, <1>2, <1>3, ChainUp
<1>8. \A b \in Chain[g] \cap (G \cup {Root}) : b \in Chain[a]
  BY Zenon, <1>5, <1>7
<1>. QED
  BY Zenon, <1>2, <1>5, <1>6, <1>8

\* The nearest cgroup of G is an ancestor, and it is in G or the root.
LEMMA NearestIs ==
  ASSUME NEW G \in SUBSET Cgroup, NEW g \in Cgroup
  PROVE  Nearest(g, G) \in Chain[g] /\ Nearest(g, G) \in G \cup {Root}
<1>1. \E a \in Chain[g] \cap (G \cup {Root}) :
         \A b \in Chain[g] \cap (G \cup {Root}) : b \in Chain[a]
  BY Zenon, NearestExists
<1>2. Nearest(g, G) \in Chain[g] \cap (G \cup {Root})
  BY Zenon, <1>1 DEF Nearest
<1>. QED
  BY Zenon, <1>2

-----------------------------------------------------------------------------
(* The inductive invariant *)

\* The types of the variables the claims rest on.
Types ==
    /\ managed \in SUBSET Cgroup /\ Root \in managed /\ bumped \in SUBSET managed
    /\ cbw_bill_gen \in Nat
    /\ wpc \in [Writer -> {"idle", "publish", "bump", "walk"}]
    /\ wcg \in [Writer -> Cgroup \cup {None}]
    /\ cg \in [Task -> Cgroup]
    /\ bill_cgrp_id \in [Task -> Cgroup \cup {None}]
    /\ cgx_raw \in [Task -> Cgroup \cup {None}]
    /\ bill_gen \in [Task -> Nat]
    /\ pending \in [Task -> SUBSET Cgroup]
    /\ carry \in [Task -> SUBSET Cgroup]
    /\ pc \in [Task -> {"idle", "search", "charge"}]
    /\ pos \in [Task -> Cgroup \cup {None}]
    /\ floor \in [Task -> Cgroup]
    /\ last \in [Task -> [time : SUBSET Cgroup, to : Cgroup, floor : Cgroup]]

\* A writer that is under way has a cgroup, which is in the map when its
\* generation is about to begin.
Writing ==
    \A w \in Writer :
        /\ wpc[w] # "idle" => wcg[w] \in Cgroup
        /\ wpc[w] = "bump" => wcg[w] \in managed

\* What a cgroup cached for task t must be: an ancestor, and one at or below
\* the nearest announced cgroup unless the generation has moved on.
GoodCache(t, c) ==
    c # None =>
        /\ c \in Chain[cg[t]]
        /\ bill_gen[t] = cbw_bill_gen => Nearest(cg[t], bumped) \in Chain[c]

\* Task t's cache, and the time deferred for want of one.
Cached(t) ==
    /\ GoodCache(t, bill_cgrp_id[t])
    /\ GoodCache(t, cgx_raw[t])
    /\ bill_gen[t] <= cbw_bill_gen
    /\ pending[t] \subseteq {cg[t]}

\* The call under way for task t.  Its floor is in the map, so that the
\* search does not pass it.
Calling(t) ==
    pc[t] # "idle" =>
        /\ carry[t] \subseteq {cg[t]}
        /\ floor[t] \in managed
        /\ bill_gen[t] = cbw_bill_gen => floor[t] = Nearest(cg[t], bumped)
        /\ pc[t] = "search" => pos[t] \in Chain[cg[t]] /\ floor[t] \in Chain[pos[t]]
        /\ pc[t] = "charge" => cgx_raw[t] # None /\ floor[t] \in Chain[cgx_raw[t]]

\* Task t's last bill.
Billed(t) ==
    /\ last[t].floor \in Chain[last[t].to]
    /\ \A g \in last[t].time : last[t].to \in Chain[g]

IInv == Types /\ Writing /\ \A t \in Task : Cached(t) /\ Calling(t) /\ Billed(t)

-----------------------------------------------------------------------------
(* The steps *)

\* The invariant holds at first: nothing is cached, and the bills are empty.
LEMMA Initially == Init => IInv
<1>. SUFFICES ASSUME Init PROVE IInv
  OBVIOUS
<1>1. Types
  <2>1. Root \in Cgroup /\ NoBill \in [time : SUBSET Cgroup, to : Cgroup, floor : Cgroup]
    BY TreeNodes DEF NoBill
  <2>. QED
    BY <2>1 DEF Init, Types
<1>2. Writing
  BY Zenon DEF Init, Writing
<1>3. ASSUME NEW t \in Task PROVE Cached(t) /\ Calling(t) /\ Billed(t)
  <2>1. Cached(t)
    BY DEF Init, Cached, GoodCache
  <2>2. Calling(t)
    BY Zenon DEF Init, Calling
  <2>3. last[t].floor = Root /\ last[t].to = Root /\ last[t].time = {}
    BY DEF Init, NoBill
  <2>4. Billed(t)
    BY Zenon, <2>3, RootAbove, TreeNodes DEF Billed
  <2>. QED
    BY Zenon, <2>1, <2>2, <2>4
<1>. QED
  BY Zenon, <1>1, <1>2, <1>3 DEF IInv

\* What a writer may do to the tasks: it manages more cgroups, and announces
\* one with a new generation, under which no cache counts.
LEMMA WriterKeepsTasks ==
  ASSUME IInv, UNCHANGED taskVars, managed' \in SUBSET Cgroup, managed \subseteq managed',
         bumped' \in SUBSET managed',
         \/ UNCHANGED <<cbw_bill_gen, bumped>>
         \/ cbw_bill_gen' = cbw_bill_gen + 1,
         wpc' \in [Writer -> {"idle", "publish", "bump", "walk"}],
         wcg' \in [Writer -> Cgroup \cup {None}],
         Writing'
  PROVE  IInv'
<1>1. Types'
  <2>1. cbw_bill_gen' \in Nat
    BY DEF IInv, Types
  <2>. QED
    BY Zenon, <2>1 DEF IInv, Types, taskVars
<1>2. ASSUME NEW t \in Task PROVE (Cached(t) /\ Calling(t) /\ Billed(t))'
  <2>1. Cached(t) /\ Calling(t) /\ Billed(t) /\ bill_gen[t] \in Nat /\ cbw_bill_gen \in Nat
    BY Zenon DEF IInv, Types
  <2>2. Billed(t)'
    BY Zenon, <2>1 DEF Billed, taskVars
  <2>3. bill_gen'[t] = bill_gen[t] /\ cg'[t] = cg[t] /\ bill_cgrp_id'[t] = bill_cgrp_id[t]
          /\ cgx_raw'[t] = cgx_raw[t] /\ pending'[t] = pending[t]
    BY Zenon DEF taskVars
  <2>4. carry'[t] = carry[t] /\ floor'[t] = floor[t] /\ pos'[t] = pos[t] /\ pc'[t] = pc[t]
    BY Zenon DEF taskVars
  <2>5. CASE UNCHANGED <<cbw_bill_gen, bumped>>
    <3>1. Cached(t)'
      BY Zenon, <2>1, <2>3, <2>5 DEF Cached, GoodCache
    <3>2. Calling(t)'
      BY Zenon, <2>1, <2>3, <2>4, <2>5 DEF Calling
    <3>. QED
      BY Zenon, <2>2, <3>1, <3>2
  <2>6. CASE cbw_bill_gen' = cbw_bill_gen + 1
    <3>1. bill_gen'[t] # cbw_bill_gen' /\ bill_gen'[t] <= cbw_bill_gen'
      <4>1. bill_gen[t] <= cbw_bill_gen
        BY Zenon, <2>1 DEF Cached
      <4>. QED
        BY <2>1, <2>3, <2>6, <4>1
    <3>2. Cached(t)'
      BY Zenon, <2>1, <2>3, <3>1 DEF Cached, GoodCache
    <3>3. Calling(t)'
      BY Zenon, <2>1, <2>3, <2>4, <3>1 DEF Calling
    <3>. QED
      BY Zenon, <2>2, <3>2, <3>3
  <2>. QED
    BY Zenon, <2>5, <2>6
<1>. QED
  BY Zenon, <1>1, <1>2 DEF IInv

\* A write to cpu.max that starts.
LEMMA StepStart ==
  ASSUME IInv, NEW w \in Writer, NEW g \in Cgroup, NEW p \in {"publish", "walk"},
         wcg' = [wcg EXCEPT ![w] = g], wpc' = [wpc EXCEPT ![w] = p],
         UNCHANGED <<taskVars, managed, bumped, cbw_bill_gen>>
  PROVE  IInv'
<1>1. wpc' \in [Writer -> {"idle", "publish", "bump", "walk"}]
        /\ wcg' \in [Writer -> Cgroup \cup {None}]
  BY Zenon DEF IInv, Types
<1>2. Writing'
  <2>1. p # "bump"
    OBVIOUS
  <2>2. ASSUME NEW v \in Writer
        PROVE  v # w => wpc'[v] = wpc[v] /\ wcg'[v] = wcg[v]
    BY Zenon DEF IInv, Types
  <2>3. wpc'[w] = p /\ wcg'[w] = g
    BY Zenon DEF IInv, Types
  <2>4. managed' = managed
    BY Zenon
  <2>. SUFFICES ASSUME NEW v \in Writer
               PROVE  (wpc'[v] # "idle" => wcg'[v] \in Cgroup)
                        /\ (wpc'[v] = "bump" => wcg'[v] \in managed)
    BY Zenon, <2>4 DEF Writing
  <2>5. CASE v = w
    BY Zenon, <2>1, <2>3, <2>5
  <2>6. CASE v # w
    BY Zenon, <2>2, <2>6 DEF IInv, Writing
  <2>. QED
    BY Zenon, <2>5, <2>6
<1>. QED
  BY Zenon, <1>1, <1>2, WriterKeepsTasks DEF IInv, Types

\* The steps of a write under way.
LEMMA StepWrite ==
  ASSUME IInv, NEW w \in Writer, Publish(w) \/ Bump(w) \/ Visit(w)
  PROVE  IInv'
<1>. USE DEF IInv
<1>1. wpc[w] # "idle"
  BY Zenon DEF Publish, Bump, Visit
<1>2. wcg[w] \in Cgroup
  BY Zenon, <1>1 DEF Writing
<1>3. UNCHANGED taskVars
  BY Zenon DEF Publish, Bump, Visit
<1>4. CASE Publish(w)
  <2>1. managed' \in SUBSET Cgroup /\ managed \subseteq managed' /\ wcg[w] \in managed'
    BY Zenon, <1>2, <1>4 DEF Publish, Types
  <2>2. bumped' \in SUBSET managed' /\ UNCHANGED <<cbw_bill_gen, bumped>>
    BY Zenon, <1>4, <2>1 DEF Publish, Types
  <2>3. wpc' \in [Writer -> {"idle", "publish", "bump", "walk"}]
          /\ wcg' \in [Writer -> Cgroup \cup {None}]
    BY Zenon, <1>4 DEF Publish, Types
  <2>4. Writing'
    BY Zenon, <1>2, <1>4, <2>1 DEF Publish, Types, Writing
  <2>. QED
    BY Zenon, <1>3, <2>1, <2>2, <2>3, <2>4, WriterKeepsTasks
<1>5. CASE Bump(w)
  <2>1. managed' = managed /\ wcg[w] \in managed
    BY Zenon, <1>5 DEF Bump, Writing
  <2>2. bumped' \in SUBSET managed' /\ cbw_bill_gen' = cbw_bill_gen + 1
    BY Zenon, <1>5, <2>1 DEF Bump, Types
  <2>3. wpc' \in [Writer -> {"idle", "publish", "bump", "walk"}]
          /\ wcg' \in [Writer -> Cgroup \cup {None}]
    BY Zenon, <1>5 DEF Bump, Types
  <2>4. Writing'
    <3>1. "walk" # "bump" /\ wpc' = [wpc EXCEPT ![w] = "walk"] /\ wcg' = wcg
      BY Zenon, <1>5 DEF Bump
    <3>. QED
      BY Zenon, <1>2, <2>1, <3>1 DEF Types, Writing
  <2>. QED
    BY Zenon, <1>3, <2>1, <2>2, <2>3, <2>4, WriterKeepsTasks DEF Types
<1>6. CASE Visit(w)
  <2>1. managed' = managed /\ UNCHANGED <<cbw_bill_gen, bumped>>
    BY Zenon, <1>6 DEF Visit
  <2>2. PICK p, x : /\ wpc' = [wpc EXCEPT ![w] = p] /\ wcg' = [wcg EXCEPT ![w] = x]
                    /\ (p = "idle" /\ x = None) \/ (p = wpc[w] /\ x = wcg[w])
    <3>1. CASE walk[w] = {First(walk[w])}
      BY Zenon, <1>6, <3>1 DEF Visit
    <3>2. CASE walk[w] # {First(walk[w])}
      <4>1. wpc' = wpc /\ wcg' = wcg
        BY Zenon, <1>6, <3>2 DEF Visit
      <4>2. wpc = [wpc EXCEPT ![w] = wpc[w]] /\ wcg = [wcg EXCEPT ![w] = wcg[w]]
        BY Zenon DEF Types
      <4>. QED
        BY Zenon, <4>1, <4>2
    <3>. QED
      BY Zenon, <3>1, <3>2
  <2>3. wpc[w] = "walk"
    BY Zenon, <1>6 DEF Visit
  <2>4. wpc' \in [Writer -> {"idle", "publish", "bump", "walk"}]
          /\ wcg' \in [Writer -> Cgroup \cup {None}]
    BY Zenon, <1>2, <2>2, <2>3 DEF Types
  <2>5. Writing'
    <3>1. wpc'[w] = p /\ wcg'[w] = x /\ p # "bump" /\ (p # "idle" => x \in Cgroup)
      <4>1. "walk" # "bump" /\ "idle" # "bump"
        OBVIOUS
      <4>. QED
        BY Zenon, <1>2, <2>2, <2>3, <4>1 DEF Types
    <3>2. ASSUME NEW v \in Writer
          PROVE  v # w => wpc'[v] = wpc[v] /\ wcg'[v] = wcg[v]
      BY Zenon, <2>2 DEF Types
    <3>. QED
      BY Zenon, <2>1, <3>1, <3>2 DEF Writing
  <2>. QED
    BY Zenon, <1>3, <2>1, <2>4, <2>5, WriterKeepsTasks DEF Types
<1>. QED
  BY Zenon, <1>4, <1>5, <1>6

\* A step for task t keeps the invariant if it keeps the types, leaves the
\* other tasks alone and does right by t.
LEMMA TaskStep ==
  ASSUME IInv, NEW t \in Task, UNCHANGED <<cgxVars, writerVars>>, Types',
         \A u \in Task \ {t} :
            /\ bill_cgrp_id'[u] = bill_cgrp_id[u] /\ cgx_raw'[u] = cgx_raw[u]
            /\ bill_gen'[u] = bill_gen[u] /\ pending'[u] = pending[u] /\ cg'[u] = cg[u]
            /\ pc'[u] = pc[u] /\ carry'[u] = carry[u] /\ pos'[u] = pos[u]
            /\ floor'[u] = floor[u] /\ last'[u] = last[u],
         Cached(t)', Calling(t)', Billed(t)'
  PROVE  IInv'
<1>0. UNCHANGED <<managed, cbw_bill_gen, bumped, wpc, wcg>>
  BY Zenon DEF cgxVars, writerVars
<1>1. Writing'
  BY Zenon, <1>0 DEF IInv, Writing
<1>2. ASSUME NEW u \in Task PROVE (Cached(u) /\ Calling(u) /\ Billed(u))'
  <2>1. CASE u = t
    BY Zenon, <2>1
  <2>2. CASE u # t
    <3>1. Cached(u) /\ Calling(u) /\ Billed(u)
      BY Zenon DEF IInv
    <3>2. Cached(u)'
      BY Zenon, <1>0, <2>2, <3>1 DEF Cached, GoodCache
    <3>3. Calling(u)'
      BY Zenon, <1>0, <2>2, <3>1 DEF Calling
    <3>4. Billed(u)'
      BY Zenon, <2>2, <3>1 DEF Billed
    <3>. QED
      BY Zenon, <3>2, <3>3, <3>4
  <2>. QED
    BY Zenon, <2>1, <2>2
<1>. QED
  BY Zenon, <1>1, <1>2 DEF IInv

\* A bill is right if it charges an ancestor of the task's cgroup for time
\* consumed there, at or below its floor.
LEMMA ChargedRight ==
  ASSUME Types, NEW t \in Task, Billed(t), NEW time, NEW to, NEW fl, Charged(t, time, to, fl),
         time # {} => /\ time \subseteq {cg[t]}
                      /\ to \in Chain[cg[t]]
                      /\ fl \in Chain[to]
  PROVE  /\ last' \in [Task -> [time : SUBSET Cgroup, to : Cgroup, floor : Cgroup]]
         /\ \A u \in Task \ {t} : last'[u] = last[u]
         /\ Billed(t)'
<1>1. CASE time = {}
  <2>1. last' = last
    BY Zenon, <1>1 DEF Charged
  <2>. QED
    BY Zenon, <2>1 DEF Types, Billed
<1>2. CASE time # {}
  <2> DEFINE b == [time |-> time, to |-> to, floor |-> fl]
  <2>1. last' = [last EXCEPT ![t] = b]
    BY Zenon, <1>2 DEF Charged
  <2>2. cg[t] \in Cgroup
    BY Zenon DEF Types
  <2>3. to \in Cgroup /\ fl \in Cgroup /\ time \in SUBSET Cgroup
    BY Zenon, <1>2, <2>2, ChainNodes
  <2>4. b \in [time : SUBSET Cgroup, to : Cgroup, floor : Cgroup]
    BY <2>3
  <2>5. b.time = time /\ b.to = to /\ b.floor = fl
    OBVIOUS
  <2> HIDE DEF b
  <2>6. last'[t] = b /\ \A u \in Task \ {t} : last'[u] = last[u]
    BY Zenon, <2>1 DEF Types
  <2>7. last' \in [Task -> [time : SUBSET Cgroup, to : Cgroup, floor : Cgroup]]
    BY Zenon, <2>1, <2>4 DEF Types
  <2>8. fl \in Chain[to] /\ \A g \in time : to \in Chain[g]
    BY Zenon, <1>2
  <2>9. Billed(t)'
    BY Zenon, <2>5, <2>6, <2>8 DEF Billed
  <2>. QED
    BY Zenon, <2>6, <2>7, <2>9
<1>. QED
  BY Zenon, <1>1, <1>2

\* The search goes up from a cgroup that is not managed.  The floor is
\* managed, so that it is still above.
LEMMA StepSearchUp ==
  ASSUME IInv, NEW t \in Task, SearchUp(t)
  PROVE  IInv'
<1>1. Types /\ Cached(t) /\ Calling(t) /\ Billed(t)
  BY Zenon DEF IInv
<1>2. pc[t] = "search" /\ pos[t] \notin managed /\ pos' = [pos EXCEPT ![t] = Parent[pos[t]]]
  BY Zenon DEF SearchUp
<1>3. UNCHANGED <<cg, bill_cgrp_id, cgx_raw, bill_gen, pending, pc, carry, floor, last,
                  cgxVars, writerVars>>
  BY Zenon DEF SearchUp
<1>4. UNCHANGED <<managed, cbw_bill_gen, bumped, wpc, wcg>>
  BY Zenon, <1>3 DEF cgxVars, writerVars
<1>5. /\ carry[t] \subseteq {cg[t]} /\ floor[t] \in managed
      /\ bill_gen[t] = cbw_bill_gen => floor[t] = Nearest(cg[t], bumped)
      /\ pos[t] \in Chain[cg[t]] /\ floor[t] \in Chain[pos[t]]
  <2>1. "search" # "idle"
    OBVIOUS
  <2>. QED
    BY Zenon, <1>1, <1>2, <2>1 DEF Calling
<1>6. cg[t] \in Cgroup
  BY Zenon, <1>1 DEF Types
<1>7. pos[t] \in Cgroup /\ pos[t] # Root /\ floor[t] # pos[t]
  BY Zenon, <1>1, <1>2, <1>5, <1>6, ChainNodes DEF Types
<1>8. Parent[pos[t]] \in Cgroup /\ Parent[pos[t]] \in Chain[cg[t]]
  BY Zenon, <1>5, <1>6, <1>7, TreeNodes, ChainUp, ChainTrans
<1>9. floor[t] \in Chain[Parent[pos[t]]]
  BY Zenon, <1>5, <1>7, ChainUp
<1>10. pos'[t] = Parent[pos[t]] /\ \A u \in Task \ {t} : pos'[u] = pos[u]
  BY Zenon, <1>1, <1>2 DEF Types
<1>11. pos' \in [Task -> Cgroup \cup {None}]
  BY Zenon, <1>1, <1>2, <1>8 DEF Types
<1>12. Types'
  BY Zenon, <1>1, <1>3, <1>4, <1>11 DEF Types
<1>13. Cached(t)' /\ Billed(t)'
  BY Zenon, <1>1, <1>3, <1>4 DEF Cached, GoodCache, Billed
<1>14. Calling(t)'
  <2>1. "search" # "charge"
    OBVIOUS
  <2>. QED
    BY Zenon, <1>2, <1>3, <1>4, <1>5, <1>8, <1>9, <1>10, <2>1 DEF Calling
<1>. QED
  BY Zenon, <1>3, <1>10, <1>12, <1>13, <1>14, TaskStep

\* The end of a call.
LEMMA Returned ==
  ASSUME Types, NEW t \in Task, Return(t)
  PROVE  /\ pc' \in [Task -> {"idle", "search", "charge"}]
         /\ carry' \in [Task -> SUBSET Cgroup]
         /\ pos' \in [Task -> Cgroup \cup {None}]
         /\ pc'[t] = "idle"
         /\ \A u \in Task \ {t} : pc'[u] = pc[u] /\ carry'[u] = carry[u] /\ pos'[u] = pos[u]
<1>1. {} \in SUBSET Cgroup
  BY Zenon
<1>. QED
  BY Zenon, <1>1 DEF Types, Return

\* The search is over: the cgroup that was found is an ancestor at or below
\* the floor, and if no generation has begun meanwhile the floor is still
\* the nearest announced cgroup.
LEMMA StepSearchFound ==
  ASSUME IInv, NEW t \in Task, SearchFound(t)
  PROVE  IInv'
<1>1. Types /\ Cached(t) /\ Calling(t) /\ Billed(t)
  BY Zenon DEF IInv
<1>2. pc[t] = "search" /\ bill_cgrp_id' = [bill_cgrp_id EXCEPT ![t] = pos[t]]
  BY Zenon DEF SearchFound
<1>3. UNCHANGED <<cg, bill_gen, pending, floor, cgxVars, writerVars>>
  BY Zenon DEF SearchFound
<1>4. UNCHANGED <<managed, cbw_bill_gen, bumped, wpc, wcg>>
  BY Zenon, <1>3 DEF cgxVars, writerVars
<1>5. /\ carry[t] \subseteq {cg[t]} /\ floor[t] \in managed
      /\ bill_gen[t] = cbw_bill_gen => floor[t] = Nearest(cg[t], bumped)
      /\ pos[t] \in Chain[cg[t]] /\ floor[t] \in Chain[pos[t]]
  <2>1. "search" # "idle"
    OBVIOUS
  <2>. QED
    BY Zenon, <1>1, <1>2, <2>1 DEF Calling
<1>6. cg[t] \in Cgroup
  BY Zenon, <1>1 DEF Types
<1>7. pos[t] \in Cgroup /\ pos[t] # None
  BY Zenon, <1>5, <1>6, ChainNodes, TreeAssumption
<1>8. /\ bill_cgrp_id' \in [Task -> Cgroup \cup {None}] /\ bill_cgrp_id'[t] = pos[t]
      /\ \A u \in Task \ {t} : bill_cgrp_id'[u] = bill_cgrp_id[u]
  BY Zenon, <1>1, <1>2, <1>7 DEF Types
<1>9. /\ cgx_raw' \in [Task -> Cgroup \cup {None}]
      /\ \A u \in Task \ {t} : cgx_raw'[u] = cgx_raw[u]
      /\ cgx_raw'[t] = pos[t] \/ cgx_raw'[t] = cgx_raw[t]
  <2>1. cgx_raw' = cgx_raw \/ cgx_raw' = [cgx_raw EXCEPT ![t] = pos[t]]
    BY Zenon DEF SearchFound
  <2>. QED
    BY Zenon, <1>1, <1>7, <2>1 DEF Types
<1>10. Cached(t)'
  <2>1. GoodCache(t, pos[t])
    BY Zenon, <1>5 DEF GoodCache
  <2>2. GoodCache(t, bill_cgrp_id'[t]) /\ GoodCache(t, cgx_raw'[t])
    BY Zenon, <1>1, <1>8, <1>9, <2>1 DEF Cached
  <2>3. GoodCache(t, bill_cgrp_id[t])' /\ GoodCache(t, cgx_raw[t])'
    BY Zenon, <1>3, <1>4, <2>2 DEF GoodCache
  <2>. QED
    BY Zenon, <1>1, <1>3, <1>4, <2>3 DEF Cached
<1>11. CASE pos[t] # Root /\ op[t] = "consume"
  <2>1. pc' = [pc EXCEPT ![t] = "charge"] /\ UNCHANGED <<carry, pos, last>>
    BY Zenon, <1>11 DEF SearchFound
  <2>2. pc' \in [Task -> {"idle", "search", "charge"}] /\ pc'[t] = "charge"
          /\ \A u \in Task \ {t} : pc'[u] = pc[u]
    BY Zenon, <1>1, <2>1 DEF Types
  <2>3. cgx_raw'[t] = pos[t]
    <3>1. op[t] # "put_aside"
      <4>1. "consume" # "put_aside"
        OBVIOUS
      <4>. QED
        BY Zenon, <1>11, <4>1
    <3>2. cgx_raw' = [cgx_raw EXCEPT ![t] = pos[t]]
      BY Zenon, <1>11, <3>1 DEF SearchFound
    <3>. QED
      BY Zenon, <1>1, <3>2 DEF Types
  <2>4. Types'
    BY Zenon, <1>1, <1>3, <1>4, <1>8, <1>9, <2>1, <2>2 DEF Types
  <2>5. Calling(t)'
    <3>1. "charge" # "search"
      OBVIOUS
    <3>. QED
      BY Zenon, <1>3, <1>4, <1>5, <1>7, <2>1, <2>2, <2>3, <3>1 DEF Calling
  <2>6. Billed(t)'
    BY Zenon, <1>1, <2>1 DEF Billed
  <2>. QED
    BY Zenon, <1>3, <1>8, <1>9, <1>10, <2>1, <2>2, <2>4, <2>5, <2>6, TaskStep
<1>12. CASE ~ (pos[t] # Root /\ op[t] = "consume")
  <2>1. Charged(t, carry[t], pos[t], floor[t]) /\ Return(t)
    BY Zenon, <1>12 DEF SearchFound
  <2>2. /\ last' \in [Task -> [time : SUBSET Cgroup, to : Cgroup, floor : Cgroup]]
        /\ \A u \in Task \ {t} : last'[u] = last[u]
        /\ Billed(t)'
    BY Zenon, <1>1, <1>5, <2>1, ChargedRight
  <2>3. /\ pc' \in [Task -> {"idle", "search", "charge"}]
        /\ carry' \in [Task -> SUBSET Cgroup]
        /\ pos' \in [Task -> Cgroup \cup {None}]
        /\ pc'[t] = "idle"
        /\ \A u \in Task \ {t} : pc'[u] = pc[u] /\ carry'[u] = carry[u] /\ pos'[u] = pos[u]
    BY Zenon, <1>1, <2>1, Returned
  <2>4. Types'
    BY Zenon, <1>1, <1>3, <1>4, <1>8, <1>9, <2>2, <2>3 DEF Types
  <2>5. Calling(t)'
    BY Zenon, <2>3 DEF Calling
  <2>. QED
    BY Zenon, <1>3, <1>8, <1>9, <1>10, <2>2, <2>3, <2>4, <2>5, TaskStep
<1>. QED
  BY Zenon, <1>11, <1>12

\* The time is charged to the cached context, which is at or below the
\* floor whatever has been announced since.
LEMMA StepConsume ==
  ASSUME IInv, NEW t \in Task, Consume(t)
  PROVE  IInv'
<1>1. Types /\ Cached(t) /\ Calling(t) /\ Billed(t)
  BY Zenon DEF IInv
<1>2. PICK time : Charged(t, time, cgx_raw[t], floor[t]) /\ (time = {} \/ time = carry[t])
  BY Zenon DEF Consume
<1>3. UNCHANGED <<cg, bill_cgrp_id, cgx_raw, bill_gen, pending, floor, cgxVars, writerVars>>
  BY Zenon DEF Consume
<1>4. UNCHANGED <<managed, cbw_bill_gen, bumped, wpc, wcg>>
  BY Zenon, <1>3 DEF cgxVars, writerVars
<1>5. carry[t] \subseteq {cg[t]} /\ cgx_raw[t] # None /\ floor[t] \in Chain[cgx_raw[t]]
  <2>1. "charge" # "idle" /\ pc[t] = "charge"
    BY Zenon DEF Consume
  <2>. QED
    BY Zenon, <1>1, <2>1 DEF Calling
<1>6. cgx_raw[t] \in Chain[cg[t]]
  BY Zenon, <1>1, <1>5 DEF Cached, GoodCache
<1>7. /\ last' \in [Task -> [time : SUBSET Cgroup, to : Cgroup, floor : Cgroup]]
      /\ \A u \in Task \ {t} : last'[u] = last[u]
      /\ Billed(t)'
  BY Zenon, <1>1, <1>2, <1>5, <1>6, ChargedRight
<1>8. /\ pc' \in [Task -> {"idle", "search", "charge"}]
      /\ carry' \in [Task -> SUBSET Cgroup]
      /\ pos' \in [Task -> Cgroup \cup {None}]
      /\ pc'[t] = "idle"
      /\ \A u \in Task \ {t} : pc'[u] = pc[u] /\ carry'[u] = carry[u] /\ pos'[u] = pos[u]
  BY Zenon, <1>1, Returned DEF Consume
<1>9. Types'
  BY Zenon, <1>1, <1>3, <1>4, <1>7, <1>8 DEF Types
<1>10. Calling(t)'
  BY Zenon, <1>8 DEF Calling
<1>11. Cached(t)'
  BY Zenon, <1>1, <1>3, <1>4 DEF Cached, GoodCache
<1>. QED
  BY Zenon, <1>3, <1>7, <1>8, <1>9, <1>10, <1>11, TaskStep

\* A move charges what was deferred in the old cgroup, and forgets it.
LEMMA StepMove ==
  ASSUME IInv, NEW t \in Task, NEW to \in Cgroup, scx_cgroup_bw_move(t, to)
  PROVE  IInv'
<1>1. Types /\ Cached(t) /\ Calling(t) /\ Billed(t)
  BY Zenon DEF IInv
<1>2. cg[t] \in Cgroup /\ managed \in SUBSET Cgroup
  BY Zenon, <1>1 DEF Types
<1> DEFINE x == IF cgx_raw[t] # None THEN cgx_raw[t] ELSE Nearest(cg[t], managed)
<1>3. Charged(t, pending[t], x, Root)
  BY Zenon DEF scx_cgroup_bw_move
<1>4. x \in Chain[cg[t]]
  BY Zenon, <1>1, <1>2, NearestIs DEF Cached, GoodCache
<1> HIDE DEF x
<1>5. Root \in Chain[x] /\ pending[t] \subseteq {cg[t]}
  BY Zenon, <1>1, <1>2, <1>4, ChainNodes, RootAbove DEF Cached
<1>6. /\ last' \in [Task -> [time : SUBSET Cgroup, to : Cgroup, floor : Cgroup]]
      /\ \A u \in Task \ {t} : last'[u] = last[u]
      /\ Billed(t)'
  BY Zenon, <1>1, <1>3, <1>4, <1>5, ChargedRight
<1>7. UNCHANGED <<bill_gen, pc, carry, pos, floor, cgxVars, writerVars>> /\ pc[t] = "idle"
  BY Zenon DEF scx_cgroup_bw_move
<1>8. UNCHANGED <<managed, cbw_bill_gen, bumped, wpc, wcg>>
  BY Zenon, <1>7 DEF cgxVars, writerVars
<1>9. /\ bill_cgrp_id' = [bill_cgrp_id EXCEPT ![t] = None]
      /\ cgx_raw' = [cgx_raw EXCEPT ![t] = None]
      /\ pending' = [pending EXCEPT ![t] = {}]
      /\ cg' = [cg EXCEPT ![t] = to]
  BY Zenon DEF scx_cgroup_bw_move
<1>10. /\ bill_cgrp_id' \in [Task -> Cgroup \cup {None}]
       /\ cgx_raw' \in [Task -> Cgroup \cup {None}]
       /\ pending' \in [Task -> SUBSET Cgroup]
       /\ cg' \in [Task -> Cgroup]
  <2>1. {} \in SUBSET Cgroup
    BY Zenon
  <2>. QED
    BY Zenon, <1>1, <1>9, <2>1 DEF Types
<1>11. /\ bill_cgrp_id'[t] = None /\ cgx_raw'[t] = None /\ pending'[t] = {}
       /\ \A u \in Task \ {t} : /\ bill_cgrp_id'[u] = bill_cgrp_id[u]
                                /\ cgx_raw'[u] = cgx_raw[u] /\ pending'[u] = pending[u]
                                /\ cg'[u] = cg[u]
  BY Zenon, <1>1, <1>9 DEF Types
<1>12. Types'
  BY Zenon, <1>1, <1>6, <1>7, <1>8, <1>10 DEF Types
<1>13. Cached(t)'
  BY Zenon, <1>1, <1>7, <1>8, <1>11 DEF Cached, GoodCache
<1>14. Calling(t)'
  BY Zenon, <1>7 DEF Calling
<1>. QED
  BY Zenon, <1>6, <1>7, <1>11, <1>12, <1>13, <1>14, TaskStep

\* What is left of the cache after cbw_sync_bill_gen is of this generation.
LEMMA SyncedRight ==
  ASSUME Types, NEW t \in Task, Cached(t)
  PROVE  /\ SyncedBill(t) \in Cgroup \cup {None} /\ SyncedCgx(t) \in Cgroup \cup {None}
         /\ \A c \in {SyncedBill(t), SyncedCgx(t)} :
               c # None => c \in Chain[cg[t]] /\ Nearest(cg[t], bumped) \in Chain[c]
<1>1. CASE Stale(t)
  BY Zenon, <1>1 DEF SyncedBill, SyncedCgx
<1>2. CASE ~ Stale(t)
  <2>1. bill_gen[t] = cbw_bill_gen
    BY Zenon, <1>2 DEF Stale
  <2>2. SyncedBill(t) = bill_cgrp_id[t] /\ SyncedCgx(t) = cgx_raw[t]
    BY Zenon, <1>2 DEF SyncedBill, SyncedCgx
  <2>3. bill_cgrp_id[t] \in Cgroup \cup {None} /\ cgx_raw[t] \in Cgroup \cup {None}
    BY Zenon DEF Types
  <2>4. \A c \in {bill_cgrp_id[t], cgx_raw[t]} : GoodCache(t, c)
    BY Zenon DEF Cached
  <2>5. \A c \in {bill_cgrp_id[t], cgx_raw[t]} :
           c # None => c \in Chain[cg[t]] /\ Nearest(cg[t], bumped) \in Chain[c]
    BY Zenon, <2>1, <2>4 DEF GoodCache
  <2>. QED
    BY Zenon, <2>2, <2>3, <2>5
<1>. QED
  BY Zenon, <1>1, <1>2

\* The time a call takes along was consumed in the task's cgroup.
LEMMA TakenRight ==
  ASSUME Types, NEW t \in Task, Cached(t), NEW o
  PROVE  Taken(t, o) \subseteq {cg[t]} /\ Taken(t, o) \in SUBSET Cgroup
<1>1. cg[t] \in Cgroup
  BY Zenon DEF Types
<1>2. Taken(t, o) \subseteq {cg[t]}
  BY Zenon DEF Taken, Cached
<1>. QED
  BY Zenon, <1>1, <1>2

\* A call begins: it charges the root, charges the cached cgroup in a later
\* step, defers its time, or starts a search at the task's cgroup.
LEMMA StepCall ==
  ASSUME IInv, NEW t \in Task, NEW o, NEW subject \in BOOLEAN, Call(t, o, subject)
  PROVE  IInv'
<1>1. Types /\ Cached(t) /\ Calling(t) /\ Billed(t)
  BY Zenon DEF IInv
<1> DEFINE B == SyncedBill(t)
           X == SyncedCgx(t)
           N == Nearest(cg[t], bumped)
           W == Taken(t, o)
           known == B # None \/ X # None
           root == B = Root
<1>2. UNCHANGED <<cg, cgxVars, writerVars>>
  BY Zenon DEF Call
<1>3. UNCHANGED <<managed, cbw_bill_gen, bumped, wpc, wcg>>
  BY Zenon, <1>2 DEF cgxVars, writerVars
<1>4. /\ pc[t] = "idle"
      /\ bill_gen' = [bill_gen EXCEPT ![t] = cbw_bill_gen]
      /\ bill_cgrp_id' = [bill_cgrp_id EXCEPT ![t] = B]
      /\ floor' = [floor EXCEPT ![t] = N]
  BY Zenon DEF Call, Enter, cbw_sync_bill_gen
<1>5. \E P \in {pending[t], pending[t] \cup W, {}} : pending' = [pending EXCEPT ![t] = P]
  <2>1. pending' = [pending EXCEPT ![t] = IF ~known /\ ~subject THEN pending[t] \cup W
                                          ELSE IF o = "consume" THEN {} ELSE pending[t]]
    BY Zenon DEF Call
  <2>2. CASE ~known /\ ~subject
    BY Zenon, <2>1, <2>2
  <2>3. CASE ~(~known /\ ~subject) /\ o = "consume"
    BY Zenon, <2>1, <2>3
  <2>4. CASE ~(~known /\ ~subject) /\ o # "consume"
    BY Zenon, <2>1, <2>4
  <2>. QED
    BY Zenon, <2>2, <2>3, <2>4
<1>6. Charged(t, IF root THEN W ELSE {}, Root, floor'[t])
  BY Zenon DEF Call
<1>7. \E Y \in {X, B} :
         /\ cgx_raw' = [cgx_raw EXCEPT ![t] = Y]
         /\ known /\ ~root /\ o # "put_aside" => Y # None
  <2>1. CASE known /\ ~root /\ o # "put_aside"
    <3>1. cgx_raw' = [cgx_raw EXCEPT ![t] = IF X # None THEN X ELSE B]
      BY Zenon, <2>1 DEF Call
    <3>2. CASE X # None
      BY Zenon, <3>1, <3>2
    <3>3. CASE X = None
      BY Zenon, <2>1, <3>1, <3>3
    <3>. QED
      BY Zenon, <3>2, <3>3
  <2>2. CASE ~(known /\ ~root /\ o # "put_aside")
    <3>1. cgx_raw' = [cgx_raw EXCEPT ![t] = X]
      BY Zenon, <2>2 DEF Call
    <3>. QED
      BY Zenon, <2>2, <3>1
  <2>. QED
    BY Zenon, <2>1, <2>2
<1>8. \/ UNCHANGED <<pc, carry, pos>>
      \/ /\ ~root /\ (known => o = "consume")
         /\ pc' = [pc EXCEPT ![t] = IF known THEN "charge" ELSE "search"]
         /\ carry' = [carry EXCEPT ![t] = W]
         /\ pos' = [pos EXCEPT ![t] = cg[t]]
  <2>1. CASE ~root /\ (IF known THEN o = "consume" ELSE subject)
    BY Zenon, <2>1 DEF Call
  <2>2. CASE ~(~root /\ (IF known THEN o = "consume" ELSE subject))
    BY Zenon, <2>2 DEF Call
  <2>. QED
    BY Zenon, <2>1, <2>2
<1>9. /\ B \in Cgroup \cup {None} /\ X \in Cgroup \cup {None}
      /\ \A c \in {B, X} : c # None => c \in Chain[cg[t]] /\ N \in Chain[c]
  BY Zenon, <1>1, SyncedRight
<1>10. W \subseteq {cg[t]} /\ W \in SUBSET Cgroup
  BY Zenon, <1>1, TakenRight
<1>11. cg[t] \in Cgroup /\ bumped \in SUBSET Cgroup /\ bumped \in SUBSET managed /\ Root \in managed
  BY Zenon, <1>1 DEF Types
<1>12. N \in Chain[cg[t]] /\ N \in managed /\ N \in Cgroup
  BY Zenon, <1>11, NearestIs, ChainNodes
<1> HIDE DEF B, X, N, W, known
<1>13. known => B # None \/ X # None
  BY Zenon DEF known
<1>14. /\ bill_gen' \in [Task -> Nat] /\ bill_gen'[t] = cbw_bill_gen
       /\ bill_cgrp_id' \in [Task -> Cgroup \cup {None}] /\ bill_cgrp_id'[t] = B
       /\ floor' \in [Task -> Cgroup] /\ floor'[t] = N
       /\ \A u \in Task \ {t} : /\ bill_gen'[u] = bill_gen[u]
                                /\ bill_cgrp_id'[u] = bill_cgrp_id[u] /\ floor'[u] = floor[u]
  BY Zenon, <1>1, <1>4, <1>9, <1>12 DEF Types
<1>15. /\ pending' \in [Task -> SUBSET Cgroup] /\ pending'[t] \subseteq {cg[t]}
       /\ \A u \in Task \ {t} : pending'[u] = pending[u]
  <2>1. PICK P \in {pending[t], pending[t] \cup W, {}} : pending' = [pending EXCEPT ![t] = P]
    BY Zenon, <1>5
  <2>2. P \subseteq {cg[t]} /\ P \in SUBSET Cgroup
    BY Zenon, <1>1, <1>10, <1>11, <2>1 DEF Cached
  <2>. QED
    BY Zenon, <1>1, <2>1, <2>2 DEF Types
<1>16. PICK Y \in {X, B} : /\ cgx_raw' = [cgx_raw EXCEPT ![t] = Y]
                           /\ known /\ ~root /\ o # "put_aside" => Y # None
  BY Zenon, <1>7
<1>17. /\ cgx_raw' \in [Task -> Cgroup \cup {None}] /\ cgx_raw'[t] = Y
       /\ \A u \in Task \ {t} : cgx_raw'[u] = cgx_raw[u]
  BY Zenon, <1>1, <1>9, <1>16 DEF Types
<1>18. Cached(t)'
  <2>1. cbw_bill_gen \in Nat
    BY Zenon, <1>1 DEF Types
  <2>2. bill_gen'[t] <= cbw_bill_gen'
    BY <1>3, <1>14, <2>1
  <2>3. cg'[t] = cg[t] /\ Nearest(cg[t], bumped)' = N
    BY Zenon, <1>2, <1>3 DEF N, Nearest
  <2>4. GoodCache(t, bill_cgrp_id[t])' /\ GoodCache(t, cgx_raw[t])'
    BY Zenon, <1>9, <1>14, <1>16, <1>17, <2>3 DEF GoodCache
  <2>. QED
    BY Zenon, <1>15, <2>2, <2>3, <2>4 DEF Cached
<1>19. /\ last' \in [Task -> [time : SUBSET Cgroup, to : Cgroup, floor : Cgroup]]
       /\ \A u \in Task \ {t} : last'[u] = last[u]
       /\ Billed(t)'
  <2>1. Root # None
    BY Zenon, TreeNodes, TreeAssumption
  <2>2. root => W \subseteq {cg[t]} /\ Root \in Chain[cg[t]] /\ floor'[t] \in Chain[Root]
    BY Zenon, <1>9, <1>10, <1>14, <2>1
  <2>3. PICK time : Charged(t, time, Root, floor'[t]) /\ (time = {} \/ (root /\ time = W))
    <3>1. CASE root
      BY Zenon, <1>6, <3>1
    <3>2. CASE ~ root
      BY Zenon, <1>6, <3>2
    <3>. QED
      BY Zenon, <3>1, <3>2
  <2>. QED
    BY Zenon, <1>1, <2>2, <2>3, ChargedRight
<1>20. CASE UNCHANGED <<pc, carry, pos>>
  <2>1. Types'
    BY Zenon, <1>1, <1>2, <1>3, <1>14, <1>15, <1>17, <1>19, <1>20 DEF Types
  <2>2. Calling(t)'
    BY Zenon, <1>4, <1>20 DEF Calling
  <2>. QED
    BY Zenon, <1>2, <1>14, <1>15, <1>17, <1>18, <1>19, <1>20, <2>1, <2>2, TaskStep
<1>21. CASE /\ ~root /\ (known => o = "consume")
            /\ pc' = [pc EXCEPT ![t] = IF known THEN "charge" ELSE "search"]
            /\ carry' = [carry EXCEPT ![t] = W]
            /\ pos' = [pos EXCEPT ![t] = cg[t]]
  <2>1. PICK p : /\ pc' = [pc EXCEPT ![t] = p]
                 /\ (known /\ p = "charge") \/ (~known /\ p = "search")
    <3>1. CASE known
      BY Zenon, <1>21, <3>1
    <3>2. CASE ~ known
      BY Zenon, <1>21, <3>2
    <3>. QED
      BY Zenon, <3>1, <3>2
  <2>2. /\ pc' \in [Task -> {"idle", "search", "charge"}] /\ pc'[t] = p
        /\ carry' \in [Task -> SUBSET Cgroup] /\ carry'[t] = W
        /\ pos' \in [Task -> Cgroup \cup {None}] /\ pos'[t] = cg[t]
        /\ \A u \in Task \ {t} : pc'[u] = pc[u] /\ carry'[u] = carry[u] /\ pos'[u] = pos[u]
    BY Zenon, <1>1, <1>10, <1>11, <1>21, <2>1 DEF Types
  <2>3. Types'
    BY Zenon, <1>1, <1>2, <1>3, <1>14, <1>15, <1>17, <1>19, <2>2 DEF Types
  <2>4. p = "charge" => Y # None /\ N \in Chain[Y]
    <3>1. "search" # "charge" /\ "consume" # "put_aside"
      OBVIOUS
    <3>. QED
      BY Zenon, <1>9, <1>16, <1>21, <2>1, <3>1
  <2>5. cg'[t] = cg[t] /\ Nearest(cg[t], bumped)' = N /\ managed' = managed
    BY Zenon, <1>2, <1>3 DEF N, Nearest
  <2>6. Calling(t)'
    BY Zenon, <1>10, <1>11, <1>12, <1>14, <1>17, <2>2, <2>4, <2>5, ChainSelf DEF Calling
  <2>. QED
    BY Zenon, <1>2, <1>14, <1>15, <1>17, <1>18, <1>19, <2>2, <2>3, <2>6, TaskStep
<1>. QED
  BY Zenon, <1>8, <1>20, <1>21

\* Every step keeps the invariant.
LEMMA Inductive ==
  ASSUME IInv, [Next]_vars
  PROVE  IInv'
<1>1. CASE UNCHANGED vars
  <2>1. UNCHANGED <<taskVars, managed, bumped, cbw_bill_gen, wpc, wcg>>
    BY Zenon, <1>1 DEF vars, cgxVars, writerVars
  <2>2. Writing'
    BY Zenon, <2>1 DEF IInv, Writing
  <2>. QED
    BY Zenon, <2>1, <2>2, WriterKeepsTasks DEF IInv, Types
<1>2. ASSUME NEW w \in Writer, NEW g \in Cgroup, NEW q, cbw_init_cgx(w, g, q)
      PROVE  IInv'
  BY Zenon, <1>2, StepStart DEF cbw_init_cgx, Begin
<1>3. ASSUME NEW w \in Writer, NEW g \in Cgroup, NEW q, cbw_set_bandwidth(w, g, q)
      PROVE  IInv'
  BY Zenon, <1>3, StepStart DEF cbw_set_bandwidth, Begin
<1>4. ASSUME NEW w \in Writer, Publish(w) \/ Bump(w) \/ Visit(w)
      PROVE  IInv'
  BY Zenon, <1>4, StepWrite
<1>5. ASSUME NEW t \in Task, NEW o, NEW subject \in BOOLEAN, Call(t, o, subject)
      PROVE  IInv'
  BY Zenon, <1>5, StepCall
<1>6. ASSUME NEW t \in Task, SearchUp(t) \/ SearchFound(t) \/ Consume(t)
      PROVE  IInv'
  BY Zenon, <1>6, StepSearchUp, StepSearchFound, StepConsume
<1>7. ASSUME NEW t \in Task, NEW to \in Cgroup, scx_cgroup_bw_move(t, to)
      PROVE  IInv'
  BY Zenon, <1>7, StepMove
<1>. QED
  BY Zenon, <1>1, <1>2, <1>3, <1>4, <1>5, <1>6, <1>7 DEF Next

-----------------------------------------------------------------------------
(* The theorems *)

\* The inductive invariant holds throughout.
THEOREM Invariant == Spec => []IInv
BY Initially, Inductive, PTL DEF Spec

\* Time is charged at or below the nearest cgroup whose management was
\* announced when the call began, whatever the task had cached and however
\* many cgroups become managed during the search (cbw_sync_bill_gen,
\* cbw_resolve_bill_cgid), in every tree of cgroups.
THEOREM NearestBilled == Spec => []BilledToNearest
<1>1. IInv => BilledToNearest
  BY Zenon DEF IInv, Billed, BilledToNearest
<1>. QED
  BY <1>1, Invariant, PTL

\* Time is charged to an ancestor of the cgroup it was consumed in, also
\* when it was deferred and the task has been moved (scx_cgroup_bw_consume,
\* scx_cgroup_bw_move).
THEOREM ConsumedBilled == Spec => []BilledWhereConsumed
<1>1. IInv => BilledWhereConsumed
  BY Zenon DEF IInv, Billed, BilledWhereConsumed
<1>. QED
  BY <1>1, Invariant, PTL

-----------------------------------------------------------------------------
(* More about the tree, and least elements *)

\* Of two ancestors of a cgroup one is above the other.
LEMMA ChainLinear ==
  ASSUME NEW g \in Cgroup, NEW a \in Chain[g]
  PROVE  \A b \in Chain[g] : a \in Chain[b] \/ b \in Chain[a]
<1>1. a \in Cgroup
  BY Zenon, ChainNodes
<1> DEFINE S == {x \in Cgroup : a \in Chain[x] \/ x \in Chain[a]}
<1>2. S \in SUBSET Cgroup /\ g \in S
  BY Zenon
<1>3. UpClosed(S)
  <2>. SUFFICES ASSUME NEW x \in S, x # Root
               PROVE  Parent[x] \in S
    BY Zenon DEF UpClosed
  <2>1. x \in Cgroup /\ Parent[x] \in Cgroup /\ (a \in Chain[x] \/ x \in Chain[a])
    BY Zenon, TreeNodes
  <2>2. CASE x \in Chain[a]
    BY Zenon, <1>1, <2>1, <2>2, ChainClosed DEF UpClosed
  <2>3. CASE a \in Chain[x]
    <3>1. a = x \/ a \in Chain[Parent[x]]
      BY Zenon, <2>1, <2>3, ChainUp
    <3>2. a = x => Parent[x] \in Chain[a]
      BY Zenon, <2>1, ChainUp
    <3>. QED
      BY Zenon, <2>1, <3>1, <3>2
  <2>. QED
    BY Zenon, <2>1, <2>2, <2>3
<1>4. \A x \in S : a \in Chain[x] \/ x \in Chain[a]
  BY Zenon
<1> HIDE DEF S
<1>5. \A b \in Chain[g] : b \in S
  BY Zenon, <1>2, <1>3, ChainIs
<1>. QED
  BY Zenon, <1>4, <1>5

\* No cgroup is above its parent.
LEMMA NoCycle ==
  ASSUME NEW a \in Cgroup, a # Root, a \in Chain[Parent[a]]
  PROVE  FALSE
<1> DEFINE S == {x \in Cgroup : a \in Chain[x] /\ x \in Chain[a]}
<1>1. S \in SUBSET Cgroup /\ a \in S /\ \A x \in Cgroup : x \in S <=> a \in Chain[x] /\ x \in Chain[a]
  BY Zenon, ChainSelf
<1> HIDE DEF S
<1>2. PICK x \in S : x = Root \/ Parent[x] \notin S
  BY Zenon, <1>1, FirstOf
<1>3. x \in Cgroup /\ a \in Chain[x] /\ x \in Chain[a]
  BY Zenon, <1>1, <1>2
<1>4. x # Root
  BY Zenon, <1>3, ChainRoot
<1>5. Parent[x] \in Cgroup /\ Parent[x] \in Chain[a]
  BY Zenon, <1>3, <1>4, TreeNodes, ChainClosed DEF UpClosed
<1>6. a \in Chain[Parent[x]]
  BY Zenon, <1>3, <1>4, ChainUp
<1>. QED
  BY Zenon, <1>1, <1>2, <1>4, <1>5, <1>6

\* Two cgroups that are above each other are one.
LEMMA ChainAnti ==
  ASSUME NEW g \in Cgroup, NEW a \in Chain[g], g \in Chain[a]
  PROVE  a = g
<1>. SUFFICES ASSUME a # g PROVE FALSE
  BY Zenon
<1>1. g # Root
  BY Zenon, ChainRoot
<1>2. a \in Chain[Parent[g]] /\ Parent[g] \in Cgroup
  BY Zenon, <1>1, ChainUp, TreeNodes
<1>3. g \in Chain[Parent[g]]
  BY Zenon, <1>2, ChainTrans
<1>. QED
  BY Zenon, <1>1, <1>3, NoCycle

\* The nearest cgroup of G is above g, in G, and below all others that are.
LEMMA NearestRight ==
  ASSUME NEW G \in SUBSET Cgroup, Root \in G, NEW g \in Cgroup
  PROVE  /\ Nearest(g, G) \in Chain[g] /\ Nearest(g, G) \in G
         /\ \A b \in Chain[g] \cap G : b \in Chain[Nearest(g, G)]
<1>1. \E a \in Chain[g] \cap (G \cup {Root}) :
         \A b \in Chain[g] \cap (G \cup {Root}) : b \in Chain[a]
  BY Zenon, NearestExists
<1>2. /\ Nearest(g, G) \in Chain[g] \cap (G \cup {Root})
      /\ \A b \in Chain[g] \cap (G \cup {Root}) : b \in Chain[Nearest(g, G)]
  BY Zenon, <1>1 DEF Nearest
<1>. QED
  BY Zenon, <1>2

\* There is only one such cgroup.
LEMMA NearestOnly ==
  ASSUME NEW G \in SUBSET Cgroup, Root \in G, NEW g \in Cgroup,
         NEW a \in Chain[g] \cap G, \A b \in Chain[g] \cap G : b \in Chain[a]
  PROVE  a = Nearest(g, G)
<1> DEFINE n == Nearest(g, G)
<1>1. n \in Chain[g] \cap G /\ \A b \in Chain[g] \cap G : b \in Chain[n]
  BY Zenon, NearestRight
<1> HIDE DEF n
<1>2. a \in Cgroup /\ n \in Chain[a] /\ a \in Chain[n]
  BY Zenon, <1>1
<1>3. n = a
  BY Zenon, <1>2, ChainAnti
<1>. QED
  BY Zenon, <1>3 DEF n

\* What is not on the way up does not matter.
LEMMA NearestSame ==
  ASSUME NEW G \in SUBSET Cgroup, Root \in G, NEW H \in SUBSET Cgroup, Root \in H, NEW g \in Cgroup,
         \A a \in Chain[g] : a \in G <=> a \in H
  PROVE  Nearest(g, G) = Nearest(g, H)
<1>1. Nearest(g, G) \in Chain[g] \cap H /\ \A b \in Chain[g] \cap H : b \in Chain[Nearest(g, G)]
  BY Zenon, NearestRight
<1>. QED
  BY Zenon, <1>1, NearestOnly

\* The least of a set of numbers.
LEMMA MinRight ==
  ASSUME NEW S \in SUBSET Nat, S # {}
  PROVE  Min(S) \in S /\ \A y \in S : Min(S) <= y
<1>1. \E x \in S : \A y \in S : x <= y
  BY Zenon, LeastNat
<1>. QED
  BY Zenon, <1>1 DEF Min

\* There is only one.
LEMMA MinOnly ==
  ASSUME NEW S \in SUBSET Nat, NEW m \in S, \A y \in S : m <= y
  PROVE  Min(S) = m
<1>1. PICK n \in S : n = Min(S) /\ n <= m /\ m <= n
  BY Zenon, MinRight
<1>2. n \in Nat /\ m \in Nat
  BY Zenon
<1>3. n = m
  BY <1>1, <1>2
<1>. QED
  BY Zenon, <1>1, <1>3

\* The least of a number and of the least of a set.
LEMMA MinAdd ==
  ASSUME NEW S \in SUBSET Nat, S # {}, NEW q \in Nat
  PROVE  Min({q, Min(S)}) = Min(S \cup {q})
<1> DEFINE m == Min(S)
           k == Min({q, m})
<1>1. m \in S /\ \A y \in S : m <= y
  BY Zenon, MinRight
<1>2. m \in Nat /\ {q, m} \in SUBSET Nat /\ S \cup {q} \in SUBSET Nat
  BY Zenon, <1>1
<1> HIDE DEF m
<1>3. k \in {q, m} /\ \A y \in {q, m} : k <= y
  BY Zenon, <1>2, MinRight
<1>4. k \in S \cup {q} /\ k \in Nat /\ k <= q /\ k <= m
  BY Zenon, <1>1, <1>2, <1>3
<1> HIDE DEF k
<1>5. ASSUME NEW y \in S PROVE k <= y
  <2>1. m <= y /\ y \in Nat
    BY Zenon, <1>1
  <2>. QED
    BY <1>2, <1>4, <2>1
<1>6. \A y \in S \cup {q} : k <= y
  BY Zenon, <1>4, <1>5
<1>7. Min(S \cup {q}) = k
  BY Zenon, <1>2, <1>4, <1>6, MinOnly
<1>. QED
  BY Zenon, <1>7 DEF k, m

-----------------------------------------------------------------------------
(* The bounds: what holds while no writes to nested cgroups have overlapped *)

\* The cgroups whose effective parent the write under way has yet to repoint.
Unpointed(w) ==
    IF wpc[w] = "bump" THEN Subtree(wcg[w]) \ {wcg[w]}
    ELSE IF wpc[w] = "walk" /\ from[w] # None THEN walk[w] \ {wcg[w]} ELSE {}

\* The cgroups whose bound it has yet to compute.
Unbounded(w) ==
    IF wpc[w] = "bump" THEN Subtree(wcg[w]) \ {wcg[w]}
    ELSE IF wpc[w] = "walk" THEN walk[w] ELSE {}

\* The limits f on the way up from g, among the cgroups of G.
Limits(f, g, G) == {f[a] : a \in Chain[g] \cap G}

\* The types.  The root is never given a limit.
BoundTypes ==
    /\ eff_parent \in [Cgroup -> Cgroup \cup {None}]
    /\ nquota \in [Cgroup -> Nat] /\ nquota_ub \in [Cgroup -> Nat]
    /\ nquota_ub[Root] = nquota[Root]
    /\ from \in [Writer -> Cgroup \cup {None}]
    /\ walk \in [Writer -> SUBSET Cgroup]

\* Writes under way are to cgroups of which none is above another, and not to
\* the root.
Apart ==
    \A w \in Writer : wpc[w] # "idle" =>
        /\ wcg[w] # Root
        /\ \A v \in Writer \ {w} : wpc[v] # "idle" => wcg[v] \notin Chain[wcg[w]]

\* A walk goes down: with a cgroup, all that is below is still to be visited.
Walks ==
    \A w \in Writer : wpc[w] = "walk" =>
        /\ wcg[w] \in managed
        /\ walk[w] # {} /\ walk[w] \subseteq Subtree(wcg[w])
        /\ \A x \in walk[w] : Subtree(x) \subseteq walk[w]
        /\ from[w] # None => from[w] = Nearest(Parent[wcg[w]], managed)

\* A context that nobody sees yet is already right.
Fresh ==
    \A w \in Writer : wpc[w] = "publish" =>
        /\ wcg[w] \notin managed
        /\ eff_parent[wcg[w]] = Nearest(Parent[wcg[w]], managed)
        /\ nquota_ub[wcg[w]] = Min(Limits(nquota, wcg[w], managed \cup {wcg[w]}))

\* An effective parent is the nearest managed ancestor, or was until the write
\* under way above published its cgroup.
Pointed ==
    \A g \in managed \ {Root} :
        /\ (\A w \in Writer : g \notin Unpointed(w)) => eff_parent[g] = Nearest(Parent[g], managed)
        /\ \A w \in Writer : g \in Unpointed(w) =>
              eff_parent[g] = Nearest(Parent[g], managed \ {wcg[w]})

\* A bound is the least limit, unless a write under way has yet to compute it.
Bounded ==
    \A g \in managed \ {Root} :
        (\A w \in Writer : g \notin Unbounded(w)) => nquota_ub[g] = Min(Limits(nquota, g, managed))

BInv == ~crossed => BoundTypes /\ Apart /\ Walks /\ Fresh /\ Pointed /\ Bounded

\* The limits above g are its own and those above its nearest cgroup of G.
LEMMA LimitsUp ==
  ASSUME NEW f, NEW g \in Cgroup, g # Root, NEW G \in SUBSET Cgroup, Root \in G
  PROVE  Limits(f, g, G \cup {g}) = Limits(f, Nearest(Parent[g], G), G) \cup {f[g]}
<1>1. Parent[g] \in Cgroup
  BY Zenon, TreeNodes
<1> DEFINE p == Nearest(Parent[g], G)
<1>2. p \in Chain[Parent[g]] /\ \A b \in Chain[Parent[g]] \cap G : b \in Chain[p]
  BY Zenon, <1>1, NearestRight
<1> HIDE DEF p
<1>3. \A a \in Chain[p] : a \in Chain[g]
  <2>1. p \in Chain[g]
    BY Zenon, <1>2, ChainUp, ChainTrans
  <2>. QED
    BY Zenon, <2>1, ChainTrans
<1>4. \A a : a \in Chain[g] \cap (G \cup {g}) <=> a = g \/ a \in Chain[p] \cap G
  BY Zenon, <1>2, <1>3, ChainUp, ChainSelf
<1>5. \A x : x \in Limits(f, g, G \cup {g}) <=> x = f[g] \/ x \in Limits(f, p, G)
  <2>1. ASSUME NEW x \in Limits(f, g, G \cup {g}) PROVE x = f[g] \/ x \in Limits(f, p, G)
    <3>1. PICK a \in Chain[g] \cap (G \cup {g}) : x = f[a]
      BY Zenon DEF Limits
    <3>. QED
      BY Zenon, <1>4, <3>1 DEF Limits
  <2>2. f[g] \in Limits(f, g, G \cup {g})
    BY Zenon, <1>4 DEF Limits
  <2>3. ASSUME NEW x \in Limits(f, p, G) PROVE x \in Limits(f, g, G \cup {g})
    <3>1. PICK a \in Chain[p] \cap G : x = f[a]
      BY Zenon DEF Limits
    <3>. QED
      BY Zenon, <1>4, <3>1 DEF Limits
  <2>. QED
    BY Zenon, <2>1, <2>2, <2>3
<1>. QED
  BY Zenon, <1>5 DEF p

\* Limits are numbers, and there are some.
LEMMA LimitsRight ==
  ASSUME NEW f \in [Cgroup -> Nat], NEW g \in Cgroup, NEW G \in SUBSET Cgroup, Root \in G
  PROVE  Limits(f, g, G) \in SUBSET Nat /\ Limits(f, g, G) # {}
<1>1. Root \in Chain[g] \cap G
  BY Zenon, RootAbove
<1>2. \A a \in Chain[g] \cap G : f[a] \in Nat
  BY Zenon
<1>. QED
  BY Zenon, <1>1, <1>2 DEF Limits

\* Nothing is above the root.
LEMMA RootLimit ==
  ASSUME NEW f \in [Cgroup -> Nat], NEW G \in SUBSET Cgroup, Root \in G
  PROVE  Min(Limits(f, Root, G)) = f[Root]
<1>1. Root \in Cgroup /\ Root \in Chain[Root]
  BY Zenon, TreeNodes, ChainSelf
<1>2. \A x : x \in Limits(f, Root, G) <=> x = f[Root]
  BY Zenon, <1>1, ChainRoot DEF Limits
<1>3. Limits(f, Root, G) \in SUBSET Nat /\ Limits(f, Root, G) # {}
  BY Zenon, <1>1, LimitsRight
<1>. QED
  BY Zenon, <1>2, <1>3, MinRight

\* A bound computed from the nearest cgroup's is right if that one is.
LEMMA BoundUp ==
  ASSUME NEW f \in [Cgroup -> Nat], NEW g \in Cgroup, g # Root,
         NEW G \in SUBSET Cgroup, Root \in G, NEW p, p = Nearest(Parent[g], G),
         NEW u, u = Min(Limits(f, p, G))
  PROVE  Min({f[g], u}) = Min(Limits(f, g, G \cup {g}))
<1>1. p \in Cgroup
  BY Zenon, TreeNodes, NearestRight
<1>2. Limits(f, p, G) \in SUBSET Nat /\ Limits(f, p, G) # {} /\ f[g] \in Nat
  BY Zenon, <1>1, LimitsRight
<1>3. Min({f[g], u}) = Min(Limits(f, p, G) \cup {f[g]})
  BY Zenon, <1>2, MinAdd
<1>4. Limits(f, g, G \cup {g}) = Limits(f, p, G) \cup {f[g]}
  BY Zenon, LimitsUp
<1>. QED
  BY Zenon, <1>3, <1>4

\* The limits are the same if nothing changes on the way up.
LEMMA LimitsSame ==
  ASSUME NEW f, NEW h, NEW g \in Cgroup, NEW G, NEW H,
         \A a \in Chain[g] : (a \in G <=> a \in H) /\ (a \in G => f[a] = h[a])
  PROVE  Limits(f, g, G) = Limits(h, g, H)
<1>1. ASSUME NEW x \in Limits(f, g, G) PROVE x \in Limits(h, g, H)
  BY Zenon DEF Limits
<1>2. ASSUME NEW x \in Limits(h, g, H) PROVE x \in Limits(f, g, G)
  BY Zenon DEF Limits
<1>. QED
  BY Zenon, <1>1, <1>2

\* The bound of a managed cgroup, the root included.
LEMMA ManagedBound ==
  ASSUME IInv, BoundTypes, Bounded, NEW p \in managed, \A v \in Writer : p \notin Unbounded(v)
  PROVE  nquota_ub[p] = Min(Limits(nquota, p, managed))
<1>1. CASE p = Root
  <2>1. managed \in SUBSET Cgroup /\ Root \in managed /\ nquota \in [Cgroup -> Nat]
    BY Zenon DEF IInv, Types, BoundTypes
  <2>2. Min(Limits(nquota, Root, managed)) = nquota[Root]
    BY Zenon, <2>1, RootLimit
  <2>. QED
    BY Zenon, <1>1, <2>2 DEF BoundTypes
<1>2. CASE p # Root
  BY Zenon, <1>2 DEF Bounded
<1>. QED
  BY Zenon, <1>1, <1>2

\* What a write under way has yet to do is below its cgroup.
LEMMA OpenBelow ==
  ASSUME IInv, BoundTypes, Walks, NEW w \in Writer
  PROVE  /\ \A g \in Unpointed(w) \cup Unbounded(w) :
               wpc[w] # "idle" /\ g \in Cgroup /\ wcg[w] \in Chain[g] /\ wcg[w] \in managed
         /\ \A g \in Unpointed(w) : g # wcg[w] /\ g \in Unbounded(w)
<1>1. "bump" # "idle" /\ "walk" # "idle" /\ "bump" # "walk"
  OBVIOUS
<1>2. CASE wpc[w] = "bump"
  <2>1. wcg[w] \in managed
    BY Zenon, <1>2 DEF IInv, Writing
  <2>2. Unpointed(w) = Subtree(wcg[w]) \ {wcg[w]} /\ Unbounded(w) = Subtree(wcg[w]) \ {wcg[w]}
    BY Zenon, <1>2 DEF Unpointed, Unbounded
  <2>. QED
    BY Zenon, <1>1, <1>2, <2>1, <2>2 DEF Subtree
<1>3. CASE wpc[w] = "walk"
  <2>1. wcg[w] \in managed /\ walk[w] \subseteq Subtree(wcg[w])
    BY Zenon, <1>3 DEF Walks
  <2>2. Unpointed(w) \subseteq walk[w] \ {wcg[w]} /\ Unbounded(w) = walk[w]
    BY Zenon, <1>1, <1>3 DEF Unpointed, Unbounded
  <2>. QED
    BY Zenon, <1>1, <1>3, <2>1, <2>2 DEF Subtree
<1>4. CASE wpc[w] \notin {"bump", "walk"}
  <2>1. Unpointed(w) = {} /\ Unbounded(w) = {}
    BY Zenon, <1>4 DEF Unpointed, Unbounded
  <2>. QED
    BY Zenon, <2>1
<1>. QED
  BY Zenon, <1>2, <1>3, <1>4

\* A cgroup on the way up from a write under way is not open in another one.
LEMMA OpenApart ==
  ASSUME IInv, BoundTypes, Walks, Apart, NEW w \in Writer, wpc[w] # "idle",
         NEW v \in Writer, v # w, NEW g \in Cgroup, wcg[w] \in Chain[g] \/ g \in Chain[wcg[w]]
  PROVE  g \notin Unpointed(v) \cup Unbounded(v)
<1>. SUFFICES ASSUME g \in Unpointed(v) \cup Unbounded(v) PROVE FALSE
  BY Zenon
<1>1. wpc[v] # "idle" /\ wcg[v] \in Chain[g]
  BY Zenon, OpenBelow
<1>2. wcg[v] \in Cgroup /\ wcg[w] \in Cgroup
  BY Zenon, <1>1 DEF IInv, Writing
<1>3. wcg[v] \notin Chain[wcg[w]] /\ wcg[w] \notin Chain[wcg[v]]
  BY Zenon, <1>1 DEF Apart
<1>4. CASE wcg[w] \in Chain[g]
  BY Zenon, <1>1, <1>3, <1>4, ChainLinear
<1>5. CASE g \in Chain[wcg[w]]
  BY Zenon, <1>1, <1>2, <1>3, <1>5, ChainTrans
<1>. QED
  BY Zenon, <1>4, <1>5

\* The limits on the way up are the same when those in force are.
LEMMA LimitsKept ==
  ASSUME NEW f, NEW h, NEW g \in Cgroup, NEW G, \A a \in Chain[g] : a \in G => f[a] = h[a]
  PROVE  Limits(f, g, G) = Limits(h, g, G)
BY LimitsSame

\* What a writer has open is its own affair.
LEMMA OpenSame ==
  ASSUME NEW v \in Writer, wpc'[v] = wpc[v], wcg'[v] = wcg[v], from'[v] = from[v], walk'[v] = walk[v]
  PROVE  Unpointed(v)' = Unpointed(v) /\ Unbounded(v)' = Unbounded(v)
BY Zenon DEF Unpointed, Unbounded

\* A writer that is idle or has not published has nothing open.
LEMMA NothingOpen ==
  ASSUME NEW v \in Writer
  PROVE  /\ wpc[v] \in {"idle", "publish"} => Unpointed(v) = {} /\ Unbounded(v) = {}
         /\ wpc'[v] \in {"idle", "publish"} => Unpointed(v)' = {} /\ Unbounded(v)' = {}
<1>1. "idle" \notin {"bump", "walk"} /\ "publish" \notin {"bump", "walk"}
  OBVIOUS
<1>. QED
  BY Zenon, <1>1 DEF Unpointed, Unbounded

\* Nothing is open at first, and only the root is managed.
LEMMA BoundInitially == Init => BInv
<1>. SUFFICES ASSUME Init PROVE BInv
  OBVIOUS
<1>1. BoundTypes
  <2>1. Root \in Cgroup /\ Inf \in Nat
    BY Zenon, TreeNodes, QuotaAssumption
  <2>. QED
    BY Zenon, <2>1 DEF Init, BoundTypes
<1>2. Apart
  BY Zenon DEF Init, Apart
<1>3. \A w \in Writer : wpc[w] # "walk" /\ wpc[w] # "publish"
  <2>1. \A w \in Writer : wpc[w] = "idle"
    BY Zenon DEF Init
  <2>. QED
    BY <2>1
<1>4. Walks /\ Fresh
  BY Zenon, <1>3 DEF Walks, Fresh
<1>5. Pointed /\ Bounded
  BY Zenon DEF Init, Pointed, Bounded
<1>. QED
  BY Zenon, <1>1, <1>2, <1>4, <1>5 DEF BInv

\* The tasks have nothing to do with it.
LEMMA BoundFrame ==
  ASSUME BInv, UNCHANGED <<cgxVars, writerVars>>
  PROVE  BInv'
<1>1. UNCHANGED <<managed, eff_parent, nquota, nquota_ub, wpc, wcg, from, walk, crossed>>
  BY Zenon DEF cgxVars, writerVars
<1>. SUFFICES ASSUME ~crossed'
             PROVE  (BoundTypes /\ Apart /\ Walks /\ Fresh /\ Pointed /\ Bounded)'
  BY Zenon DEF BInv
<1>2. BoundTypes /\ Apart /\ Walks /\ Fresh /\ Pointed /\ Bounded
  BY Zenon, <1>1 DEF BInv
<1>3. \A v \in Writer : Unpointed(v)' = Unpointed(v) /\ Unbounded(v)' = Unbounded(v)
  BY Zenon, <1>1 DEF Unpointed, Unbounded
<1>4. BoundTypes' /\ Apart'
  BY Zenon, <1>1, <1>2 DEF BoundTypes, Apart
<1>5. Walks'
  BY Zenon, <1>1, <1>2 DEF Walks
<1>6. Fresh'
  BY Zenon, <1>1, <1>2 DEF Fresh
<1>7. Pointed'
  BY ZenonT(30), <1>1, <1>2, <1>3 DEF Pointed
<1>8. Bounded'
  BY Zenon, <1>1, <1>2, <1>3 DEF Bounded
<1>. QED
  BY Zenon, <1>4, <1>5, <1>6, <1>7, <1>8

\* A write starts apart from the others, or they have crossed.
LEMMA StartApart ==
  ASSUME IInv, ~crossed => Apart, NEW w \in Writer, NEW g \in Cgroup, g # Root, Begin(w, g), ~crossed',
         NEW p, wpc' = [wpc EXCEPT ![w] = p]
  PROVE  /\ ~crossed /\ Apart'
         /\ \A v \in Writer \ {w} : wpc[v] # "idle" => wcg[v] \notin Chain[g] /\ g \notin Chain[wcg[v]]
<1>1. /\ ~crossed /\ wpc[w] = "idle" /\ wcg' = [wcg EXCEPT ![w] = g]
      /\ \A v \in Writer : wpc[v] # "idle" => ~Nested(wcg[v], g)
  BY Zenon DEF Begin
<1>2. \A v \in Writer \ {w} : wpc[v] # "idle" => wcg[v] \notin Chain[g] /\ g \notin Chain[wcg[v]]
  BY Zenon, <1>1 DEF Nested
<1>3. wcg'[w] = g /\ \A v \in Writer \ {w} : wcg'[v] = wcg[v] /\ wpc'[v] = wpc[v]
  BY Zenon, <1>1 DEF IInv, Types
<1>4. Apart'
  <2>. SUFFICES ASSUME NEW u \in Writer, wpc'[u] # "idle"
               PROVE  /\ wcg'[u] # Root
                      /\ \A v \in Writer \ {u} : wpc'[v] # "idle" => wcg'[v] \notin Chain[wcg'[u]]
    BY Zenon DEF Apart
  <2>1. CASE u = w
    BY Zenon, <1>2, <1>3, <2>1
  <2>2. CASE u # w
    <3>1. wcg'[u] = wcg[u] /\ wpc[u] # "idle"
      BY Zenon, <1>3, <2>2
    <3>2. wcg[u] # Root /\ \A v \in Writer \ {u} : wpc[v] # "idle" => wcg[v] \notin Chain[wcg[u]]
      BY Zenon, <1>1, <3>1 DEF Apart
    <3>3. ASSUME NEW v \in Writer \ {u}, wpc'[v] # "idle"
          PROVE  wcg'[v] \notin Chain[wcg[u]]
      <4>1. CASE v = w
        BY Zenon, <1>2, <1>3, <2>2, <3>1, <4>1
      <4>2. CASE v # w
        BY Zenon, <1>3, <3>2, <3>3, <4>2
      <4>. QED
        BY Zenon, <4>1, <4>2
    <3>. QED
      BY Zenon, <3>1, <3>2, <3>3
  <2>. QED
    BY Zenon, <2>1, <2>2
<1>. QED
  BY Zenon, <1>1, <1>2, <1>4

\* A new context is filled in.  Nobody else has one of its ancestors open.
LEMMA BoundInit ==
  ASSUME IInv, BInv, NEW w \in Writer, NEW g \in Cgroup, g # Root, NEW q \in Quota,
         cbw_init_cgx(w, g, q)
  PROVE  BInv'
<1>. SUFFICES ASSUME ~crossed'
             PROVE  (BoundTypes /\ Apart /\ Walks /\ Fresh /\ Pointed /\ Bounded)'
  BY Zenon DEF BInv
<1>1. ~crossed => BoundTypes /\ Apart /\ Walks /\ Fresh /\ Pointed /\ Bounded
  BY Zenon DEF BInv
<1>2. Begin(w, g) /\ wpc' = [wpc EXCEPT ![w] = "publish"] /\ wcg' = [wcg EXCEPT ![w] = g]
        /\ wpc[w] = "idle"
  BY Zenon DEF cbw_init_cgx, Begin
<1>3. /\ ~crossed /\ Apart'
      /\ \A v \in Writer \ {w} : wpc[v] # "idle" => wcg[v] \notin Chain[g] /\ g \notin Chain[wcg[v]]
  BY Zenon, <1>1, <1>2, StartApart
<1>4. BoundTypes /\ Apart /\ Walks /\ Fresh /\ Pointed /\ Bounded
  BY Zenon, <1>1, <1>3
<1>5. g \notin managed /\ \A v \in Writer : wpc[v] # "idle" => wcg[v] # g
  BY Zenon DEF cbw_init_cgx
<1>6. /\ managed' = managed /\ from' = from /\ walk' = walk
      /\ eff_parent' = [eff_parent EXCEPT ![g] = Nearest(Parent[g], managed)]
      /\ nquota' = [nquota EXCEPT ![g] = q]
      /\ nquota_ub' = [nquota_ub EXCEPT ![g] = Min({q, nquota_ub[Nearest(Parent[g], managed)]})]
  BY Zenon DEF cbw_init_cgx, cbw_eff_parent_cgid
<1>7. managed \in SUBSET Cgroup /\ Root \in managed /\ Parent[g] \in Cgroup
  BY Zenon, TreeNodes DEF IInv, Types
<1> DEFINE p == Nearest(Parent[g], managed)
<1>8. p \in Chain[Parent[g]] /\ p \in managed
  BY Zenon, <1>7, NearestRight
<1> HIDE DEF p
<1>9. p \in Chain[g] /\ p \in Cgroup
  BY Zenon, <1>7, <1>8, ChainUp, ChainTrans
<1>10. wpc'[w] = "publish" /\ wcg'[w] = g
         /\ \A v \in Writer \ {w} : wpc'[v] = wpc[v] /\ wcg'[v] = wcg[v]
  BY Zenon, <1>2 DEF IInv, Types
<1>11. \A v \in Writer : Unpointed(v)' = Unpointed(v) /\ Unbounded(v)' = Unbounded(v)
  <2>1. Unpointed(w)' = Unpointed(w) /\ Unbounded(w)' = Unbounded(w)
    BY Zenon, <1>2, <1>10, NothingOpen
  <2>2. ASSUME NEW v \in Writer, v # w
        PROVE  Unpointed(v)' = Unpointed(v) /\ Unbounded(v)' = Unbounded(v)
    BY Zenon, <1>6, <1>10, <2>2, OpenSame
  <2>. QED
    BY Zenon, <2>1, <2>2
<1>22. PICK f : f = nquota'
  BY Zenon
<1>12. q \in Nat /\ f \in [Cgroup -> Nat]
  BY Zenon, <1>4, <1>6, <1>22, QuotaAssumption DEF BoundTypes
<1>13. \A a \in Cgroup \ {g} : eff_parent'[a] = eff_parent[a] /\ f[a] = nquota[a]
                               /\ nquota_ub'[a] = nquota_ub[a]
  BY Zenon, <1>4, <1>6, <1>22 DEF BoundTypes
<1>14. nquota_ub[p] = Min(Limits(f, p, managed))
  <2>1. ASSUME NEW v \in Writer PROVE p \notin Unbounded(v)
    <3>1. CASE wpc[v] = "idle"
      BY Zenon, <3>1, NothingOpen
    <3>2. CASE wpc[v] # "idle"
      <4>1. v # w
        BY Zenon, <1>2, <3>2
      <4>2. wcg[v] \in Chain[p] => wcg[v] \in Chain[g]
        BY Zenon, <1>9, ChainTrans
      <4>. QED
        BY Zenon, <1>3, <1>4, <3>2, <4>1, <4>2, OpenBelow
    <3>. QED
      BY Zenon, <3>1, <3>2
  <2>2. nquota_ub[p] = Min(Limits(nquota, p, managed))
    BY Zenon, <1>4, <1>8, <2>1, ManagedBound
  <2>3. Limits(nquota, p, managed) = Limits(f, p, managed)
    <3>1. \A a \in Chain[p] : a \in managed => nquota[a] = f[a]
      BY Zenon, <1>5, <1>7, <1>13
    <3>. QED
      BY <1>9, <3>1, LimitsKept
  <2>. QED
    BY Zenon, <2>2, <2>3
<1>15. /\ eff_parent'[g] = p /\ f[g] = q
       /\ nquota_ub'[g] = Min({f[g], nquota_ub[p]})
  BY Zenon, <1>4, <1>6, <1>22 DEF BoundTypes, p
<1>16. nquota_ub'[g] = Min(Limits(f, g, managed \cup {g}))
  <2>1. p = Nearest(Parent[g], managed)
    BY Zenon DEF p
  <2>2. Min({f[g], nquota_ub[p]}) = Min(Limits(f, g, managed \cup {g}))
    BY <1>7, <1>12, <1>14, <2>1, BoundUp
  <2>. QED
    BY Zenon, <1>15, <2>2
<1>17. BoundTypes'
  <2>1. Min({q, nquota_ub[p]}) \in Nat
    <3>1. nquota_ub[p] \in Nat /\ {q, nquota_ub[p]} \in SUBSET Nat
      BY Zenon, <1>4, <1>9, <1>12 DEF BoundTypes
    <3>. QED
      BY Zenon, <3>1, MinRight
  <2>2. nquota_ub' \in [Cgroup -> Nat] /\ eff_parent' \in [Cgroup -> Cgroup \cup {None}]
    BY Zenon, <1>4, <1>6, <1>9, <2>1 DEF BoundTypes, p
  <2>3. nquota_ub'[Root] = nquota_ub[Root] /\ f[Root] = nquota[Root]
    BY Zenon, <1>13, TreeNodes
  <2>. QED
    BY Zenon, <1>4, <1>6, <1>12, <1>22, <2>2, <2>3 DEF BoundTypes
<1>18. Walks'
  <2>1. "publish" # "walk"
    OBVIOUS
  <2>. QED
    BY Zenon, <1>4, <1>6, <1>10, <2>1 DEF Walks
<1>19. Fresh'
  <2>. SUFFICES ASSUME NEW v \in Writer, wpc'[v] = "publish"
               PROVE  /\ wcg'[v] \notin managed
                      /\ eff_parent'[wcg'[v]] = Nearest(Parent[wcg'[v]], managed)
                      /\ nquota_ub'[wcg'[v]] = Min(Limits(f, wcg'[v], managed \cup {wcg'[v]}))
    BY Zenon, <1>6, <1>22 DEF Fresh
  <2>1. CASE v = w
    BY Zenon, <1>5, <1>10, <1>15, <1>16, <2>1 DEF p
  <2>2. CASE v # w
    <3>1. wpc[v] = "publish" /\ wcg'[v] = wcg[v]
      BY Zenon, <1>10, <2>2
    <3>2. wpc[v] # "idle"
      BY <3>1
    <3>3. wcg[v] \in Cgroup \ {g}
      BY Zenon, <1>5, <3>2 DEF IInv, Writing
    <3>4. Limits(nquota, wcg[v], managed \cup {wcg[v]}) = Limits(f, wcg[v], managed \cup {wcg[v]})
      <4>1. \A a \in Chain[wcg[v]] : a \in managed \cup {wcg[v]} => nquota[a] = f[a]
        BY Zenon, <1>5, <1>7, <1>13, <3>3
      <4>. QED
        BY <3>3, <4>1, LimitsKept
    <3>5. /\ wcg[v] \notin managed /\ eff_parent[wcg[v]] = Nearest(Parent[wcg[v]], managed)
          /\ nquota_ub[wcg[v]] = Min(Limits(nquota, wcg[v], managed \cup {wcg[v]}))
      BY Zenon, <1>4, <3>1 DEF Fresh
    <3>6. eff_parent'[wcg[v]] = eff_parent[wcg[v]] /\ nquota_ub'[wcg[v]] = nquota_ub[wcg[v]]
      BY Zenon, <1>13, <3>3
    <3>. QED
      BY Zenon, <3>1, <3>4, <3>5, <3>6
  <2>. QED
    BY Zenon, <2>1, <2>2
<1>20. Pointed'
  <2>. SUFFICES ASSUME NEW h \in managed \ {Root}
               PROVE  /\ (\A v \in Writer : h \notin Unpointed(v)) => eff_parent'[h] = Nearest(Parent[h], managed)
                      /\ \A v \in Writer : h \in Unpointed(v) =>
                            eff_parent'[h] = Nearest(Parent[h], managed \ {wcg'[v]})
    BY Zenon, <1>6, <1>11 DEF Pointed
  <2>1. eff_parent'[h] = eff_parent[h]
    BY Zenon, <1>5, <1>7, <1>13
  <2>2. \A v \in Writer : h \in Unpointed(v) => wcg'[v] = wcg[v]
    BY Zenon, <1>2, <1>10, NothingOpen
  <2>. QED
    BY Zenon, <1>4, <2>1, <2>2 DEF Pointed
<1>21. Bounded'
  <2>. SUFFICES ASSUME NEW h \in managed \ {Root}, \A v \in Writer : h \notin Unbounded(v)
               PROVE  nquota_ub'[h] = Min(Limits(f, h, managed))
    BY Zenon, <1>6, <1>11, <1>22 DEF Bounded
  <2>1. nquota_ub'[h] = nquota_ub[h] /\ h \in Cgroup
    BY Zenon, <1>5, <1>7, <1>13
  <2>2. Limits(nquota, h, managed) = Limits(f, h, managed)
    <3>1. \A a \in Chain[h] : a \in managed => nquota[a] = f[a]
      BY Zenon, <1>5, <1>7, <1>13
    <3>. QED
      BY <2>1, <3>1, LimitsKept
  <2>. QED
    BY Zenon, <1>4, <2>1, <2>2 DEF Bounded
<1>. QED
  BY Zenon, <1>3, <1>17, <1>18, <1>19, <1>20, <1>21

\* The limits on the way up depend on which of the cgroups there are managed.
LEMMA LimitsWhere ==
  ASSUME NEW f, NEW g \in Cgroup, NEW G, NEW H, \A a \in Chain[g] : a \in G <=> a \in H
  PROVE  Limits(f, g, G) = Limits(f, g, H)
BY LimitsSame


\* A new context becomes visible.  What is below points past it for now; what
\* is not below does not notice.
LEMMA BoundPublish ==
  ASSUME IInv, BInv, NEW w \in Writer, Publish(w)
  PROVE  BInv'
<1>. SUFFICES ASSUME ~crossed'
             PROVE  (BoundTypes /\ Apart /\ Walks /\ Fresh /\ Pointed /\ Bounded)'
  BY Zenon DEF BInv
<1>1. /\ wpc[w] = "publish" /\ managed' = managed \cup {wcg[w]} /\ wpc' = [wpc EXCEPT ![w] = "bump"]
      /\ eff_parent' = eff_parent /\ nquota' = nquota /\ nquota_ub' = nquota_ub
      /\ wcg' = wcg /\ from' = from /\ walk' = walk /\ crossed' = crossed
  BY Zenon DEF Publish
<1>2. BoundTypes /\ Apart /\ Walks /\ Fresh /\ Pointed /\ Bounded
  BY Zenon, <1>1 DEF BInv
<1>3. wpc[w] # "idle" /\ "bump" # "walk" /\ "bump" # "publish" /\ "bump" # "idle" /\ "walk" # "idle"
        /\ "publish" # "idle"
  BY <1>1
<1> DEFINE x == wcg[w]
<1>4. /\ x \in Cgroup /\ x # Root /\ x \notin managed /\ eff_parent[x] = Nearest(Parent[x], managed)
      /\ nquota_ub[x] = Min(Limits(nquota, x, managed \cup {x}))
  BY Zenon, <1>1, <1>2, <1>3 DEF IInv, Writing, Apart, Fresh
<1>5. wcg[w] = x /\ managed' = managed \cup {x}
  BY Zenon, <1>1
<1> HIDE DEF x
<1>6. managed \in SUBSET Cgroup /\ Root \in managed /\ managed' \in SUBSET Cgroup /\ Root \in managed'
  BY Zenon, <1>4, <1>5 DEF IInv, Types
<1>7. wpc'[w] = "bump" /\ \A v \in Writer \ {w} : wpc'[v] = wpc[v]
  BY Zenon, <1>1 DEF IInv, Types
<1>8. \A v \in Writer \ {w} : Unpointed(v)' = Unpointed(v) /\ Unbounded(v)' = Unbounded(v)
  BY Zenon, <1>1, <1>7, OpenSame
<1>9. Unpointed(w) = {} /\ Unbounded(w) = {}
  BY Zenon, <1>1, NothingOpen
<1>10. Unpointed(w)' = Subtree(x) \ {x} /\ Unbounded(w)' = Subtree(x) \ {x}
  BY Zenon, <1>1, <1>5, <1>7 DEF Unpointed, Unbounded
<1>11. \A v \in Writer \ {w} : wpc[v] # "idle" =>
          x \notin Chain[wcg[v]] /\ wcg[v] \in Cgroup /\ wcg[v] # Root /\ wcg[v] # x
  <2>1. \A v \in Writer \ {w} : wpc[v] # "idle" =>
           x \notin Chain[wcg[v]] /\ wcg[v] \in Cgroup /\ wcg[v] # Root
    BY Zenon, <1>2, <1>3, <1>5 DEF Apart, IInv, Writing
  <2>. QED
    BY Zenon, <2>1, ChainSelf
<1>12. ASSUME NEW k \in Cgroup, k # Root, x \notin Chain[Parent[k]]
       PROVE  Nearest(Parent[k], managed') = Nearest(Parent[k], managed)
  <2>1. \A b \in Chain[Parent[k]] : b \in managed' <=> b \in managed
    BY Zenon, <1>5, <1>12
  <2>2. Parent[k] \in Cgroup
    BY Zenon, <1>12, TreeNodes
  <2>. QED
    BY <1>6, <2>1, <2>2, NearestSame
<1>13. \A k \in Cgroup : k # Root /\ x \notin Chain[k] => x \notin Chain[Parent[k]]
  BY Zenon, ChainUp, ChainTrans
<1>14. BoundTypes' /\ Apart'
  BY Zenon, <1>1, <1>2, <1>3, <1>7 DEF BoundTypes, Apart
<1>15. Walks'
  <2>. SUFFICES ASSUME NEW v \in Writer, wpc'[v] = "walk"
               PROVE  /\ wcg[v] \in managed'
                      /\ walk[v] # {} /\ walk[v] \subseteq Subtree(wcg[v])
                      /\ \A y \in walk[v] : Subtree(y) \subseteq walk[v]
                      /\ from[v] # None => from[v] = Nearest(Parent[wcg[v]], managed')
    BY Zenon, <1>1 DEF Walks
  <2>1. v # w /\ wpc[v] = "walk" /\ wpc[v] # "idle"
    BY Zenon, <1>3, <1>7
  <2>2. wcg[v] \in Cgroup /\ wcg[v] # Root /\ x \notin Chain[Parent[wcg[v]]]
    BY Zenon, <1>11, <1>13, <2>1
  <2>3. Nearest(Parent[wcg[v]], managed') = Nearest(Parent[wcg[v]], managed)
    BY Zenon, <1>12, <2>2
  <2>. QED
    BY Zenon, <1>2, <1>5, <2>1, <2>3 DEF Walks
<1>16. Fresh'
  <2>. SUFFICES ASSUME NEW v \in Writer, wpc'[v] = "publish"
               PROVE  /\ wcg[v] \notin managed'
                      /\ eff_parent[wcg[v]] = Nearest(Parent[wcg[v]], managed')
                      /\ nquota_ub[wcg[v]] = Min(Limits(nquota, wcg[v], managed' \cup {wcg[v]}))
    BY Zenon, <1>1 DEF Fresh
  <2>1. v # w /\ wpc[v] = "publish" /\ wpc[v] # "idle"
    BY Zenon, <1>3, <1>7
  <2>2. wcg[v] \in Cgroup /\ wcg[v] # Root /\ x \notin Chain[Parent[wcg[v]]] /\ wcg[v] # x
          /\ x \notin Chain[wcg[v]]
    BY Zenon, <1>11, <1>13, <2>1
  <2>3. Nearest(Parent[wcg[v]], managed') = Nearest(Parent[wcg[v]], managed)
    BY Zenon, <1>12, <2>2
  <2>4. Limits(nquota, wcg[v], managed' \cup {wcg[v]}) = Limits(nquota, wcg[v], managed \cup {wcg[v]})
    <3>1. \A b \in Chain[wcg[v]] : b \in managed' \cup {wcg[v]} <=> b \in managed \cup {wcg[v]}
      BY Zenon, <1>5, <2>2
    <3>. QED
      BY <2>2, <3>1, LimitsWhere
  <2>5. /\ wcg[v] \notin managed /\ eff_parent[wcg[v]] = Nearest(Parent[wcg[v]], managed)
        /\ nquota_ub[wcg[v]] = Min(Limits(nquota, wcg[v], managed \cup {wcg[v]}))
    BY Zenon, <1>2, <2>1 DEF Fresh
  <2>. QED
    BY Zenon, <1>5, <2>2, <2>3, <2>4, <2>5
<1>17. \A v \in Writer \ {w} : \A k \in Cgroup :
          x \in Chain[k] => k \notin Unpointed(v) /\ k \notin Unbounded(v)
  BY Zenon, <1>2, <1>3, <1>5, OpenApart
<1>18. Pointed'
  <2>. SUFFICES ASSUME NEW k \in managed', k # Root
               PROVE  /\ (\A v \in Writer : k \notin Unpointed(v)') => eff_parent[k] = Nearest(Parent[k], managed')
                      /\ \A v \in Writer : k \in Unpointed(v)' =>
                            eff_parent[k] = Nearest(Parent[k], managed' \ {wcg[v]})
    BY Zenon, <1>1 DEF Pointed
  <2>0. k \in Cgroup /\ Parent[k] \in Cgroup
    BY Zenon, <1>6, TreeNodes
  <2>1. CASE k = x
    <3>1. \A v \in Writer : k \notin Unpointed(v)'
      BY Zenon, <1>4, <1>8, <1>10, <1>17, <2>1, ChainSelf
    <3>2. x \notin Chain[Parent[x]]
      BY Zenon, <1>4, NoCycle
    <3>3. Nearest(Parent[x], managed') = Nearest(Parent[x], managed)
      BY Zenon, <1>4, <1>12, <3>2
    <3>. QED
      BY Zenon, <1>4, <2>1, <3>1, <3>3
  <2>2. CASE k # x /\ x \in Chain[k]
    <3>1. k \in managed /\ k \in Unpointed(w)' /\ \A v \in Writer \ {w} : k \notin Unpointed(v)'
      <4>1. k \in managed /\ k \in Subtree(x)
        BY Zenon, <1>5, <2>0, <2>2 DEF Subtree
      <4>. QED
        BY Zenon, <1>8, <1>10, <1>17, <2>0, <2>2, <4>1
    <3>2. \A v \in Writer : k \notin Unpointed(v)
      BY Zenon, <1>9, <1>17, <2>0, <2>2
    <3>3. eff_parent[k] = Nearest(Parent[k], managed)
      BY Zenon, <1>2, <3>1, <3>2 DEF Pointed
    <3>4. \A b : b \in managed' \ {x} <=> b \in managed
      BY Zenon, <1>4, <1>5
    <3>5. managed' \ {x} = managed
      BY <3>4
    <3>. QED
      BY Zenon, <1>5, <3>1, <3>3, <3>5
  <2>3. CASE x \notin Chain[k]
    <3>1. k \in managed /\ k \notin Unpointed(w)' /\ x \notin Chain[Parent[k]]
      <4>1. k # x
        BY Zenon, <2>0, <2>3, ChainSelf
      <4>. QED
        BY Zenon, <1>5, <1>10, <1>13, <2>0, <2>3, <4>1 DEF Subtree
    <3>2. ASSUME \A v \in Writer : k \notin Unpointed(v)'
          PROVE  eff_parent[k] = Nearest(Parent[k], managed')
      <4>1. \A v \in Writer : k \notin Unpointed(v)
        BY Zenon, <1>8, <1>9, <3>2
      <4>2. eff_parent[k] = Nearest(Parent[k], managed)
        BY Zenon, <1>2, <3>1, <4>1 DEF Pointed
      <4>. QED
        BY Zenon, <1>12, <2>0, <3>1, <4>2
    <3>3. ASSUME NEW v \in Writer, k \in Unpointed(v)'
          PROVE  eff_parent[k] = Nearest(Parent[k], managed' \ {wcg[v]})
      <4>1. v # w
        BY Zenon, <3>1, <3>3
      <4>2. k \in Unpointed(v)
        BY Zenon, <1>8, <3>3, <4>1
      <4>3. eff_parent[k] = Nearest(Parent[k], managed \ {wcg[v]})
        BY Zenon, <1>2, <3>1, <4>2 DEF Pointed
      <4>4. wcg[v] # Root
        BY Zenon, <1>2, <4>2, OpenBelow DEF Apart
      <4>5. Root \in managed \ {wcg[v]} /\ Root \in managed' \ {wcg[v]}
        BY Zenon, <1>6, <4>4
      <4>6. \A b \in Chain[Parent[k]] : b \in managed' \ {wcg[v]} <=> b \in managed \ {wcg[v]}
        BY Zenon, <1>5, <3>1
      <4>7. managed \ {wcg[v]} \in SUBSET Cgroup /\ managed' \ {wcg[v]} \in SUBSET Cgroup
        BY Zenon, <1>6
      <4>8. Nearest(Parent[k], managed' \ {wcg[v]}) = Nearest(Parent[k], managed \ {wcg[v]})
        BY SMTT(30), <2>0, <4>5, <4>6, <4>7, NearestSame
      <4>. QED
        BY Zenon, <4>3, <4>8
    <3>. QED
      BY Zenon, <3>2, <3>3
  <2>. QED
    BY Zenon, <2>1, <2>2, <2>3
<1>19. Bounded'
  <2>. SUFFICES ASSUME NEW k \in managed', k # Root, \A v \in Writer : k \notin Unbounded(v)'
               PROVE  nquota_ub[k] = Min(Limits(nquota, k, managed'))
    BY Zenon, <1>1 DEF Bounded
  <2>0. k \in Cgroup
    BY Zenon, <1>6
  <2>1. CASE k = x
    BY Zenon, <1>4, <1>5, <2>1
  <2>2. CASE k # x
    <3>1. x \notin Chain[k]
      BY Zenon, <1>10, <2>0, <2>2 DEF Subtree
    <3>2. \A v \in Writer : k \notin Unbounded(v)
      BY Zenon, <1>8, <1>9
    <3>3. nquota_ub[k] = Min(Limits(nquota, k, managed))
      BY Zenon, <1>2, <1>5, <2>2, <3>2 DEF Bounded
    <3>4. \A b \in Chain[k] : b \in managed' <=> b \in managed
      BY Zenon, <1>5, <3>1
    <3>5. Limits(nquota, k, managed') = Limits(nquota, k, managed)
      BY <2>0, <3>4, LimitsWhere
    <3>. QED
      BY Zenon, <3>3, <3>5
  <2>. QED
    BY Zenon, <2>1, <2>2
<1>. QED
  BY Zenon, <1>14, <1>15, <1>16, <1>18, <1>19

\* The walk starts.  It has still to point and to bound what it had before,
\* and the cgroup itself.
LEMMA BoundBump ==
  ASSUME IInv, BInv, NEW w \in Writer, Bump(w)
  PROVE  BInv'
<1>. SUFFICES ASSUME ~crossed'
             PROVE  (BoundTypes /\ Apart /\ Walks /\ Fresh /\ Pointed /\ Bounded)'
  BY Zenon DEF BInv
<1>1. /\ wpc[w] = "bump" /\ wpc' = [wpc EXCEPT ![w] = "walk"]
      /\ from' = [from EXCEPT ![w] = eff_parent[wcg[w]]] /\ walk' = [walk EXCEPT ![w] = Subtree(wcg[w])]
      /\ managed' = managed /\ eff_parent' = eff_parent /\ nquota' = nquota /\ nquota_ub' = nquota_ub
      /\ wcg' = wcg /\ crossed' = crossed
  BY Zenon DEF Bump
<1>2. BoundTypes /\ Apart /\ Walks /\ Fresh /\ Pointed /\ Bounded
  BY Zenon, <1>1 DEF BInv
<1>3. wpc[w] # "idle" /\ "bump" # "walk" /\ "walk" # "publish" /\ "walk" # "idle"
  BY <1>1
<1> DEFINE x == wcg[w]
<1>4. x \in Cgroup /\ x # Root /\ x \in managed /\ wcg[w] = x
  BY Zenon, <1>1, <1>2, <1>3 DEF IInv, Writing, Apart
<1> HIDE DEF x
<1>5. wpc'[w] = "walk" /\ \A v \in Writer \ {w} : wpc'[v] = wpc[v]
  BY Zenon, <1>1 DEF IInv, Types
<1>6. from'[w] = eff_parent[x] /\ \A v \in Writer \ {w} : from'[v] = from[v]
  BY Zenon, <1>1, <1>2, <1>4 DEF BoundTypes
<1>7. walk'[w] = Subtree(x) /\ \A v \in Writer \ {w} : walk'[v] = walk[v]
  BY Zenon, <1>1, <1>2, <1>4 DEF BoundTypes
<1>8. \A v \in Writer \ {w} : Unpointed(v)' = Unpointed(v) /\ Unbounded(v)' = Unbounded(v)
  BY Zenon, <1>1, <1>5, <1>6, <1>7, OpenSame
<1>9. \A v \in Writer : x \notin Unpointed(v)
  <2>1. \A v \in Writer \ {w} : x \notin Unpointed(v)
    BY Zenon, <1>2, <1>3, <1>4, ChainSelf, OpenApart
  <2>2. x \notin Unpointed(w)
    BY Zenon, <1>2, <1>4, OpenBelow
  <2>. QED
    BY Zenon, <2>1, <2>2
<1>10. eff_parent[x] = Nearest(Parent[x], managed)
  BY Zenon, <1>2, <1>4, <1>9 DEF Pointed
<1>11. eff_parent[x] \in Cgroup /\ eff_parent[x] # None
  <2>1. managed \in SUBSET Cgroup /\ Root \in managed /\ Parent[x] \in Cgroup
    BY Zenon, <1>4, TreeNodes DEF IInv, Types
  <2>2. eff_parent[x] \in managed
    BY Zenon, <1>10, <2>1, NearestRight
  <2>. QED
    BY Zenon, <2>1, <2>2, TreeAssumption
<1>12. Unpointed(w) = Subtree(x) \ {x} /\ Unbounded(w) = Subtree(x) \ {x}
  BY Zenon, <1>1, <1>4 DEF Unpointed, Unbounded
<1>13. Unpointed(w)' = Subtree(x) \ {x} /\ Unbounded(w)' = Subtree(x)
  <2>1. wcg'[w] = x /\ wpc'[w] # "bump" /\ from'[w] # None
    BY Zenon, <1>1, <1>3, <1>4, <1>5, <1>6, <1>11
  <2>. QED
    BY Zenon, <1>5, <1>7, <2>1 DEF Unpointed, Unbounded
<1>14. Subtree(x) \in SUBSET Cgroup /\ x \in Subtree(x) /\ \A y \in Subtree(x) : Subtree(y) \subseteq Subtree(x)
  BY Zenon, <1>4, ChainSelf, ChainTrans DEF Subtree
<1>15. BoundTypes'
  BY Zenon, <1>1, <1>2, <1>4, <1>11, <1>14 DEF BoundTypes
<1>16. Apart'
  BY Zenon, <1>1, <1>2, <1>3, <1>5 DEF Apart
<1>17. Walks'
  <2>. SUFFICES ASSUME NEW v \in Writer, wpc'[v] = "walk"
               PROVE  /\ wcg[v] \in managed
                      /\ walk'[v] # {} /\ walk'[v] \subseteq Subtree(wcg[v])
                      /\ \A y \in walk'[v] : Subtree(y) \subseteq walk'[v]
                      /\ from'[v] # None => from'[v] = Nearest(Parent[wcg[v]], managed)
    BY Zenon, <1>1 DEF Walks
  <2>1. CASE v = w
    BY Zenon, <1>4, <1>6, <1>7, <1>10, <1>14, <2>1
  <2>2. CASE v # w
    BY Zenon, <1>2, <1>5, <1>6, <1>7, <2>2 DEF Walks
  <2>. QED
    BY Zenon, <2>1, <2>2
<1>18. Fresh'
  BY Zenon, <1>1, <1>2, <1>3, <1>5 DEF Fresh
<1>19. Pointed'
  <2>1. \A v \in Writer : Unpointed(v)' = Unpointed(v)
    BY Zenon, <1>8, <1>12, <1>13
  <2>. QED
    BY Zenon, <1>1, <1>2, <2>1 DEF Pointed
<1>20. Bounded'
  <2>1. \A v \in Writer : \A k : k \notin Unbounded(v)' => k \notin Unbounded(v)
    BY Zenon, <1>8, <1>12, <1>13
  <2>. QED
    BY Zenon, <1>1, <1>2, <2>1 DEF Bounded
<1>. QED
  BY Zenon, <1>15, <1>16, <1>17, <1>18, <1>19, <1>20

\* A new limit matters below its cgroup only, which is what the walk visits.
LEMMA BoundSet ==
  ASSUME IInv, BInv, NEW w \in Writer, NEW g \in Cgroup, g # Root, NEW q \in Quota,
         cbw_set_bandwidth(w, g, q)
  PROVE  BInv'
<1>. SUFFICES ASSUME ~crossed'
             PROVE  (BoundTypes /\ Apart /\ Walks /\ Fresh /\ Pointed /\ Bounded)'
  BY Zenon DEF BInv
<1>1. ~crossed => BoundTypes /\ Apart /\ Walks /\ Fresh /\ Pointed /\ Bounded
  BY Zenon DEF BInv
<1>2. /\ Begin(w, g) /\ wpc' = [wpc EXCEPT ![w] = "walk"] /\ wcg' = [wcg EXCEPT ![w] = g]
      /\ wpc[w] = "idle" /\ g \in managed
      /\ nquota' = [nquota EXCEPT ![g] = q]
      /\ from' = [from EXCEPT ![w] = None] /\ walk' = [walk EXCEPT ![w] = Subtree(g)]
      /\ managed' = managed /\ eff_parent' = eff_parent /\ nquota_ub' = nquota_ub
  BY Zenon DEF cbw_set_bandwidth, Begin
<1>3. /\ ~crossed /\ Apart'
      /\ \A v \in Writer \ {w} : wpc[v] # "idle" => wcg[v] \notin Chain[g] /\ g \notin Chain[wcg[v]]
  BY Zenon, <1>1, <1>2, StartApart
<1>4. BoundTypes /\ Apart /\ Walks /\ Fresh /\ Pointed /\ Bounded
  BY Zenon, <1>1, <1>3
<1>5. wpc'[w] = "walk" /\ wcg'[w] = g /\ from'[w] = None /\ walk'[w] = Subtree(g)
  BY Zenon, <1>2, <1>4 DEF IInv, Types, BoundTypes
<1>6. \A v \in Writer \ {w} :
         wpc'[v] = wpc[v] /\ wcg'[v] = wcg[v] /\ from'[v] = from[v] /\ walk'[v] = walk[v]
  BY Zenon, <1>2, <1>4 DEF IInv, Types, BoundTypes
<1>7. \A v \in Writer \ {w} : Unpointed(v)' = Unpointed(v) /\ Unbounded(v)' = Unbounded(v)
  BY Zenon, <1>6, OpenSame
<1>8. Unpointed(w) = {} /\ Unbounded(w) = {}
  BY Zenon, <1>2, NothingOpen
<1>9. "walk" # "bump" /\ "walk" # "publish" /\ "publish" # "idle"
  OBVIOUS
<1>10. Unpointed(w)' = {} /\ Unbounded(w)' = Subtree(g)
  BY Zenon, <1>5, <1>9 DEF Unpointed, Unbounded
<1>11. PICK f : f = nquota'
  BY Zenon
<1>12. q \in Nat /\ f \in [Cgroup -> Nat] /\ \A k \in Cgroup \ {g} : f[k] = nquota[k]
  BY Zenon, <1>2, <1>4, <1>11, QuotaAssumption DEF BoundTypes
<1>13. Subtree(g) \in SUBSET Cgroup /\ g \in Subtree(g) /\ \A y \in Subtree(g) : Subtree(y) \subseteq Subtree(g)
  BY Zenon, ChainSelf, ChainTrans DEF Subtree
<1>14. BoundTypes'
  <2>1. nquota'[Root] = nquota[Root]
    BY Zenon, <1>11, <1>12, TreeNodes
  <2>. QED
    BY Zenon, <1>2, <1>4, <1>11, <1>12, <1>13, <2>1 DEF BoundTypes
<1>15. Walks'
  <2>. SUFFICES ASSUME NEW v \in Writer, wpc'[v] = "walk"
               PROVE  /\ wcg'[v] \in managed
                      /\ walk'[v] # {} /\ walk'[v] \subseteq Subtree(wcg'[v])
                      /\ \A y \in walk'[v] : Subtree(y) \subseteq walk'[v]
                      /\ from'[v] # None => from'[v] = Nearest(Parent[wcg'[v]], managed)
    BY Zenon, <1>2 DEF Walks
  <2>1. CASE v = w
    BY Zenon, <1>2, <1>5, <1>13, <2>1
  <2>2. CASE v # w
    BY Zenon, <1>4, <1>6, <2>2 DEF Walks
  <2>. QED
    BY Zenon, <2>1, <2>2
<1>16. ASSUME NEW k \in Cgroup, g \notin Chain[k], NEW G
       PROVE  Limits(f, k, G) = Limits(nquota, k, G)
  <2>1. \A b \in Chain[k] : b \in G => f[b] = nquota[b]
    BY Zenon, <1>12, <1>16, ChainNodes
  <2>. QED
    BY <2>1, LimitsKept
<1>17. Fresh'
  <2>. SUFFICES ASSUME NEW v \in Writer, wpc'[v] = "publish"
               PROVE  /\ wcg'[v] \notin managed
                      /\ eff_parent[wcg'[v]] = Nearest(Parent[wcg'[v]], managed)
                      /\ nquota_ub[wcg'[v]] = Min(Limits(f, wcg'[v], managed \cup {wcg'[v]}))
    BY Zenon, <1>2, <1>11 DEF Fresh
  <2>1. v # w /\ wpc[v] = "publish" /\ wcg'[v] = wcg[v]
    BY Zenon, <1>5, <1>6, <1>9
  <2>2. wcg[v] \in Cgroup /\ g \notin Chain[wcg[v]]
    BY Zenon, <1>3, <1>9, <2>1 DEF IInv, Writing
  <2>3. Limits(f, wcg[v], managed \cup {wcg[v]}) = Limits(nquota, wcg[v], managed \cup {wcg[v]})
    BY Zenon, <1>16, <2>2
  <2>4. /\ wcg[v] \notin managed /\ eff_parent[wcg[v]] = Nearest(Parent[wcg[v]], managed)
        /\ nquota_ub[wcg[v]] = Min(Limits(nquota, wcg[v], managed \cup {wcg[v]}))
    BY Zenon, <1>4, <2>1 DEF Fresh
  <2>. QED
    BY Zenon, <2>1, <2>3, <2>4
<1>18. Pointed'
  <2>. SUFFICES ASSUME NEW k \in managed \ {Root}
               PROVE  /\ (\A v \in Writer : k \notin Unpointed(v)') => eff_parent[k] = Nearest(Parent[k], managed)
                      /\ \A v \in Writer : k \in Unpointed(v)' =>
                            eff_parent[k] = Nearest(Parent[k], managed \ {wcg'[v]})
    BY Zenon, <1>2 DEF Pointed
  <2>1. \A v \in Writer : Unpointed(v)' = Unpointed(v)
    BY Zenon, <1>7, <1>8, <1>10
  <2>2. \A v \in Writer : k \in Unpointed(v)' => wcg'[v] = wcg[v]
    BY Zenon, <1>6, <1>10
  <2>. QED
    BY Zenon, <1>4, <2>1, <2>2 DEF Pointed
<1>19. Bounded'
  <2>. SUFFICES ASSUME NEW k \in managed \ {Root}, \A v \in Writer : k \notin Unbounded(v)'
               PROVE  nquota_ub[k] = Min(Limits(f, k, managed))
    BY Zenon, <1>2, <1>11 DEF Bounded
  <2>1. k \in Cgroup
    BY Zenon DEF IInv, Types
  <2>2. g \notin Chain[k]
    BY Zenon, <1>10, <2>1 DEF Subtree
  <2>3. \A v \in Writer : k \notin Unbounded(v)
    BY Zenon, <1>7, <1>8
  <2>4. nquota_ub[k] = Min(Limits(nquota, k, managed))
    BY Zenon, <1>4, <2>3 DEF Bounded
  <2>5. Limits(f, k, managed) = Limits(nquota, k, managed)
    BY Zenon, <1>16, <2>1, <2>2
  <2>. QED
    BY Zenon, <2>4, <2>5
<1>. QED
  BY Zenon, <1>3, <1>14, <1>15, <1>17, <1>18, <1>19

\* The walk repoints a managed cgroup to its nearest managed ancestor: to the
\* cgroup written if it pointed to what is above that, and else not at all.
LEMMA VisitPoints ==
  ASSUME IInv, BoundTypes, Apart, Walks, Pointed, NEW w \in Writer, wpc[w] = "walk",
         NEW h \in walk[w], h \in managed, h # Root
  PROVE  EffParentAfter(w, h) = Nearest(Parent[h], managed)
<1>1. wpc[w] # "idle" /\ wpc[w] # "bump"
  OBVIOUS
<1> DEFINE x == wcg[w]
           e == eff_parent[h]
           d == from[w]
<1>2. x \in Cgroup /\ x # Root /\ x \in managed /\ h \in Cgroup /\ x \in Chain[h]
  BY Zenon, <1>1 DEF IInv, Writing, Apart, Walks, Subtree
<1>3. managed \in SUBSET Cgroup /\ Root \in managed /\ Parent[h] \in Cgroup /\ Parent[x] \in Cgroup
  BY Zenon, <1>2, TreeNodes DEF IInv, Types
<1>4. \A v \in Writer \ {w} : h \notin Unpointed(v)
  BY Zenon, <1>1, <1>2, OpenApart
<1>5. Unpointed(w) = IF d # None THEN walk[w] \ {x} ELSE {}
  BY Zenon, <1>1 DEF Unpointed
<1>6. EffParentAfter(w, h) = IF d # None /\ h # x /\ e = d THEN x ELSE e
  BY Zenon DEF EffParentAfter
<1>7. CASE d = None \/ h = x
  <2>1. \A v \in Writer : h \notin Unpointed(v)
    BY Zenon, <1>4, <1>5, <1>7
  <2>2. e = Nearest(Parent[h], managed)
    BY Zenon, <2>1 DEF Pointed
  <2>. QED
    BY Zenon, <1>6, <1>7, <2>2
<1>8. CASE d # None /\ h # x
  <2>1. h \in Unpointed(w)
    BY Zenon, <1>5, <1>8
  <2>2. e = Nearest(Parent[h], managed \ {x}) /\ d = Nearest(Parent[x], managed)
    BY Zenon, <1>8, <2>1 DEF Pointed, Walks
  <2> HIDE DEF x, e, d
  <2>3. /\ e \in Chain[Parent[h]] /\ e \in managed /\ e # x
        /\ \A b \in Chain[Parent[h]] : b \in managed /\ b # x => b \in Chain[e]
    <3>1. managed \ {x} \in SUBSET Cgroup /\ Root \in managed \ {x}
      BY Zenon, <1>2, <1>3
    <3>2. /\ e \in Chain[Parent[h]] /\ e \in managed \ {x}
          /\ \A b \in Chain[Parent[h]] \cap (managed \ {x}) : b \in Chain[e]
      BY Zenon, <1>3, <2>2, <3>1, NearestRight
    <3>. QED
      BY Zenon, <3>2
  <2>4. /\ d \in Chain[Parent[x]] /\ d \in managed
        /\ \A b \in Chain[Parent[x]] \cap managed : b \in Chain[d]
    BY Zenon, <1>3, <2>2, NearestRight
  <2>5. x \in Chain[Parent[h]]
    BY Zenon, <1>2, <1>8, ChainUp
  <2>6. d \in Chain[x] /\ d # x
    BY Zenon, <1>2, <2>4, ChainUp, ChainTrans, NoCycle
  <2>7. CASE e = d
    <3>1. \A b \in Chain[Parent[h]] \cap managed : b \in Chain[x]
      BY Zenon, <1>2, <2>3, <2>6, <2>7, ChainSelf, ChainTrans
    <3>2. x = Nearest(Parent[h], managed)
      BY Zenon, <1>2, <1>3, <2>5, <3>1, NearestOnly
    <3>. QED
      BY Zenon, <1>6, <1>8, <2>7, <3>2
  <2>8. CASE e # d
    <3>1. x \in Chain[e]
      <4>. SUFFICES ASSUME x \notin Chain[e] PROVE FALSE
        BY Zenon
      <4>1. e \in Chain[x]
        BY Zenon, <1>3, <2>3, <2>5, ChainLinear
      <4>2. e \in Chain[Parent[x]]
        BY Zenon, <1>2, <2>3, <4>1, ChainUp
      <4>3. e \in Chain[d]
        BY Zenon, <2>3, <2>4, <4>2
      <4>4. d \in Chain[e]
        <5>1. d \in Chain[Parent[h]]
          BY Zenon, <1>3, <2>5, <2>6, ChainTrans
        <5>. QED
          BY Zenon, <2>3, <2>4, <2>6, <5>1
      <4>5. d \in Cgroup
        BY Zenon, <1>3, <2>4
      <4>. QED
        BY Zenon, <2>8, <4>3, <4>4, <4>5, ChainAnti
    <3>2. \A b \in Chain[Parent[h]] \cap managed : b \in Chain[e]
      BY Zenon, <2>3, <3>1
    <3>3. e = Nearest(Parent[h], managed)
      BY Zenon, <1>3, <2>3, <3>2, NearestOnly
    <3>. QED
      BY Zenon, <1>6, <2>8, <3>3
  <2>. QED
    BY Zenon, <2>7, <2>8
<1>. QED
  BY Zenon, <1>7, <1>8

\* The bounds above the cgroup visited are right already, so that its own is
\* right afterwards.
LEMMA VisitBounds ==
  ASSUME IInv, BoundTypes, Apart, Walks, Bounded, NEW w \in Writer, wpc[w] = "walk",
         NEW h \in walk[w], h \in managed, h # Root, Parent[h] \notin walk[w],
         NEW p, p = Nearest(Parent[h], managed)
  PROVE  /\ p \in managed
         /\ Min({nquota[h], nquota_ub[p]}) = Min(Limits(nquota, h, managed))
<1>1. wpc[w] # "idle" /\ wpc[w] # "bump"
  OBVIOUS
<1>2. managed \in SUBSET Cgroup /\ Root \in managed /\ Parent[h] \in Cgroup /\ h \in Cgroup
        /\ nquota \in [Cgroup -> Nat]
  BY Zenon, TreeNodes DEF IInv, Types, BoundTypes
<1>3. p \in Chain[Parent[h]] /\ p \in managed
  BY Zenon, <1>2, NearestRight
<1>4. p \in Cgroup /\ p \in Chain[h]
  BY Zenon, <1>2, <1>3, ChainUp, ChainTrans
<1>5. p \notin Unbounded(w)
  <2>1. Unbounded(w) = walk[w]
    BY Zenon, <1>1 DEF Unbounded
  <2>2. p \in walk[w] => Parent[h] \in walk[w]
    BY Zenon, <1>2, <1>3 DEF Walks, Subtree
  <2>. QED
    BY Zenon, <2>1, <2>2
<1>6. \A v \in Writer \ {w} : p \notin Unbounded(v)
  <2>1. wcg[w] \in Chain[h]
    BY Zenon DEF Walks, Subtree
  <2>2. wcg[w] \in Chain[p] \/ p \in Chain[wcg[w]]
    BY Zenon, <1>2, <1>4, <2>1, ChainLinear
  <2>. QED
    BY Zenon, <1>1, <1>4, <2>2, OpenApart
<1>7. nquota_ub[p] = Min(Limits(nquota, p, managed))
  BY Zenon, <1>3, <1>5, <1>6, ManagedBound
<1>8. Min({nquota[h], nquota_ub[p]}) = Min(Limits(nquota, h, managed \cup {h}))
  BY <1>2, <1>7, BoundUp
<1>9. managed \cup {h} = managed
  OBVIOUS
<1>. QED
  BY Zenon, <1>3, <1>8, <1>9

\* What is left to the walk after one cgroup: everything but that one.
LEMMA VisitLeaves ==
  ASSUME IInv, BoundTypes, NEW w \in Writer, Visit(w), NEW h, h = First(walk[w])
  PROVE  /\ walk' = [walk EXCEPT ![w] = walk[w] \ {h}]
         /\ \A v \in Writer \ {w} : wpc'[v] = wpc[v] /\ wcg'[v] = wcg[v] /\ from'[v] = from[v]
                                    /\ walk'[v] = walk[v]
         /\ from' \in [Writer -> Cgroup \cup {None}]
         /\ wpc'[w] = "idle" \/ (wpc'[w] = "walk" /\ wcg'[w] = wcg[w] /\ from'[w] = from[w] /\ walk[w] # {h})
         /\ Unpointed(w)' = Unpointed(w) \ {h}
         /\ Unbounded(w)' = Unbounded(w) \ {h}
<1>1. /\ wpc[w] = "walk" /\ walk' = [walk EXCEPT ![w] = walk[w] \ {h}]
      /\ IF walk[w] = {h}
         THEN /\ wpc' = [wpc EXCEPT ![w] = "idle"]
              /\ wcg' = [wcg EXCEPT ![w] = None]
              /\ from' = [from EXCEPT ![w] = None]
         ELSE UNCHANGED <<wpc, wcg, from>>
  BY Zenon DEF Visit
<1>2. wpc \in [Writer -> {"idle", "publish", "bump", "walk"}] /\ wcg \in [Writer -> Cgroup \cup {None}]
        /\ from \in [Writer -> Cgroup \cup {None}] /\ walk \in [Writer -> SUBSET Cgroup]
  BY Zenon DEF IInv, Types, BoundTypes
<1>3. "walk" # "bump" /\ "idle" # "bump" /\ "idle" # "walk"
  OBVIOUS
<1>4. /\ walk'[w] = walk[w] \ {h} /\ \A v \in Writer \ {w} : walk'[v] = walk[v]
      /\ Unbounded(w) = walk[w] /\ Unpointed(w) = IF from[w] # None THEN walk[w] \ {wcg[w]} ELSE {}
  BY Zenon, <1>1, <1>2, <1>3 DEF Unbounded, Unpointed
<1>5. CASE walk[w] = {h}
  <2>1. wpc'[w] = "idle" /\ from' \in [Writer -> Cgroup \cup {None}]
    BY Zenon, <1>1, <1>2, <1>5
  <2>2. \A v \in Writer \ {w} : wpc'[v] = wpc[v] /\ wcg'[v] = wcg[v] /\ from'[v] = from[v]
    BY Zenon, <1>1, <1>2, <1>5
  <2>3. Unpointed(w)' = {} /\ Unbounded(w)' = {}
    BY Zenon, <2>1, NothingOpen
  <2>4. \A k : k \notin Unpointed(w) \ {h} /\ k \notin Unbounded(w) \ {h}
    BY Zenon, <1>4, <1>5
  <2>5. Unpointed(w) \ {h} = {} /\ Unbounded(w) \ {h} = {}
    BY Zenon, <2>4
  <2>. QED
    BY Zenon, <1>1, <1>4, <2>1, <2>2, <2>3, <2>5
<1>6. CASE walk[w] # {h}
  <2>1. wpc' = wpc /\ wcg' = wcg /\ from' = from
    BY Zenon, <1>1, <1>6
  <2>2. Unbounded(w)' = walk[w] \ {h}
    BY Zenon, <1>1, <1>3, <1>4, <2>1 DEF Unbounded
  <2>3. Unpointed(w)' = IF from[w] # None THEN (walk[w] \ {h}) \ {wcg[w]} ELSE {}
    BY Zenon, <1>1, <1>3, <1>4, <2>1 DEF Unpointed
  <2>4. \A k : k \in Unpointed(w)' <=> k \in Unpointed(w) \ {h}
    BY Zenon, <1>4, <2>3
  <2>5. Unpointed(w)' = Unpointed(w) \ {h}
    BY <2>4
  <2>. QED
    BY Zenon, <1>1, <1>2, <1>4, <1>6, <2>1, <2>2, <2>5
<1>. QED
  BY Zenon, <1>5, <1>6

\* A walk visits a cgroup, whose ancestors it has behind it.
LEMMA BoundVisit ==
  ASSUME IInv, BInv, NEW w \in Writer, Visit(w)
  PROVE  BInv'
<1>. SUFFICES ASSUME ~crossed'
             PROVE  (BoundTypes /\ Apart /\ Walks /\ Fresh /\ Pointed /\ Bounded)'
  BY Zenon DEF BInv
<1>1. wpc[w] = "walk" /\ managed' = managed /\ nquota' = nquota /\ crossed' = crossed
  BY Zenon DEF Visit
<1>2. BoundTypes /\ Apart /\ Walks /\ Fresh /\ Pointed /\ Bounded
  BY Zenon, <1>1 DEF BInv
<1>3. wpc[w] # "idle" /\ "idle" # "walk" /\ "idle" # "publish" /\ "walk" # "publish" /\ "publish" # "idle"
  BY <1>1
<1>4. PICK h : h = First(walk[w])
  BY Zenon
<1>5. PICK x : x = wcg[w]
  BY Zenon
<1>6. /\ x \in Cgroup /\ x # Root /\ walk[w] \in SUBSET Cgroup /\ walk[w] # {}
      /\ \A y \in walk[w] : x \in Chain[y] /\ Subtree(y) \subseteq walk[w]
  BY Zenon, <1>1, <1>2, <1>3, <1>5 DEF IInv, Writing, Apart, Walks, BoundTypes, Subtree
<1>7. h \in walk[w] /\ h \in Cgroup /\ h # Root /\ Parent[h] \notin walk[w] /\ Parent[h] \in Cgroup
  <2>1. h \in walk[w] /\ (h # Root => Parent[h] \notin walk[w])
    BY Zenon, <1>4, <1>6, FirstOf
  <2>2. h # Root
    BY Zenon, <1>6, <2>1, ChainRoot
  <2>. QED
    BY Zenon, <1>6, <2>1, <2>2, TreeNodes
<1>8. managed \in SUBSET Cgroup /\ Root \in managed
  BY Zenon DEF IInv, Types
<1>9. PICK p : p = EffParentAfter(w, h)
  BY Zenon
<1>10. IF h \in managed
       THEN /\ eff_parent' = [eff_parent EXCEPT ![h] = p]
            /\ nquota_ub' = [nquota_ub EXCEPT ![h] = Min({nquota[h], nquota_ub[p]})]
       ELSE UNCHANGED <<eff_parent, nquota_ub>>
  BY Zenon, <1>4, <1>9 DEF Visit
<1>11. h \in managed => /\ p = Nearest(Parent[h], managed) /\ p \in managed
                        /\ Min({nquota[h], nquota_ub[p]}) = Min(Limits(nquota, h, managed))
  BY Zenon, <1>1, <1>2, <1>7, <1>9, VisitPoints, VisitBounds
<1>12. \A k \in Cgroup \ {h} : eff_parent'[k] = eff_parent[k] /\ nquota_ub'[k] = nquota_ub[k]
  BY Zenon, <1>2, <1>10 DEF BoundTypes
<1>13. h \in managed => /\ eff_parent'[h] = Nearest(Parent[h], managed)
                        /\ nquota_ub'[h] = Min(Limits(nquota, h, managed))
  BY Zenon, <1>2, <1>7, <1>10, <1>11 DEF BoundTypes
<1>14. /\ walk' = [walk EXCEPT ![w] = walk[w] \ {h}]
       /\ \A v \in Writer \ {w} : wpc'[v] = wpc[v] /\ wcg'[v] = wcg[v] /\ from'[v] = from[v]
                                  /\ walk'[v] = walk[v]
       /\ from' \in [Writer -> Cgroup \cup {None}]
       /\ wpc'[w] = "idle" \/ (wpc'[w] = "walk" /\ wcg'[w] = wcg[w] /\ from'[w] = from[w] /\ walk[w] # {h})
       /\ Unpointed(w)' = Unpointed(w) \ {h}
       /\ Unbounded(w)' = Unbounded(w) \ {h}
  BY Zenon, <1>2, <1>4, VisitLeaves
<1>15. \A v \in Writer \ {w} : /\ Unpointed(v)' = Unpointed(v) /\ Unbounded(v)' = Unbounded(v)
                               /\ h \notin Unpointed(v) /\ h \notin Unbounded(v)
  <2>1. \A v \in Writer \ {w} : Unpointed(v)' = Unpointed(v) /\ Unbounded(v)' = Unbounded(v)
    BY Zenon, <1>14, OpenSame
  <2>2. \A v \in Writer \ {w} : h \notin Unpointed(v) /\ h \notin Unbounded(v)
    BY Zenon, <1>2, <1>3, <1>5, <1>6, <1>7, OpenApart
  <2>. QED
    BY Zenon, <2>1, <2>2
<1>16. \A v \in Writer : wpc'[v] # "idle" => wpc'[v] = wpc[v] /\ wcg'[v] = wcg[v] /\ from'[v] = from[v]
  BY Zenon, <1>1, <1>14
<1>17. BoundTypes'
  <2>1. h \in managed => Min({nquota[h], nquota_ub[p]}) \in Nat
    <3>1. Limits(nquota, h, managed) \in SUBSET Nat /\ Limits(nquota, h, managed) # {}
      BY Zenon, <1>2, <1>7, <1>8, LimitsRight DEF BoundTypes
    <3>. QED
      BY Zenon, <1>11, <3>1, MinRight
  <2>2. eff_parent' \in [Cgroup -> Cgroup \cup {None}] /\ nquota_ub' \in [Cgroup -> Nat]
    BY Zenon, <1>2, <1>8, <1>10, <1>11, <2>1 DEF BoundTypes
  <2>3. nquota_ub'[Root] = nquota_ub[Root]
    BY Zenon, <1>7, <1>12, TreeNodes
  <2>4. walk' \in [Writer -> SUBSET Cgroup]
    BY Zenon, <1>2, <1>6, <1>14 DEF BoundTypes
  <2>. QED
    BY Zenon, <1>1, <1>2, <1>14, <2>2, <2>3, <2>4 DEF BoundTypes
<1>18. Apart'
  BY Zenon, <1>2, <1>16 DEF Apart
<1>19. Walks'
  <2>. SUFFICES ASSUME NEW v \in Writer, wpc'[v] = "walk"
               PROVE  /\ wcg'[v] \in managed
                      /\ walk'[v] # {} /\ walk'[v] \subseteq Subtree(wcg'[v])
                      /\ \A y \in walk'[v] : Subtree(y) \subseteq walk'[v]
                      /\ from'[v] # None => from'[v] = Nearest(Parent[wcg'[v]], managed)
    BY Zenon, <1>1 DEF Walks
  <2>1. /\ wpc[v] = "walk" /\ wcg'[v] = wcg[v] /\ from'[v] = from[v]
    BY Zenon, <1>3, <1>16
  <2>2. /\ wcg[v] \in managed /\ walk[v] # {} /\ walk[v] \subseteq Subtree(wcg[v])
        /\ \A y \in walk[v] : Subtree(y) \subseteq walk[v]
        /\ from[v] # None => from[v] = Nearest(Parent[wcg[v]], managed)
    BY Zenon, <1>2, <2>1 DEF Walks
  <2>3. CASE v # w
    BY Zenon, <1>14, <2>1, <2>2, <2>3
  <2>4. CASE v = w
    <3>1. walk'[v] = walk[v] \ {h} /\ walk[v] # {h} /\ h \in walk[v]
      BY Zenon, <1>2, <1>3, <1>7, <1>14, <2>4 DEF BoundTypes
    <3>2. walk'[v] # {}
      BY Zenon, <3>1
    <3>3. ASSUME NEW y \in walk'[v] PROVE Subtree(y) \subseteq walk'[v]
      <4>1. y \in walk[w] /\ y # h
        BY Zenon, <2>4, <3>1
      <4>2. h \notin Subtree(y)
        <5>. SUFFICES ASSUME y \in Chain[h] PROVE FALSE
          BY Zenon DEF Subtree
        <5>1. y \in Chain[Parent[h]]
          BY Zenon, <1>7, <4>1, ChainUp
        <5>2. Parent[h] \in Subtree(y)
          BY Zenon, <1>7, <5>1 DEF Subtree
        <5>. QED
          BY Zenon, <1>6, <1>7, <4>1, <5>2
      <4>. QED
        BY Zenon, <1>6, <2>4, <3>1, <4>1, <4>2
    <3>. QED
      BY Zenon, <2>1, <2>2, <3>1, <3>2, <3>3
  <2>. QED
    BY Zenon, <2>3, <2>4
<1>20. Fresh'
  <2>. SUFFICES ASSUME NEW v \in Writer, wpc'[v] = "publish"
               PROVE  /\ wcg'[v] \notin managed
                      /\ eff_parent'[wcg'[v]] = Nearest(Parent[wcg'[v]], managed)
                      /\ nquota_ub'[wcg'[v]] = Min(Limits(nquota, wcg'[v], managed \cup {wcg'[v]}))
    BY Zenon, <1>1 DEF Fresh
  <2>1. v # w /\ wpc[v] = "publish" /\ wcg'[v] = wcg[v]
    BY Zenon, <1>3, <1>14
  <2>2. wcg[v] \in Cgroup /\ x \notin Chain[wcg[v]]
    BY Zenon, <1>2, <1>3, <1>5, <2>1 DEF IInv, Writing, Apart
  <2>3. wcg[v] # h
    BY Zenon, <1>6, <1>7, <2>2
  <2>4. eff_parent'[wcg[v]] = eff_parent[wcg[v]] /\ nquota_ub'[wcg[v]] = nquota_ub[wcg[v]]
    BY Zenon, <1>12, <2>2, <2>3
  <2>5. /\ wcg[v] \notin managed /\ eff_parent[wcg[v]] = Nearest(Parent[wcg[v]], managed)
        /\ nquota_ub[wcg[v]] = Min(Limits(nquota, wcg[v], managed \cup {wcg[v]}))
    BY Zenon, <1>2, <2>1 DEF Fresh
  <2>. QED
    BY Zenon, <2>1, <2>4, <2>5
<1>21. \A v \in Writer : h \notin Unpointed(v)' /\ h \notin Unbounded(v)'
  BY Zenon, <1>14, <1>15
<1>22. \A v \in Writer : \A k : k # h => (k \in Unpointed(v)' <=> k \in Unpointed(v))
                                         /\ (k \in Unbounded(v)' <=> k \in Unbounded(v))
  BY Zenon, <1>14, <1>15
<1>23. Pointed'
  <2>. SUFFICES ASSUME NEW k \in managed \ {Root}
               PROVE  /\ (\A v \in Writer : k \notin Unpointed(v)') => eff_parent'[k] = Nearest(Parent[k], managed)
                      /\ \A v \in Writer : k \in Unpointed(v)' =>
                            eff_parent'[k] = Nearest(Parent[k], managed \ {wcg'[v]})
    BY Zenon, <1>1 DEF Pointed
  <2>1. CASE k = h
    BY Zenon, <1>13, <1>21, <2>1
  <2>2. CASE k # h
    <3>1. eff_parent'[k] = eff_parent[k]
      BY Zenon, <1>8, <1>12, <2>2
    <3>2. \A v \in Writer : k \in Unpointed(v)' <=> k \in Unpointed(v)
      BY Zenon, <1>22, <2>2
    <3>3. \A v \in Writer : k \in Unpointed(v)' => wcg'[v] = wcg[v]
      BY Zenon, <1>16, NothingOpen
    <3>. QED
      BY Zenon, <1>2, <3>1, <3>2, <3>3 DEF Pointed
  <2>. QED
    BY Zenon, <2>1, <2>2
<1>24. Bounded'
  <2>. SUFFICES ASSUME NEW k \in managed \ {Root}, \A v \in Writer : k \notin Unbounded(v)'
               PROVE  nquota_ub'[k] = Min(Limits(nquota, k, managed))
    BY Zenon, <1>1 DEF Bounded
  <2>1. CASE k = h
    BY Zenon, <1>13, <2>1
  <2>2. CASE k # h
    BY Zenon, <1>2, <1>8, <1>12, <1>22, <2>2 DEF Bounded
  <2>. QED
    BY Zenon, <2>1, <2>2
<1>. QED
  BY Zenon, <1>17, <1>18, <1>19, <1>20, <1>23, <1>24

\* Every step keeps the invariant about the bounds.
LEMMA BoundInductive ==
  ASSUME IInv, BInv, [Next]_vars
  PROVE  BInv'
<1>1. CASE UNCHANGED vars
  BY Zenon, <1>1, BoundFrame DEF vars
<1>2. ASSUME NEW w \in Writer, NEW g \in Cgroup \ {Root}, NEW q \in Quota,
             cbw_init_cgx(w, g, q) \/ cbw_set_bandwidth(w, g, q)
      PROVE  BInv'
  BY Zenon, <1>2, BoundInit, BoundSet
<1>3. ASSUME NEW w \in Writer, Publish(w) \/ Bump(w) \/ Visit(w)
      PROVE  BInv'
  BY Zenon, <1>3, BoundPublish, BoundBump, BoundVisit
<1>4. ASSUME NEW t \in Task, NEW o, NEW subject \in BOOLEAN, Call(t, o, subject)
      PROVE  BInv'
  BY Zenon, <1>4, BoundFrame DEF Call
<1>5. ASSUME NEW t \in Task, SearchUp(t) \/ SearchFound(t) \/ Consume(t)
      PROVE  BInv'
  BY Zenon, <1>5, BoundFrame DEF SearchUp, SearchFound, Consume
<1>6. ASSUME NEW t \in Task, NEW to \in Cgroup, scx_cgroup_bw_move(t, to)
      PROVE  BInv'
  BY Zenon, <1>6, BoundFrame DEF scx_cgroup_bw_move
<1>. QED
  BY Zenon, <1>1, <1>2, <1>3, <1>4, <1>5, <1>6 DEF Next

\* When no write to cpu.max is under way and none overlapped one to a nested
\* cgroup, each managed cgroup has its nearest managed ancestor as effective
\* parent and the least limit on the way up as its bound (cbw_init_cgx,
\* cbw_set_bandwidth, cbw_update_nquota_ub), in every tree of cgroups and for
\* any number of concurrent writers.
THEOREM ExactBounds == Spec => []BoundsExact
<1>1. IInv /\ BInv => BoundsExact
  <2>. SUFFICES ASSUME BInv, ~crossed, \A w \in Writer : wpc[w] = "idle", NEW g \in managed \ {Root}
               PROVE  /\ eff_parent[g] = Nearest(Parent[g], managed)
                      /\ nquota_ub[g] = Min({nquota[a] : a \in Chain[g] \cap managed})
    BY Zenon DEF BoundsExact
  <2>1. Pointed /\ Bounded
    BY Zenon DEF BInv
  <2>2. \A w \in Writer : g \notin Unpointed(w) /\ g \notin Unbounded(w)
    BY Zenon, NothingOpen
  <2>3. eff_parent[g] = Nearest(Parent[g], managed) /\ nquota_ub[g] = Min(Limits(nquota, g, managed))
    BY Zenon, <2>1, <2>2 DEF Pointed, Bounded
  <2>. QED
    BY Zenon, <2>3 DEF Limits
<1>2. IInv /\ BInv /\ [Next]_vars => BInv'
  BY Zenon, BoundInductive
<1>. QED
  BY <1>1, <1>2, BoundInitially, Invariant, PTL DEF Spec

=============================================================================
