----------------------------- MODULE CbwManage -----------------------------
(***************************************************************************)
(* Who has a bandwidth context (lib/cgroup_bw.bpf.c): the concurrent runs  *)
(* of scx_cgroup_bw_init, scx_cgroup_bw_exit and, when a cgroup gains a    *)
(* finite cpu.max, scx_cgroup_bw_set -> cbw_manage_cgroup, with the        *)
(* reserve of context sets that lets the last one run where it cannot      *)
(* allocate (bw_set_sleepable = false).                                    *)
(*                                                                         *)
(* Contexts are counted, not named: that a pop returns an object nobody    *)
(* has is CbwPool's promise.  The root, whose context is never given back, *)
(* and the cgroups too deep or outside its subtree, for which every        *)
(* handler returns at once, are left out.                                  *)
(***************************************************************************)
EXTENDS Integers, FiniteSets

CONSTANTS
    Proc,           \* CPUs that run the handlers
    Cgrp,           \* cgroups below the root
    NrLlc,          \* TOPO_NR(LLC)
    NrCgrpMax,      \* nr_cgrp_max
    MaxInits,       \* bound: how many cgroups are ever created
    None            \* no cgroup

ASSUME CbwManageConstants ==
    /\ NrLlc \in Nat \ {0}
    /\ NrCgrpMax \in Nat
    /\ MaxInits \in Nat
    /\ None \notin Cgrp
    /\ IsFiniteSet(Proc) /\ IsFiniteSet(Cgrp)

VARIABLES
    pending,    \* cbw_nr_pending_reservations
    free,       \* cbw_nr_free_cgx and cbw_nr_free_llcx
    nrCgx,      \* cbw_nr_cgx
    managed,    \* the cgroups that cbw_cgrp_map maps
    llcs,       \* llcs[g]: the LLCs for which cbw_cgrp_llc_map maps g
    life,       \* where the kernel is with each cgroup
    inits,      \* how many cgroups were created
    op,         \* the handler each CPU runs
    pc,         \* and where it is in it
    cg,         \* the cgroup it runs for
    i,          \* 0: the cgx is being claimed; l: LLC l
    f,          \* the supply that cbw_claim_free read
    raced,      \* history: two writes to one cgroup's cpu.max overlapped
    starved,    \* history: a write found no context in the reserve
    stale       \* history: an init claimed though the floor it had read was too low

global == <<pending, free, nrCgx, managed, llcs, life, inits>>
vars == <<pending, free, nrCgx, managed, llcs, life, inits, op, pc, cg, i, f,
          raced, starved, stale>>

LLC == 1..NrLlc
Kind == {"cgx", "llcx"}
Label == {"idle", "spare", "slot", "take", "raced", "supply", "floor", "cas", "fresh",
          "llc", "exists", "publish", "unreserve", "nomem", "release", "count", "recycle",
          "uncount", "delete", "yield"}

TypeOK ==
    /\ pending \in Int
    /\ free \in [Kind -> Nat]
    /\ nrCgx \in 0..NrCgrpMax + Cardinality(Proc)
    /\ managed \subseteq Cgrp
    /\ llcs \in [Cgrp -> SUBSET LLC]
    /\ life \in [Cgrp -> {"none", "init", "live", "exit"}]
    /\ inits \in 0..MaxInits
    /\ op \in [Proc -> {"none", "init", "set", "exit"}]
    /\ pc \in [Proc -> Label]
    /\ cg \in [Proc -> Cgrp \cup {None}]
    /\ i \in [Proc -> 0..NrLlc + 1]
    /\ f \in [Proc -> Nat]
    /\ raced \in BOOLEAN
    /\ starved \in BOOLEAN
    /\ stale \in BOOLEAN

Init ==
    /\ pending = 0
    /\ free = [k \in Kind |-> 0]
    /\ nrCgx = 0
    /\ managed = {}
    /\ llcs = [g \in Cgrp |-> {}]
    /\ life = [g \in Cgrp |-> "none"]
    /\ inits = 0
    /\ op = [p \in Proc |-> "none"]
    /\ pc = [p \in Proc |-> "idle"]
    /\ cg = [p \in Proc |-> None]
    /\ i = [p \in Proc |-> 0]
    /\ f = [p \in Proc |-> 0]
    /\ raced = FALSE
    /\ starved = FALSE
    /\ stale = FALSE

-----------------------------------------------------------------------------
At(p, l) == pc[p] = l
Goto(p, l) == pc' = [pc EXCEPT ![p] = l] /\ UNCHANGED <<op, cg, i, f>>
GotoFor(p, l, n) ==
    /\ pc' = [pc EXCEPT ![p] = l]
    /\ i' = [i EXCEPT ![p] = n]
    /\ f' = [f EXCEPT ![p] = 0]
    /\ UNCHANGED <<op, cg>>

Begin(p, o, g, l) ==
    /\ At(p, "idle")
    /\ op' = [op EXCEPT ![p] = o]
    /\ cg' = [cg EXCEPT ![p] = g]
    /\ pc' = [pc EXCEPT ![p] = l]
    /\ UNCHANGED <<i, f>>

Return(p) ==
    /\ op' = [op EXCEPT ![p] = "none"]
    /\ cg' = [cg EXCEPT ![p] = None]
    /\ pc' = [pc EXCEPT ![p] = "idle"]
    /\ i' = [i EXCEPT ![p] = 0]
    /\ f' = [f EXCEPT ![p] = 0]

Becomes(g, l) == life' = [life EXCEPT ![g] = l]
Add(k, n) == free' = [free EXCEPT ![k] = @ + n]

\* When the kernel calls which handler.  A cpu.max write needs a cgroup whose
\* init returned, and its exit waits for the writes in progress.  Handlers of
\* different cgroups run concurrently, whatever the kernel's cgroup_mutex does.
NobodyOn(g) == \A q \in Proc : cg[q] # g

-----------------------------------------------------------------------------
(* scx_cgroup_bw_init *)

\* Reserve, then build the spare (unlimited) or the context (limited).
InitUnlimited(p, g) ==
    /\ life[g] = "none" /\ inits < MaxInits
    /\ Becomes(g, "init")
    /\ inits' = inits + 1
    /\ pending' = pending + 1
    /\ Begin(p, "init", g, "spare")
    /\ UNCHANGED <<free, nrCgx, managed, llcs>>

InitLimited(p, g) ==
    /\ life[g] = "none" /\ inits < MaxInits
    /\ Becomes(g, "init")
    /\ inits' = inits + 1
    /\ pending' = pending + 1
    /\ Begin(p, "init", g, "slot")
    /\ UNCHANGED <<free, nrCgx, managed, llcs>>

\* cbw_build_spare: the cgx, then one llcx per LLC, each pushed as it is built.
\* A failure there calls scx_bpf_error, which ejects the scheduler.
BuildSpare(p) ==
    /\ At(p, "spare")
    /\ Add(IF i[p] = 0 THEN "cgx" ELSE "llcx", 1)
    /\ IF i[p] = NrLlc THEN Return(p) /\ Becomes(cg[p], "live")
       ELSE GotoFor(p, "spare", i[p] + 1) /\ UNCHANGED life
    /\ UNCHANGED <<pending, nrCgx, managed, llcs, inits>>

-----------------------------------------------------------------------------
(* scx_cgroup_bw_set on an unmanaged cgroup: cbw_manage_cgroup *)

SetLimit(p, g) ==
    /\ life[g] = "live"
    /\ g \notin managed
    /\ Begin(p, "set", g, "slot")
    /\ UNCHANGED global

-----------------------------------------------------------------------------
(* Building a context, for init and set alike *)

SlotCheck(p) ==
    /\ At(p, "slot")
    /\ CASE nrCgx < NrCgrpMax -> Goto(p, "take")
         [] op[p] = "init"     -> Goto(p, "unreserve")
         [] OTHER              -> Return(p)
    /\ UNCHANGED global

SlotTake(p) ==
    /\ At(p, "take")
    /\ nrCgx' = nrCgx + 1
    /\ Goto(p, IF nrCgx < NrCgrpMax THEN "supply" ELSE "raced")
    /\ UNCHANGED <<pending, free, managed, llcs, life, inits>>

\* "Raced past the limit after the fast-path check; give the slot back."
SlotRaced(p) ==
    /\ At(p, "raced")
    /\ nrCgx' = nrCgx - 1
    /\ IF op[p] = "init" THEN Goto(p, "unreserve") ELSE Return(p)
    /\ UNCHANGED <<pending, free, managed, llcs, life, inits>>

KindOf(p) == IF i[p] = 0 THEN "cgx" ELSE "llcx"

\* cbw_claim_free: the supply, then the floor, then the swap.
ReadSupply(p) ==
    /\ At(p, "supply")
    /\ f' = [f EXCEPT ![p] = free[KindOf(p)]]
    /\ pc' = [pc EXCEPT ![p] = "floor"]
    /\ UNCHANGED <<global, op, cg, i>>

\* Mutant: init may take what is reserved.
FloorNone(p) == 0

\* The reserve is out of bounds for init (the sleepable allocators) and there
\* for set (the atomic ones).
Floor(p) ==
    IF op[p] = "set" \/ pending < 0 THEN 0
    ELSE pending * (IF i[p] = 0 THEN 1 ELSE NrLlc)

ReadFloor(p) ==
    /\ At(p, "floor")
    /\ Goto(p, CASE f[p] > Floor(p) -> "cas"
                 [] op[p] = "init"  -> "fresh"
                 [] OTHER           -> "nomem")
    /\ UNCHANGED global

\* Where a cgx or an llcx in hand leads.
Claimed(p) == IF i[p] = 0 THEN GotoFor(p, "supply", 1) ELSE Goto(p, "llc")

\* Mutant: the supply is taken down without comparing.
ClaimSub(p) ==
    /\ At(p, "cas")
    /\ Add(KindOf(p), -1)
    /\ Claimed(p)
    /\ UNCHANGED <<pending, nrCgx, managed, llcs, life, inits>>

ClaimCas(p) ==
    /\ At(p, "cas")
    /\ IF free[KindOf(p)] = f[p]
       THEN Add(KindOf(p), -1) /\ Claimed(p)
       ELSE Goto(p, "supply") /\ UNCHANGED free
    /\ UNCHANGED <<pending, nrCgx, managed, llcs, life, inits>>

Fresh(p) ==
    /\ At(p, "fresh")
    /\ Claimed(p) \/ Goto(p, "nomem")
    /\ UNCHANGED global

\* bpf_map_update_elem(&cbw_cgrp_llc_map, ..., BPF_NOEXIST)
PublishLlc(p) ==
    /\ At(p, "llc")
    /\ i[p] \notin llcs[cg[p]]
    /\ llcs' = [llcs EXCEPT ![cg[p]] = @ \cup {i[p]}]
    /\ IF i[p] = NrLlc THEN Goto(p, "publish") ELSE GotoFor(p, "supply", i[p] + 1)
    /\ UNCHANGED <<pending, free, nrCgx, managed, life, inits>>

LlcExists(p) ==
    /\ At(p, "llc")
    /\ i[p] \in llcs[cg[p]]
    /\ Add("llcx", 1)
    /\ Goto(p, "exists")
    /\ UNCHANGED <<pending, nrCgx, managed, llcs, life, inits>>

\* -EEXIST: the concurrent materialize of the same cgroup owns it.
Lost(p) ==
    /\ At(p, "exists")
    /\ Add("cgx", 1)
    /\ Goto(p, "yield")
    /\ UNCHANGED <<pending, nrCgx, managed, llcs, life, inits>>

\* Mutant: the loser keeps its slot.
YieldSlot(p) ==
    /\ At(p, "yield")
    /\ Becomes(cg[p], "live")
    /\ Return(p)
    /\ UNCHANGED <<pending, free, nrCgx, managed, llcs, inits>>

Yield(p) ==
    /\ At(p, "yield")
    /\ nrCgx' = nrCgx - 1
    /\ Becomes(cg[p], "live")
    /\ Return(p)
    /\ UNCHANGED <<pending, free, managed, llcs, inits>>

Publish(p) ==
    /\ At(p, "publish")
    /\ managed' = managed \cup {cg[p]}
    /\ Goto(p, "unreserve")
    /\ UNCHANGED <<pending, free, nrCgx, llcs, life, inits>>

\* Mutant: the reservation outlives the context's publication.
UnreserveInitOnly(p) ==
    /\ At(p, "unreserve")
    /\ pending' = IF op[p] = "init" THEN pending - 1 ELSE pending
    /\ IF op[p] = "init" /\ cg[p] \notin managed THEN Becomes(cg[p], "none")
       ELSE Becomes(cg[p], "live")
    /\ Return(p)
    /\ UNCHANGED <<free, nrCgx, managed, llcs, inits>>

\* The end of init and of a materialize.  A failed init leaves no cgroup.
Unreserve(p) ==
    /\ At(p, "unreserve")
    /\ pending' = pending - 1
    /\ IF op[p] = "init" /\ cg[p] \notin managed THEN Becomes(cg[p], "none")
       ELSE Becomes(cg[p], "live")
    /\ Return(p)
    /\ UNCHANGED <<free, nrCgx, managed, llcs, inits>>

\* -ENOMEM: without a cgx there is only the slot to give back, otherwise
\* cbw_deinit_cgx takes the LLC contexts down first.
NoMemory(p) ==
    /\ At(p, "nomem")
    /\ IF i[p] = 0 THEN Goto(p, "uncount") ELSE GotoFor(p, "release", 1)
    /\ UNCHANGED global

-----------------------------------------------------------------------------
(* scx_cgroup_bw_exit *)

\* No context: the reservation is released.
ExitUnmanaged(p, g) ==
    /\ At(p, "idle")
    /\ life[g] = "live" /\ NobodyOn(g)
    /\ g \notin managed
    /\ pending' = pending - 1
    /\ Becomes(g, "none")
    /\ UNCHANGED <<free, nrCgx, managed, llcs, inits, op, pc, cg, i, f>>

ExitManaged(p, g) ==
    /\ life[g] = "live" /\ NobodyOn(g)
    /\ g \in managed
    /\ Becomes(g, "exit")
    /\ Begin(p, "exit", g, "delete")
    /\ UNCHANGED <<pending, free, nrCgx, managed, llcs, inits>>

\* Mutant: the LLC contexts go before the context that leads to them.
DeleteLate(p) ==
    /\ At(p, "delete")
    /\ IF i[p] < NrLlc
       THEN /\ llcs' = [llcs EXCEPT ![cg[p]] = @ \ {i[p] + 1}]
            /\ GotoFor(p, "delete", i[p] + 1)
            /\ UNCHANGED <<managed, free>>
       ELSE /\ managed' = managed \ {cg[p]}
            /\ Add("cgx", 1)
            /\ Goto(p, "uncount")
            /\ UNCHANGED llcs
    /\ UNCHANGED <<pending, nrCgx, life, inits>>

\* cbw_del_cgroup_ctx: unpublish, then recycle; and cbw_nr_cgx.
Delete(p) ==
    /\ At(p, "delete")
    /\ managed' = managed \ {cg[p]}
    /\ Goto(p, "recycle")
    /\ UNCHANGED <<pending, free, nrCgx, llcs, life, inits>>

\* cbw_free_cgx, of the exiting cgroup or of the one that was not completed.
Recycle(p) ==
    /\ At(p, "recycle")
    /\ Add("cgx", 1)
    /\ Goto(p, "uncount")
    /\ UNCHANGED <<pending, nrCgx, managed, llcs, life, inits>>

\* cbw_nr_cgx--.  The exit goes on with the LLC contexts; a set returns; an
\* init that failed gives its reservation back too.
Uncount(p) ==
    /\ At(p, "uncount")
    /\ nrCgx' = nrCgx - 1
    /\ CASE op[p] = "exit" -> GotoFor(p, "release", 1)
         [] op[p] = "set"  -> Return(p)
         [] OTHER          -> Goto(p, "unreserve")
    /\ UNCHANGED <<pending, free, managed, llcs, life, inits>>

-----------------------------------------------------------------------------
(* cbw_free_llc_ctx: for each LLC, delete the map entry and, if this CPU did,
   drain the BTQ (CbwTask) and recycle the llcx. *)

LlcsDone(p) ==
    IF op[p] = "exit" THEN Return(p) /\ Becomes(cg[p], "none")
    ELSE Goto(p, "recycle") /\ UNCHANGED life

NextLlc(p) ==
    IF i[p] = NrLlc THEN LlcsDone(p)
    ELSE GotoFor(p, "release", i[p] + 1) /\ UNCHANGED life

ReleaseLlc(p) ==
    /\ At(p, "release")
    /\ i[p] \in llcs[cg[p]]
    /\ llcs' = [llcs EXCEPT ![cg[p]] = @ \ {i[p]}]
    /\ Goto(p, "count")
    /\ UNCHANGED <<pending, free, nrCgx, managed, life, inits>>

ReleaseNone(p) ==
    /\ At(p, "release")
    /\ i[p] \notin llcs[cg[p]]
    /\ NextLlc(p)
    /\ UNCHANGED <<pending, free, nrCgx, managed, llcs, inits>>

CountLlc(p) ==
    /\ At(p, "count")
    /\ Add("llcx", 1)
    /\ NextLlc(p)
    /\ UNCHANGED <<pending, nrCgx, managed, llcs, inits>>

Step(p) ==
    \/ BuildSpare(p) \/ SlotCheck(p) \/ SlotTake(p) \/ SlotRaced(p)
    \/ ReadSupply(p) \/ ReadFloor(p) \/ ClaimCas(p) \/ Fresh(p)
    \/ PublishLlc(p) \/ LlcExists(p) \/ Lost(p) \/ Yield(p) \/ Publish(p) \/ Unreserve(p)
    \/ NoMemory(p) \/ Delete(p) \/ Recycle(p) \/ Uncount(p)
    \/ ReleaseLlc(p) \/ ReleaseNone(p) \/ CountLlc(p)

Call(p, g) ==
    \/ InitUnlimited(p, g) \/ InitLimited(p, g) \/ SetLimit(p, g)
    \/ ExitUnmanaged(p, g) \/ ExitManaged(p, g)

Starving(p) == op[p] = "set" /\ At(p, "nomem")
Racing(p, q) == p # q /\ cg[p] = cg[q] /\ op[p] = "set" /\ op[q] = "set"

\* An init whose swap succeeds although the supply is not above the floor by now.
ClaimsStale(p) ==
    /\ op[p] = "init" /\ At(p, "cas") /\ ~At(p, "cas")'
    /\ free[KindOf(p)] = f[p] /\ f[p] <= Floor(p)

History ==
    /\ raced' = (raced \/ \E p, q \in Proc : Racing(p, q)')
    /\ starved' = (starved \/ \E p \in Proc : Starving(p)')
    /\ stale' = (stale \/ \E p \in Proc : ClaimsStale(p))

Next ==
    \/ \E p \in Proc : Step(p) /\ History
    \/ \E p \in Proc, g \in Cgrp : Call(p, g) /\ History

Spec == Init /\ [][Next]_vars

-----------------------------------------------------------------------------
(* Properties *)

\* "cbw_nr_pending_reservations always equals the number of such live cgroups
\* that have no context": a reservation is held from the start of init until
\* the context is published, and released exactly once, as long as the reserve
\* sufficed.
Reserving ==
    {g \in Cgrp : \/ life[g] = "init"
                  \/ life[g] = "live" /\ g \notin managed
                  \/ \E p \in Proc : cg[p] = g /\ op[p] = "set" /\ At(p, "unreserve")}
ReservationsExact == ~starved => pending = Cardinality(Reserving)

\* "To guarantee it always finds a ready context set": a cgroup that took a
\* reservation never fails to get its context from the reserve, as long as no
\* two writes drew on one reservation at once and no init's swap succeeded on a
\* supply that had come back to the value it read while the floor rose.
MaterializeNeverStarves == starved => raced \/ stale

\* "any cgroup found through the map can hold tasks": it has all its LLC contexts,
\* and a cgroup that is neither mapped nor being worked on has none left behind,
\* whoever lost the race to build them, as long as the reserve sufficed.
MappedIsComplete ==
    ~starved =>
        \A g \in Cgrp : /\ g \in managed => llcs[g] = LLC
                        /\ g \notin managed /\ NobodyOn(g) => llcs[g] = {}

\* cbw_nr_cgx counts the mapped contexts and those being built or torn down, so
\* a slot is neither leaked by a failed build nor given back twice, as long as
\* the reserve sufficed.
HasSlot(p) ==
    \/ pc[p] \in {"raced", "supply", "floor", "cas", "fresh", "llc", "exists", "yield",
                  "publish", "nomem", "recycle", "uncount"}
    \/ pc[p] \in {"release", "count"} /\ op[p] # "exit"
SlotsExact ==
    ~starved => nrCgx = Cardinality(managed) + Cardinality({p \in Proc : HasSlot(p)})
=============================================================================
