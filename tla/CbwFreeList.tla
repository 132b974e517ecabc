---------------------------- MODULE CbwFreeList ----------------------------
(***************************************************************************)
(* The Treiber-stack free lists of lib/cgroup_bw.bpf.c (cbw_freelist_pop,  *)
(* cbw_freelist_push) with the object counters that guard them             *)
(* (cbw_claim_free): one list, the CPUs that allocate from it and the CPUs *)
(* that free to it.  Every shared read and every compare-and-swap is a     *)
(* step.                                                                   *)
(*                                                                         *)
(* The counter is advanced after the push and taken down before the pop,   *)
(* so that a claim finds an object.  That leaves the pop itself: it reads  *)
(* the head, then the successor stored in the head object, then swaps.     *)
(***************************************************************************)
EXTENDS Naturals, FiniteSets

CONSTANTS
    Proc,       \* CPUs
    Popper,     \* the CPUs that may allocate at the same time
    Obj,        \* objects of the list
    Chain,      \* Chain[o]: the successor of o on the initial list, or NULL
    First,      \* the initial head
    LoopsExpire,\* can_loop may end a retry loop before its swap succeeds
    NULL

\* A set that has the head h and, with an object, its successor by n.
Closed(h, n, S) ==
    /\ h # NULL => h \in S
    /\ \A o \in S : n[o] # NULL => n[o] \in S

\* The objects reachable from h: the least closed set.
ListFrom(h, n) == {o \in Obj : \A S \in SUBSET Obj : Closed(h, n, S) => o \in S}

\* The initial list has all objects and ends.
ASSUME ListAssumption ==
    /\ IsFiniteSet(Proc) /\ IsFiniteSet(Obj)
    /\ Popper \subseteq Proc
    /\ NULL \notin Obj
    /\ First \in Obj \cup {NULL}
    /\ Chain \in [Obj -> Obj \cup {NULL}]
    /\ ListFrom(First, Chain) = Obj
    /\ \E rank \in [Obj -> 0..Cardinality(Obj)] :
          \A o \in Obj : Chain[o] # NULL => rank[Chain[o]] < rank[o]
    /\ LoopsExpire \in BOOLEAN

VARIABLES
    head,       \* cbw_cgx_free_head
    next,       \* free_next of each object
    count,      \* cbw_nr_free_cgx
    live,       \* the objects handed out and not back on the list
    pc,         \* where each CPU is
    old,        \* its old_head
    new,        \* its new_head
    obj         \* the object it pushes

vars == <<head, next, count, live, pc, old, new, obj>>

Init ==
    /\ head = First
    /\ next = Chain
    /\ count = Cardinality(Obj)
    /\ live = {}
    /\ pc = [p \in Proc |-> "idle"]
    /\ old = [p \in Proc |-> NULL]
    /\ new = [p \in Proc |-> NULL]
    /\ obj = [p \in Proc |-> NULL]

Goto(p, l) == pc' = [pc EXCEPT ![p] = l]

\* The end of an operation: the locals are gone.
Return(p) ==
    /\ Goto(p, "idle")
    /\ old' = [old EXCEPT ![p] = NULL]
    /\ new' = [new EXCEPT ![p] = NULL]
    /\ obj' = [obj EXCEPT ![p] = NULL]

-----------------------------------------------------------------------------
(* cbw_alloc_cgx_atomic: claim, then pop *)

\* Mutant: the pop is not preceded by a claim.
ClaimNone(p) ==
    /\ pc[p] = "idle"
    /\ p \in Popper
    /\ Goto(p, "pop_head")
    /\ UNCHANGED <<head, next, count, live, old, new, obj>>

\* cbw_claim_free(counter, 0): f > 0, then f - 1.  An unsuccessful claim makes
\* the allocation return NULL and changes nothing.
Claim(p) ==
    /\ pc[p] = "idle"
    /\ p \in Popper
    /\ count > 0
    /\ count' = count - 1
    /\ Goto(p, "pop_head")
    /\ UNCHANGED <<head, next, live, old, new, obj>>

PopHead(p) ==
    /\ pc[p] = "pop_head"
    /\ old' = [old EXCEPT ![p] = head]
    /\ Goto(p, IF head = NULL THEN "undo" ELSE "pop_next")
    /\ UNCHANGED <<head, next, count, live, new, obj>>

PopNext(p) ==
    /\ pc[p] = "pop_next"
    /\ new' = [new EXCEPT ![p] = next[old[p]]]
    /\ Goto(p, "pop_cas")
    /\ UNCHANGED <<head, next, count, live, old, obj>>

PopWins(p) ==
    /\ pc[p] = "pop_cas"
    /\ head = old[p]
    /\ head' = new[p]
    /\ live' = live \cup {old[p]}
    /\ Return(p)
    /\ UNCHANGED <<next, count>>

PopLoses(p) ==
    /\ pc[p] = "pop_cas"
    /\ head # old[p]
    /\ Goto(p, "pop_head")
    /\ UNCHANGED <<head, next, count, live, old, new, obj>>

\* can_loop is false: the loop ends and the pop returns NULL.
PopExpires(p) ==
    /\ pc[p] = "pop_next"
    /\ LoopsExpire
    /\ Goto(p, "undo")
    /\ UNCHANGED <<head, next, count, live, old, new, obj>>

\* "Claimed a slot but the pop lost a CAS race; undo and bail."
Undo(p) ==
    /\ pc[p] = "undo"
    /\ count' = count + 1
    /\ Return(p)
    /\ UNCHANGED <<head, next, live>>

-----------------------------------------------------------------------------
(* cbw_free_cgx: zero the object, push it, count it *)

\* The context of a cgroup that exits, or of one that lost the race to install
\* its context.  Its free_next is zeroed with the rest of it.
FreeObj(p, o) ==
    /\ pc[p] = "idle"
    /\ o \in live
    /\ \A q \in Proc : obj[q] # o
    /\ obj' = [obj EXCEPT ![p] = o]
    /\ next' = [next EXCEPT ![o] = NULL]
    /\ Goto(p, "push_head")
    /\ UNCHANGED <<head, count, live, old, new>>

PushHead(p) ==
    /\ pc[p] = "push_head"
    /\ old' = [old EXCEPT ![p] = head]
    /\ Goto(p, "push_link")
    /\ UNCHANGED <<head, next, count, live, new, obj>>

PushLink(p) ==
    /\ pc[p] = "push_link"
    /\ next' = [next EXCEPT ![obj[p]] = old[p]]
    /\ Goto(p, "push_cas")
    /\ UNCHANGED <<head, count, live, old, new, obj>>

\* Mutant: the head is stored without comparing.
PushStore(p) ==
    /\ pc[p] = "push_cas"
    /\ head' = obj[p]
    /\ live' = live \ {obj[p]}
    /\ obj' = [obj EXCEPT ![p] = NULL]
    /\ Goto(p, "push_count")
    /\ UNCHANGED <<next, count, old, new>>

PushWins(p) ==
    /\ pc[p] = "push_cas"
    /\ head = old[p]
    /\ head' = obj[p]
    /\ live' = live \ {obj[p]}
    /\ obj' = [obj EXCEPT ![p] = NULL]
    /\ Goto(p, "push_count")
    /\ UNCHANGED <<next, count, old, new>>

PushLoses(p) ==
    /\ pc[p] = "push_cas"
    /\ head # old[p]
    /\ Goto(p, "push_head")
    /\ UNCHANGED <<head, next, count, live, old, new, obj>>

\* can_loop is false after a lost swap: the object is on no list, but counted.
PushExpires(p) ==
    /\ pc[p] = "push_cas"
    /\ LoopsExpire
    /\ head # old[p]
    /\ live' = live \ {obj[p]}
    /\ obj' = [obj EXCEPT ![p] = NULL]
    /\ Goto(p, "push_count")
    /\ UNCHANGED <<head, next, count, old, new>>

PushCount(p) ==
    /\ pc[p] = "push_count"
    /\ count' = count + 1
    /\ Return(p)
    /\ UNCHANGED <<head, next, live>>

Step(p) ==
    \/ Claim(p) \/ PopHead(p) \/ PopNext(p) \/ PopWins(p) \/ PopLoses(p)
    \/ PopExpires(p) \/ Undo(p)
    \/ \E o \in Obj : FreeObj(p, o)
    \/ PushHead(p) \/ PushLink(p) \/ PushWins(p) \/ PushLoses(p)
    \/ PushExpires(p) \/ PushCount(p)

Next == \E p \in Proc : Step(p)

Spec == Init /\ [][Next]_vars

-----------------------------------------------------------------------------
(* Properties *)

\* The objects on the list.
OnList == ListFrom(head, next)

\* No cgroup's context is on the list: the next pop would hand it out twice.
OwnedOnce == live \cap OnList = {}

\* "The counter then never exceeds the list length, so a successful decrement
\* always has a real object to pop": the counter and the claims that did not pop
\* yet exceed the list only by objects whose push ran out of retries.
Dropped == Obj \ (live \cup OnList)
ClaimFindsObject ==
    count + Cardinality({p \in Proc : pc[p] \in {"pop_head", "pop_next", "pop_cas", "undo"}})
        <= Cardinality(OnList) + Cardinality(Dropped)

\* The list implements the pool: each pop that wins its swap takes an object of
\* the pool, each push that wins puts one back, no other step does
\* either; an object is lost only when a push runs out of retries.
Pool == INSTANCE CbwPool WITH free <- OnList, live <- live, MayLose <- LoopsExpire
PoolSpec == Pool!Spec
=============================================================================
