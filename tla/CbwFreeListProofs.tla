------------------------- MODULE CbwFreeListProofs --------------------------
(***************************************************************************)
(* When one CPU allocates at a time, the free list of CbwFreeList never    *)
(* holds an object that is in use, a claim always has an object, and the   *)
(* list implements the pool of CbwPool, for every set of CPUs that free    *)
(* and every list of objects.                                              *)
(*                                                                         *)
(* The argument: only pushes happen between the reads of a pop and its     *)
(* swap, and a push changes the successor of no object on the list.  So a  *)
(* pop whose swap succeeds has read the current successor of the head.     *)
(***************************************************************************)
EXTENDS CbwFreeList, FiniteSetTheorems, TLAPS

\* One CPU allocates at a time.
SinglePopper == \A p, q \in Popper : p = q

TypeOK ==
    /\ head \in Obj \cup {NULL}
    /\ next \in [Obj -> Obj \cup {NULL}]
    /\ count \in Nat
    /\ live \in SUBSET Obj
    /\ pc \in [Proc -> {"idle", "pop_head", "pop_next", "pop_cas", "undo",
                        "push_head", "push_link", "push_cas", "push_count"}]
    /\ old \in [Proc -> Obj \cup {NULL}]
    /\ new \in [Proc -> Obj \cup {NULL}]
    /\ obj \in [Proc -> Obj \cup {NULL}]

\* An object that is being pushed is in use and in the hands of one CPU.
Owners ==
    /\ \A p \in Proc : obj[p] # NULL <=> pc[p] \in {"push_head", "push_link", "push_cas"}
    /\ \A p \in Proc : obj[p] # NULL => obj[p] \in live
    /\ \A p, q \in Proc : obj[p] # NULL /\ obj[p] = obj[q] => p = q
    /\ \A p \in Proc : pc[p] = "push_cas" => next[obj[p]] = old[p]

Claiming == {p \in Proc : pc[p] \in {"pop_head", "pop_next", "pop_cas", "undo"}}

\* The head that a pop has read stays on the list, with the same successor.
Popping ==
    /\ Claiming \subseteq Popper
    /\ \A p \in Proc : pc[p] \in {"pop_next", "pop_cas"} => old[p] \in OnList
    /\ \A p \in Proc : pc[p] = "pop_cas" => new[p] = next[old[p]]

\* The successors on a list that starts at h have lower ranks.
Descends(h, n, rank) == \A o \in ListFrom(h, n) : n[o] # NULL => rank[n[o]] < rank[o]

\* The list ends.
Ranked == \E rank \in [Obj -> Nat] : Descends(head, next, rank)

IInv == TypeOK /\ Owners /\ Popping /\ Ranked /\ OwnedOnce

-----------------------------------------------------------------------------
(* The list *)

Heads == Obj \cup {NULL}
Links == [Obj -> Obj \cup {NULL}]

\* The list is closed, and part of every closed set.
LEMMA Least ==
  ASSUME NEW h \in Heads, NEW n \in Links
  PROVE  /\ ListFrom(h, n) \in SUBSET Obj /\ Closed(h, n, ListFrom(h, n))
         /\ \A S \in SUBSET Obj : Closed(h, n, S) => ListFrom(h, n) \subseteq S
BY Zenon DEF Closed, ListFrom, Heads, Links

\* Changing successors off the list leaves the list as it is.
LEMMA Frame ==
  ASSUME NEW h \in Heads, NEW n \in Links, NEW m \in Links,
         \A o \in ListFrom(h, n) : m[o] = n[o]
  PROVE  ListFrom(h, m) = ListFrom(h, n)
<1> DEFINE L == ListFrom(h, n)
<1>1. L \in SUBSET Obj /\ Closed(h, m, L)
  BY Zenon, Least DEF Closed
<1>2. ListFrom(h, m) \subseteq L
  BY Zenon, <1>1, Least
<1>3. ASSUME NEW S \in SUBSET Obj, Closed(h, m, S) PROVE L \subseteq S
  <2>1. S \cap L \in SUBSET Obj /\ Closed(h, n, S \cap L)
    BY Zenon, <1>3, Least DEF Closed
  <2> QED
    BY Zenon, <2>1, Least
<1>4. L \subseteq ListFrom(h, m)
  BY Zenon, <1>3, Least
<1> QED
  BY Zenon, <1>2, <1>4

\* A list that ends does not come back to its head: going on to the successor
\* of the head takes the head off the list, and nothing else.
LEMMA Popped ==
  ASSUME NEW h \in Obj, NEW n \in Links, NEW rank \in [Obj -> Nat], Descends(h, n, rank)
  PROVE  ListFrom(n[h], n) = ListFrom(h, n) \ {h}
<1> DEFINE L == ListFrom(h, n)
<1>0. h \in Heads /\ n[h] \in Heads /\ h # NULL
  BY Zenon, ListAssumption DEF Heads, Links
<1>1. L \in SUBSET Obj /\ Closed(h, n, L) /\ h \in L
  BY Zenon, <1>0, Least DEF Closed
<1> DEFINE Below == {o \in L : rank[o] <= rank[h]}
<1>2. Below \in SUBSET Obj /\ Closed(h, n, Below)
  <2>1. ASSUME NEW o \in Below, n[o] # NULL PROVE n[o] \in Below
    <3>1. n[o] \in L /\ rank[n[o]] < rank[o]
      BY Zenon, <1>1, <2>1 DEF Closed, Descends
    <3> QED
      BY <1>1, <3>1
  <2> QED
    BY <1>1, <2>1 DEF Closed
<1>3. \A o \in L : rank[o] <= rank[h]
  BY Zenon, <1>0, <1>2, Least
<1>4. ASSUME NEW o \in L, n[o] = h PROVE FALSE
  BY <1>0, <1>1, <1>3, <1>4 DEF Descends
<1>5. ListFrom(n[h], n) \subseteq L \ {h}
  <2>1. L \ {h} \in SUBSET Obj /\ Closed(n[h], n, L \ {h})
    BY Zenon, <1>1, <1>4 DEF Closed
  <2> QED
    BY Zenon, <1>0, <2>1, Least
<1>6. L \ {h} \subseteq ListFrom(n[h], n)
  <2> DEFINE S == ListFrom(n[h], n)
  <2>1. S \in SUBSET Obj /\ Closed(n[h], n, S)
    BY Zenon, <1>0, Least
  <2>2. S \cup {h} \in SUBSET Obj /\ Closed(h, n, S \cup {h})
    BY Zenon, <2>1 DEF Closed
  <2> QED
    BY <1>0, <2>2, Least
<1> QED
  BY Zenon, <1>5, <1>6

\* An object off the list whose successor is the head can become the head.
LEMMA Pushed ==
  ASSUME NEW h \in Heads, NEW n \in Links, NEW o \in Obj, n[o] = h
  PROVE  ListFrom(o, n) = ListFrom(h, n) \cup {o}
<1>0. o \in Heads /\ o # NULL
  BY Zenon, ListAssumption DEF Heads
<1>1. ListFrom(h, n) \cup {o} \in SUBSET Obj /\ Closed(o, n, ListFrom(h, n) \cup {o})
  BY Zenon, Least DEF Closed
<1>2. ListFrom(o, n) \subseteq ListFrom(h, n) \cup {o}
  BY Zenon, <1>0, <1>1, Least
<1>3. Closed(h, n, ListFrom(o, n)) /\ o \in ListFrom(o, n)
  BY Zenon, <1>0, Least DEF Closed
<1>4. ListFrom(h, n) \subseteq ListFrom(o, n)
  BY Zenon, <1>0, <1>3, Least
<1> QED
  BY Zenon, <1>2, <1>3, <1>4

\* The list still ends afterwards.
LEMMA PushedDescends ==
  ASSUME NEW h \in Heads, NEW n \in Links, NEW o \in Obj, n[o] = h, o \notin ListFrom(h, n),
         NEW rank \in [Obj -> Nat], Descends(h, n, rank)
  PROVE  \E r \in [Obj -> Nat] : Descends(o, n, r)
<1> DEFINE r == [rank EXCEPT ![o] = IF h = NULL THEN 0 ELSE rank[h] + 1]
<1>1. r \in [Obj -> Nat]
  BY DEF Heads
<1>2. ASSUME NEW x \in ListFrom(h, n) \cup {o}, n[x] # NULL PROVE r[n[x]] < r[x]
  <2>1. ListFrom(h, n) \in SUBSET Obj /\ Closed(h, n, ListFrom(h, n))
    BY Zenon, Least
  <2>2. CASE x = o
    BY <1>2, <2>1, <2>2 DEF Closed, Heads
  <2>3. CASE x # o
    <3>1. n[x] \in ListFrom(h, n) /\ rank[n[x]] < rank[x]
      BY Zenon, <1>2, <2>1, <2>3 DEF Closed, Descends
    <3> QED
      BY Zenon, <2>1, <2>3, <3>1
  <2> QED
    BY Zenon, <2>2, <2>3
<1> QED
  BY <1>1, <1>2, Pushed DEF Descends

-----------------------------------------------------------------------------
(* The steps *)

\* Every step keeps the types.
LEMMA TypeStep ==
  ASSUME TypeOK, Owners, Popping, NEW p \in Proc, Step(p)
  PROVE  TypeOK'
<1>0. pc[p] \in {"pop_next", "pop_cas"} => old[p] \in Obj
  BY Zenon, Least DEF TypeOK, Popping, OnList, Heads, Links
<1> USE ListAssumption DEF TypeOK
<1>1. ASSUME Claim(p) PROVE TypeOK'
  BY <1>1 DEF Claim, Goto
<1>2. ASSUME PopHead(p) PROVE TypeOK'
  BY Zenon, <1>2 DEF PopHead, Goto
<1>3. ASSUME PopNext(p) PROVE TypeOK'
  BY Zenon, <1>0, <1>3 DEF PopNext, Goto
<1>4. ASSUME PopWins(p) PROVE TypeOK'
  BY Zenon, <1>0, <1>4 DEF PopWins, Return, Goto
<1>5. ASSUME PopLoses(p) PROVE TypeOK'
  BY Zenon, <1>5 DEF PopLoses, Goto
<1>6. ASSUME PopExpires(p) PROVE TypeOK'
  BY Zenon, <1>6 DEF PopExpires, Goto
<1>7. ASSUME Undo(p) PROVE TypeOK'
  BY <1>7 DEF Undo, Goto, Return
<1>8. ASSUME NEW o \in Obj, FreeObj(p, o) PROVE TypeOK'
  BY Zenon, <1>8 DEF FreeObj, Goto
<1>9. ASSUME PushHead(p) PROVE TypeOK'
  BY Zenon, <1>9 DEF PushHead, Goto
<1>10. ASSUME PushLink(p) PROVE TypeOK'
  BY Zenon, <1>10 DEF PushLink, Goto
<1>11. ASSUME PushWins(p) PROVE TypeOK'
  BY Zenon, <1>11 DEF PushWins, Goto
<1>12. ASSUME PushLoses(p) PROVE TypeOK'
  BY Zenon, <1>12 DEF PushLoses, Goto
<1>13. ASSUME PushExpires(p) PROVE TypeOK'
  BY Zenon, <1>13 DEF PushExpires, Goto
<1>14. ASSUME PushCount(p) PROVE TypeOK'
  BY <1>14 DEF PushCount, Goto, Return
<1> QED
  BY Zenon, <1>1, <1>2, <1>3, <1>4, <1>5, <1>6, <1>7, <1>8, <1>9, <1>10, <1>11, <1>12, <1>13, <1>14 DEF Step

\* Every step keeps who owns what.
LEMMA OwnersStep ==
  ASSUME TypeOK, Owners, NEW p \in Proc, Step(p)
  PROVE  Owners'
<1> USE ListAssumption DEF TypeOK, Owners
<1>1. ASSUME Claim(p) PROVE Owners'
  BY Zenon, <1>1 DEF Claim, Goto
<1>2. ASSUME PopHead(p) PROVE Owners'
  BY <1>2 DEF PopHead, Goto
<1>3. ASSUME PopNext(p) PROVE Owners'
  BY <1>3 DEF PopNext, Goto
<1>4. ASSUME PopWins(p) PROVE Owners'
  BY <1>4 DEF PopWins, Goto, Return
<1>5. ASSUME PopLoses(p) PROVE Owners'
  BY <1>5 DEF PopLoses, Goto
<1>6. ASSUME PopExpires(p) PROVE Owners'
  BY <1>6 DEF PopExpires, Goto
<1>7. ASSUME Undo(p) PROVE Owners'
  BY <1>7 DEF Undo, Goto, Return
<1>8. ASSUME NEW o \in Obj, FreeObj(p, o) PROVE Owners'
  BY <1>8 DEF FreeObj, Goto
<1>9. ASSUME PushHead(p) PROVE Owners'
  BY <1>9 DEF PushHead, Goto
<1>10. ASSUME PushLink(p) PROVE Owners'
  BY <1>10 DEF PushLink, Goto
<1>11. ASSUME PushWins(p) PROVE Owners'
  BY <1>11 DEF PushWins, Goto
<1>12. ASSUME PushLoses(p) PROVE Owners'
  BY <1>12 DEF PushLoses, Goto
<1>13. ASSUME PushExpires(p) PROVE Owners'
  BY <1>13 DEF PushExpires, Goto
<1>14. ASSUME PushCount(p) PROVE Owners'
  BY <1>14 DEF PushCount, Goto, Return
<1> QED
  BY Zenon, <1>1, <1>2, <1>3, <1>4, <1>5, <1>6, <1>7, <1>8, <1>9, <1>10, <1>11, <1>12, <1>13, <1>14 DEF Step

\* Steps that leave the list and the objects in use alone.
Quiet(p) ==
    \/ Claim(p) \/ PopHead(p) \/ PopNext(p) \/ PopLoses(p) \/ PopExpires(p) \/ Undo(p)
    \/ PushHead(p) \/ PushLoses(p) \/ PushCount(p)

\* They change neither the links nor who has an object.
LEMMA QuietStep ==
  ASSUME NEW p \in Proc, Quiet(p)
  PROVE  head' = head /\ next' = next /\ live' = live
BY Zenon DEF Quiet, Claim, PopHead, PopNext, PopLoses, PopExpires, Undo, PushHead, PushLoses, PushCount

\* The list still ends when it loses objects or their successors stay.
LEMMA RankedFrame ==
  ASSUME Ranked, ListFrom(head', next') \subseteq OnList,
         \A o \in ListFrom(head', next') : next'[o] = next[o]
  PROVE  Ranked'
BY Zenon DEF Ranked, Descends, OnList

\* A pop that wins its swap takes the head off the list: it read the current
\* successor.
LEMMA PopWinsStep ==
  ASSUME IInv, TypeOK', NEW p \in Proc, PopWins(p)
  PROVE  Pool!Alloc(head) /\ Ranked' /\ old[p] = head /\ head \in Obj
<1>1. head \in OnList /\ head' = next[head] /\ next' = next /\ old[p] = head
  BY Zenon DEF IInv, Popping, PopWins
<1>2. head \in Obj /\ next \in Links
  BY Zenon, <1>1, Least DEF IInv, TypeOK, OnList, Heads, Links
<1>3. PICK rank \in [Obj -> Nat] : Descends(head, next, rank)
  BY Zenon DEF IInv, Ranked
<1>4. ListFrom(head', next') = OnList \ {head}
  BY Zenon, <1>1, <1>2, <1>3, Popped DEF OnList
<1>5. Ranked'
  BY Zenon, <1>1, <1>4, RankedFrame DEF IInv
<1>6. live' = live \cup {head} /\ head \notin live
  BY Zenon, <1>1 DEF IInv, OwnedOnce, PopWins
<1> QED
  BY Zenon, <1>1, <1>2, <1>4, <1>5, <1>6 DEF Pool!Alloc, OnList

\* A push that wins its swap puts its object on the list.
LEMMA PushWinsStep ==
  ASSUME IInv, TypeOK', NEW p \in Proc, PushWins(p)
  PROVE  Pool!Free(obj[p]) /\ Ranked' /\ next' = next
<1>1. obj[p] \in live /\ next[obj[p]] = head /\ head' = obj[p] /\ next' = next
  BY Zenon DEF IInv, Owners, PushWins
<1>2. obj[p] \in Obj /\ obj[p] \notin OnList /\ head \in Heads /\ next \in Links
  BY Zenon, <1>1 DEF IInv, TypeOK, OwnedOnce, Heads, Links
<1>3. PICK rank \in [Obj -> Nat] : Descends(head, next, rank)
  BY Zenon DEF IInv, Ranked
<1>4. ListFrom(head', next') = OnList \cup {obj[p]}
  BY <1>1, <1>2, Pushed DEF OnList
<1>5. \E r \in [Obj -> Nat] : Descends(obj[p], next, r)
  BY Zenon, <1>1, <1>2, <1>3, PushedDescends DEF OnList
<1>6. Ranked'
  BY Zenon, <1>1, <1>5 DEF Ranked
<1> QED
  BY Zenon, <1>1, <1>4, <1>6 DEF Pool!Free, OnList, PushWins

\* A push that gives up loses its object.
LEMMA PushExpiresStep ==
  ASSUME IInv, NEW p \in Proc, PushExpires(p)
  PROVE  Pool!Lose(obj[p]) /\ Ranked' /\ obj[p] \in live /\ next' = next /\ OnList' = OnList
<1>1. obj[p] \in live /\ head' = head /\ next' = next /\ live' = live \ {obj[p]} /\ LoopsExpire
  BY Zenon DEF IInv, Owners, PushExpires
<1>2. OnList' = OnList
  BY Zenon, <1>1 DEF OnList
<1> QED
  BY Zenon, <1>1, <1>2, RankedFrame DEF IInv, Pool!Lose, OnList

\* An object in use may be written: it is not on the list.
LEMMA WriteStep ==
  ASSUME IInv, TypeOK', NEW x \in live, NEW v, next' = [next EXCEPT ![x] = v], head' = head
  PROVE  OnList' = OnList /\ Ranked'
<1>1. x \notin OnList /\ head \in Heads /\ next \in Links /\ next' \in Links
  BY Zenon DEF IInv, TypeOK, OwnedOnce, Heads, Links
<1>2. OnList \in SUBSET Obj
  BY Zenon, <1>1, Least DEF OnList
<1>3. \A o \in OnList : next'[o] = next[o]
  BY Zenon, <1>1, <1>2 DEF Links
<1>4. ListFrom(head', next') = OnList
  BY Zenon, <1>1, <1>3, Frame DEF OnList
<1> QED
  BY Zenon, <1>3, <1>4, RankedFrame DEF IInv, OnList

\* How a step looks from the pool, and that the list still ends.
LEMMA ListStep ==
  ASSUME IInv, TypeOK', NEW p \in Proc, Step(p)
  PROVE  /\ \/ Quiet(p) /\ OnList' = OnList /\ live' = live
            \/ PopWins(p) /\ Pool!Alloc(old[p])
            \/ PushWins(p) /\ Pool!Free(obj[p])
            \/ PushExpires(p) /\ Pool!Lose(obj[p])
            \/ (\E o \in Obj : FreeObj(p, o)) /\ OnList' = OnList /\ live' = live
            \/ PushLink(p) /\ OnList' = OnList /\ live' = live
         /\ Ranked'
<1>1. CASE Quiet(p)
  BY Zenon, <1>1, QuietStep, RankedFrame DEF IInv, OnList
<1>2. CASE PopWins(p)
  BY Zenon, <1>2, PopWinsStep
<1>3. CASE PushWins(p)
  BY Zenon, <1>3, PushWinsStep
<1>4. CASE PushExpires(p)
  BY Zenon, <1>4, PushExpiresStep
<1>5. CASE \E o \in Obj : FreeObj(p, o)
  <2>1. PICK o \in Obj : FreeObj(p, o)
    BY Zenon, <1>5
  <2>2. o \in live /\ next' = [next EXCEPT ![o] = NULL] /\ head' = head /\ live' = live
    BY Zenon, <2>1 DEF FreeObj
  <2> QED
    BY Zenon, <1>5, <2>2, WriteStep
<1>6. CASE PushLink(p)
  <2>1. obj[p] \in live
    BY Zenon, <1>6 DEF IInv, Owners, PushLink
  <2>2. next' = [next EXCEPT ![obj[p]] = old[p]] /\ head' = head /\ live' = live
    BY Zenon, <1>6 DEF PushLink
  <2> QED
    BY Zenon, <1>6, <2>1, <2>2, WriteStep
<1> QED
  BY Zenon, <1>1, <1>2, <1>3, <1>4, <1>5, <1>6 DEF Step, Quiet

\* Nobody else is in the middle of a pop when the only CPU that pops is.
LEMMA PoppingStep ==
  ASSUME IInv, SinglePopper, TypeOK', NEW p \in Proc, Step(p)
  PROVE  Popping'
<1> USE DEF IInv, TypeOK, Popping, Claiming
<1>0. /\ ~PopWins(p) => OnList \subseteq OnList'
      /\ \A o \in OnList : next'[o] = next[o]
  <2>1. OnList \in SUBSET Obj
    BY Zenon, Least DEF OnList, Heads, Links
  <2>2. ~PopWins(p) => OnList \subseteq OnList'
    BY Zenon, ListStep DEF Pool!Free, Pool!Lose
  <2>3. ASSUME NEW o \in Obj, FreeObj(p, o) PROVE \A x \in OnList : next'[x] = next[x]
    BY <2>1, <2>3 DEF FreeObj, OwnedOnce
  <2>4. ASSUME PushLink(p) PROVE \A x \in OnList : next'[x] = next[x]
    BY <2>1, <2>4 DEF PushLink, Owners, OwnedOnce
  <2>5. ASSUME PopWins(p) \/ PushWins(p) \/ PushExpires(p) PROVE next' = next
    BY Zenon, <2>5 DEF PopWins, PushWins, PushExpires
  <2> QED
    BY Zenon, <2>2, <2>3, <2>4, <2>5, ListStep, QuietStep
<1>1. CASE Claim(p)
  BY Zenon, <1>0, <1>1 DEF Claim, Goto, PopWins
<1>2. CASE PopHead(p)
  <2>1. head # NULL => head \in OnList
    BY Zenon, Least DEF OnList, Heads, Links, Closed
  <2> QED
    BY Zenon, <1>0, <1>2, <2>1 DEF PopHead, Goto, PopWins
<1>3. CASE PopNext(p)
  BY Zenon, <1>0, <1>3 DEF PopNext, Goto, PopWins
<1>4. CASE PopWins(p)
  <2>1. \A q \in Proc : q # p => q \notin Claiming
    BY Zenon, <1>4 DEF SinglePopper, PopWins
  <2>2. Claiming' = {}
    BY Zenon, <1>4, <2>1 DEF PopWins, Return, Goto
  <2> QED
    BY Zenon, <2>2
<1>5. CASE PopLoses(p)
  BY Zenon, <1>0, <1>5 DEF PopLoses, Goto, PopWins
<1>6. CASE PopExpires(p)
  BY Zenon, <1>0, <1>6 DEF PopExpires, Goto, PopWins
<1>7. CASE Undo(p)
  BY Zenon, <1>0, <1>7 DEF Undo, Return, Goto, PopWins
<1>8. ASSUME NEW o \in Obj, FreeObj(p, o) PROVE Popping'
  BY <1>0, <1>8 DEF FreeObj, Goto, PopWins
<1>9. CASE PushHead(p)
  BY Zenon, <1>0, <1>9 DEF PushHead, Goto, PopWins
<1>10. CASE PushLink(p)
  BY <1>0, <1>10 DEF PushLink, Goto, PopWins
<1>11. CASE PushWins(p)
  BY Zenon, <1>0, <1>11 DEF PushWins, Goto, PopWins
<1>12. CASE PushLoses(p)
  BY Zenon, <1>0, <1>12 DEF PushLoses, Goto, PopWins
<1>13. CASE PushExpires(p)
  BY Zenon, <1>0, <1>13 DEF PushExpires, Goto, PopWins
<1>14. CASE PushCount(p)
  BY Zenon, <1>0, <1>14 DEF PushCount, Return, Goto, PopWins
<1> QED
  BY <1>1, <1>2, <1>3, <1>4, <1>5, <1>6, <1>7, <1>8, <1>9, <1>10, <1>11, <1>12, <1>13, <1>14
  DEF Step

\* The invariant is inductive.
LEMMA NextInv ==
  ASSUME IInv, SinglePopper, [Next]_vars
  PROVE  IInv'
<1>1. ASSUME NEW p \in Proc, Step(p) PROVE IInv'
  <2>1. TypeOK' /\ Owners'
    BY Zenon, <1>1, TypeStep, OwnersStep DEF IInv
  <2>2. Popping' /\ Ranked'
    BY Zenon, <1>1, <2>1, PoppingStep, ListStep
  <2>3. OwnedOnce'
    BY Zenon, <1>1, <2>1, ListStep DEF IInv, OwnedOnce, Pool!Alloc, Pool!Free, Pool!Lose
  <2> QED
    BY Zenon, <2>1, <2>2, <2>3 DEF IInv
<1>2. ASSUME UNCHANGED vars PROVE IInv'
  BY <1>2, Zenon DEF vars, IInv, TypeOK, Owners, Popping, Claiming, Ranked, Descends, OwnedOnce, OnList
<1> QED
  BY Zenon, <1>1, <1>2 DEF Next

\* It holds at first: all objects are on the list.
LEMMA InitInv ==
  ASSUME Init
  PROVE  IInv /\ OnList = Obj
<1>1. OnList = Obj
  BY Zenon, ListAssumption DEF Init, OnList
<1>2. TypeOK
  <2>1. Cardinality(Obj) \in Nat
    BY Zenon, ListAssumption, FS_CardinalityType
  <2> QED
    BY Zenon, <2>1, ListAssumption DEF Init, TypeOK
<1>3. Ranked
  <2>1. PICK rank \in [Obj -> 0..Cardinality(Obj)] :
           \A o \in Obj : Chain[o] # NULL => rank[Chain[o]] < rank[o]
    BY Zenon, ListAssumption
  <2>2. Cardinality(Obj) \in Nat
    BY Zenon, ListAssumption, FS_CardinalityType
  <2>3. rank \in [Obj -> Nat]
    BY <2>1, <2>2
  <2> QED
    BY Zenon, <1>1, <2>1, <2>3 DEF Ranked, Descends, Init, OnList
<1> QED
  BY Zenon, <1>1, <1>2, <1>3 DEF IInv, Init, Owners, Popping, Claiming, OwnedOnce

-----------------------------------------------------------------------------
(* The counter *)

\* CPUs that have pushed, or lost, an object and not counted it yet.
Counting == {p \in Proc : pc[p] = "push_count"}

\* Every object that is not in use is counted, claimed or about to be counted.
CountExact ==
    count + Cardinality(Claiming) + Cardinality(Counting) = Cardinality(Obj \ live)

FullInv == IInv /\ CountExact

\* The sizes of a finite set with one element more or less.
LEMMA OneMore ==
  ASSUME NEW S, IsFiniteSet(S), NEW x
  PROVE  /\ Cardinality(S) \in Nat
         /\ x \notin S => Cardinality(S \cup {x}) = Cardinality(S) + 1
         /\ x \in S => Cardinality(S \ {x}) = Cardinality(S) - 1
BY Zenon, FS_CardinalityType, FS_AddElement, FS_RemoveElement

\* Every step keeps the count exact.
LEMMA CountStep ==
  ASSUME FullInv, TypeOK', NEW p \in Proc, Step(p)
  PROVE  CountExact'
<1> DEFINE Unused == Obj \ live
           C == Cardinality(Claiming)
           K == Cardinality(Counting)
           U == Cardinality(Unused)
<1>1. IsFiniteSet(Claiming) /\ IsFiniteSet(Counting) /\ IsFiniteSet(Unused)
  BY Zenon, ListAssumption, FS_Subset DEF Claiming, Counting
<1>2. count \in Nat /\ count' \in Nat /\ C \in Nat /\ K \in Nat /\ U \in Nat
  BY Zenon, <1>1, FS_CardinalityType DEF FullInv, IInv, TypeOK
<1>3. count + C + K = U
  BY Zenon DEF FullInv, CountExact
<1>4. SUFFICES (count + C + K = U)'
  BY Zenon DEF CountExact
<1> HIDE DEF Unused, C, K, U
<1>5. CASE Claim(p)
  <2>1. p \notin Claiming /\ Claiming' = Claiming \cup {p} /\ Counting' = Counting
    BY <1>5 DEF FullInv, IInv, TypeOK, Claiming, Counting, Claim, Goto
  <2>2. count' = count - 1 /\ Unused' = Unused
    BY Zenon, <1>5 DEF Claim, Unused
  <2>3. C' = C + 1 /\ K' = K /\ U' = U
    BY <1>1, <2>1, <2>2, OneMore, Zenon DEF C, K, U
  <2> QED
    BY <1>2, <1>3, <2>2, <2>3
<1>6. CASE Undo(p)
  <2>1. p \in Claiming /\ Claiming' = Claiming \ {p} /\ Counting' = Counting
    BY Zenon, <1>6 DEF FullInv, IInv, TypeOK, Claiming, Counting, Undo, Return, Goto
  <2>2. count' = count + 1 /\ Unused' = Unused
    BY Zenon, <1>6 DEF Undo, Unused
  <2>3. C' = C - 1 /\ K' = K /\ U' = U
    BY <1>1, <2>1, <2>2, OneMore, Zenon DEF C, K, U
  <2> QED
    BY <1>2, <1>3, <2>2, <2>3
<1>7. CASE PushCount(p)
  <2>1. p \in Counting /\ Claiming' = Claiming /\ Counting' = Counting \ {p}
    BY Zenon, <1>7 DEF FullInv, IInv, TypeOK, Claiming, Counting, PushCount, Return, Goto
  <2>2. count' = count + 1 /\ Unused' = Unused
    BY Zenon, <1>7 DEF PushCount, Unused
  <2>3. C' = C /\ K' = K - 1 /\ U' = U
    BY <1>1, <2>1, <2>2, OneMore, Zenon DEF C, K, U
  <2> QED
    BY <1>2, <1>3, <2>2, <2>3
<1>8. CASE PopWins(p)
  <2>1. p \in Claiming /\ Claiming' = Claiming \ {p} /\ Counting' = Counting
    BY Zenon, <1>8 DEF FullInv, IInv, TypeOK, Claiming, Counting, PopWins, Return, Goto
  <2>2. count' = count /\ head \in Unused /\ Unused' = Unused \ {head}
    <3>1. Pool!Alloc(head) /\ head \in Obj
      BY <1>8, PopWinsStep DEF FullInv
    <3> QED
      BY Zenon, <1>8, <3>1 DEF PopWins, Pool!Alloc, Unused
  <2>3. C' = C - 1 /\ K' = K /\ U' = U - 1
    BY <1>1, <2>1, <2>2, OneMore, Zenon DEF C, K, U
  <2> QED
    BY <1>2, <1>3, <2>2, <2>3
<1>9. CASE PushWins(p) \/ PushExpires(p)
  <2>1. p \notin Counting /\ Claiming' = Claiming /\ Counting' = Counting \cup {p}
    BY <1>9 DEF FullInv, IInv, TypeOK, Claiming, Counting, PushWins, PushExpires, Goto
  <2>2. count' = count /\ obj[p] \notin Unused /\ Unused' = Unused \cup {obj[p]}
    BY <1>9 DEF FullInv, IInv, TypeOK, Owners, PushWins, PushExpires, Unused
  <2>3. C' = C /\ K' = K + 1 /\ U' = U + 1
    BY <1>1, <2>1, <2>2, OneMore, Zenon DEF C, K, U
  <2> QED
    BY <1>2, <1>3, <2>2, <2>3
<1>10. ASSUME \/ PopHead(p) \/ PopNext(p) \/ PopLoses(p) \/ PopExpires(p)
              \/ (\E o \in Obj : FreeObj(p, o)) \/ PushHead(p) \/ PushLink(p) \/ PushLoses(p)
       PROVE  (count + C + K = U)'
  <2>1. Claiming' = Claiming /\ Counting' = Counting
    BY <1>10
    DEF FullInv, IInv, TypeOK, Claiming, Counting, PopHead, PopNext, PopLoses, PopExpires,
        FreeObj, PushHead, PushLink, PushLoses, Goto
  <2>2. count' = count /\ Unused' = Unused
    BY Zenon, <1>10
    DEF PopHead, PopNext, PopLoses, PopExpires, FreeObj, PushHead, PushLink, PushLoses, Unused
  <2>3. C' = C /\ K' = K /\ U' = U
    BY <2>1, <2>2, Zenon DEF C, K, U
  <2> QED
    BY Zenon, <1>3, <2>2, <2>3
<1> QED
  BY Zenon, <1>5, <1>6, <1>7, <1>8, <1>9, <1>10 DEF Step

-----------------------------------------------------------------------------
(* The theorems *)

\* The strengthened invariant of the free list (cbw_freelist_pop,
\* cbw_freelist_push and the counter) holds when one CPU allocates at a time.
THEOREM Invariant ==
  ASSUME SinglePopper
  PROVE  Spec => []FullInv
<1>1. ASSUME Init PROVE FullInv
  <2>1. Claiming = {} /\ Counting = {} /\ count = Cardinality(Obj) /\ Obj \ live = Obj
    BY Zenon, <1>1 DEF Init, Claiming, Counting
  <2>2. Cardinality(Obj) \in Nat /\ Cardinality({}) = 0
    BY Zenon, ListAssumption, FS_CardinalityType, FS_EmptySet
  <2> QED
    BY <1>1, <2>1, <2>2, InitInv DEF FullInv, CountExact
<1>2. ASSUME FullInv, [Next]_vars PROVE FullInv'
  <2>1. IInv'
    BY Zenon, <1>2, NextInv DEF FullInv
  <2>2. ASSUME NEW p \in Proc, Step(p) PROVE CountExact'
    BY Zenon, <1>2, <2>1, <2>2, CountStep DEF IInv
  <2>3. ASSUME UNCHANGED vars PROVE CountExact'
    BY <1>2, <2>3, Zenon DEF vars, FullInv, CountExact, Claiming, Counting
  <2> QED
    BY Zenon, <1>2, <2>1, <2>2, <2>3 DEF FullInv, Next
<1> QED
  BY <1>1, <1>2, PTL DEF Spec

\* No object in use is on the free list: no allocation hands it out again.
THEOREM Owned ==
  ASSUME SinglePopper
  PROVE  Spec => []OwnedOnce
<1>1. FullInv => OwnedOnce
  BY Zenon DEF FullInv, IInv
<1> QED
  BY <1>1, Invariant, PTL

\* "A successful decrement always has a real object to pop": the counter and
\* the claims under way do not exceed the objects on the list or lost.
THEOREM Claims ==
  ASSUME SinglePopper
  PROVE  Spec => []ClaimFindsObject
<1>1. ASSUME FullInv PROVE ClaimFindsObject
  <2>1. OnList \in SUBSET Obj /\ live \in SUBSET Obj /\ live \cap OnList = {}
    BY Zenon, <1>1, Least DEF FullInv, IInv, TypeOK, OwnedOnce, OnList, Heads, Links
  <2>2. OnList \cup Dropped = Obj \ live /\ OnList \cap Dropped = {}
    BY Zenon, <2>1 DEF Dropped
  <2>3. IsFiniteSet(OnList) /\ IsFiniteSet(Dropped) /\ IsFiniteSet(Counting)
        /\ IsFiniteSet(Claiming)
    BY Zenon, <2>1, ListAssumption, FS_Subset DEF Dropped, Counting, Claiming
  <2>4. Cardinality(Obj \ live) = Cardinality(OnList) + Cardinality(Dropped)
    <3>1. Cardinality(OnList \cup Dropped)
             = Cardinality(OnList) + Cardinality(Dropped) - Cardinality({})
      BY <2>2, <2>3, FS_Union
    <3>2. Cardinality({}) = 0
      BY Zenon, FS_EmptySet
    <3>3. Cardinality(OnList) \in Nat /\ Cardinality(Dropped) \in Nat
      BY Zenon, <2>3, FS_CardinalityType
    <3>4. Cardinality(Obj \ live) = Cardinality(OnList \cup Dropped)
      BY <2>2, Zenon
    <3> QED
      BY <3>1, <3>2, <3>3, <3>4
  <2>5. /\ Cardinality(OnList) \in Nat /\ Cardinality(Dropped) \in Nat
        /\ Cardinality(Counting) \in Nat /\ Cardinality(Claiming) \in Nat /\ count \in Nat
    BY Zenon, <1>1, <2>3, FS_CardinalityType DEF FullInv, IInv, TypeOK
  <2>6. count + Cardinality(Claiming) + Cardinality(Counting) = Cardinality(Obj \ live)
    BY Zenon, <1>1 DEF FullInv, CountExact
  <2>7. count + Cardinality(Claiming) <= Cardinality(OnList) + Cardinality(Dropped)
    BY <2>4, <2>5, <2>6
  <2> QED
    BY Zenon, <2>7 DEF ClaimFindsObject, Claiming
<1> QED
  BY <1>1, Invariant, PTL

\* The free list implements the pool: a pop that wins its swap allocates an
\* object nobody has, a push gives one back or, when its loop ends early,
\* loses it, and no other step changes the pool.
THEOREM Implements ==
  ASSUME SinglePopper
  PROVE  Spec => PoolSpec
<1>1. Init => Pool!Init
  BY Zenon, InitInv DEF Init, Pool!Init
<1>2. ASSUME FullInv, [Next]_vars
      PROVE  [Pool!Next]_<<OnList, live>>
  <2>1. ASSUME NEW p \in Proc, Step(p) PROVE [Pool!Next]_<<OnList, live>>
    <3>0. IInv
      BY Zenon, <1>2 DEF FullInv
    <3>1. TypeOK'
      BY Zenon, <3>0, <2>1, TypeStep DEF IInv
    <3>2. CASE PopWins(p)
      BY Zenon, <3>0, <3>1, <3>2, PopWinsStep DEF Pool!Next
    <3>3. CASE PushWins(p) \/ PushExpires(p)
      <4>1. obj[p] \in Obj
        BY Zenon, <3>0, <3>3 DEF IInv, TypeOK, Owners, PushWins, PushExpires
      <4> QED
        BY Zenon, <3>0, <3>1, <3>3, <4>1, PushWinsStep, PushExpiresStep DEF Pool!Next
    <3> QED
      BY Zenon, <3>0, <2>1, <3>1, <3>2, <3>3, ListStep
  <2>2. ASSUME UNCHANGED vars PROVE UNCHANGED <<OnList, live>>
    BY Zenon, <2>2 DEF vars, OnList
  <2> QED
    BY Zenon, <1>2, <2>1, <2>2 DEF Next
<1> QED
  BY <1>1, <1>2, Invariant, PTL DEF Spec, PoolSpec, Pool!Spec

=============================================================================
