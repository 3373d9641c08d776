----------------------------- MODULE KobjProofs -----------------------------
(***************************************************************************)
(* The semaphores, mutexes and queues of kernel/kobj.c under the blocking  *)
(* calls of kernel/kobj_sched.c, proved for any number of tasks, any       *)
(* limits and any number of creations and deletions: no grant is lost,     *)
(* nobody is left in a list, and what the callers were told is what the    *)
(* object says.  And its timers: no deadline is slept through.             *)
(***************************************************************************)
EXTENDS KobjInv, FiniteSetTheorems, SequenceTheorems, WellFoundedInduction, TLAPS

(* What the proofs need of the constants. *)
LEMMA Constants ==
    /\ Tasks \subseteq Nat /\ IsFiniteSet(Tasks) /\ NoPid \notin Tasks /\ NoPid = -1
    /\ SemMax \in Nat \ {0} /\ QLen \in Nat \ {0} /\ MaxDepth \in Nat /\ MaxInc \in Nat
    /\ HandleGens \in Nat \ {0} /\ SlotGens \in Nat \ {0} /\ HandleGens < SlotGens
    /\ \A t \in Tasks : Waits[t] \subseteq {"poll", "timed", "late", "forever"}
BY KobjAssumption DEF NoPid

(* Every set of numbers that is not empty has a least. *)
LEMMA Least ==
    ASSUME NEW S \in SUBSET Nat, S # {}
    PROVE  \E m \in S : \A n \in S : m <= n
<1> DEFINE R == OpToRel(<, Nat)
<1>1. IsWellFoundedOn(R, Nat)
    BY NatLessThanWellFounded
<1>2. \A m, n \in Nat : <<n, m>> \in R <=> n < m
    BY DEF OpToRel
<1> HIDE DEF R
<1>3. PICK m \in S : \A n \in S : ~(<<n, m>> \in R)
    BY <1>1, WFMin
<1>4. S \subseteq Nat
    OBVIOUS
<1>5. \A n \in S : ~(n < m)
    BY ONLY <1>2, <1>3, <1>4, Zenon
<1> QED
    BY <1>5

-----------------------------------------------------------------------------
(* Lists.                                                                  *)

(* wl_push() puts a waiter at the end. *)
LEMMA PushFacts ==
    ASSUME NEW q \in Seq(Tasks), NEW t \in Tasks
    PROVE  /\ Append(q, t) \in Seq(Tasks) /\ Append(q, t) # <<>>
           /\ \A u : In(Append(q, t), u) <=> In(q, u) \/ u = t
           /\ Distinct(q) /\ ~In(q, t) => Distinct(Append(q, t))
<1> DEFINE r == Append(q, t)
<1>1. /\ r \in Seq(Tasks) /\ Len(r) = Len(q) + 1 /\ Len(q) \in Nat
      /\ r[Len(q) + 1] = t /\ \A i \in 1..Len(q) : r[i] = q[i]
    BY AppendProperties
<1> HIDE DEF r
<1>2. \A i \in 1..Len(r) : i \in 1..Len(q) \/ i = Len(q) + 1
    BY <1>1
<1>3. \A u : In(r, u) <=> In(q, u) \/ u = t
  <2>1. \A i \in 1..Len(q) : i \in 1..Len(r)
    BY <1>1
  <2>2. Len(q) + 1 \in 1..Len(r)
    BY <1>1
  <2> QED
    BY <1>1, <1>2, <2>1, <2>2 DEF In
<1>4. Distinct(q) /\ ~In(q, t) => Distinct(r)
    BY <1>1, <1>2 DEF Distinct, In
<1>5. r # <<>>
    BY <1>1, EmptySeq
<1> QED
    BY <1>1, <1>3, <1>4, <1>5 DEF r

(* wl_pop() takes the first. *)
LEMMA PopFacts ==
    ASSUME NEW q \in Seq(Tasks), q # <<>>
    PROVE  /\ Head(q) \in Tasks /\ In(q, Head(q)) /\ Tail(q) \in Seq(Tasks)
           /\ \A u : In(q, u) => In(Tail(q), u) \/ u = Head(q)
           /\ \A u : In(Tail(q), u) => In(q, u)
           /\ Distinct(q) => Distinct(Tail(q)) /\ ~In(Tail(q), Head(q))
<1> DEFINE r == Tail(q)
           h == Head(q)
<1>1. /\ r \in Seq(Tasks) /\ Len(r) = Len(q) - 1 /\ Len(q) \in Nat \ {0} /\ h = q[1] /\ h \in Tasks
      /\ \A i \in 1..Len(r) : r[i] = q[i + 1] /\ i + 1 \in 1..Len(q)
    BY HeadTailProperties
<1> HIDE DEF r, h
<1>2. \A i \in 1..Len(q) : i = 1 \/ (i - 1 \in 1..Len(r) /\ r[i - 1] = q[i])
  <2> TAKE i \in 1..Len(q)
  <2>1. i # 1 => i - 1 \in 1..Len(r) /\ (i - 1) + 1 = i
    BY <1>1
  <2> QED
    BY <1>1, <2>1
<1>3. In(q, h)
    BY <1>1 DEF In
<1>4. \A u : In(q, u) => In(r, u) \/ u = h
    BY <1>1, <1>2 DEF In
<1>5. \A u : In(r, u) => In(q, u)
    BY <1>1 DEF In
<1>6. ASSUME Distinct(q) PROVE Distinct(r) /\ ~In(r, h)
  <2>1. ~In(r, h)
    <3> SUFFICES ASSUME NEW i \in 1..Len(r), r[i] = h PROVE FALSE
        BY DEF In
    <3>1. q[i + 1] = q[1] /\ i + 1 \in 1..Len(q) /\ 1 \in 1..Len(q)
        BY <1>1
    <3> QED
        BY <1>1, <1>6, <3>1 DEF Distinct
  <2>2. Distinct(r)
    BY <1>1, <1>6 DEF Distinct
  <2> QED
    BY <2>1, <2>2
<1> QED
    BY <1>1, <1>3, <1>4, <1>5, <1>6 DEF r, h

(* wl_remove() takes one out. *)
LEMMA RemoveFacts ==
    ASSUME NEW q \in Seq(Tasks), Distinct(q), NEW t
    PROVE  /\ wl_remove(q, t) \in Seq(Tasks) /\ Distinct(wl_remove(q, t))
           /\ \A u : In(wl_remove(q, t), u) <=> In(q, u) /\ u # t
           /\ q = <<>> => wl_remove(q, t) = <<>>
<1> DEFINE r == wl_remove(q, t)
           I == {i \in 1..Len(q) : q[i] = t}
           k == SelectInSeq(q, LAMBDA v : v = t)
<1>1. CASE ~\E i \in 1..Len(q) : q[i] = t
  <2>1. r = q
    BY <1>1 DEF RemoveFirst, wl_remove
  <2> QED
    BY <1>1, <2>1 DEF In
<1>2. CASE \E i \in 1..Len(q) : q[i] = t
  <2>1. k = IF I # {} THEN Min(I) ELSE 0
    BY DEF SelectInSeq
  <2>2. I # {} /\ I \in SUBSET Nat
    BY <1>2
  <2>3. k \in I
    BY <2>1, <2>2, Least DEF Min
  <2>4. r = SubSeq(q, 1, k - 1) \o SubSeq(q, k + 1, Len(q))
    BY <1>2 DEF RemoveFirst, RemoveAt, wl_remove
  <2> HIDE DEF k, r
  <2>5. k \in 1..Len(q) /\ q[k] = t /\ Len(q) \in Nat
    BY <2>3
  <2> DEFINE a == SubSeq(q, 1, k - 1)
             b == SubSeq(q, k + 1, Len(q))
  <2>6. /\ a \in Seq(Tasks) /\ b \in Seq(Tasks) /\ Len(a) = k - 1 /\ Len(b) = Len(q) - k
        /\ \A j \in 1..(k - 1) : a[j] = q[j]
        /\ \A j \in 1..(Len(q) - k) : b[j] = q[j + k]
    BY <2>5
  <2>7. r = a \o b
    BY <2>4
  <2> HIDE DEF a, b
  <2>8. /\ a \o b \in Seq(Tasks) /\ Len(a \o b) = Len(a) + Len(b)
        /\ \A j \in 1..(Len(a) + Len(b)) : (a \o b)[j] = IF j <= Len(a) THEN a[j] ELSE b[j - Len(a)]
    BY <2>6, ConcatProperties
  <2>9. r \in Seq(Tasks) /\ Len(r) = Len(q) - 1
    BY <2>5, <2>6, <2>7, <2>8
  <2>10. \A j \in 1..Len(r) : r[j] = IF j < k THEN q[j] ELSE q[j + 1]
    <3> TAKE j \in 1..Len(r)
    <3>1. CASE j < k
        BY <2>5, <2>6, <2>7, <2>8, <2>9, <3>1
    <3>2. CASE ~(j < k)
      <4>1. j - (k - 1) \in 1..(Len(q) - k) /\ (j - (k - 1)) + k = j + 1 /\ ~(j <= Len(a)) /\ j \in 1..(Len(a) + Len(b))
        BY <2>5, <2>6, <2>9, <3>2
      <4> QED
        BY <2>6, <2>7, <2>8, <3>2, <4>1
    <3> QED
        BY <3>1, <3>2
  <2>11. Distinct(r)
    BY <2>5, <2>9, <2>10 DEF Distinct
  <2>12. ASSUME NEW u PROVE In(r, u) <=> In(q, u) /\ u # t
    <3>1. ASSUME In(r, u) PROVE In(q, u) /\ u # t
        BY <2>5, <2>9, <2>10, <3>1 DEF In, Distinct
    <3>2. ASSUME In(q, u), u # t PROVE In(r, u)
      <4>1. PICK i \in 1..Len(q) : q[i] = u
        BY <3>2 DEF In
      <4>2. CASE i < k
        <5>1. i \in 1..Len(r) /\ r[i] = u
            BY <2>5, <2>9, <2>10, <4>1, <4>2
        <5> QED
            BY <5>1 DEF In
      <4>3. CASE i > k
        <5>1. i - 1 \in 1..Len(r) /\ ~(i - 1 < k) /\ (i - 1) + 1 = i
            BY <2>5, <2>9, <4>3
        <5>2. r[i - 1] = u
            BY <2>10, <4>1, <5>1
        <5> QED
            BY <5>1, <5>2 DEF In
      <4> QED
        BY <2>5, <3>2, <4>1, <4>2, <4>3
    <3> QED
        BY <3>1, <3>2
  <2>13. q # <<>>
    BY <2>5, EmptySeq
  <2> QED
    BY <2>9, <2>11, <2>12, <2>13 DEF r
<1> QED
    BY <1>1, <1>2

-----------------------------------------------------------------------------
(* Handles.                                                                *)
LEMMA ModFacts ==
    ASSUME NEW m \in Nat \ {0}
    PROVE  /\ \A x \in 0..(m - 1) : x % m = x
           /\ m % m = 0
           /\ \A x \in Nat : x % m \in 0..(m - 1)
<1>1. \A x \in 0..(m - 1) : x % m = x
    OBVIOUS
<1>2. m % m = 0
    OBVIOUS
<1>3. \A x \in Nat : x % m \in 0..(m - 1)
    OBVIOUS
<1> QED
    BY <1>1, <1>2, <1>3

(* LOOKUP() finds the object a handle was issued for, or nothing. *)
LEMMA HandleFacts ==
    ASSUME core \in CoreStates, core.inc <= HandleGens, NEW k \in 0..core.inc, Resolves(core, k)
    PROVE  k = core.inc /\ core.inc < HandleGens /\ core.used = TRUE /\ Resolves(core, core.inc)
<1>1. /\ core.inc \in Nat /\ core.used \in BOOLEAN /\ HandleGens \in Nat \ {0} /\ SlotGens \in Nat \ {0} /\ HandleGens < SlotGens
    BY Constants DEF CoreStates
<1>2. core.inc \in 0..(SlotGens - 1) /\ k \in 0..(SlotGens - 1) /\ k \in Nat
    BY <1>1
<1>3. core.inc % SlotGens = core.inc /\ k % SlotGens = k
    BY <1>1, <1>2, ModFacts
<1>4. core.used /\ core.inc = k % HandleGens
    BY <1>3 DEF Resolves
<1>5. core.inc \in 0..(HandleGens - 1)
    BY <1>1, <1>2, <1>4, ModFacts
<1>6. k \in 0..(HandleGens - 1)
    BY <1>1, <1>2, <1>5
<1>7. k = core.inc
    BY <1>1, <1>4, <1>6, ModFacts
<1> QED
    BY <1>1, <1>4, <1>5, <1>7

-----------------------------------------------------------------------------
(* The operations of kobj.c, field by field.                               *)
Slot(d, c)   == d.used = c.used /\ d.inc = c.inc
Object(d, c) == d.count = c.count /\ d.owner = c.owner /\ d.depth = c.depth /\ d.head = c.head /\ d.buf = c.buf
Lists(d, c)  == d.wl = c.wl /\ d.tx = c.tx /\ d.st = c.st /\ d.side = c.side

LEMMA CoreTyped ==
    ASSUME NEW c \in CoreStates
    PROVE  /\ c.used \in BOOLEAN /\ c.inc \in 0..MaxInc /\ c.count \in 0..(IF type = "sem" THEN SemMax ELSE QLen)
           /\ c.owner \in Tasks \cup {NoPid} /\ c.depth \in 0..MaxDepth /\ c.rec \in BOOLEAN
           /\ c.head \in Ring /\ c.buf \in [Ring -> Tasks \cup {NoPid}]
           /\ c.wl \in Seq(Tasks) /\ c.tx \in Seq(Tasks)
           /\ c.st \in [Tasks -> {"idle", "wait", "grant", "failed"}]
           /\ c.side \in [Tasks -> {"rx", "back", "front"}]
           /\ c.ev \in [Tasks -> EvWaits \cup {NoEvent}]
BY DEF CoreStates

(* A waiter that joins a list. *)
Joined(c, t) == [c EXCEPT !.wl = Append(@, t), !.st[t] = "wait", !.side[t] = "rx"]
JoinedTx(c, t, front) == [c EXCEPT !.tx = Append(@, t), !.st[t] = "wait", !.side[t] = IF front THEN "front" ELSE "back"]

LEMMA JoinFacts ==
    ASSUME NEW c \in CoreStates, NEW t \in Tasks
    PROVE  LET d == Joined(c, t) IN
           /\ d \in CoreStates /\ Slot(d, c) /\ Object(d, c)
           /\ d.wl = Append(c.wl, t) /\ d.tx = c.tx
           /\ \A u \in Tasks : /\ d.st[u] = IF u = t THEN "wait" ELSE c.st[u]
                               /\ d.side[u] = IF u = t THEN "rx" ELSE c.side[u]
<1>1. Append(c.wl, t) \in Seq(Tasks)
    BY CoreTyped, PushFacts
<1> QED
    BY <1>1 DEF CoreStates, Slot, Object, Joined

LEMMA JoinTxFacts ==
    ASSUME NEW c \in CoreStates, NEW t \in Tasks, NEW front
    PROVE  LET d == JoinedTx(c, t, front) IN
           /\ d \in CoreStates /\ Slot(d, c) /\ Object(d, c)
           /\ d.tx = Append(c.tx, t) /\ d.wl = c.wl
           /\ \A u \in Tasks : /\ d.st[u] = IF u = t THEN "wait" ELSE c.st[u]
                               /\ d.side[u] = IF u = t THEN (IF front THEN "front" ELSE "back") ELSE c.side[u]
<1>1. Append(c.tx, t) \in Seq(Tasks)
    BY CoreTyped, PushFacts
<1> QED
    BY <1>1 DEF CoreStates, Slot, Object, JoinedTx

LEMMA GrantFacts ==
    ASSUME NEW c \in CoreStates, c.wl # <<>>
    PROVE  LET d == GrantHead(c) IN
           /\ d \in CoreStates /\ Slot(d, c) /\ Object(d, c)
           /\ d.wl = Tail(c.wl) /\ d.tx = c.tx
           /\ d.side = c.side /\ \A u \in Tasks : d.st[u] = IF u = Head(c.wl) THEN "grant" ELSE c.st[u]
<1>1. Tail(c.wl) \in Seq(Tasks) /\ Head(c.wl) \in Tasks
    BY CoreTyped, PopFacts
<1> QED
    BY <1>1 DEF GrantHead, CoreStates, Slot, Object

(* q_push() puts an item into one place of the ring. *)
Place(c, front) == IF front THEN (c.head + QLen - 1) % QLen ELSE (c.head + c.count) % QLen

LEMMA PlaceTyped ==
    ASSUME NEW c \in CoreStates, NEW front
    PROVE  Place(c, front) \in Ring /\ (c.head + 1) % QLen \in Ring
<1>1. QLen \in Nat \ {0} /\ c.head \in 0..(QLen - 1) /\ c.count \in Nat
    BY Constants, CoreTyped DEF Ring
<1>2. c.head + QLen - 1 \in Nat /\ c.head + c.count \in Nat /\ c.head + 1 \in Nat
    BY <1>1
<1> QED
    BY <1>1, <1>2, ModFacts DEF Place, Ring

LEMMA PutFacts ==
    ASSUME NEW c \in CoreStates, NEW i \in Tasks, NEW front, type # "sem", c.count < QLen
    PROVE  LET d == Push(c, i, front) IN
           /\ d \in CoreStates /\ Slot(d, c) /\ Lists(d, c)
           /\ d.owner = c.owner /\ d.depth = c.depth /\ d.count = c.count + 1
           /\ d.head = (IF front THEN Place(c, front) ELSE c.head)
           /\ \A p \in Ring : d.buf[p] = IF p = Place(c, front) THEN i ELSE c.buf[p]
<1> DEFINE at == IF front THEN (c.head + QLen - 1) % QLen ELSE (c.head + c.count) % QLen
           d == [c EXCEPT !.head = IF front THEN at ELSE @, !.buf[at] = i, !.count = @ + 1]
<1>1. at \in Ring /\ at = Place(c, front)
    BY PlaceTyped DEF Place
<1>2. Push(c, i, front) = d
    BY DEF Push
<1> HIDE DEF at
<1>3. c.count + 1 \in 0..(IF type = "sem" THEN SemMax ELSE QLen)
    BY Constants, CoreTyped
<1>4. /\ d \in CoreStates /\ Slot(d, c) /\ Lists(d, c)
      /\ d.owner = c.owner /\ d.depth = c.depth /\ d.count = c.count + 1
      /\ d.head = (IF front THEN at ELSE c.head) /\ \A p \in Ring : d.buf[p] = IF p = at THEN i ELSE c.buf[p]
    BY <1>1, <1>3 DEF CoreStates, Slot, Lists
<1> HIDE DEF d
<1> QED
    BY <1>1, <1>2, <1>4

(* kq_recv() takes the item at the head. *)
Taken(c) == [c EXCEPT !.head = (@ + 1) % QLen, !.count = @ - 1]

LEMMA TakeFacts ==
    ASSUME NEW c \in CoreStates, c.count > 0
    PROVE  LET d == Taken(c) IN
           /\ d \in CoreStates /\ Slot(d, c) /\ Lists(d, c)
           /\ d.owner = c.owner /\ d.depth = c.depth /\ d.count = c.count - 1
           /\ d.head = (c.head + 1) % QLen /\ d.buf = c.buf
<1>1. (c.head + 1) % QLen \in Ring
    BY PlaceTyped
<1>2. c.count - 1 \in 0..(IF type = "sem" THEN SemMax ELSE QLen)
    BY Constants, CoreTyped
<1> QED
    BY <1>1, <1>2 DEF CoreStates, Slot, Lists, Taken

(* ... and admits the first blocked sender. *)
Admitted(c) ==
    [Push(Taken(c), Head(c.tx), c.side[Head(c.tx)] = "front") EXCEPT !.st[Head(c.tx)] = "grant", !.tx = Tail(@)]

LEMMA AdmitFacts ==
    ASSUME NEW c \in CoreStates, c.count > 0, c.tx # <<>>, type = "queue"
    PROVE  LET d == Admitted(c)
               f == c.side[Head(c.tx)] = "front"
               e == Taken(c)
           IN
           /\ d \in CoreStates /\ Slot(d, c) /\ d.owner = c.owner /\ d.depth = c.depth /\ d.count = c.count
           /\ d.wl = c.wl /\ d.tx = Tail(c.tx) /\ d.side = c.side
           /\ \A u \in Tasks : d.st[u] = IF u = Head(c.tx) THEN "grant" ELSE c.st[u]
           /\ d.head = (IF f THEN Place(e, f) ELSE e.head)
           /\ \A p \in Ring : d.buf[p] = IF p = Place(e, f) THEN Head(c.tx) ELSE c.buf[p]
<1> DEFINE f == c.side[Head(c.tx)] = "front"
           e == Taken(c)
           at == IF f THEN (e.head + QLen - 1) % QLen ELSE (e.head + e.count) % QLen
           p == [e EXCEPT !.head = IF f THEN at ELSE e.head, !.buf[at] = Head(c.tx), !.count = @ + 1]
           d == [p EXCEPT !.st[Head(c.tx)] = "grant", !.tx = Tail(@)]
<1>1. Head(c.tx) \in Tasks /\ Tail(c.tx) \in Seq(Tasks)
    BY CoreTyped, PopFacts
<1>2. /\ e \in CoreStates /\ Slot(e, c) /\ Lists(e, c)
      /\ e.owner = c.owner /\ e.depth = c.depth /\ e.count = c.count - 1
      /\ e.head = (c.head + 1) % QLen /\ e.buf = c.buf
    BY TakeFacts
<1>3. e.count < QLen /\ e.count + 1 = c.count /\ type # "sem"
    BY <1>2, Constants, CoreTyped
<1>0. at = Place(e, f) /\ at \in Ring /\ e.head \in Ring
    BY <1>2, PlaceTyped, CoreTyped DEF Place
<1> HIDE DEF e, f, at
<1>4. /\ p \in CoreStates /\ Slot(p, e) /\ Lists(p, e)
      /\ p.owner = e.owner /\ p.depth = e.depth /\ p.count = e.count + 1
      /\ p.head = (IF f THEN at ELSE e.head) /\ \A q \in Ring : p.buf[q] = IF q = at THEN Head(c.tx) ELSE e.buf[q]
  <2>1. e.count + 1 \in 0..(IF type = "sem" THEN SemMax ELSE QLen)
    BY <1>2, <1>3, CoreTyped
  <2> QED
    BY <1>0, <1>1, <1>2, <2>1 DEF CoreStates, Slot, Lists
<1> HIDE DEF p
<1>5. /\ d \in CoreStates /\ Slot(d, p) /\ Object(d, p) /\ d.wl = p.wl /\ d.tx = Tail(p.tx)
      /\ d.side = p.side /\ \A u \in Tasks : d.st[u] = IF u = Head(c.tx) THEN "grant" ELSE p.st[u]
  <2>1. Tail(p.tx) \in Seq(Tasks)
    BY <1>1, <1>2, <1>4 DEF Lists
  <2> QED
    BY <1>1, <1>4, <2>1 DEF CoreStates, Slot, Object
<1>6. d = Admitted(c)
    BY DEF Admitted, Push, d, p, e, f, at
<1> HIDE DEF d
<1>7. /\ d \in CoreStates /\ Slot(d, c) /\ d.owner = c.owner /\ d.depth = c.depth /\ d.count = c.count
      /\ d.wl = c.wl /\ d.tx = Tail(c.tx) /\ d.side = c.side
      /\ \A u \in Tasks : d.st[u] = IF u = Head(c.tx) THEN "grant" ELSE c.st[u]
      /\ d.head = (IF f THEN Place(e, f) ELSE e.head)
      /\ \A q \in Ring : d.buf[q] = IF q = Place(e, f) THEN Head(c.tx) ELSE c.buf[q]
    BY <1>0, <1>2, <1>3, <1>4, <1>5 DEF Slot, Object, Lists
<1> QED
    BY <1>6, <1>7 DEF e, f

-----------------------------------------------------------------------------
(* The waiting, whatever the object.                                       *)
Orderly == GensExact /\ (\A t \in Tasks : Waiter(t) /\ Waking(t)) /\ Queued

Others(t) == \A u \in Tasks : u # t => pc'[u] = pc[u] /\ hnd'[u] = hnd[u] /\ wake'[u] = wake[u]

(* The state's parts, task by task. *)
LEMMA Typed ==
    ASSUME TypeOK, NEW t \in Tasks
    PROVE  /\ core \in CoreStates /\ core.inc \in Nat /\ hnd[t] \in Nat /\ wake[t] \in Seq(Tasks)
           /\ wk[t] \in {"none", "armed", "token", "blocked"} /\ pc[t] \in PCs /\ core.used \in BOOLEAN
           /\ core.wl \in Seq(Tasks) /\ core.tx \in Seq(Tasks)
           /\ core.st[t] \in {"idle", "wait", "grant", "failed"} /\ core.side[t] \in {"rx", "back", "front"}
BY CoreTyped, Constants DEF TypeOK, W!WakeStates

(* A wake on its way stays so while the task that has it to do goes on     *)
(* with others.                                                            *)
LEMMA ComingKept ==
    ASSUME NEW t \in Tasks, wake[t] = <<>>, \A u \in Tasks : u # t => wake'[u] = wake[u], NEW v, Coming(v)
    PROVE  Coming(v)'
<1>1. PICK u \in Tasks : In(wake[u], v)
    BY DEF Coming
<1>2. u # t
    BY <1>1, EmptySeq DEF In
<1>3. In(wake'[u], v)
    BY <1>1, <1>2
<1> QED
    BY <1>3 DEF Coming

(* A call that waits for nobody and wakes nobody. *)
LEMMA OrderlyPlain ==
    ASSUME TypeOK, Orderly, type' = type, NEW t \in Tasks, pc[t] \notin InWait, pc[t] # "wake",
           Others(t), Slot(core', core), core'.wl = core.wl, core'.tx = core.tx,
           \A u \in Tasks : core'.st[u] = core.st[u] /\ core'.side[u] = core.side[u],
           pc'[t] \notin InWait, pc'[t] # "wake", hnd'[t] <= core.inc, wake'[t] = <<>>, wk' = wk
    PROVE  Orderly'
<1>1. GensExact'
    BY DEF Orderly, GensExact, Others, Slot
<1>2. Queued'
    BY DEF Orderly, Queued
<1>3. wake[t] = <<>>
    BY DEF Orderly, Waking
<1>4. ASSUME NEW u \in Tasks PROVE Waiter(u)'
    BY DEF Orderly, Waiter, Others, Slot, Resolves
<1>5. ASSUME NEW u \in Tasks PROVE Waking(u)'
  <2>1. Waking(u) /\ (Coming(u) => Coming(u)')
    BY <1>3, ComingKept DEF Orderly, Others
  <2>2. CASE u = t
    BY <2>2 DEF Waking, InWait
  <2>3. CASE u # t
    BY <2>1, <2>3 DEF Waking, Others
  <2> QED
    BY <2>2, <2>3
<1> QED
    BY <1>1, <1>2, <1>4, <1>5 DEF Orderly

(* A call that goes to wait, in one list or the other. *)
LEMMA OrderlyJoin ==
    ASSUME TypeOK, Orderly, type' = type, NEW t \in Tasks, pc[t] \notin InWait, pc[t] # "wake",
           Others(t), Slot(core', core), Resolves(core, core.inc), NEW side, side # "rx" => type = "queue",
           IF side = "rx" THEN core'.wl = Append(core.wl, t) /\ core'.tx = core.tx
                          ELSE core'.wl = core.wl /\ core'.tx = Append(core.tx, t),
           \A u \in Tasks : /\ core'.st[u] = IF u = t THEN "wait" ELSE core.st[u]
                            /\ core'.side[u] = IF u = t THEN side ELSE core.side[u],
           pc'[t] = "prep", hnd'[t] = core.inc, wake'[t] = <<>>, wk' = wk
    PROVE  Orderly'
<1>0. core.st[t] = "idle" /\ wake[t] = <<>> /\ core.wl \in Seq(Tasks) /\ core.tx \in Seq(Tasks) /\ core.used
    BY Typed DEF Orderly, Waiter, Waking, Resolves
<1>1. GensExact'
    BY Typed DEF Orderly, GensExact, Others, Slot
<1>2. ~In(core.wl, t) /\ ~In(core.tx, t)
    BY <1>0 DEF Orderly, Queued
<1>3. Queued'
  <2>1. CASE side = "rx"
    <3>0. core.wl \in Seq(Tasks) /\ Distinct(core.wl) /\ ~In(core.wl, t) /\ core'.wl = Append(core.wl, t)
        BY <1>0, <1>2, <2>1 DEF Orderly, Queued
    <3>1. PICK q \in Seq(Tasks) : q = core.wl
        BY <3>0
    <3>2. Distinct(Append(q, t)) /\ \A u : In(Append(q, t), u) <=> In(q, u) \/ u = t
        BY <3>0, <3>1, PushFacts
    <3>3. Distinct(core'.wl) /\ \A u : In(core'.wl, u) <=> In(core.wl, u) \/ u = t
        BY ONLY <3>0, <3>1, <3>2
    <3> QED
        BY <1>2, <2>1, <3>3 DEF Orderly, Queued
  <2>2. CASE side # "rx"
    <3>0. core.tx \in Seq(Tasks) /\ Distinct(core.tx) /\ ~In(core.tx, t) /\ core'.tx = Append(core.tx, t)
        BY <1>0, <1>2, <2>2 DEF Orderly, Queued
    <3>1. PICK q \in Seq(Tasks) : q = core.tx
        BY <3>0
    <3>2. Distinct(Append(q, t)) /\ \A u : In(Append(q, t), u) <=> In(q, u) \/ u = t
        BY <3>0, <3>1, PushFacts
    <3>3. Distinct(core'.tx) /\ \A u : In(core'.tx, u) <=> In(core.tx, u) \/ u = t
        BY ONLY <3>0, <3>1, <3>2
    <3> QED
        BY <1>2, <2>2, <3>3 DEF Orderly, Queued
  <2> QED
    BY <2>1, <2>2
<1>4. ASSUME NEW u \in Tasks PROVE Waiter(u)'
  <2>1. CASE u = t
    BY <1>0, <2>1 DEF Waiter, InWait, Slot, Resolves
  <2>2. CASE u # t
    BY <2>2 DEF Orderly, Waiter, Others, Slot, Resolves
  <2> QED
    BY <2>1, <2>2
<1>5. ASSUME NEW u \in Tasks PROVE Waking(u)'
  <2>1. Waking(u) /\ (Coming(u) => Coming(u)')
    BY <1>0, ComingKept DEF Orderly, Others
  <2>2. CASE u = t
    BY <2>2 DEF Waking
  <2>3. CASE u # t
    BY <2>1, <2>3 DEF Waking, Others
  <2> QED
    BY <2>2, <2>3
<1> QED
    BY <1>1, <1>3, <1>4, <1>5 DEF Orderly

(* A call that grants the first waiter of a list. *)
LEMMA OrderlyGrant ==
    ASSUME TypeOK, Orderly, type' = type, NEW t \in Tasks, pc[t] \notin InWait, pc[t] # "wake",
           Others(t), Slot(core', core), NEW h,
           \/ core.wl # <<>> /\ h = Head(core.wl) /\ core'.wl = Tail(core.wl) /\ core'.tx = core.tx
           \/ core.tx # <<>> /\ h = Head(core.tx) /\ core'.tx = Tail(core.tx) /\ core'.wl = core.wl,
           \A u \in Tasks : /\ core'.st[u] = IF u = h THEN "grant" ELSE core.st[u]
                            /\ core'.side[u] = core.side[u],
           pc'[t] = "wake", hnd'[t] <= core.inc, wake'[t] = <<h>>, wk' = wk
    PROVE  Orderly'
<1>0. core.st[t] = "idle" /\ wake[t] = <<>> /\ core.wl \in Seq(Tasks) /\ core.tx \in Seq(Tasks)
    BY Typed DEF Orderly, Waiter, Waking
<1>1. GensExact'
    BY DEF Orderly, GensExact, Others, Slot
<1>2. h \in Tasks /\ core.st[h] = "wait" /\ h # t
    BY <1>0, PopFacts DEF Orderly, Queued
<1>3. Queued'
  <2>1. CASE core.wl # <<>> /\ h = Head(core.wl) /\ core'.wl = Tail(core.wl) /\ core'.tx = core.tx
    <3>1. core.side[h] = "rx"
        BY <1>0, <1>2, <2>1, PopFacts DEF Orderly, Queued
    <3>2. Distinct(core'.wl) /\ \A u : In(core'.wl, u) <=> In(core.wl, u) /\ u # h
        BY <1>0, <2>1, PopFacts DEF Orderly, Queued
    <3> QED
        BY <1>2, <2>1, <3>1, <3>2 DEF Orderly, Queued
  <2>2. CASE core.tx # <<>> /\ h = Head(core.tx) /\ core'.tx = Tail(core.tx) /\ core'.wl = core.wl
    <3>1. core.side[h] # "rx"
        BY <1>0, <1>2, <2>2, PopFacts DEF Orderly, Queued
    <3>2. Distinct(core'.tx) /\ \A u : In(core'.tx, u) <=> In(core.tx, u) /\ u # h
        BY <1>0, <2>2, PopFacts DEF Orderly, Queued
    <3> QED
        BY <1>2, <2>2, <3>1, <3>2 DEF Orderly, Queued
  <2> QED
    BY <2>1, <2>2
<1>4. ASSUME NEW u \in Tasks PROVE Waiter(u)'
  <2>1. CASE u = t
    BY <1>0, <1>2, <2>1 DEF Orderly, Waiter, InWait
  <2>2. CASE u # t
    BY <1>2, <2>2 DEF Orderly, Waiter, Others, Slot, Resolves
  <2> QED
    BY <2>1, <2>2
<1>5. ASSUME NEW u \in Tasks PROVE Waking(u)'
  <2>1. Waking(u) /\ (Coming(u) => Coming(u)')
    BY <1>0, ComingKept DEF Orderly, Others
  <2>2. Coming(h)'
    BY <1>2 DEF Coming, In
  <2>3. CASE u = t
    BY <2>3 DEF Waking
  <2>4. CASE u # t
    BY <2>1, <2>2, <2>4 DEF Waking, Others
  <2> QED
    BY <2>3, <2>4
<1> QED
    BY <1>1, <1>3, <1>4, <1>5 DEF Orderly

(* Two lists of different waiters. *)
LEMMA ConcatDistinct ==
    ASSUME NEW a \in Seq(Tasks), NEW b \in Seq(Tasks), Distinct(a), Distinct(b),
           \A i \in 1..Len(a), j \in 1..Len(b) : a[i] # b[j]
    PROVE  IsInjective(a \o b)
<1> DEFINE r == a \o b
<1>1. PICK m \in Nat, n \in Nat : m = Len(a) /\ n = Len(b)
    OBVIOUS
<1>2. /\ r \in Seq(Tasks) /\ Len(r) = m + n
      /\ \A i \in 1..(m + n) : r[i] = IF i <= m THEN a[i] ELSE b[i - m]
    BY <1>1, ConcatProperties
<1>3. DOMAIN r = 1..(m + n)
    BY <1>2, LenProperties
<1> HIDE DEF r
<1>4. /\ \A i, j \in 1..m : a[i] = a[j] => i = j
      /\ \A i, j \in 1..n : b[i] = b[j] => i = j
      /\ \A i \in 1..m, j \in 1..n : a[i] # b[j]
    BY <1>1 DEF Distinct
<1>5. \A i \in 1..(m + n) : (i <= m /\ i \in 1..m /\ r[i] = a[i]) \/ (i - m \in 1..n /\ r[i] = b[i - m])
    BY <1>2
<1>6. ASSUME NEW i \in 1..(m + n), NEW j \in 1..(m + n), r[i] = r[j] PROVE i = j
  <2>1. CASE i - m \in 1..n /\ r[i] = b[i - m] /\ j - m \in 1..n /\ r[j] = b[j - m]
    <3>1. i - m = j - m
        BY <1>4, <1>6, <2>1
    <3> QED
        BY <3>1
  <2> QED
    BY <1>4, <1>5, <1>6, <2>1
<1> QED
    BY <1>3, <1>6 DEF IsInjective, r

(* The waiters of both lists. *)
LEMMA ConcatFacts ==
    ASSUME NEW a \in Seq(Tasks), NEW b \in Seq(Tasks)
    PROVE  /\ a \o b \in Seq(Tasks)
           /\ \A u : In(a \o b, u) <=> In(a, u) \/ In(b, u)
           /\ \A u : u \in ToSet(a \o b) <=> In(a, u) \/ In(b, u)
<1> DEFINE r == a \o b
<1>1. /\ r \in Seq(Tasks) /\ Len(r) = Len(a) + Len(b) /\ Len(a) \in Nat /\ Len(b) \in Nat
      /\ \A i \in 1..(Len(a) + Len(b)) : r[i] = IF i <= Len(a) THEN a[i] ELSE b[i - Len(a)]
    BY ConcatProperties
<1>0. \A u : u \in ToSet(r) <=> In(r, u)
    BY DEF ToSet, In
<1> HIDE DEF r
<1>2. ASSUME NEW u, In(r, u) PROVE In(a, u) \/ In(b, u)
  <2>1. PICK i \in 1..Len(r) : r[i] = u
    BY <1>2 DEF In
  <2>2. CASE i <= Len(a)
    BY <1>1, <2>1, <2>2 DEF In
  <2>3. CASE ~(i <= Len(a))
    BY <1>1, <2>1, <2>3 DEF In
  <2> QED
    BY <2>2, <2>3
<1>3. ASSUME NEW u, In(a, u) PROVE In(r, u)
    BY <1>1, <1>3 DEF In
<1>4. ASSUME NEW u, In(b, u) PROVE In(r, u)
  <2>1. PICK i \in 1..Len(b) : b[i] = u
    BY <1>4 DEF In
  <2>2. Len(a) + i \in 1..Len(r) /\ ~(Len(a) + i <= Len(a)) /\ (Len(a) + i) - Len(a) = i
    BY <1>1
  <2>3. r[Len(a) + i] = u
    BY <1>1, <2>1, <2>2
  <2> QED
    BY <2>2, <2>3 DEF In
<1>5. \A u : In(r, u) <=> In(a, u) \/ In(b, u)
    BY <1>2, <1>3, <1>4
<1> QED
    BY <1>0, <1>1, <1>5 DEF r

(* A deletion fails every waiter, and has each to wake. *)
LEMMA OrderlyDelete ==
    ASSUME TypeOK, Orderly, type' = type, NEW t \in Tasks, pc[t] \notin InWait, pc[t] # "wake",
           Others(t), ~core'.used, core'.inc = core.inc + 1, core.inc < HandleGens,
           core'.wl = <<>>, core'.tx = <<>>,
           \A u \in Tasks : /\ core'.st[u] = IF In(core.wl, u) \/ In(core.tx, u) THEN "failed" ELSE core.st[u]
                            /\ core'.side[u] = core.side[u],
           wake'[t] = core.wl \o core.tx, pc'[t] = IF core.wl \o core.tx # <<>> THEN "wake" ELSE "out",
           hnd'[t] = 0, wk' = wk
    PROVE  Orderly'
<1>0. /\ core.st[t] = "idle" /\ wake[t] = <<>> /\ core.wl \in Seq(Tasks) /\ core.tx \in Seq(Tasks)
      /\ HandleGens \in Nat
    BY Typed, Constants DEF Orderly, Waiter, Waking
<1>1. GensExact'
  <2>1. core.inc \in Nat /\ \A u \in Tasks : hnd[u] \in Nat /\ hnd[u] <= core.inc
    BY Typed DEF Orderly, GensExact
  <2>2. ASSUME NEW u \in Tasks PROVE hnd'[u] <= core.inc + 1
    BY <2>1 DEF Others
  <2> QED
    BY <1>0, <2>1, <2>2 DEF GensExact
<1>2. \A u \in Tasks : core.st[u] = "wait" <=> In(core.wl, u) \/ In(core.tx, u)
    BY DEF Orderly, Queued
<1>3. Queued'
  <2>1. \A u : ~In(<<>>, u)
    BY EmptySeq DEF In
  <2>2. Distinct(<<>>)
    BY EmptySeq DEF Distinct
  <2>3. \A u \in Tasks : core'.st[u] # "wait"
    BY <1>2
  <2> QED
    BY <2>1, <2>2, <2>3 DEF Queued
<1>4. ASSUME NEW u \in Tasks PROVE Waiter(u)'
  <2>0. hnd[u] \in Nat /\ core.inc \in Nat /\ hnd[u] <= core.inc /\ hnd[u] < core.inc + 1
    BY Typed DEF Orderly, GensExact
  <2>1. CASE u = t
    BY <1>0, <1>2, <2>1 DEF Orderly, Waiter, InWait
  <2>2. CASE u # t
    BY <1>2, <2>0, <2>2 DEF Orderly, Waiter, Others
  <2> QED
    BY <2>1, <2>2
<1>5. ASSUME NEW u \in Tasks PROVE Waking(u)'
  <2>1. Waking(u) /\ (Coming(u) => Coming(u)')
    BY <1>0, ComingKept DEF Orderly, Others
  <2>2. core.st[u] = "wait" => In(wake'[t], u)
    BY <1>0, <1>2, ConcatFacts
  <2>3. core.st[u] = "wait" => Coming(u)'
    BY <2>2 DEF Coming
  <2>4. CASE u = t
    BY <2>4 DEF Waking
  <2>5. CASE u # t
    BY <1>2, <2>1, <2>3, <2>5 DEF Waking, Others
  <2> QED
    BY <2>4, <2>5
<1> QED
    BY <1>1, <1>3, <1>4, <1>5 DEF Orderly

(* A wait that is settled: the waiter is in no list any more. *)
LEMMA OrderlyCancel ==
    ASSUME TypeOK, Orderly, type' = type, NEW t \in Tasks, pc[t] = "cancel",
           Others(t), Slot(core', core), Distinct(core'.wl), Distinct(core'.tx),
           \A u \in Tasks : /\ In(core'.wl, u) <=> In(core.wl, u) /\ u # t
                            /\ In(core'.tx, u) <=> In(core.tx, u) /\ u # t,
           \A u \in Tasks : /\ core'.st[u] = IF u = t THEN "idle" ELSE core.st[u]
                            /\ core'.side[u] = IF u = t THEN "rx" ELSE core.side[u],
           wake'[t] = <<>>, pc'[t] = "out", hnd'[t] = 0, wk' = wk
    PROVE  Orderly'
<1>0. wake[t] = <<>> /\ core.inc \in Nat
    BY Typed DEF Orderly, Waking
<1>1. GensExact'
    BY <1>0 DEF Orderly, GensExact, Others, Slot
<1>2. Queued'
    BY DEF Orderly, Queued
<1>3. ASSUME NEW u \in Tasks PROVE Waiter(u)'
    BY DEF Orderly, Waiter, Others, Slot, Resolves, InWait
<1>4. ASSUME NEW u \in Tasks PROVE Waking(u)'
  <2>1. Waking(u) /\ (Coming(u) => Coming(u)')
    BY <1>0, ComingKept DEF Orderly, Others
  <2>2. CASE u = t
    BY <2>2 DEF Waking
  <2>3. CASE u # t
    BY <2>1, <2>3 DEF Waking, Others
  <2> QED
    BY <2>2, <2>3
<1> QED
    BY <1>1, <1>2, <1>3, <1>4 DEF Orderly

(* A step that leaves the object alone. *)
LEMMA OrderlyInside ==
    ASSUME TypeOK, Orderly, type' = type, core' = core, hnd' = hnd, NEW t \in Tasks,
           \A u \in Tasks : u # t => pc'[u] = pc[u],
           pc'[t] \in InWait <=> pc[t] \in InWait,
           \A u \in Tasks : Waking(u)'
    PROVE  Orderly'
<1>1. GensExact' /\ Queued'
    BY DEF Orderly, GensExact, Queued
<1>2. ASSUME NEW u \in Tasks PROVE Waiter(u)'
    BY DEF Orderly, Waiter, Resolves
<1> QED
    BY <1>1, <1>2 DEF Orderly

-----------------------------------------------------------------------------
(* The calls: what a section under the lock leaves behind.                 *)
FrameOK ==
    /\ type \in Types
    /\ hnd \in [Tasks -> 0..MaxInc]
    /\ tmo \in [Tasks -> {"poll", "timed", "late", "forever"}]
    /\ wake \in [Tasks -> Seq(Tasks)]
    /\ wk \in [Tasks -> W!WakeStates] /\ pc \in [Tasks -> PCs]
ToldOK == told \in [units : Int, holds : [Tasks -> 0..MaxDepth], expect : Seq(Tasks)]

LEMMA TypeParts ==
    /\ TypeOK <=> FrameOK /\ core \in CoreStates /\ ToldOK
    /\ TypeOK' <=> FrameOK' /\ (core \in CoreStates)' /\ ToldOK'
BY DEF TypeOK, FrameOK, ToldOK

(* The call goes to wait. *)
LEMMA LeaveWait ==
    ASSUME TypeOK, NEW t \in Tasks, NEW x, NEW k \in 0..MaxInc, NEW w \in {"poll", "timed", "late", "forever"},
           Leave(t, x, k, w), x.r = "BLOCK", x.wk = <<>>, type' = type, wk' = wk
    PROVE  /\ core' = x.s /\ Others(t) /\ FrameOK'
           /\ pc'[t] = "prep" /\ hnd'[t] = k /\ wake'[t] = <<>>
<1>1. /\ core' = x.s
      /\ wake' = [wake EXCEPT ![t] = <<>>] /\ pc' = [pc EXCEPT ![t] = "prep"]
      /\ hnd' = [hnd EXCEPT ![t] = k] /\ tmo' = [tmo EXCEPT ![t] = w]
    BY DEF Leave, Goto
<1>2. FrameOK
    BY TypeParts
<1> QED
    BY <1>1, <1>2 DEF FrameOK, Others, PCs

(* The call returns, or has others to wake first. *)
LEMMA LeaveDone ==
    ASSUME TypeOK, NEW t \in Tasks, NEW x, NEW k, NEW w,
           Leave(t, x, k, w), x.r # "BLOCK", x.wk \in Seq(Tasks), type' = type, wk' = wk
    PROVE  /\ core' = Gone(x.s, t) /\ Others(t) /\ FrameOK'
           /\ pc'[t] = (IF x.wk # <<>> THEN "wake" ELSE "out") /\ hnd'[t] = 0 /\ wake'[t] = x.wk
<1>1. /\ core' = Gone(x.s, t)
      /\ wake' = [wake EXCEPT ![t] = x.wk] /\ pc' = [pc EXCEPT ![t] = IF x.wk # <<>> THEN "wake" ELSE "out"]
      /\ hnd' = [hnd EXCEPT ![t] = 0] /\ tmo' = [tmo EXCEPT ![t] = "poll"]
    BY DEF Leave, Goto
<1>2. FrameOK /\ 0 \in 0..MaxInc
    BY TypeParts, Constants
<1> QED
    BY <1>1, <1>2 DEF FrameOK, Others, PCs

LEMMA GoneFacts ==
    ASSUME NEW c \in CoreStates, NEW t \in Tasks
    PROVE  LET d == Gone(c, t) IN
           /\ d \in CoreStates /\ Slot(d, c) /\ Object(d, c) /\ d.wl = c.wl /\ d.tx = c.tx
           /\ \A u \in Tasks : /\ d.st[u] = IF u = t THEN "idle" ELSE c.st[u]
                               /\ d.side[u] = IF u = t THEN "rx" ELSE c.side[u]
BY DEF Gone, CoreStates, Slot, Object

-----------------------------------------------------------------------------
(* The waiters that were granted and do not know yet.                      *)
Rx == Unsettled({"rx"})
Tx == Unsettled({"back", "front"})
Granted(t) == pc[t] \in InWait /\ core.st[t] = "grant"

LEMMA SettledSame ==
    ASSUME Slot(core', core),
           \A u \in Tasks : Granted(u)' <=> Granted(u),
           \A u \in Tasks : Granted(u) => hnd'[u] = hnd[u] /\ core'.side[u] = core.side[u]
    PROVE  Rx' = Rx /\ Tx' = Tx
BY DEF Slot, Granted, Rx, Tx, Unsettled

(* What the callers know of the object. *)
Accounts == OneHolder /\ Heir /\ UnitsAccounted /\ RingIsQueue

LEMMA AccountsKept ==
    ASSUME Accounts, type' = type, Slot(core', core), Object(core', core), told' = told, Rx' = Rx, Tx' = Tx
    PROVE  Accounts'
<1>1. OneHolder' /\ Heir'
    BY DEF Accounts, OneHolder, Heir, Slot, Object, Rx
<1>2. UnitsAccounted'
    BY DEF Accounts, UnitsAccounted, Slot, Object, Rx, Tx
<1>3. RingIsQueue'
    BY DEF Accounts, RingIsQueue, Slot, Object
<1> QED
    BY <1>1, <1>2, <1>3 DEF Accounts

LEMMA InvParts ==
    /\ KobjInv <=> TypeOK /\ Orderly /\ NothingThere /\ Accounts
    /\ KobjInv' <=> TypeOK' /\ Orderly' /\ NothingThere' /\ Accounts'
BY DEF KobjInv, Orderly, Accounts

(* A step that leaves the object and what is known of it alone. *)
LEMMA InsideKept ==
    ASSUME KobjInv, FrameOK', type' = type, core' = core, hnd' = hnd, told' = told, NEW t \in Tasks,
           \A u \in Tasks : u # t => pc'[u] = pc[u],
           pc'[t] \in InWait <=> pc[t] \in InWait,
           \A u \in Tasks : Waking(u)'
    PROVE  KobjInv'
<1>0. TypeOK /\ Orderly /\ NothingThere /\ Accounts
    BY InvParts
<1>1. TypeOK'
    BY <1>0, TypeParts DEF ToldOK, CoreStates
<1>2. Orderly'
    BY <1>0, OrderlyInside
<1>3. NothingThere'
    BY <1>0 DEF NothingThere
<1>4. Slot(core', core) /\ Object(core', core)
    BY DEF Slot, Object
<1>5. \A u \in Tasks : Granted(u)' <=> Granted(u)
    BY DEF Granted
<1>6. Rx' = Rx /\ Tx' = Tx
    BY <1>4, <1>5, SettledSame
<1>7. Accounts'
    BY <1>0, <1>4, <1>6, AccountsKept
<1> QED
    BY <1>1, <1>2, <1>3, <1>7, InvParts

-----------------------------------------------------------------------------
(* wait_for() and wake_all().                                              *)

(* Nothing but t's own place and its token changes. *)
LEMMA WakingOthers ==
    ASSUME TypeOK, Orderly, core' = core, wake' = wake, NEW t \in Tasks, NEW u \in Tasks, u # t,
           pc'[u] = pc[u], wk'[u] = wk[u]
    PROVE  Waking(u)'
BY DEF Orderly, Waking, Coming

LEMMA WaitKept ==
    ASSUME KobjInv, NEW t \in Tasks, Prep(t) \/ Test(t) \/ Block(t) \/ Woken(t) \/ SpinEnd(t) \/ SpinWork(t)
    PROVE  KobjInv'
<1>0. TypeOK /\ Orderly /\ FrameOK
    BY InvParts, TypeParts
<1>1. type' = type /\ core' = core /\ hnd' = hnd /\ tmo' = tmo /\ wake' = wake /\ told' = told
    BY DEF Prep, Test, Block, Woken, SpinEnd, SpinWork
<1>2. PICK p \in InWait, q \in W!WakeStates : pc' = [pc EXCEPT ![t] = p] /\ wk' = [wk EXCEPT ![t] = q]
  <2>0. wk[t] \in W!WakeStates /\ wk = [wk EXCEPT ![t] = wk[t]]
    BY <1>0 DEF FrameOK
  <2>1. CASE Prep(t)
    BY <2>1 DEF Prep, Goto, W!Prepared, W!WakeStates, InWait
  <2>2. CASE Test(t)
    BY <2>0, <2>2 DEF Test, Goto, W!Finished, W!WakeStates, InWait
  <2>3. CASE Block(t)
    BY <2>0, <2>3 DEF Block, Goto, W!Finished, W!Blocked, W!WakeStates, InWait
  <2>4. CASE Woken(t) \/ SpinEnd(t) \/ SpinWork(t)
    BY <2>0, <2>4 DEF Woken, SpinEnd, SpinWork, Goto, InWait
  <2> QED
    BY <2>1, <2>2, <2>3, <2>4
<1>3. pc[t] \in InWait /\ pc'[t] = p /\ wk'[t] = q
    BY <1>0, <1>2 DEF Prep, Test, Block, Woken, SpinEnd, SpinWork, InWait, FrameOK
<1>4. \A u \in Tasks : u # t => pc'[u] = pc[u] /\ wk'[u] = wk[u]
    BY <1>0, <1>2 DEF FrameOK
<1>5. FrameOK'
    BY <1>0, <1>1, <1>2 DEF FrameOK, InWait, PCs
<1>6. ASSUME NEW u \in Tasks PROVE Waking(u)'
  <2>1. CASE u # t
    BY <1>0, <1>1, <1>4, <2>1, WakingOthers
  <2>2. CASE u = t
    <3>0. Waking(t) /\ (Coming(t) => Coming(t)') /\ wake[t] = <<>> /\ wk[t] \in {"none", "armed", "token", "blocked"}
        BY <1>0, <1>1, <1>3, Typed DEF Orderly, Waking, Coming, InWait
    <3>1. CASE Prep(t)
      <4>1. pc'[t] = "test" /\ wk'[t] = "armed"
        BY <1>0, <3>1 DEF Prep, Goto, W!Prepared, FrameOK
      <4> QED
        BY <1>1, <2>2, <3>0, <4>1 DEF Waking
    <3>2. CASE Test(t)
      <4>1. IF core.st[t] # "wait" THEN pc'[t] = "cancel" ELSE pc'[t] = "block" /\ wk'[t] = wk[t]
        BY <1>0, <3>2 DEF Test, Goto, FrameOK
      <4>2. pc[t] = "test"
        BY <3>2 DEF Test
      <4> QED
        BY <1>1, <2>2, <3>0, <4>1, <4>2 DEF Waking
    <3>3. CASE Block(t)
      <4>1. \/ pc'[t] \in {"cancel", "prep"}
            \/ pc'[t] = "spin" /\ wk'[t] = wk[t]
            \/ pc'[t] = "sleep" /\ wk'[t] = (IF wk[t] = "token" THEN "none" ELSE "blocked")
        BY <1>0, <3>3 DEF Block, Goto, W!Blocked, FrameOK
      <4>2. pc[t] = "block"
        BY <3>3 DEF Block
      <4> QED
        BY <1>1, <2>2, <3>0, <4>1, <4>2 DEF Waking
    <3>4. CASE Woken(t) \/ SpinEnd(t) \/ SpinWork(t)
      <4>1. pc'[t] = "prep"
        BY <1>0, <3>4 DEF Woken, SpinEnd, SpinWork, Goto, FrameOK
      <4> QED
        BY <1>1, <2>2, <3>0, <4>1 DEF Waking
    <3> QED
        BY <3>1, <3>2, <3>3, <3>4
  <2> QED
    BY <2>1, <2>2
<1> QED
    BY <1>1, <1>3, <1>4, <1>5, <1>6, InsideKept

LEMMA ExpireKept ==
    ASSUME KobjInv, NEW t \in Tasks, Expire(t) \/ Scan(t)
    PROVE  KobjInv'
<1>0. TypeOK /\ Orderly /\ FrameOK
    BY InvParts, TypeParts
<1>1. type' = type /\ core' = core /\ hnd' = hnd /\ wake' = wake /\ told' = told /\ pc' = pc /\ pc[t] # "wake"
    BY DEF Expire, Scan
<1>2. \A u \in Tasks : wk'[u] = wk[u] \/ (wk[u] = "blocked" /\ wk'[u] = "none")
    BY <1>0 DEF Expire, Scan, W!TimedOut, FrameOK
<1>3. FrameOK'
    BY <1>0, <1>1 DEF FrameOK, Expire, Scan, W!TimedOut, W!WakeStates
<1>4. ASSUME NEW u \in Tasks PROVE Waking(u)'
    BY <1>0, <1>1, <1>2 DEF Orderly, Waking, Coming
<1> QED
    BY <1>1, <1>3, <1>4, InsideKept

LEMMA WakeOneKept ==
    ASSUME KobjInv, NEW t \in Tasks, WakeOne(t)
    PROVE  KobjInv'
<1>0. TypeOK /\ Orderly /\ FrameOK
    BY InvParts, TypeParts
<1> DEFINE h == Head(wake[t])
<1>1. type' = type /\ core' = core /\ hnd' = hnd /\ tmo' = tmo /\ told' = told /\ pc[t] = "wake"
    BY DEF WakeOne
<1>2. wake[t] \in Seq(Tasks) /\ wake[t] # <<>>
    BY <1>0, <1>1, Typed DEF Orderly, Waking
<1>3. /\ h \in Tasks /\ Tail(wake[t]) \in Seq(Tasks)
      /\ (Len(wake[t]) > 1 <=> Tail(wake[t]) # <<>>)
      /\ \A v : In(wake[t], v) => In(Tail(wake[t]), v) \/ v = h
  <2>1. Len(Tail(wake[t])) = Len(wake[t]) - 1 /\ Len(wake[t]) \in Nat /\ Tail(wake[t]) \in Seq(Tasks)
    BY <1>2, HeadTailProperties
  <2>2. Tail(wake[t]) = <<>> <=> Len(Tail(wake[t])) = 0
    BY <2>1, EmptySeq
  <2>3. Len(wake[t]) > 1 <=> Tail(wake[t]) # <<>>
    <3>1. PICK n \in Nat : n = Len(wake[t])
        BY <2>1
    <3>2. n # 0
        BY <1>2, <3>1, EmptySeq
    <3>3. n > 1 <=> n - 1 # 0
        BY <3>2
    <3> QED
        BY <2>1, <2>2, <3>1, <3>3
  <2>4. h \in Tasks /\ \A v : In(wake[t], v) => In(Tail(wake[t]), v) \/ v = h
    BY <1>2, PopFacts
  <2> QED
    BY <2>1, <2>3, <2>4
<1>4. /\ wake'[t] = Tail(wake[t]) /\ \A u \in Tasks : u # t => wake'[u] = wake[u]
      /\ wake' \in [Tasks -> Seq(Tasks)]
    BY <1>0, <1>3 DEF WakeOne, FrameOK
<1>5. /\ pc'[t] = (IF wake'[t] # <<>> THEN "wake" ELSE "out") /\ \A u \in Tasks : u # t => pc'[u] = pc[u]
      /\ pc' \in [Tasks -> PCs]
    BY <1>0, <1>3, <1>4 DEF WakeOne, Goto, FrameOK, PCs
<1>6. /\ \A u \in Tasks : u # h => wk'[u] = wk[u]
      /\ wk'[h] = CASE wk[h] = "blocked" -> "none" [] wk[h] = "armed" -> "token" [] OTHER -> wk[h]
    BY <1>0, <1>3 DEF WakeOne, W!Unblocked, FrameOK
<1>7. wk' \in [Tasks -> W!WakeStates]
  <2>1. wk' = W!Unblocked(wk, h)
    BY DEF WakeOne
  <2> QED
    BY <1>0, <1>3, <2>1 DEF W!Unblocked, FrameOK, W!WakeStates
<1>8. FrameOK'
    BY <1>0, <1>1, <1>4, <1>5, <1>7 DEF FrameOK
<1>9. ASSUME NEW v, Coming(v), v # h PROVE Coming(v)'
  <2>1. PICK u \in Tasks : In(wake[u], v)
    BY <1>9 DEF Coming
  <2>2. In(wake'[u], v)
    BY <1>3, <1>4, <1>9, <2>1
  <2> QED
    BY <2>2 DEF Coming
<1>10. ASSUME NEW u \in Tasks PROVE Waking(u)'
  <2>1. Waking(u) /\ wk[u] \in {"none", "armed", "token", "blocked"} /\ wk[h] \in {"none", "armed", "token", "blocked"}
    BY <1>0, <1>3, Typed DEF Orderly
  <2> HIDE DEF h
  <2>2. CASE u = t
    BY <1>5, <2>2 DEF Waking
  <2>3. CASE u # t /\ u # h
    BY <1>1, <1>4, <1>5, <1>6, <1>9, <2>1, <2>3 DEF Waking
  <2>4. CASE u # t /\ u = h
    <3>1. pc'[u] = pc[u] /\ wake'[u] = wake[u] /\ core'.st[u] = core.st[u]
        BY <1>1, <1>4, <1>5, <2>4
    <3>2. wk[u] = "armed" => wk'[u] = "token"
        BY <1>6, <2>4
    <3>3. wk'[u] # "blocked" /\ (wk[u] = "token" => wk'[u] = "token")
        BY <1>6, <2>1, <2>4
    <3> QED
        BY <2>1, <3>1, <3>2, <3>3 DEF Waking
  <2> QED
    BY <2>2, <2>3, <2>4
<1>11. pc'[t] \in InWait <=> pc[t] \in InWait
    BY <1>1, <1>5 DEF InWait
<1> QED
    BY <1>1, <1>5, <1>8, <1>10, <1>11, InsideKept

-----------------------------------------------------------------------------
(* Calls that change nothing, creation and deletion.                       *)

(* A call that is refused, or returns with nothing done. *)
LEMMA QuietKept ==
    ASSUME KobjInv, FrameOK', type' = type, NEW t \in Tasks, pc[t] \notin InWait, pc[t] # "wake",
           Others(t), (core \in CoreStates)', Slot(core', core), Object(core', core), core'.wl = core.wl, core'.tx = core.tx,
           \A u \in Tasks : core'.st[u] = core.st[u] /\ core'.side[u] = core.side[u],
           pc'[t] \notin InWait, pc'[t] # "wake", hnd'[t] <= core.inc, wake'[t] = <<>>, wk' = wk, told' = told
    PROVE  KobjInv'
<1>0. TypeOK /\ Orderly /\ NothingThere /\ Accounts
    BY InvParts
<1>1. TypeOK'
    BY <1>0, TypeParts DEF ToldOK
<1>2. Orderly'
    BY <1>0, OrderlyPlain
<1>3. NothingThere'
    BY <1>0 DEF NothingThere, Object
<1>4. \A u \in Tasks : Granted(u)' <=> Granted(u)
    BY DEF Granted, Others
<1>5. \A u \in Tasks : Granted(u) => hnd'[u] = hnd[u] /\ core'.side[u] = core.side[u]
    BY DEF Granted, Others
<1>6. Rx' = Rx /\ Tx' = Tx
    BY <1>4, <1>5, SettledSame
<1>7. Accounts'
    BY <1>0, <1>6, AccountsKept
<1> QED
    BY <1>1, <1>2, <1>3, <1>7, InvParts

LEMMA RefusedKept ==
    ASSUME KobjInv, NEW t \in Tasks, pc[t] \notin InWait, pc[t] # "wake", NEW r, r # "BLOCK", NEW k, NEW w,
           Leave(t, Done(core, r), k, w), type' = type, wk' = wk, told' = told
    PROVE  KobjInv'
<1> DEFINE x == Done(core, r)
<1>0. TypeOK /\ Orderly /\ core \in CoreStates /\ core.st[t] = "idle" /\ core.side[t] = "rx"
    BY InvParts, TypeParts DEF Orderly, Waiter
<1>1. x.s = core /\ x.r = r /\ x.wk = <<>> /\ <<>> \in Seq(Tasks)
    BY EmptySeq DEF Done
<1> HIDE DEF x
<1>2. /\ core' = Gone(core, t) /\ Others(t) /\ FrameOK'
      /\ pc'[t] = "out" /\ hnd'[t] = 0 /\ wake'[t] = <<>>
  <2>1. Leave(t, x, k, w)
    BY DEF x
  <2> QED
    BY <1>0, <1>1, <2>1, LeaveDone
<1>3. /\ core' \in CoreStates /\ Slot(core', core) /\ Object(core', core) /\ core'.wl = core.wl /\ core'.tx = core.tx
      /\ \A u \in Tasks : core'.st[u] = core.st[u] /\ core'.side[u] = core.side[u]
    BY <1>0, <1>2, GoneFacts
<1>4. (core \in CoreStates)'
    BY <1>3 DEF CoreStates
<1>5. hnd'[t] <= core.inc /\ pc'[t] \notin InWait /\ pc'[t] # "wake"
    BY <1>0, <1>2, Typed DEF InWait
<1> QED
    BY <1>2, <1>3, <1>4, <1>5, QuietKept

LEMMA ReleaseOwnerKept ==
    ASSUME KobjInv, NEW t \in Tasks, ReleaseOwner(t)
    PROVE  KobjInv'
<1>0. TypeOK /\ Orderly /\ core \in CoreStates /\ FrameOK /\ pc[t] = "out" /\ core.inc \in Nat /\ core.inc \in 0..MaxInc
    BY InvParts, TypeParts, Typed, CoreTyped DEF ReleaseOwner, Begin
<1>1. /\ type' = type /\ core' = core /\ tmo' = tmo /\ wake' = wake /\ wk' = wk /\ told' = told
      /\ hnd' = [hnd EXCEPT ![t] = core.inc] /\ pc' = [pc EXCEPT ![t] = "reldel"]
    BY DEF ReleaseOwner, Goto
<1>2. FrameOK' /\ Others(t) /\ hnd'[t] = core.inc /\ pc'[t] = "reldel"
    BY <1>0, <1>1 DEF FrameOK, Others, PCs
<1>3. (core \in CoreStates)' /\ Slot(core', core) /\ Object(core', core)
    BY <1>0, <1>1 DEF CoreStates, Slot, Object
<1>4. wake'[t] = <<>> /\ pc'[t] \notin InWait /\ pc'[t] # "wake" /\ hnd'[t] <= core.inc /\ pc[t] \notin InWait /\ pc[t] # "wake"
    BY <1>0, <1>1, <1>2 DEF Orderly, Waking, InWait
<1> QED
    BY <1>1, <1>2, <1>3, <1>4, QuietKept

(* A slot that is free has no waiters. *)
LEMMA FreeFacts ==
    ASSUME TypeOK, Orderly, ~core.used
    PROVE  /\ core.wl = <<>> /\ core.tx = <<>> /\ \A u \in Tasks : core.st[u] # "wait"
           /\ Rx = {} /\ Tx = {}
<1>1. core.wl \in Seq(Tasks) /\ core.tx \in Seq(Tasks) /\ core \in CoreStates
    BY TypeParts, CoreTyped
<1>2. \A u \in Tasks : core.st[u] # "wait"
    BY DEF Orderly, Waiter, Resolves
<1>3. core.wl = <<>> /\ core.tx = <<>>
    BY <1>1, <1>2, PopFacts DEF Orderly, Queued
<1>4. ASSUME NEW u \in Tasks, pc[u] \in InWait PROVE hnd[u] # core.inc
  <2>1. hnd[u] < core.inc
    BY <1>4 DEF Orderly, Waiter
  <2> QED
    BY <2>1, Typed
<1> QED
    BY <1>2, <1>3, <1>4 DEF Rx, Tx, Unsettled

LEMMA CreateKept ==
    ASSUME KobjInv, OneAtATime, NEW t \in Tasks, Create(t)
    PROVE  KobjInv'
<1>0. TypeOK /\ Orderly /\ core \in CoreStates /\ FrameOK /\ ~core.used
    BY InvParts, TypeParts DEF Create
<1>1. PICK init \in (IF type = "sem" THEN 0..SemMax ELSE {0}), r \in (IF type = "mutex" THEN BOOLEAN ELSE {FALSE}) :
        /\ core' = [core EXCEPT !.used = TRUE, !.count = init, !.owner = NoPid, !.depth = 0, !.rec = r,
                                !.head = 0, !.buf = [i \in Ring |-> NoPid], !.bits = {}]
        /\ told' = [units |-> init, holds |-> [u \in Tasks |-> 0], expect |-> <<>>]
        /\ type' = type /\ hnd' = hnd /\ tmo' = tmo /\ wake' = wake /\ wk' = wk /\ pc' = pc
    BY DEF Create
<1>2. 0 \in Ring /\ 0 \in 0..MaxDepth /\ init \in 0..(IF type = "sem" THEN SemMax ELSE QLen) /\ init \in Int /\ r \in BOOLEAN
  <2>1. 0 \in Ring /\ 0 \in 0..MaxDepth
    BY Constants DEF Ring
  <2>2. init \in 0..(IF type = "sem" THEN SemMax ELSE QLen) /\ init \in Int
    BY Constants
  <2>3. r \in BOOLEAN
    BY Zenon
  <2> QED
    BY <2>1, <2>2, <2>3
<1>3. /\ core' \in CoreStates /\ core'.used = TRUE /\ core'.inc = core.inc /\ core'.count = init /\ core'.owner = NoPid
      /\ core'.wl = core.wl /\ core'.tx = core.tx /\ core'.st = core.st /\ core'.side = core.side
    BY <1>0, <1>1, <1>2 DEF CoreStates
<1>4. /\ told'.units = init /\ told'.expect = <<>> /\ \A u \in Tasks : told'.holds[u] = 0
    BY <1>1
<1>5. TypeOK'
  <2>1. FrameOK'
    BY <1>0, <1>1 DEF FrameOK
  <2>2. ToldOK'
    BY <1>1, <1>2, EmptySeq DEF ToldOK
  <2>3. (core \in CoreStates)'
    BY <1>1, <1>3 DEF CoreStates
  <2> QED
    BY <2>1, <2>2, <2>3, TypeParts
<1>6. core.wl = <<>> /\ core.tx = <<>> /\ (\A u \in Tasks : core.st[u] # "wait") /\ Rx = {} /\ Tx = {}
    BY <1>0, FreeFacts
<1>7. Orderly'
  <2>1. GensExact' /\ Queued'
    BY <1>0, <1>1, <1>3 DEF Orderly, GensExact, Queued
  <2>2. ASSUME NEW u \in Tasks PROVE Waiter(u)' /\ Waking(u)'
    <3>1. Waiter(u)'
        BY <1>0, <1>1, <1>3, <1>6 DEF Orderly, Waiter
    <3>2. Waking(u)'
        BY <1>0, <1>1, <1>3 DEF Orderly, Waking, Coming
    <3> QED
        BY <3>1, <3>2
  <2> QED
    BY <2>1, <2>2 DEF Orderly
<1>8. NothingThere'
    BY <1>3, <1>6 DEF NothingThere
<1>9. Rx' = {} /\ Tx' = {}
    BY <1>1, <1>3, <1>6 DEF Rx, Tx, Unsettled
<1>10. OneHolder' /\ Heir'
    BY <1>3, <1>4, <1>9, Constants DEF OneHolder, Heir, Rx
<1>11. UnitsAccounted'
  <2>1. Cardinality({}) = 0
    BY FS_EmptySet
  <2>2. told'.units = core'.count + Cardinality(Rx') - Cardinality(Tx')
    BY <1>2, <1>3, <1>4, <1>9, <2>1
  <2> QED
    BY <2>2 DEF UnitsAccounted, Rx, Tx
<1>12. RingIsQueue'
  <2>1. type = "queue" => init = 0
    OBVIOUS
  <2>2. <<>> = [i \in 1..0 |-> core'.buf[(core'.head + i - 1) % QLen]]
    OBVIOUS
  <2> QED
    BY <1>1, <1>3, <1>4, <2>1, <2>2 DEF RingIsQueue
<1> QED
    BY <1>5, <1>7, <1>8, <1>10, <1>11, <1>12, InvParts DEF Accounts

LEMMA DeleteFacts ==
    ASSUME NEW c \in CoreStates, c.inc < MaxInc
    PROVE  LET d == Delete(c).s IN
           /\ d \in CoreStates /\ ~d.used /\ d.inc = c.inc + 1 /\ d.wl = <<>> /\ d.tx = <<>> /\ d.side = c.side
           /\ \A u \in Tasks : d.st[u] = IF In(c.wl, u) \/ In(c.tx, u) THEN "failed" ELSE c.st[u]
           /\ Delete(c).r = "OK" /\ Delete(c).wk = c.wl \o c.tx
<1>1. /\ c.wl \in Seq(Tasks) /\ c.tx \in Seq(Tasks)
      /\ \A u : u \in ToSet(c.wl \o c.tx) <=> In(c.wl, u) \/ In(c.tx, u)
    BY CoreTyped, ConcatFacts
<1>2. c.inc + 1 \in 0..MaxInc /\ <<>> \in Seq(Tasks)
    BY CoreTyped, Constants, EmptySeq
<1> DEFINE f == [t \in Tasks |-> IF t \in ToSet(c.wl \o c.tx) THEN "failed" ELSE c.st[t]]
           d == [c EXCEPT !.st = f, !.wl = <<>>, !.tx = <<>>, !.used = FALSE, !.inc = @ + 1]
<1>3. f \in [Tasks -> {"idle", "wait", "grant", "failed"}]
    BY CoreTyped
<1>4. \A u \in Tasks : f[u] = IF In(c.wl, u) \/ In(c.tx, u) THEN "failed" ELSE c.st[u]
    BY <1>1
<1>5. Delete(c).s = d /\ Delete(c).r = "OK" /\ Delete(c).wk = c.wl \o c.tx
    BY DEF Delete, DoneWake
<1> HIDE DEF f
<1>6. d \in CoreStates /\ ~d.used /\ d.inc = c.inc + 1 /\ d.wl = <<>> /\ d.tx = <<>> /\ d.side = c.side /\ d.st = f
    BY <1>2, <1>3 DEF CoreStates
<1> HIDE DEF d
<1> QED
    BY <1>4, <1>5, <1>6

LEMMA DeleteKept ==
    ASSUME KobjInv, NEW t \in Tasks, pc[t] \notin InWait, pc[t] # "wake", NEW k \in 0..core.inc, DeleteBy(t, k)
    PROVE  KobjInv'
<1>0. TypeOK /\ Orderly /\ core \in CoreStates /\ core.st[t] = "idle" /\ core.side[t] = "rx"
    BY InvParts, TypeParts DEF Orderly, Waiter
<1>1. type' = type /\ wk' = wk /\ told' = told /\ core.inc < MaxInc
    BY DEF DeleteBy
<1>2. CASE ~Resolves(core, k)
  <2>1. Leave(t, Done(core, "FAIL"), k, "poll")
    BY <1>2 DEF DeleteBy
  <2> QED
    BY <1>1, <2>1, RefusedKept
<1>3. CASE Resolves(core, k)
  <2> DEFINE x == Delete(core)
  <2>1. /\ x.s \in CoreStates /\ ~x.s.used /\ x.s.inc = core.inc + 1 /\ x.s.wl = <<>> /\ x.s.tx = <<>> /\ x.s.side = core.side
        /\ \A u \in Tasks : x.s.st[u] = IF In(core.wl, u) \/ In(core.tx, u) THEN "failed" ELSE core.st[u]
        /\ x.r = "OK" /\ x.wk = core.wl \o core.tx
    BY <1>0, <1>1, DeleteFacts
  <2>2. core.inc < HandleGens
    BY <1>0, <1>3, HandleFacts DEF Orderly, GensExact
  <2>3. x.wk \in Seq(Tasks)
    BY <1>0, <2>1, CoreTyped, ConcatFacts
  <2>4. Leave(t, x, k, "poll")
    BY <1>3 DEF DeleteBy
  <2> HIDE DEF x
  <2>5. /\ core' = Gone(x.s, t) /\ Others(t) /\ FrameOK'
        /\ pc'[t] = (IF x.wk # <<>> THEN "wake" ELSE "out") /\ hnd'[t] = 0 /\ wake'[t] = x.wk
    BY <1>0, <1>1, <2>1, <2>3, <2>4, LeaveDone
  <2>6. /\ core' \in CoreStates /\ ~core'.used /\ core'.inc = core.inc + 1 /\ core'.wl = <<>> /\ core'.tx = <<>>
        /\ \A u \in Tasks : /\ core'.st[u] = IF u = t THEN "idle" ELSE x.s.st[u]
                            /\ core'.side[u] = IF u = t THEN "rx" ELSE x.s.side[u]
    BY <2>1, <2>5, GoneFacts DEF Slot
  <2>7. ~In(core.wl, t) /\ ~In(core.tx, t)
    BY <1>0 DEF Orderly, Queued
  <2>8. \A u \in Tasks : /\ core'.st[u] = IF In(core.wl, u) \/ In(core.tx, u) THEN "failed" ELSE core.st[u]
                         /\ core'.side[u] = core.side[u]
    BY <1>0, <2>1, <2>6, <2>7
  <2>9. Orderly'
    BY <1>0, <1>1, <2>1, <2>2, <2>5, <2>6, <2>8, OrderlyDelete
  <2>10. TypeOK'
    <3>1. (core \in CoreStates)'
        BY <1>1, <2>6 DEF CoreStates
    <3>2. ToldOK'
        BY <1>0, <1>1, TypeParts DEF ToldOK
    <3> QED
        BY <2>5, <3>1, <3>2, TypeParts
  <2>11. NothingThere' /\ Accounts'
    BY <2>6 DEF NothingThere, Accounts, OneHolder, Heir, UnitsAccounted, RingIsQueue
  <2> QED
    BY <2>9, <2>10, <2>11, InvParts
<1> QED
    BY <1>2, <1>3

LEMMA DeletionsKept ==
    ASSUME KobjInv, NEW t \in Tasks, DeleteCall(t) \/ ReleaseDelete(t)
    PROVE  KobjInv'
<1>0. TypeOK /\ Orderly /\ core.inc \in Nat /\ hnd[t] \in Nat /\ hnd[t] <= core.inc
    BY InvParts, Typed DEF Orderly, GensExact
<1>1. \A k \in Issued : k \in 0..core.inc
    BY <1>0 DEF Issued
<1>2. CASE DeleteCall(t)
    BY <1>1, <1>2, DeleteKept DEF DeleteCall, Begin, InWait
<1>3. CASE ReleaseDelete(t)
    BY <1>0, <1>3, DeleteKept DEF ReleaseDelete, InWait
<1> QED
    BY <1>2, <1>3

-----------------------------------------------------------------------------
(* Calls that go to wait.                                                  *)
LEMMA JoinKept ==
    ASSUME KobjInv, NEW t \in Tasks, pc[t] \notin InWait, pc[t] # "wake", Resolves(core, core.inc),
           NEW w \in {"poll", "timed", "late", "forever"}, NEW x, x.r = "BLOCK", x.wk = <<>>,
           Leave(t, x, core.inc, w), type' = type, wk' = wk, told' = told,
           \/ x.s = Joined(core, t) /\ IF type = "mutex" THEN core.owner # NoPid ELSE core.count = 0
           \/ type = "queue" /\ core.count = QLen /\ \E front : x.s = JoinedTx(core, t, front)
    PROVE  KobjInv'
<1>0. /\ TypeOK /\ Orderly /\ NothingThere /\ Accounts
      /\ core \in CoreStates /\ core.st[t] = "idle" /\ core.side[t] = "rx" /\ core.inc \in 0..MaxInc
    BY InvParts, TypeParts, CoreTyped DEF Orderly, Waiter
<1>1. core' = x.s /\ Others(t) /\ FrameOK' /\ pc'[t] = "prep" /\ hnd'[t] = core.inc /\ wake'[t] = <<>>
    BY <1>0, LeaveWait
<1>2. PICK side : /\ side # "rx" => type = "queue"
                  /\ core' \in CoreStates /\ Slot(core', core) /\ Object(core', core)
                  /\ IF side = "rx" THEN core'.wl = Append(core.wl, t) /\ core'.tx = core.tx
                                    ELSE core'.wl = core.wl /\ core'.tx = Append(core.tx, t)
                  /\ \A u \in Tasks : /\ core'.st[u] = IF u = t THEN "wait" ELSE core.st[u]
                                      /\ core'.side[u] = IF u = t THEN side ELSE core.side[u]
                  /\ side = "rx" => IF type = "mutex" THEN core.owner # NoPid ELSE core.count = 0
                  /\ side # "rx" => core.count = QLen
  <2>1. CASE x.s = Joined(core, t) /\ IF type = "mutex" THEN core.owner # NoPid ELSE core.count = 0
    <3>1. /\ core' \in CoreStates /\ Slot(core', core) /\ Object(core', core)
          /\ core'.wl = Append(core.wl, t) /\ core'.tx = core.tx
          /\ \A u \in Tasks : /\ core'.st[u] = IF u = t THEN "wait" ELSE core.st[u]
                              /\ core'.side[u] = IF u = t THEN "rx" ELSE core.side[u]
        BY <1>0, <1>1, <2>1, JoinFacts
    <3>2. PICK side : side = "rx"
        OBVIOUS
    <3> QED
        BY <2>1, <3>1, <3>2, Zenon
  <2>2. CASE type = "queue" /\ core.count = QLen /\ \E front : x.s = JoinedTx(core, t, front)
    <3>1. PICK front : x.s = JoinedTx(core, t, front)
        BY <2>2
    <3>2. PICK side : side = IF front THEN "front" ELSE "back"
        OBVIOUS
    <3>3. side # "rx"
        BY <3>2
    <3>4. /\ core' \in CoreStates /\ Slot(core', core) /\ Object(core', core)
          /\ core'.wl = core.wl /\ core'.tx = Append(core.tx, t)
          /\ \A u \in Tasks : /\ core'.st[u] = IF u = t THEN "wait" ELSE core.st[u]
                              /\ core'.side[u] = IF u = t THEN side ELSE core.side[u]
        BY <1>0, <1>1, <3>1, <3>2, JoinTxFacts
    <3> QED
        BY <2>2, <3>3, <3>4, Zenon
  <2> QED
    BY <2>1, <2>2
<1>3. Orderly'
    BY <1>0, <1>1, <1>2, OrderlyJoin
<1>4. TypeOK'
  <2>1. (core \in CoreStates)' /\ ToldOK'
    BY <1>0, <1>2, TypeParts DEF CoreStates, ToldOK
  <2> QED
    BY <1>1, <2>1, TypeParts
<1>5. NothingThere'
    BY <1>0, <1>2 DEF NothingThere, Object
<1>6. \A u \in Tasks : Granted(u)' <=> Granted(u)
    BY <1>0, <1>1, <1>2 DEF Granted, Others
<1>7. \A u \in Tasks : Granted(u) => hnd'[u] = hnd[u] /\ core'.side[u] = core.side[u]
    BY <1>0, <1>1, <1>2 DEF Granted, Others
<1>8. Accounts'
    BY <1>0, <1>2, <1>6, <1>7, SettledSame, AccountsKept
<1> QED
    BY <1>3, <1>4, <1>5, <1>8, InvParts

-----------------------------------------------------------------------------
(* Calls that return with something done.                                  *)

(* Sets of tasks are finite; one more or one less counts. *)
LEMMA CardFacts ==
    ASSUME NEW S \in SUBSET Tasks, NEW h \in Tasks
    PROVE  /\ Cardinality(S) \in Nat
           /\ h \notin S => Cardinality(S \cup {h}) = Cardinality(S) + 1
           /\ h \in S => Cardinality(S \ {h}) = Cardinality(S) - 1
<1>1. IsFiniteSet(S)
    BY Constants, FS_Subset
<1> QED
    BY <1>1, FS_CardinalityType, FS_AddElement, FS_RemoveElement

LEMMA SettledMore ==
    ASSUME Slot(core', core), NEW h \in Tasks, ~Granted(h), Granted(h)', hnd'[h] = core.inc,
           \A u \in Tasks : u # h => (Granted(u)' <=> Granted(u)),
           \A u \in Tasks : Granted(u) => hnd'[u] = hnd[u] /\ core'.side[u] = core.side[u]
    PROVE  /\ core'.side[h] = "rx" => Rx' = Rx \cup {h} /\ h \notin Rx /\ Tx' = Tx
           /\ core'.side[h] \in {"back", "front"} => Tx' = Tx \cup {h} /\ h \notin Tx /\ Rx' = Rx
BY DEF Slot, Granted, Rx, Tx, Unsettled

LEMMA SettledSets == Rx \in SUBSET Tasks /\ Tx \in SUBSET Tasks
BY DEF Rx, Tx, Unsettled

(* Only a queue has senders that wait. *)
LEMMA NoSenders ==
    ASSUME TypeOK, Orderly, type # "queue"
    PROVE  core.tx = <<>>
<1>1. core.tx \in Seq(Tasks) /\ core \in CoreStates
    BY TypeParts, CoreTyped
<1>2. ASSUME core.tx # <<>> PROVE FALSE
  <2>1. PICK h \in Tasks : In(core.tx, h)
    BY <1>1, <1>2, PopFacts
  <2>2. core.st[h] = "wait" /\ core.side[h] # "rx"
    BY <2>1 DEF Orderly, Queued
  <2> QED
    BY <2>2 DEF Orderly, Waiter
<1> QED
    BY <1>2

(* The tables the call leaves are c, and its own waiter is gone. *)
Leaves(c) == Slot(core', c) /\ Object(core', c) /\ core'.wl = c.wl /\ core'.tx = c.tx

LEMMA PlainKept ==
    ASSUME TypeOK, Orderly, NEW t \in Tasks, pc[t] \notin InWait, pc[t] # "wake",
           NEW c \in CoreStates, Slot(c, core), Lists(c, core),
           NEW x, x.s = c, x.r = "OK", x.wk = <<>>, NEW k, NEW w, Leave(t, x, k, w), type' = type, wk' = wk
    PROVE  /\ Orderly' /\ FrameOK' /\ (core \in CoreStates)' /\ Leaves(c)
           /\ Rx' = Rx /\ Tx' = Tx
<1>0. core \in CoreStates /\ core.st[t] = "idle" /\ core.side[t] = "rx" /\ <<>> \in Seq(Tasks)
    BY TypeParts, EmptySeq DEF Orderly, Waiter
<1>1. /\ core' = Gone(c, t) /\ Others(t) /\ FrameOK'
      /\ pc'[t] = "out" /\ hnd'[t] = 0 /\ wake'[t] = <<>>
    BY <1>0, LeaveDone
<1>2. /\ core' \in CoreStates /\ Slot(core', c) /\ Object(core', c) /\ core'.wl = c.wl /\ core'.tx = c.tx
      /\ \A u \in Tasks : core'.st[u] = core.st[u] /\ core'.side[u] = core.side[u]
    BY <1>0, <1>1, GoneFacts DEF Lists
<1>3. Slot(core', core) /\ core'.wl = core.wl /\ core'.tx = core.tx
    BY <1>2 DEF Slot, Lists
<1>4. hnd'[t] <= core.inc /\ pc'[t] \notin InWait /\ pc'[t] # "wake"
    BY <1>1, Typed DEF InWait
<1>5. Orderly'
    BY <1>1, <1>2, <1>3, <1>4, OrderlyPlain
<1>6. \A u \in Tasks : Granted(u)' <=> Granted(u)
    BY <1>0, <1>1, <1>2, <1>4 DEF Granted, Others
<1>7. \A u \in Tasks : Granted(u) => hnd'[u] = hnd[u] /\ core'.side[u] = core.side[u]
    BY <1>0, <1>1, <1>2 DEF Granted, Others
<1>8. (core \in CoreStates)'
    BY <1>2 DEF CoreStates
<1> QED
    BY <1>1, <1>2, <1>3, <1>5, <1>6, <1>7, <1>8, SettledSame DEF Leaves

(* ... after it granted the first waiter of a list. *)
LEMMA GrantKept ==
    ASSUME TypeOK, Orderly, NEW t \in Tasks, pc[t] \notin InWait, pc[t] # "wake",
           NEW c \in CoreStates, Slot(c, core), NEW h, h \in Tasks, c.side = core.side,
           \/ core.wl # <<>> /\ h = Head(core.wl) /\ c.wl = Tail(core.wl) /\ c.tx = core.tx
           \/ core.tx # <<>> /\ h = Head(core.tx) /\ c.tx = Tail(core.tx) /\ c.wl = core.wl,
           \A u \in Tasks : c.st[u] = IF u = h THEN "grant" ELSE core.st[u],
           NEW x, x.s = c, x.r = "OK", x.wk = <<h>>, NEW k, NEW w, Leave(t, x, k, w), type' = type, wk' = wk
    PROVE  /\ Orderly' /\ FrameOK' /\ (core \in CoreStates)' /\ Leaves(c)
           /\ core.side[h] = "rx" => Rx' = Rx \cup {h} /\ h \notin Rx /\ Tx' = Tx
           /\ core.side[h] # "rx" => Tx' = Tx \cup {h} /\ h \notin Tx /\ Rx' = Rx
           /\ h # t /\ pc[h] \in InWait /\ core.st[h] = "wait"
           /\ core.wl # <<>> /\ h = Head(core.wl) => core.side[h] = "rx"
           /\ core.tx # <<>> /\ h = Head(core.tx) => core.side[h] # "rx"
<1>0. /\ core \in CoreStates /\ core.st[t] = "idle" /\ core.side[t] = "rx"
      /\ core.wl \in Seq(Tasks) /\ core.tx \in Seq(Tasks) /\ core.inc \in Nat
    BY TypeParts, Typed DEF Orderly, Waiter
<1>1. <<h>> \in Seq(Tasks) /\ <<h>> # <<>>
    OBVIOUS
<1>2. /\ core' = Gone(c, t) /\ Others(t) /\ FrameOK'
      /\ pc'[t] = "wake" /\ hnd'[t] = 0 /\ wake'[t] = <<h>>
    BY <1>0, <1>1, LeaveDone
<1>3. /\ core.wl # <<>> /\ h = Head(core.wl) => core.side[h] = "rx" /\ core.st[h] = "wait"
      /\ core.tx # <<>> /\ h = Head(core.tx) => core.side[h] # "rx" /\ core.st[h] = "wait"
    BY <1>0, PopFacts DEF Orderly, Queued
<1>4. h # t /\ core.st[h] = "wait" /\ pc[h] \in InWait /\ hnd[h] = core.inc
    BY <1>0, <1>3 DEF Orderly, Waiter
<1>5. /\ core' \in CoreStates /\ Slot(core', c) /\ Object(core', c) /\ core'.wl = c.wl /\ core'.tx = c.tx
      /\ \A u \in Tasks : /\ core'.st[u] = IF u = t THEN "idle" ELSE c.st[u]
                          /\ core'.side[u] = IF u = t THEN "rx" ELSE c.side[u]
    BY <1>2, GoneFacts
<1>6. \A u \in Tasks : /\ core'.st[u] = IF u = h THEN "grant" ELSE core.st[u]
                       /\ core'.side[u] = core.side[u]
    BY <1>0, <1>4, <1>5
<1>7. /\ Slot(core', core)
      /\ \/ core.wl # <<>> /\ h = Head(core.wl) /\ core'.wl = Tail(core.wl) /\ core'.tx = core.tx
         \/ core.tx # <<>> /\ h = Head(core.tx) /\ core'.tx = Tail(core.tx) /\ core'.wl = core.wl
    BY <1>5 DEF Slot
<1>8. hnd'[t] <= core.inc
    BY <1>0, <1>2
<1>9. Orderly'
    BY <1>2, <1>6, <1>7, <1>8, OrderlyGrant
<1>10. ~Granted(h) /\ Granted(h)' /\ hnd'[h] = core.inc /\ core'.side[h] = core.side[h]
    BY <1>2, <1>4, <1>6 DEF Granted, Others
<1>11. \A u \in Tasks : u # h => (Granted(u)' <=> Granted(u))
    BY <1>0, <1>2, <1>6 DEF Granted, Others, InWait
<1>12. \A u \in Tasks : Granted(u) => hnd'[u] = hnd[u] /\ core'.side[u] = core.side[u]
    BY <1>0, <1>2, <1>6 DEF Granted, Others
<1>13. (core \in CoreStates)'
    BY <1>5 DEF CoreStates
<1>14. core.side[h] \in {"rx", "back", "front"}
    BY Typed
<1>15. /\ core.side[h] = "rx" => Rx' = Rx \cup {h} /\ h \notin Rx /\ Tx' = Tx
       /\ core.side[h] # "rx" => Tx' = Tx \cup {h} /\ h \notin Tx /\ Rx' = Rx
    BY <1>7, <1>10, <1>11, <1>12, <1>14, SettledMore
<1> QED
    BY <1>2, <1>3, <1>4, <1>5, <1>9, <1>13, <1>15 DEF Leaves

-----------------------------------------------------------------------------
(* What a call's result tells its caller.                                  *)
Tells(t, d, e) == [Told(t, core.inc, d) EXCEPT !.expect = e]

LEMMA ToldFacts ==
    ASSUME ToldOK, NEW t \in Tasks, NEW d \in Int, NEW e
    PROVE  LET y == Tells(t, d, e) IN
           /\ y.units = (IF type \in {"sem", "queue"} THEN told.units - d ELSE told.units)
           /\ y.expect = e
           /\ \A u \in Tasks : y.holds[u] = IF u = t /\ type = "mutex" THEN told.holds[u] + d ELSE told.holds[u]
           /\ e \in Seq(Tasks) /\ (type = "mutex" => told.holds[t] + d \in 0..MaxDepth)
              => y \in [units : Int, holds : [Tasks -> 0..MaxDepth], expect : Seq(Tasks)]
<1> DEFINE n == IF type \in {"sem", "queue"} THEN told.units - d ELSE told.units
           m == IF type = "mutex" THEN told.holds[t] + d ELSE told.holds[t]
           z == [told EXCEPT !.units = n, !.holds[t] = m]
           y == [z EXCEPT !.expect = e]
<1>1. Tells(t, d, e) = y
    BY DEF Told, Tells
<1>2. told.units \in Int /\ told.holds \in [Tasks -> 0..MaxDepth] /\ n \in Int
    BY DEF ToldOK
<1>3. y.units = n /\ y.expect = e /\ \A u \in Tasks : y.holds[u] = IF u = t THEN m ELSE told.holds[u]
    BY DEF ToldOK
<1>4. ASSUME e \in Seq(Tasks), type = "mutex" => told.holds[t] + d \in 0..MaxDepth
      PROVE  y \in [units : Int, holds : [Tasks -> 0..MaxDepth], expect : Seq(Tasks)]
  <2>1. m \in 0..MaxDepth
    BY <1>2, <1>4
  <2> HIDE DEF n, m
  <2> QED
    BY <1>2, <1>4, <2>1 DEF ToldOK
<1> HIDE DEF y
<1> QED
    BY <1>1, <1>3, <1>4

(* The number of an object's units, and nothing else, is n. *)
LEMMA CountFacts ==
    ASSUME NEW c \in CoreStates, NEW n \in 0..(IF type = "sem" THEN SemMax ELSE QLen)
    PROVE  LET d == [c EXCEPT !.count = n] IN
           /\ d \in CoreStates /\ Slot(d, c) /\ Lists(d, c) /\ d.count = n
BY DEF CoreStates, Slot, Lists

(* Semaphores. *)
LEMMA SemGetKept ==
    ASSUME KobjInv, type = "sem", NEW t \in Tasks, pc[t] = "out", Resolves(core, core.inc),
           NEW w \in {"poll", "timed", "late", "forever"}, NEW x, x = SemTake(core, t, w # "poll"),
           Leave(t, x, core.inc, w), type' = type, wk' = wk,
           told' = IF x.r # "OK" THEN told ELSE Tells(t, 1, told.expect)
    PROVE  KobjInv'
<1>0. /\ TypeOK /\ Orderly /\ NothingThere /\ Accounts /\ ToldOK /\ core \in CoreStates
      /\ pc[t] \notin InWait /\ pc[t] # "wake" /\ core.used
    BY InvParts, TypeParts DEF InWait, Resolves
<1>1. CASE core.count > 0
  <2> DEFINE c == [core EXCEPT !.count = core.count - 1]
  <2>1. x.s = c /\ x.r = "OK" /\ x.wk = <<>>
    BY <1>1 DEF SemTake, Done
  <2>2. core.count \in 0..SemMax
    BY <1>0, CoreTyped
  <2>9. core.count - 1 \in 0..(IF type = "sem" THEN SemMax ELSE QLen)
    BY <1>1, <2>2, Constants
  <2>3. /\ c \in CoreStates /\ Slot(c, core) /\ Lists(c, core) /\ c.count = core.count - 1
    BY <1>0, <2>9, CountFacts
  <2> HIDE DEF c
  <2>4. /\ Orderly' /\ FrameOK' /\ (core \in CoreStates)' /\ Leaves(c) /\ Rx' = Rx /\ Tx' = Tx
    BY <1>0, <2>1, <2>3, PlainKept
  <2>5. ToldOK' /\ told'.units = told.units - 1
    <3>1. told' = Tells(t, 1, told.expect)
        BY <2>1
    <3>2. told.units \in Int /\ told.expect \in Seq(Tasks)
        BY <1>0 DEF ToldOK
    <3> QED
        BY <1>0, <3>1, <3>2, ToldFacts DEF ToldOK
  <2>6. core'.count = core.count - 1 /\ core'.used = core.used /\ core'.wl = core.wl /\ core'.tx = core.tx
    BY <2>3, <2>4 DEF Leaves, Slot, Object, Lists
  <2>7. NothingThere'
    BY <1>0, <1>1, <2>2, <2>6, NoSenders DEF NothingThere
  <2>8. UnitsAccounted'
    <3>1. Cardinality(Rx) \in Nat /\ Cardinality(Tx) \in Nat /\ told.units \in Int
        BY <1>0, CardFacts, SettledSets DEF ToldOK
    <3>2. told.units = core.count + Cardinality(Rx) - Cardinality(Tx)
        BY <1>0 DEF Accounts, UnitsAccounted, Rx, Tx
    <3>3. told'.units = core'.count + Cardinality(Rx') - Cardinality(Tx')
        BY <2>2, <2>4, <2>5, <2>6, <3>1, <3>2
    <3> QED
        BY <3>3 DEF UnitsAccounted, Rx, Tx
  <2> QED
    BY <2>4, <2>5, <2>7, <2>8, InvParts, TypeParts DEF Accounts, OneHolder, Heir, RingIsQueue
<1>2. CASE ~(core.count > 0)
  <2>1. core.count = 0
    BY <1>0, <1>2, CoreTyped, Constants
  <2>2. CASE w # "poll"
    <3>1. x.s = Joined(core, t) /\ x.r = "BLOCK" /\ x.wk = <<>>
        BY <1>2, <2>2 DEF SemTake, Wait, Joined, Done
    <3> QED
        BY <1>0, <2>1, <3>1, JoinKept
  <2>3. CASE w = "poll"
    <3>1. x = Done(core, "AGAIN") /\ x.r # "OK"
        BY <1>2, <2>3 DEF SemTake, Wait, Done
    <3> QED
        BY <1>0, <3>1, RefusedKept
  <2> QED
    BY <2>2, <2>3
<1> QED
    BY <1>1, <1>2

LEMMA SemPutKept ==
    ASSUME KobjInv, type = "sem", NEW t \in Tasks, pc[t] = "out", Resolves(core, core.inc),
           NEW w, NEW x, x = SemGive(core),
           Leave(t, x, core.inc, w), type' = type, wk' = wk,
           told' = IF x.r # "OK" THEN told ELSE Tells(t, -1, told.expect)
    PROVE  KobjInv'
<1>0. /\ TypeOK /\ Orderly /\ NothingThere /\ Accounts /\ ToldOK /\ core \in CoreStates
      /\ pc[t] \notin InWait /\ pc[t] # "wake" /\ core.used /\ core.wl \in Seq(Tasks)
    BY InvParts, TypeParts, CoreTyped DEF InWait, Resolves
<1>1. core.count \in 0..SemMax
    BY <1>0, CoreTyped
<1>2. CASE core.wl # <<>>
  <2> DEFINE c == GrantHead(core)
             h == Head(core.wl)
  <2>1. x.s = c /\ x.r = "OK" /\ x.wk = <<h>>
    BY <1>2 DEF SemGive, DoneWake
  <2>2. /\ c \in CoreStates /\ Slot(c, core) /\ Object(c, core) /\ c.wl = Tail(core.wl) /\ c.tx = core.tx
        /\ c.side = core.side /\ (\A u \in Tasks : c.st[u] = IF u = h THEN "grant" ELSE core.st[u]) /\ h \in Tasks
    BY <1>0, <1>2, GrantFacts, PopFacts
  <2>3. h = Head(core.wl)
    OBVIOUS
  <2> HIDE DEF c, h
  <2>4. /\ Orderly' /\ FrameOK' /\ (core \in CoreStates)' /\ Leaves(c)
        /\ Rx' = Rx \cup {h} /\ h \notin Rx /\ Tx' = Tx
    BY <1>0, <1>2, <2>1, <2>2, <2>3, GrantKept
  <2>5. ToldOK' /\ told'.units = told.units + 1
    <3>1. PICK d \in Int : d = -1
        OBVIOUS
    <3>2. told' = Tells(t, d, told.expect)
        BY <2>1, <3>1
    <3>3. told.units \in Int /\ told.expect \in Seq(Tasks)
        BY <1>0 DEF ToldOK
    <3>4. ToldOK' /\ told'.units = told.units - d
        BY <1>0, <3>2, <3>3, ToldFacts DEF ToldOK
    <3> QED
        BY <3>1, <3>3, <3>4
  <2>6. core'.count = core.count /\ core'.used = core.used /\ core'.tx = core.tx
    BY <2>2, <2>4 DEF Leaves, Slot, Object
  <2>7. NothingThere'
    BY <1>0, <1>2, <2>6, NoSenders DEF NothingThere
  <2>8. UnitsAccounted'
    <3>1. Cardinality(Rx') = Cardinality(Rx) + 1 /\ Cardinality(Rx) \in Nat /\ Cardinality(Tx) \in Nat
        BY <2>2, <2>4, CardFacts, SettledSets
    <3>2. told.units = core.count + Cardinality(Rx) - Cardinality(Tx)
        BY <1>0 DEF Accounts, UnitsAccounted, Rx, Tx
    <3>3. told'.units = core'.count + Cardinality(Rx') - Cardinality(Tx')
        BY <1>1, <2>4, <2>5, <2>6, <3>1, <3>2
    <3> QED
        BY <3>3 DEF UnitsAccounted, Rx, Tx
  <2> QED
    BY <2>4, <2>5, <2>7, <2>8, InvParts, TypeParts DEF Accounts, OneHolder, Heir, RingIsQueue
<1>3. CASE core.wl = <<>> /\ core.count < SemMax
  <2> DEFINE c == [core EXCEPT !.count = core.count + 1]
  <2>1. x.s = c /\ x.r = "OK" /\ x.wk = <<>>
    BY <1>3 DEF SemGive, Done
  <2>2. core.count + 1 \in 0..(IF type = "sem" THEN SemMax ELSE QLen)
    BY <1>1, <1>3, Constants
  <2>3. /\ c \in CoreStates /\ Slot(c, core) /\ Lists(c, core) /\ c.count = core.count + 1
    BY <1>0, <2>2, CountFacts
  <2> HIDE DEF c
  <2>4. /\ Orderly' /\ FrameOK' /\ (core \in CoreStates)' /\ Leaves(c) /\ Rx' = Rx /\ Tx' = Tx
    BY <1>0, <2>1, <2>3, PlainKept
  <2>5. ToldOK' /\ told'.units = told.units + 1
    <3>1. PICK d \in Int : d = -1
        OBVIOUS
    <3>2. told' = Tells(t, d, told.expect)
        BY <2>1, <3>1
    <3>3. told.units \in Int /\ told.expect \in Seq(Tasks)
        BY <1>0 DEF ToldOK
    <3>4. ToldOK' /\ told'.units = told.units - d
        BY <1>0, <3>2, <3>3, ToldFacts DEF ToldOK
    <3> QED
        BY <3>1, <3>3, <3>4
  <2>6. core'.count = core.count + 1 /\ core'.used = core.used /\ core'.wl = core.wl /\ core'.tx = core.tx
    BY <2>3, <2>4 DEF Leaves, Slot, Object, Lists
  <2>7. NothingThere'
    BY <1>0, <1>3, <2>6, NoSenders DEF NothingThere
  <2>8. UnitsAccounted'
    <3>1. Cardinality(Rx) \in Nat /\ Cardinality(Tx) \in Nat /\ told.units \in Int
        BY <1>0, CardFacts, SettledSets DEF ToldOK
    <3>2. told.units = core.count + Cardinality(Rx) - Cardinality(Tx)
        BY <1>0 DEF Accounts, UnitsAccounted, Rx, Tx
    <3>3. told'.units = core'.count + Cardinality(Rx') - Cardinality(Tx')
        BY <1>1, <2>4, <2>5, <2>6, <3>1, <3>2
    <3> QED
        BY <3>3 DEF UnitsAccounted, Rx, Tx
  <2> QED
    BY <2>4, <2>5, <2>7, <2>8, InvParts, TypeParts DEF Accounts, OneHolder, Heir, RingIsQueue
<1>4. CASE core.wl = <<>> /\ ~(core.count < SemMax)
  <2>1. x = Done(core, "FULL") /\ x.r # "OK"
    BY <1>4 DEF SemGive, Done
  <2> QED
    BY <1>0, <2>1, RefusedKept
<1> QED
    BY <1>2, <1>3, <1>4

(* Mutexes. *)
Held(c, o, n) == [c EXCEPT !.owner = o, !.depth = n]

LEMMA HeldFacts ==
    ASSUME NEW c \in CoreStates, NEW o \in Tasks \cup {NoPid}, NEW n \in 0..MaxDepth
    PROVE  LET d == Held(c, o, n) IN
           /\ d \in CoreStates /\ Slot(d, c) /\ Lists(d, c) /\ d.owner = o /\ d.depth = n
BY DEF CoreStates, Slot, Lists, Held

(* A mutex whose holder is not in a wait has no heir. *)
LEMMA NoHeir ==
    ASSUME KobjInv, type = "mutex", core.used, \A u \in Tasks : core.owner = u => pc[u] \notin InWait
    PROVE  Rx = {} /\ \A u \in Tasks : /\ core.owner = u => told.holds[u] > 0 /\ core.depth = told.holds[u]
                                       /\ core.owner # u => told.holds[u] = 0
<1>1. \A u \in Tasks : told.holds[u] \in 0..MaxDepth
    BY InvParts, TypeParts DEF ToldOK
<1>2. OneHolder /\ Heir
    BY InvParts DEF Accounts
<1>3. Rx = {}
    BY <1>2 DEF Heir, Rx, Unsettled
<1>4. ASSUME NEW u \in Tasks
      PROVE  /\ core.owner = u => told.holds[u] > 0 /\ core.depth = told.holds[u]
             /\ core.owner # u => told.holds[u] = 0
  <2>1. /\ told.holds[u] > 0 => core.owner = u /\ core.depth = told.holds[u]
        /\ core.owner = u => told.holds[u] > 0
    BY <1>2, <1>3 DEF OneHolder, Rx
  <2> QED
    BY <1>1, <2>1, Constants
<1> QED
    BY <1>3, <1>4

(* What the mutex and its callers know agree after a step of t, in which h *)
(* may have become the heir.                                               *)
LEMMA MutexAccounts ==
    ASSUME type = "mutex", type' = type, core.used, core'.used, NEW t \in Tasks, NEW n \in 0..MaxDepth,
           \A u \in Tasks : told'.holds[u] = IF u = t THEN n ELSE told.holds[u],
           \A u \in Tasks : u # t => told.holds[u] = 0,
           n > 0 => core'.owner = t /\ core'.depth = n /\ Rx' = {},
           n = 0 => \/ core'.owner = NoPid /\ Rx' = {}
                    \/ \E h \in Tasks : h # t /\ core'.owner = h /\ core'.depth = 1 /\ Rx' = {h}
    PROVE  Accounts'
<1>1. OneHolder'
    BY Constants DEF OneHolder, Rx
<1>2. Heir'
    BY Constants DEF Heir, Rx
<1> QED
    BY <1>1, <1>2 DEF Accounts, UnitsAccounted, RingIsQueue

(* A lock or unlock that hands nothing to another task: t is told n. *)
LEMMA MutexPlain ==
    ASSUME KobjInv, type = "mutex", NEW t \in Tasks, pc[t] = "out", Resolves(core, core.inc),
           core.owner \in {t, NoPid}, NEW o \in {t, NoPid}, NEW n \in 0..MaxDepth, NEW d \in Int, NEW k, NEW w,
           NEW x, x.s = Held(core, o, n), x.r = "OK", x.wk = <<>>, Leave(t, x, k, w), type' = type, wk' = wk,
           told' = Tells(t, d, told.expect), told.holds[t] + d = n,
           n > 0 <=> o = t, o = NoPid => core.wl = <<>>
    PROVE  KobjInv'
<1>0. /\ TypeOK /\ Orderly /\ NothingThere /\ ToldOK /\ core \in CoreStates
      /\ pc[t] \notin InWait /\ pc[t] # "wake" /\ core.used /\ NoPid \notin Tasks
    BY InvParts, TypeParts, Constants DEF InWait, Resolves
<1> DEFINE c == Held(core, o, n)
<1>1. c \in CoreStates /\ Slot(c, core) /\ Lists(c, core) /\ c.owner = o /\ c.depth = n
    BY <1>0, HeldFacts
<1> HIDE DEF c
<1>2. x.s = c
    BY DEF c
<1>3. Orderly' /\ FrameOK' /\ (core \in CoreStates)' /\ Leaves(c) /\ Rx' = Rx
    BY <1>0, <1>1, <1>2, PlainKept
<1>4. core'.owner = o /\ core'.depth = n /\ core'.used /\ core'.wl = core.wl /\ core'.tx = core.tx
    BY <1>0, <1>1, <1>3 DEF Leaves, Slot, Object, Lists
<1>5. told.expect \in Seq(Tasks)
    BY <1>0 DEF ToldOK
<1>6. ToldOK' /\ \A u \in Tasks : told'.holds[u] = IF u = t THEN n ELSE told.holds[u]
    BY SMTT(30), <1>0, <1>5, ToldFacts DEF ToldOK
<1>7. Rx = {} /\ \A u \in Tasks : u # t => told.holds[u] = 0
    BY <1>0, NoHeir
<1>8. NothingThere'
    BY <1>0, <1>4, NoSenders DEF NothingThere
<1>9. n = 0 => o = NoPid
    OBVIOUS
<1>10. Accounts'
    BY <1>0, <1>3, <1>4, <1>6, <1>7, <1>9, MutexAccounts
<1> QED
    BY <1>3, <1>6, <1>8, <1>10, InvParts, TypeParts

LEMMA MutexGetKept ==
    ASSUME KobjInv, type = "mutex", NEW t \in Tasks, pc[t] = "out", Resolves(core, core.inc),
           NEW w \in {"poll", "timed", "late", "forever"}, NEW x, x = MutexLock(core, t, w # "poll"),
           x.s.depth <= MaxDepth, Leave(t, x, core.inc, w), type' = type, wk' = wk,
           told' = IF x.r # "OK" THEN told ELSE Tells(t, 1, told.expect)
    PROVE  KobjInv'
<1>0. /\ TypeOK /\ Orderly /\ core \in CoreStates /\ core.used /\ core.depth \in 0..MaxDepth /\ MaxDepth \in Nat
      /\ pc[t] \notin InWait /\ pc[t] # "wake" /\ NoPid \notin Tasks /\ core.owner \in Tasks \cup {NoPid}
    BY InvParts, TypeParts, CoreTyped, Constants DEF InWait, Resolves
<1>1. CASE core.owner = NoPid
  <2>1. x.s = Held(core, t, 1) /\ x.r = "OK" /\ x.wk = <<>>
    BY <1>1 DEF MutexLock, Done, Held
  <2>2. x.s.depth = 1
    BY <1>0, <2>1 DEF Held, CoreStates
  <2>3. told.holds[t] + 1 = 1
    BY <1>0, <1>1, NoHeir
  <2>4. 1 \in 0..MaxDepth /\ 1 \in Int
    BY <1>0, <2>2
  <2>5. told' = Tells(t, 1, told.expect)
    BY <2>1
  <2> QED
    BY <1>0, <1>1, <2>1, <2>3, <2>4, <2>5, MutexPlain
<1>2. CASE core.owner = t /\ core.rec
  <2>1. x.s = [core EXCEPT !.depth = core.depth + 1] /\ x.r = "OK" /\ x.wk = <<>>
    BY <1>0, <1>2 DEF MutexLock, Done
  <2>2. x.s.depth = core.depth + 1
    BY <1>0, <2>1 DEF CoreStates
  <2>3. x.s = Held(core, t, core.depth + 1)
    BY ZenonT(60), <1>0, <1>2, <2>1 DEF Held, CoreStates
  <2>0. \A u \in Tasks : core.owner = u => pc[u] \notin InWait
    BY <1>0, <1>2
  <2>4. told.holds[t] = core.depth
    BY <1>0, <1>2, <2>0, NoHeir
  <2>5. core.depth + 1 \in 0..MaxDepth /\ core.depth + 1 > 0 /\ 1 \in Int
    BY <1>0, <2>2
  <2>6. told' = Tells(t, 1, told.expect)
    BY <2>1
  <2> QED
    BY <1>0, <1>2, <2>1, <2>3, <2>4, <2>5, <2>6, MutexPlain
<1>3. CASE core.owner = t /\ ~core.rec
  <2>1. x = Done(core, "FAIL") /\ x.r # "OK"
    BY <1>0, <1>3 DEF MutexLock, Done
  <2> QED
    BY <1>0, <2>1, RefusedKept
<1>4. CASE core.owner # t /\ core.owner # NoPid /\ w # "poll"
  <2>1. x.s = Joined(core, t) /\ x.r = "BLOCK" /\ x.wk = <<>>
    BY <1>4 DEF MutexLock, Wait, Joined, Done
  <2> QED
    BY <1>0, <1>4, <2>1, JoinKept
<1>5. CASE core.owner # t /\ core.owner # NoPid /\ w = "poll"
  <2>1. x = Done(core, "AGAIN") /\ x.r # "OK"
    BY <1>5 DEF MutexLock, Wait, Done
  <2> QED
    BY <1>0, <2>1, RefusedKept
<1> QED
    BY <1>1, <1>2, <1>3, <1>4, <1>5

LEMMA MutexPutKept ==
    ASSUME KobjInv, type = "mutex", NEW t \in Tasks, pc[t] = "out", Resolves(core, core.inc),
           NEW w, NEW x, x = MutexUnlock(core, t),
           Leave(t, x, core.inc, w), type' = type, wk' = wk,
           told' = IF x.r # "OK" THEN told ELSE Tells(t, -1, told.expect)
    PROVE  KobjInv'
<1>0. /\ TypeOK /\ Orderly /\ NothingThere /\ ToldOK /\ core \in CoreStates /\ core.used
      /\ core.depth \in 0..MaxDepth /\ MaxDepth \in Nat /\ core.wl \in Seq(Tasks)
      /\ pc[t] \notin InWait /\ pc[t] # "wake" /\ NoPid \notin Tasks /\ core.owner \in Tasks \cup {NoPid}
    BY InvParts, TypeParts, CoreTyped, Constants DEF InWait, Resolves
<1>1. CASE core.owner # t
  <2>1. x = Done(core, "FAIL") /\ x.r # "OK"
    BY <1>1 DEF MutexUnlock, Done
  <2> QED
    BY <1>0, <2>1, RefusedKept
<1>2. ASSUME core.owner = t PROVE Rx = {} /\ told.holds[t] = core.depth /\ core.depth > 0 /\ \A u \in Tasks : u # t => told.holds[u] = 0
  <2>1. \A u \in Tasks : core.owner = u => pc[u] \notin InWait
    BY <1>0, <1>2
  <2> QED
    BY <1>0, <1>2, <2>1, NoHeir
<1>3. CASE core.owner = t /\ core.depth > 1
  <2>1. x.s = [core EXCEPT !.depth = core.depth - 1] /\ x.r = "OK" /\ x.wk = <<>>
    BY <1>0, <1>3 DEF MutexUnlock, Done
  <2>3. x.s = Held(core, t, core.depth - 1)
    BY ZenonT(60), <1>0, <1>3, <2>1 DEF Held, CoreStates
  <2>4. PICK d \in Int : d = -1
    OBVIOUS
  <2>5. told.holds[t] + d = core.depth - 1 /\ core.depth - 1 \in 0..MaxDepth /\ core.depth - 1 > 0
    BY <1>0, <1>2, <1>3, <2>4
  <2>6. told' = Tells(t, d, told.expect)
    BY <2>1, <2>4
  <2> QED
    BY <1>0, <1>3, <2>1, <2>3, <2>5, <2>6, MutexPlain
<1>4. CASE core.owner = t /\ ~(core.depth > 1) /\ core.wl = <<>>
  <2>1. x.s = Held(core, NoPid, 0) /\ x.r = "OK" /\ x.wk = <<>>
    BY <1>0, <1>4 DEF MutexUnlock, Done, Held
  <2>4. PICK d \in Int : d = -1
    OBVIOUS
  <2>5. told.holds[t] + d = 0 /\ 0 \in 0..MaxDepth
    BY <1>0, <1>2, <1>4, <2>4
  <2>6. told' = Tells(t, d, told.expect)
    BY <2>1, <2>4
  <2> QED
    BY <1>0, <1>4, <2>1, <2>5, <2>6, MutexPlain
<1>5. CASE core.owner = t /\ ~(core.depth > 1) /\ core.wl # <<>>
  <2> DEFINE h == Head(core.wl)
             g == GrantHead(core)
             c == Held(g, h, 1)
  <2>1. x.s = c /\ x.r = "OK" /\ x.wk = <<h>>
    BY <1>0, <1>5 DEF MutexUnlock, DoneWake, Held
  <2>2. /\ g \in CoreStates /\ Slot(g, core) /\ g.wl = Tail(core.wl) /\ g.tx = core.tx
        /\ g.side = core.side /\ (\A u \in Tasks : g.st[u] = IF u = h THEN "grant" ELSE core.st[u]) /\ h \in Tasks
    BY <1>0, <1>5, GrantFacts, PopFacts
  <2>3. h = Head(core.wl)
    OBVIOUS
  <2> HIDE DEF g, h
  <2>4. 1 \in 0..MaxDepth
    BY <1>0, <1>2, <1>5
  <2>5. c \in CoreStates /\ Slot(c, g) /\ Lists(c, g) /\ c.owner = h /\ c.depth = 1
    BY <2>2, <2>4, HeldFacts
  <2> HIDE DEF c
  <2>6. /\ Slot(c, core) /\ c.wl = Tail(core.wl) /\ c.tx = core.tx /\ c.side = core.side
        /\ \A u \in Tasks : c.st[u] = IF u = h THEN "grant" ELSE core.st[u]
    BY <2>2, <2>5 DEF Slot, Lists
  <2>7. /\ Orderly' /\ FrameOK' /\ (core \in CoreStates)' /\ Leaves(c) /\ Rx' = Rx \cup {h} /\ h # t
    BY SMTT(30), <1>0, <1>5, <2>1, <2>2, <2>3, <2>5, <2>6, GrantKept
  <2>8. core'.owner = h /\ core'.depth = 1 /\ core'.used /\ core'.tx = core.tx
    BY <1>0, <2>5, <2>6, <2>7 DEF Leaves, Slot, Object
  <2>9. PICK d \in Int : d = -1
    OBVIOUS
  <2>10. told.holds[t] + d = 0 /\ 0 \in 0..MaxDepth
    BY <1>0, <1>2, <1>5, <2>9
  <2>11. told' = Tells(t, d, told.expect) /\ told.expect \in Seq(Tasks)
    BY <1>0, <2>1, <2>9 DEF ToldOK
  <2>12. ToldOK' /\ \A u \in Tasks : told'.holds[u] = IF u = t THEN 0 ELSE told.holds[u]
    <3>1. told.holds[t] + d \in 0..MaxDepth
        BY <2>10
    <3>2. ToldOK'
        BY SMTT(30), <1>0, <2>11, <3>1, ToldFacts DEF ToldOK
    <3>3. \A u \in Tasks : told'.holds[u] = IF u = t THEN told.holds[u] + d ELSE told.holds[u]
        BY <1>0, <2>11, ToldFacts
    <3> QED
        BY <2>10, <3>2, <3>3
  <2>13. Rx' = {h}
    BY <1>2, <1>5, <2>7
  <2>14. NothingThere'
    BY <1>0, <2>2, <2>8, NoSenders DEF NothingThere
  <2>15. Accounts'
    BY <1>0, <1>2, <1>5, <2>2, <2>7, <2>8, <2>10, <2>12, <2>13, MutexAccounts
  <2> QED
    BY <2>7, <2>12, <2>14, <2>15, InvParts, TypeParts
<1> QED
    BY <1>1, <1>3, <1>4, <1>5

-----------------------------------------------------------------------------
(* Queues: the ring as a sequence.                                         *)

(* One time around the ring. *)
LEMMA OnceAround ==
    ASSUME NEW m \in Nat \ {0}
    PROVE  \A x \in 0..(2 * m - 1) : x % m = IF x < m THEN x ELSE x - m
<1> SUFFICES ASSUME NEW x \in 0..(2 * m - 1) PROVE x % m = IF x < m THEN x ELSE x - m
    OBVIOUS
<1>1. CASE x < m
    BY <1>1, ModFacts
<1>2. CASE ~(x < m)
  <2>1. x - m \in 0..(m - 1) /\ x = (x - m) + m
    BY <1>2
  <2>2. x % m = (x - m) % m
    BY <2>1
  <2> QED
    BY <1>2, <2>1, <2>2, ModFacts
<1> QED
    BY <1>1, <1>2

(* The place of the i-th item, and the items in their order. *)
Pos(h, i) == IF h + i - 1 < QLen THEN h + i - 1 ELSE h + i - 1 - QLen
View(c)   == [i \in 1..c.count |-> c.buf[(c.head + i - 1) % QLen]]

LEMMA RingFacts ==
    ASSUME NEW h \in Ring
    PROVE  /\ \A i \in 1..QLen : (h + i - 1) % QLen = Pos(h, i) /\ Pos(h, i) \in Ring
           /\ \A i, j \in 1..QLen : Pos(h, i) = Pos(h, j) => i = j
           /\ Pos(h, 1) = h
           /\ \A n \in 0..(QLen - 1) : (h + n) % QLen = Pos(h, n + 1)
           /\ (h + QLen - 1) % QLen = Pos(h, QLen)
           /\ \A i \in 1..(QLen - 1) : Pos(Pos(h, QLen), i + 1) = Pos(h, i) /\ Pos(h, i) # Pos(h, QLen)
           /\ (h + 1) % QLen \in Ring /\ \A i \in 1..(QLen - 1) : Pos((h + 1) % QLen, i) = Pos(h, i + 1)
<1> DEFINE m == QLen
<1>0. m \in Nat \ {0} /\ h \in 0..(m - 1) /\ Ring = 0..(m - 1)
    BY Constants DEF Ring
<1>1. \A x \in 0..(2 * m - 1) : x % m = IF x < m THEN x ELSE x - m
    BY <1>0, OnceAround
<1>2. \A i \in 1..m : h + i - 1 \in 0..(2 * m - 1) /\ h + i - 1 \in Int
    BY <1>0
<1>3. \A i \in 1..m : (h + i - 1) % m = Pos(h, i) /\ Pos(h, i) \in Ring
  <2> TAKE i \in 1..m
  <2>1. PICK x \in 0..(2 * m - 1) : x = h + i - 1
    BY <1>2
  <2>2. x % m = IF x < m THEN x ELSE x - m
    BY <1>1, Zenon
  <2>3. Pos(h, i) = (IF x < m THEN x ELSE x - m) /\ (h + i - 1) % m = x % m
    BY <1>0, <2>1 DEF Pos
  <2>4. (IF x < m THEN x ELSE x - m) \in 0..(m - 1)
    BY <1>0
  <2> QED
    BY ONLY <1>0, <2>2, <2>3, <2>4
<1>4. \A i, j \in 1..m : Pos(h, i) = Pos(h, j) => i = j
    BY <1>0 DEF Pos
<1>5. Pos(h, 1) = h
    BY <1>0 DEF Pos
<1>6. \A n \in 0..(m - 1) : (h + n) % m = Pos(h, n + 1)
  <2> TAKE n \in 0..(m - 1)
  <2>1. n + 1 \in 1..m /\ h + (n + 1) - 1 = h + n
    BY <1>0
  <2> QED
    BY <1>3, <2>1
<1>7. (h + m - 1) % m = Pos(h, m)
    BY <1>0, <1>3
<1>8. \A i \in 1..(m - 1) : Pos(Pos(h, m), i + 1) = Pos(h, i) /\ Pos(h, i) # Pos(h, m)
    BY <1>0 DEF Pos
<1>9. (h + 1) % m = IF h + 1 < m THEN h + 1 ELSE 0
  <2>1. PICK x \in 0..(2 * m - 1) : x = h + 1
    BY <1>0
  <2>2. x % m = IF x < m THEN x ELSE x - m
    BY <1>1, Zenon
  <2>3. (h + 1) % m = x % m
    BY <2>1
  <2>4. (IF x < m THEN x ELSE x - m) = IF h + 1 < m THEN h + 1 ELSE 0
    BY <1>0, <2>1
  <2> QED
    BY ONLY <2>2, <2>3, <2>4
<1>10. (h + 1) % m \in Ring /\ \A i \in 1..(m - 1) : Pos((h + 1) % m, i) = Pos(h, i + 1)
  <2> DEFINE g == (h + 1) % m
  <2>1. g = IF h + 1 < m THEN h + 1 ELSE 0
    BY <1>9
  <2> HIDE DEF g
  <2>2. g \in Ring /\ \A i \in 1..(m - 1) : Pos(g, i) = Pos(h, i + 1)
    BY <1>0, <2>1 DEF Pos
  <2> QED
    BY <2>2 DEF g
<1> QED
    BY <1>3, <1>4, <1>5, <1>6, <1>7, <1>8, <1>10

LEMMA ViewFacts ==
    ASSUME NEW c \in CoreStates, type # "sem"
    PROVE  /\ View(c) \in Seq(Tasks \cup {NoPid}) /\ Len(View(c)) = c.count
           /\ c.count \in 0..QLen /\ c.head \in Ring
           /\ \A i \in 1..c.count : View(c)[i] = c.buf[Pos(c.head, i)]
<1>0. c.count \in 0..QLen /\ c.head \in Ring /\ c.buf \in [Ring -> Tasks \cup {NoPid}] /\ QLen \in Nat
    BY CoreTyped, Constants
<1>1. \A i \in 1..c.count : (c.head + i - 1) % QLen = Pos(c.head, i) /\ Pos(c.head, i) \in Ring
  <2> TAKE i \in 1..c.count
  <2>1. i \in 1..QLen
    BY <1>0
  <2> QED
    BY <1>0, <2>1, RingFacts
<1> DEFINE v == View(c)
<1>2. v = [i \in 1..c.count |-> c.buf[(c.head + i - 1) % QLen]]
    BY DEF View
<1> HIDE DEF v
<1>3. v \in [1..c.count -> Tasks \cup {NoPid}] /\ \A i \in 1..c.count : v[i] = c.buf[Pos(c.head, i)]
    BY <1>0, <1>1, <1>2
<1>4. PICK n \in Nat : n = c.count
    BY <1>0
<1>5. v \in Seq(Tasks \cup {NoPid})
    BY <1>3, <1>4, SeqDef
<1>6. Len(v) = c.count
  <2>1. 1..Len(v) = 1..n /\ Len(v) \in Nat
    BY <1>3, <1>4, <1>5, LenProperties
  <2>2. PICK l \in Nat : l = Len(v)
    BY <2>1
  <2>3. 1..l = 1..n => l = n
    <3>1. l > n => l \in 1..l /\ l \notin 1..n
        OBVIOUS
    <3>2. n > l => n \in 1..n /\ n \notin 1..l
        OBVIOUS
    <3> QED
        BY <3>1, <3>2
  <2> QED
    BY <1>4, <2>1, <2>2, <2>3
<1> QED
    BY <1>0, <1>3, <1>5, <1>6 DEF v

(* Sequences that agree everywhere are the same. *)
LEMMA SameSeq ==
    ASSUME NEW S, NEW s \in Seq(S), NEW t \in Seq(S), NEW n \in Nat, Len(s) = n, Len(t) = n,
           \A i \in 1..n : s[i] = t[i]
    PROVE  s = t
BY SeqEqual

(* q_push() appends, or puts an item first. *)
LEMMA ViewPush ==
    ASSUME NEW c \in CoreStates, type # "sem", c.count < QLen, NEW i \in Tasks, NEW front
    PROVE  View(Push(c, i, front)) = Sent(View(c), i, front)
<1> DEFINE d == Push(c, i, front)
           v == View(c)
           S == Tasks \cup {NoPid}
           n == c.count
           h == c.head
<1>1. /\ d \in CoreStates /\ d.count = n + 1 /\ d.head = (IF front THEN Place(c, front) ELSE h)
      /\ \A p \in Ring : d.buf[p] = IF p = Place(c, front) THEN i ELSE c.buf[p]
    BY PutFacts
<1>2. v \in Seq(S) /\ Len(v) = n /\ n \in Nat /\ h \in Ring /\ \A j \in 1..n : v[j] = c.buf[Pos(h, j)]
    BY ViewFacts
<1>3. View(d) \in Seq(S) /\ Len(View(d)) = n + 1 /\ \A j \in 1..(n + 1) : View(d)[j] = d.buf[Pos(d.head, j)]
    BY <1>1, ViewFacts
<1>4. n \in 0..(QLen - 1) /\ n + 1 \in 1..QLen /\ QLen \in Nat \ {0} /\ n + 1 \in Nat
    BY <1>2, Constants
<1>5. CASE front
  <2>1. Place(c, front) = Pos(h, QLen) /\ d.head = Pos(h, QLen) /\ Pos(h, QLen) \in Ring
    BY <1>1, <1>2, <1>4, <1>5, RingFacts DEF Place
  <2>2. <<i>> \o v \in Seq(S) /\ Len(<<i>> \o v) = n + 1
        /\ (<<i>> \o v)[1] = i /\ \A j \in 1..n : (<<i>> \o v)[j + 1] = v[j]
    BY <1>2
  <2>3. View(d)[1] = i
    <3>1. Pos(d.head, 1) = d.head /\ 1 \in 1..(n + 1)
        BY <1>4, <2>1, RingFacts
    <3> QED
        BY <1>1, <1>3, <2>1, <3>1
  <2>4. \A j \in 1..n : View(d)[j + 1] = v[j]
    <3> TAKE j \in 1..n
    <3>1. j \in 1..(QLen - 1) /\ j + 1 \in 1..(n + 1) /\ j \in 1..QLen
        BY <1>4
    <3>2. Pos(d.head, j + 1) = Pos(h, j) /\ Pos(h, j) # Pos(h, QLen) /\ Pos(h, j) \in Ring
        BY <1>2, <2>1, <3>1, RingFacts
    <3> QED
        BY <1>1, <1>2, <1>3, <2>1, <3>1, <3>2
  <2>5. ASSUME NEW j \in 1..(n + 1) PROVE View(d)[j] = (<<i>> \o v)[j]
    <3>1. j = 1 \/ (j - 1 \in 1..n /\ (j - 1) + 1 = j)
        BY <1>4
    <3> QED
        BY <2>2, <2>3, <2>4, <3>1
  <2>6. View(d) = <<i>> \o v
    BY <1>3, <1>4, <2>2, <2>5, SameSeq
  <2> QED
    BY <1>5, <2>6 DEF Sent
<1>6. CASE ~front
  <2>1. Place(c, front) = Pos(h, n + 1) /\ d.head = h /\ Pos(h, n + 1) \in Ring
    BY <1>1, <1>2, <1>4, <1>6, RingFacts DEF Place
  <2>2. Append(v, i) \in Seq(S) /\ Len(Append(v, i)) = n + 1
        /\ Append(v, i)[n + 1] = i /\ \A j \in 1..n : Append(v, i)[j] = v[j]
    BY <1>2, AppendProperties
  <2>3. View(d)[n + 1] = i
    BY <1>1, <1>3, <1>4, <2>1
  <2>4. \A j \in 1..n : View(d)[j] = v[j]
    <3> TAKE j \in 1..n
    <3>1. j \in 1..QLen /\ j \in 1..(n + 1) /\ j # n + 1
        BY <1>4
    <3>2. Pos(h, j) # Pos(h, n + 1) /\ Pos(h, j) \in Ring
        BY <1>2, <1>4, <3>1, RingFacts
    <3> QED
        BY <1>1, <1>2, <1>3, <2>1, <3>1, <3>2
  <2>5. ASSUME NEW j \in 1..(n + 1) PROVE View(d)[j] = Append(v, i)[j]
    <3>1. j = n + 1 \/ j \in 1..n
        BY <1>4
    <3> QED
        BY <2>2, <2>3, <2>4, <3>1
  <2>6. View(d) = Append(v, i)
    BY <1>3, <1>4, <2>2, <2>5, SameSeq
  <2> QED
    BY <1>6, <2>6 DEF Sent
<1> QED
    BY <1>5, <1>6

(* kq_recv() takes the first item off. *)
LEMMA ViewTake ==
    ASSUME NEW c \in CoreStates, type # "sem", c.count > 0
    PROVE  View(Taken(c)) = Tail(View(c)) /\ View(c) # <<>>
<1> DEFINE d == Taken(c)
           v == View(c)
           S == Tasks \cup {NoPid}
           n == c.count
           h == c.head
<1>1. d \in CoreStates /\ d.count = n - 1 /\ d.head = (h + 1) % QLen /\ d.buf = c.buf
    BY TakeFacts
<1>2. v \in Seq(S) /\ Len(v) = n /\ n \in 1..QLen /\ h \in Ring /\ \A j \in 1..n : v[j] = c.buf[Pos(h, j)]
    BY ViewFacts
<1>3. View(d) \in Seq(S) /\ Len(View(d)) = n - 1 /\ \A j \in 1..(n - 1) : View(d)[j] = d.buf[Pos(d.head, j)]
    BY <1>1, ViewFacts
<1>4. v # <<>> /\ n - 1 \in Nat /\ QLen \in Nat \ {0}
    BY <1>2, EmptySeq, Constants
<1>5. Tail(v) \in Seq(S) /\ Len(Tail(v)) = n - 1 /\ \A j \in 1..(n - 1) : Tail(v)[j] = v[j + 1]
    BY <1>2, <1>4, HeadTailProperties
<1>6. ASSUME NEW j \in 1..(n - 1) PROVE View(d)[j] = Tail(v)[j]
  <2>1. j \in 1..(QLen - 1) /\ j + 1 \in 1..n
    BY <1>2, <1>4
  <2>2. Pos(d.head, j) = Pos(h, j + 1)
    BY <1>1, <1>2, <2>1, RingFacts
  <2> QED
    BY <1>1, <1>2, <1>3, <1>5, <2>1, <2>2
<1>7. View(d) = Tail(v)
    BY <1>3, <1>4, <1>5, <1>6, SameSeq
<1> QED
    BY <1>4, <1>7

(* What a queue and its callers know agree after a step. *)
LEMMA QueueAccounts ==
    ASSUME type = "queue", type' = type, told'.expect = View(core'),
           told'.units = core'.count + Cardinality(Rx') - Cardinality(Tx')
    PROVE  Accounts'
<1>1. OneHolder' /\ Heir'
    BY DEF OneHolder, Heir
<1>2. UnitsAccounted'
    BY DEF UnitsAccounted, Rx, Tx
<1>3. RingIsQueue'
    BY DEF RingIsQueue, View
<1> QED
    BY <1>1, <1>2, <1>3 DEF Accounts

LEMMA QueueFacts ==
    ASSUME KobjInv, type = "queue", core.used
    PROVE  /\ told.expect = View(core) /\ told.expect \in Seq(Tasks)
           /\ told.units = core.count + Cardinality(Rx) - Cardinality(Tx)
           /\ told.units \in Int /\ Cardinality(Rx) \in Nat /\ Cardinality(Tx) \in Nat
           /\ core.count \in 0..QLen /\ QLen \in Nat \ {0}
           /\ core.wl # <<>> => core.count = 0 /\ core.tx = <<>>
           /\ core.tx # <<>> => core.count = QLen /\ core.wl = <<>>
<1>1. TypeOK /\ NothingThere /\ UnitsAccounted /\ RingIsQueue /\ core \in CoreStates /\ ToldOK
    BY InvParts, TypeParts DEF Accounts
<1>2. told.expect = View(core) /\ told.units = core.count + Cardinality(Rx) - Cardinality(Tx)
    BY <1>1 DEF UnitsAccounted, RingIsQueue, View, Rx, Tx
<1>3. told.expect \in Seq(Tasks) /\ told.units \in Int /\ Cardinality(Rx) \in Nat /\ Cardinality(Tx) \in Nat
    BY <1>1, CardFacts, SettledSets DEF ToldOK
<1>4. core.count \in 0..QLen /\ QLen \in Nat \ {0}
    BY <1>1, CoreTyped, Constants
<1>5. /\ core.wl # <<>> => core.count = 0 /\ core.tx = <<>>
      /\ core.tx # <<>> => core.count = QLen /\ core.wl = <<>>
    BY <1>1, <1>4 DEF NothingThere
<1> QED
    BY <1>2, <1>3, <1>4, <1>5

LEMMA SentTyped ==
    ASSUME NEW s \in Seq(Tasks), NEW i \in Tasks, NEW front
    PROVE  Sent(s, i, front) \in Seq(Tasks)
BY AppendProperties DEF Sent

LEMMA QueuePutKept ==
    ASSUME KobjInv, type = "queue", NEW t \in Tasks, pc[t] = "out", Resolves(core, core.inc),
           NEW w \in {"poll", "timed", "late", "forever"}, NEW front, NEW x, x = QSend(core, t, front, w # "poll"),
           Leave(t, x, core.inc, w), type' = type, wk' = wk,
           told' = IF x.r # "OK" THEN told
                   ELSE Tells(t, -1, IF core.wl = <<>> THEN Sent(told.expect, t, front) ELSE told.expect)
    PROVE  KobjInv'
<1>0. /\ TypeOK /\ Orderly /\ ToldOK /\ core \in CoreStates
      /\ pc[t] \notin InWait /\ pc[t] # "wake" /\ core.used /\ core.wl \in Seq(Tasks)
    BY InvParts, TypeParts, CoreTyped DEF InWait, Resolves
<1>1. /\ told.expect = View(core) /\ told.expect \in Seq(Tasks)
      /\ told.units = core.count + Cardinality(Rx) - Cardinality(Tx)
      /\ told.units \in Int /\ Cardinality(Rx) \in Nat /\ Cardinality(Tx) \in Nat
      /\ core.count \in 0..QLen /\ QLen \in Nat \ {0}
      /\ core.wl # <<>> => core.count = 0 /\ core.tx = <<>>
      /\ core.tx # <<>> => core.count = QLen /\ core.wl = <<>>
    BY <1>0, QueueFacts
<1>2. PICK d \in Int : d = -1
    OBVIOUS
<1>3. CASE core.wl # <<>>
  <2> DEFINE c == GrantHead(core)
             h == Head(core.wl)
  <2>1. x.s = c /\ x.r = "OK" /\ x.wk = <<h>>
    BY <1>3 DEF QSend, DoneWake
  <2>2. /\ c \in CoreStates /\ Slot(c, core) /\ Object(c, core) /\ c.wl = Tail(core.wl) /\ c.tx = core.tx
        /\ c.side = core.side /\ (\A u \in Tasks : c.st[u] = IF u = h THEN "grant" ELSE core.st[u]) /\ h \in Tasks
    BY <1>0, <1>3, GrantFacts, PopFacts
  <2>3. h = Head(core.wl)
    OBVIOUS
  <2> HIDE DEF c, h
  <2>4. /\ Orderly' /\ FrameOK' /\ (core \in CoreStates)' /\ Leaves(c)
        /\ Rx' = Rx \cup {h} /\ h \notin Rx /\ Tx' = Tx
    BY <1>0, <1>3, <2>1, <2>2, <2>3, GrantKept
  <2>5. told' = Tells(t, d, told.expect)
    BY <1>2, <1>3, <2>1
  <2>6. ToldOK' /\ told'.units = told.units - d /\ told'.expect = told.expect
    BY <1>0, <1>1, <2>5, ToldFacts DEF ToldOK
  <2>7. core'.count = core.count /\ core'.used = core.used /\ core'.tx = core.tx /\ View(core') = View(core)
    BY <2>2, <2>4 DEF Leaves, Slot, Object, View
  <2>8. NothingThere'
    BY <1>1, <1>3, <2>7 DEF NothingThere
  <2>9. Cardinality(Rx') = Cardinality(Rx) + 1
    BY <2>2, <2>4, CardFacts, SettledSets
  <2>10. told'.units = core'.count + Cardinality(Rx') - Cardinality(Tx')
    BY <1>1, <1>2, <2>4, <2>6, <2>7, <2>9
  <2>11. Accounts'
    BY <1>1, <2>6, <2>7, <2>10, QueueAccounts
  <2> QED
    BY <2>4, <2>6, <2>8, <2>11, InvParts, TypeParts
<1>4. CASE core.wl = <<>> /\ core.count < QLen
  <2> DEFINE c == Push(core, t, front)
  <2>1. x.s = c /\ x.r = "OK" /\ x.wk = <<>>
    BY <1>4 DEF QSend, Done
  <2>2. c \in CoreStates /\ Slot(c, core) /\ Lists(c, core) /\ c.count = core.count + 1
    BY <1>0, <1>4, PutFacts
  <2>3. View(c) = Sent(View(core), t, front)
    BY <1>0, <1>4, ViewPush
  <2> HIDE DEF c
  <2>4. /\ Orderly' /\ FrameOK' /\ (core \in CoreStates)' /\ Leaves(c) /\ Rx' = Rx /\ Tx' = Tx
    BY <1>0, <2>1, <2>2, PlainKept
  <2> DEFINE e == Sent(told.expect, t, front)
  <2>5. told' = Tells(t, d, e) /\ e \in Seq(Tasks) /\ e = View(c)
    BY <1>1, <1>2, <1>4, <2>1, <2>3, SentTyped
  <2> HIDE DEF e
  <2>6. ToldOK' /\ told'.units = told.units - d /\ told'.expect = e
    <3>1. told'.units = told.units - d /\ told'.expect = e
        BY <1>0, <2>5, ToldFacts
    <3>2. told' \in [units : Int, holds : [Tasks -> 0..MaxDepth], expect : Seq(Tasks)]
        BY <1>0, <2>5, ToldFacts
    <3> QED
        BY <3>1, <3>2 DEF ToldOK
  <2>7. core'.count = core.count + 1 /\ core'.wl = core.wl /\ core'.tx = core.tx /\ View(core') = View(c)
    BY <2>2, <2>4 DEF Leaves, Slot, Object, Lists, View
  <2>8. NothingThere'
    BY <1>1, <1>4, <2>7 DEF NothingThere
  <2>10. told'.units = core'.count + Cardinality(Rx') - Cardinality(Tx')
    BY <1>1, <1>2, <2>4, <2>6, <2>7
  <2>11. Accounts'
    BY <1>1, <2>5, <2>6, <2>7, <2>10, QueueAccounts
  <2> QED
    BY <2>4, <2>6, <2>8, <2>11, InvParts, TypeParts
<1>5. CASE core.wl = <<>> /\ ~(core.count < QLen) /\ w # "poll"
  <2>1. x.s = JoinedTx(core, t, front) /\ x.r = "BLOCK" /\ x.wk = <<>>
    BY <1>5 DEF QSend, Done, JoinedTx
  <2>2. core.count = QLen /\ told' = told
    BY <1>1, <1>5, <2>1
  <2> QED
    BY <1>0, <2>1, <2>2, JoinKept
<1>6. CASE core.wl = <<>> /\ ~(core.count < QLen) /\ w = "poll"
  <2>1. x = Done(core, "FULL") /\ x.r # "OK"
    BY <1>6 DEF QSend, Done
  <2> QED
    BY <1>0, <2>1, RefusedKept
<1> QED
    BY <1>3, <1>4, <1>5, <1>6

LEMMA QueueGetKept ==
    ASSUME KobjInv, type = "queue", NEW t \in Tasks, pc[t] = "out", Resolves(core, core.inc),
           NEW w \in {"poll", "timed", "late", "forever"}, NEW x, x = QRecv(core, t, w # "poll"),
           Leave(t, x, core.inc, w), type' = type, wk' = wk,
           told' = IF x.r # "OK" THEN told ELSE Tells(t, 1, Received(told.expect, core))
    PROVE  KobjInv'
<1>0. /\ TypeOK /\ Orderly /\ ToldOK /\ core \in CoreStates
      /\ pc[t] \notin InWait /\ pc[t] # "wake" /\ core.used /\ core.tx \in Seq(Tasks)
    BY InvParts, TypeParts, CoreTyped DEF InWait, Resolves
<1>1. /\ told.expect = View(core) /\ told.expect \in Seq(Tasks)
      /\ told.units = core.count + Cardinality(Rx) - Cardinality(Tx)
      /\ told.units \in Int /\ Cardinality(Rx) \in Nat /\ Cardinality(Tx) \in Nat
      /\ core.count \in 0..QLen /\ QLen \in Nat \ {0}
      /\ core.wl # <<>> => core.count = 0 /\ core.tx = <<>>
      /\ core.tx # <<>> => core.count = QLen /\ core.wl = <<>>
    BY <1>0, QueueFacts
<1>2. core.count > 0 => /\ View(Taken(core)) = Tail(told.expect) /\ Tail(told.expect) \in Seq(Tasks)
                        /\ Taken(core) \in CoreStates /\ Taken(core).count = core.count - 1
                        /\ Slot(Taken(core), core) /\ Lists(Taken(core), core)
    BY <1>0, <1>1, ViewTake, TakeFacts, PopFacts
<1>3. CASE core.count > 0 /\ core.tx = <<>>
  <2> DEFINE c == Taken(core)
             e == Tail(told.expect)
  <2>1. x.s = c /\ x.r = "OK" /\ x.wk = <<>>
    BY <1>3 DEF QRecv, Done, Taken
  <2>2. /\ c \in CoreStates /\ Slot(c, core) /\ Lists(c, core) /\ c.count = core.count - 1
        /\ View(c) = e /\ e \in Seq(Tasks)
    BY <1>2, <1>3
  <2>3. Received(told.expect, core) = e
    BY <1>3 DEF Received
  <2> HIDE DEF c, e
  <2>4. /\ Orderly' /\ FrameOK' /\ (core \in CoreStates)' /\ Leaves(c) /\ Rx' = Rx /\ Tx' = Tx
    BY <1>0, <2>1, <2>2, PlainKept
  <2>5. told' = Tells(t, 1, e)
    BY <2>1, <2>3
  <2>6. ToldOK' /\ told'.units = told.units - 1 /\ told'.expect = e
    BY SMTT(30), <1>0, <1>1, <2>2, <2>5, ToldFacts DEF ToldOK
  <2>7. core'.count = core.count - 1 /\ core'.wl = core.wl /\ core'.tx = core.tx /\ View(core') = View(c)
    BY <2>2, <2>4 DEF Leaves, Slot, Object, Lists, View
  <2>8. NothingThere'
    BY <1>1, <1>3, <2>7 DEF NothingThere
  <2>10. told'.units = core'.count + Cardinality(Rx') - Cardinality(Tx')
    BY <1>1, <2>4, <2>6, <2>7
  <2>11. Accounts'
    BY <1>1, <2>2, <2>6, <2>7, <2>10, QueueAccounts
  <2> QED
    BY <2>4, <2>6, <2>8, <2>11, InvParts, TypeParts
<1>4. CASE core.count > 0 /\ core.tx # <<>>
  <2> DEFINE c == Admitted(core)
             h == Head(core.tx)
             f == core.side[h] = "front"
             e == Sent(Tail(told.expect), h, f)
  <2>1. x.s = c /\ x.r = "OK" /\ x.wk = <<h>>
    BY <1>4 DEF QRecv, DoneWake, Admitted, Taken
  <2>2. /\ c \in CoreStates /\ Slot(c, core) /\ c.count = core.count /\ c.tx = Tail(core.tx) /\ c.wl = core.wl
        /\ c.side = core.side /\ (\A u \in Tasks : c.st[u] = IF u = h THEN "grant" ELSE core.st[u])
    BY <1>0, <1>4, AdmitFacts
  <2>3. h \in Tasks
    BY <1>0, <1>4, PopFacts
  <2>4. View(c) = e /\ e \in Seq(Tasks)
    <3> DEFINE p == Push(Taken(core), h, f)
    <3>1. Taken(core).count < QLen
        BY <1>1, <1>2, <1>4
    <3>2. p \in CoreStates /\ View(p) = Sent(View(Taken(core)), h, f)
        BY <1>2, <1>4, <2>3, <3>1, PutFacts, ViewPush
    <3>3. c = [p EXCEPT !.st[h] = "grant", !.tx = Tail(@)]
        BY DEF Admitted
    <3> HIDE DEF p, c
    <3>4. c.count = p.count /\ c.head = p.head /\ c.buf = p.buf
        BY <3>2, <3>3 DEF CoreStates
    <3>5. View(c) = View(p)
        BY <3>4 DEF View
    <3> QED
        BY <1>2, <1>4, <2>3, <3>2, <3>5, SentTyped
  <2>5. Received(told.expect, core) = e
    BY <1>4 DEF Received
  <2>6. h = Head(core.tx)
    OBVIOUS
  <2> HIDE DEF c, h, e
  <2>7. /\ Orderly' /\ FrameOK' /\ (core \in CoreStates)' /\ Leaves(c)
        /\ Tx' = Tx \cup {h} /\ h \notin Tx /\ Rx' = Rx
    BY <1>0, <1>4, <2>1, <2>2, <2>3, <2>6, GrantKept
  <2>8. told' = Tells(t, 1, e)
    BY <2>1, <2>5
  <2>9. ToldOK' /\ told'.units = told.units - 1 /\ told'.expect = e
    BY <1>0, <1>1, <2>4, <2>8, ToldFacts DEF ToldOK
  <2>10. core'.count = core.count /\ core'.wl = core.wl /\ View(core') = View(c)
    BY <2>2, <2>7 DEF Leaves, Slot, Object, Lists, View
  <2>11. NothingThere'
    BY <1>1, <1>4, <2>10 DEF NothingThere
  <2>12. Cardinality(Tx') = Cardinality(Tx) + 1
    BY <2>3, <2>7, CardFacts, SettledSets
  <2>13. told'.units = core'.count + Cardinality(Rx') - Cardinality(Tx')
    BY <1>1, <2>7, <2>9, <2>10, <2>12
  <2>14. Accounts'
    BY <1>1, <2>4, <2>9, <2>10, <2>13, QueueAccounts
  <2> QED
    BY <2>7, <2>9, <2>11, <2>14, InvParts, TypeParts
<1>5. CASE ~(core.count > 0) /\ w # "poll"
  <2>1. x.s = Joined(core, t) /\ x.r = "BLOCK" /\ x.wk = <<>>
    BY <1>5 DEF QRecv, Wait, Joined, Done
  <2>2. core.count = 0 /\ told' = told
    BY <1>1, <1>5, <2>1
  <2> QED
    BY <1>0, <2>1, <2>2, JoinKept
<1>6. CASE ~(core.count > 0) /\ w = "poll"
  <2>1. x = Done(core, "AGAIN") /\ x.r # "OK"
    BY <1>6 DEF QRecv, Wait, Done
  <2> QED
    BY <1>0, <2>1, RefusedKept
<1> QED
    BY <1>3, <1>4, <1>5, <1>6

-----------------------------------------------------------------------------
(* The cancel that settles a wait.                                         *)
LEMMA TellsSame ==
    ASSUME ToldOK, NEW t \in Tasks, NEW d \in Int
    PROVE  Told(t, core.inc, d) = Tells(t, d, told.expect)
BY DEF ToldOK, Told, Tells

(* The waiter leaves the frame of its call, and the lists. *)
LEMMA CancelLeaves ==
    ASSUME TypeOK, Orderly, NEW t \in Tasks, pc[t] = "cancel", NEW c \in CoreStates,
           Slot(c, core), Object(c, core), Distinct(c.wl), Distinct(c.tx),
           \A u \in Tasks : /\ In(c.wl, u) <=> In(core.wl, u) /\ u # t
                            /\ In(c.tx, u) <=> In(core.tx, u) /\ u # t
                            /\ u # t => c.st[u] = core.st[u]
                            /\ c.side[u] = core.side[u],
           NEW x, x.s = c, x.r # "BLOCK", x.wk = <<>>, NEW k, NEW w, Leave(t, x, k, w), type' = type, wk' = wk
    PROVE  /\ Orderly' /\ FrameOK' /\ (core \in CoreStates)'
           /\ Slot(core', core) /\ Object(core', core) /\ core'.wl = c.wl /\ core'.tx = c.tx
           /\ \A u \in Tasks : u # t => (Granted(u)' <=> Granted(u)) /\ hnd'[u] = hnd[u]
           /\ \A u \in Tasks : u # t => core'.side[u] = core.side[u]
           /\ ~Granted(t)'
<1>0. <<>> \in Seq(Tasks)
    BY EmptySeq
<1>1. /\ core' = Gone(c, t) /\ Others(t) /\ FrameOK'
      /\ pc'[t] = "out" /\ hnd'[t] = 0 /\ wake'[t] = <<>>
    BY <1>0, LeaveDone
<1>2. /\ core' \in CoreStates /\ Slot(core', c) /\ Object(core', c) /\ core'.wl = c.wl /\ core'.tx = c.tx
      /\ \A u \in Tasks : /\ core'.st[u] = IF u = t THEN "idle" ELSE c.st[u]
                          /\ core'.side[u] = IF u = t THEN "rx" ELSE c.side[u]
    BY <1>1, GoneFacts
<1>3. Slot(core', core) /\ Object(core', core)
    BY <1>2 DEF Slot, Object
<1>4. \A u \in Tasks : /\ core'.st[u] = IF u = t THEN "idle" ELSE core.st[u]
                       /\ core'.side[u] = IF u = t THEN "rx" ELSE core.side[u]
    BY <1>2
<1>5. \A u \in Tasks : /\ In(core'.wl, u) <=> In(core.wl, u) /\ u # t
                       /\ In(core'.tx, u) <=> In(core.tx, u) /\ u # t
    BY <1>2
<1>6. Distinct(core'.wl) /\ Distinct(core'.tx)
    BY <1>2
<1>7. Orderly'
    BY <1>1, <1>3, <1>4, <1>5, <1>6, OrderlyCancel
<1>8. (core \in CoreStates)'
    BY <1>2 DEF CoreStates
<1>9. /\ \A u \in Tasks : u # t => (Granted(u)' <=> Granted(u)) /\ hnd'[u] = hnd[u]
      /\ \A u \in Tasks : u # t => core'.side[u] = core.side[u]
      /\ ~Granted(t)'
    BY <1>1, <1>4 DEF Granted, Others, InWait
<1> QED
    BY <1>1, <1>2, <1>3, <1>7, <1>8, <1>9

(* A waiter that knows is no longer one of those that do not. *)
LEMMA SettledLess ==
    ASSUME Slot(core', core), NEW t \in Tasks, ~Granted(t)',
           \A u \in Tasks : u # t => (Granted(u)' <=> Granted(u)) /\ hnd'[u] = hnd[u],
           \A u \in Tasks : u # t => core'.side[u] = core.side[u]
    PROVE  /\ Rx' = Rx \ {t} /\ Tx' = Tx \ {t}
           /\ ~Granted(t) \/ hnd[t] # core.inc => Rx' = Rx /\ Tx' = Tx
           /\ Granted(t) /\ hnd[t] = core.inc /\ core.side[t] = "rx" => t \in Rx /\ t \notin Tx
           /\ Granted(t) /\ hnd[t] = core.inc /\ core.side[t] \in {"back", "front"} => t \in Tx /\ t \notin Rx
BY DEF Slot, Granted, Rx, Tx, Unsettled

(* A wait that came to nothing, or to something of an object that is gone. *)
LEMMA CancelUntold ==
    ASSUME KobjInv, NEW t \in Tasks, pc[t] = "cancel", ~Granted(t) \/ hnd[t] # core.inc, NEW c \in CoreStates,
           Slot(c, core), Object(c, core), Distinct(c.wl), Distinct(c.tx),
           core.wl = <<>> => c.wl = <<>>, core.tx = <<>> => c.tx = <<>>,
           \A u \in Tasks : /\ In(c.wl, u) <=> In(core.wl, u) /\ u # t
                            /\ In(c.tx, u) <=> In(core.tx, u) /\ u # t
                            /\ u # t => c.st[u] = core.st[u]
                            /\ c.side[u] = core.side[u],
           NEW x, x.s = c, x.r # "BLOCK", x.wk = <<>>, NEW k, NEW w, Leave(t, x, k, w), type' = type, wk' = wk,
           told' = told
    PROVE  KobjInv'
<1>0. TypeOK /\ Orderly /\ NothingThere /\ Accounts /\ ToldOK
    BY InvParts, TypeParts
<1>1. /\ Orderly' /\ FrameOK' /\ (core \in CoreStates)'
      /\ Slot(core', core) /\ Object(core', core) /\ core'.wl = c.wl /\ core'.tx = c.tx
      /\ \A u \in Tasks : u # t => (Granted(u)' <=> Granted(u)) /\ hnd'[u] = hnd[u]
      /\ \A u \in Tasks : u # t => core'.side[u] = core.side[u]
      /\ ~Granted(t)'
    BY <1>0, CancelLeaves
<1>2. Rx' = Rx /\ Tx' = Tx
    BY <1>1, SettledLess
<1>3. Accounts'
    BY <1>0, <1>1, <1>2, AccountsKept
<1>4. NothingThere'
    BY <1>0, <1>1 DEF NothingThere, Object
<1>5. ToldOK'
    BY <1>0 DEF ToldOK
<1> QED
    BY <1>1, <1>3, <1>4, <1>5, InvParts, TypeParts

(* A granted waiter's call returns OK, and its caller is told. *)
LEMMA CancelGranted ==
    ASSUME KobjInv, OneAtATime, NEW t \in Tasks, pc[t] = "cancel", core.st[t] = "grant", hnd[t] = core.inc,
           NEW w, Leave(t, Done(core, "OK"), hnd[t], w), type' = type, wk' = wk,
           told' = Told(t, hnd[t], IF core.side[t] = "rx" THEN 1 ELSE -1)
    PROVE  KobjInv'
<1>0. /\ TypeOK /\ Orderly /\ NothingThere /\ Accounts /\ ToldOK /\ core \in CoreStates
      /\ core.side[t] \in {"rx", "back", "front"} /\ core.inc \in Nat
    BY InvParts, TypeParts, Typed
<1>1. core.used /\ (core.side[t] # "rx" => type = "queue") /\ Granted(t)
    BY <1>0 DEF Orderly, Waiter, InWait, Granted
<1> DEFINE x == Done(core, "OK")
<1>2. x.s = core /\ x.r # "BLOCK" /\ x.wk = <<>> /\ Leave(t, x, hnd[t], w)
    BY DEF Done
<1> HIDE DEF x
<1>3. /\ Slot(core, core) /\ Object(core, core) /\ Distinct(core.wl) /\ Distinct(core.tx)
      /\ ~In(core.wl, t) /\ ~In(core.tx, t)
    BY <1>0 DEF Slot, Object, Orderly, Queued
<1>4. /\ Orderly' /\ FrameOK' /\ (core \in CoreStates)'
      /\ Slot(core', core) /\ Object(core', core) /\ core'.wl = core.wl /\ core'.tx = core.tx
      /\ \A u \in Tasks : u # t => (Granted(u)' <=> Granted(u)) /\ hnd'[u] = hnd[u]
      /\ \A u \in Tasks : u # t => core'.side[u] = core.side[u]
      /\ ~Granted(t)'
    BY <1>0, <1>2, <1>3, CancelLeaves
<1>5. NothingThere'
    BY <1>0, <1>4 DEF NothingThere, Object
<1>6. Rx' = Rx \ {t} /\ Tx' = Tx \ {t}
    BY <1>4, SettledLess
<1>7. /\ core.side[t] = "rx" => t \in Rx /\ t \notin Tx
      /\ core.side[t] # "rx" => t \in Tx /\ t \notin Rx
    BY <1>0, <1>1, <1>4, SettledLess
<1>8. PICK d \in Int : d = IF core.side[t] = "rx" THEN 1 ELSE -1
    OBVIOUS
<1>9. told' = Tells(t, d, told.expect) /\ told.expect \in Seq(Tasks)
    BY <1>0, <1>8, TellsSame DEF ToldOK
<1>10. core'.used
    BY <1>1, <1>4 DEF Slot
<1>11. CASE type \in {"sem", "queue"}
  <2>1. /\ told'.units = told.units - d /\ told'.expect = told.expect
        /\ told' \in [units : Int, holds : [Tasks -> 0..MaxDepth], expect : Seq(Tasks)]
    BY <1>0, <1>9, <1>11, ToldFacts
  <2>2. told.units = core.count + Cardinality(Rx) - Cardinality(Tx)
    BY <1>0, <1>1, <1>11 DEF Accounts, UnitsAccounted, Rx, Tx
  <2>3. Cardinality(Rx) \in Nat /\ Cardinality(Tx) \in Nat /\ told.units \in Int /\ core.count \in Nat
    <3>1. Cardinality(Rx) \in Nat /\ Cardinality(Tx) \in Nat /\ told.units \in Int
        BY <1>0, CardFacts, SettledSets DEF ToldOK
    <3>2. core.count \in Nat
        BY <1>0, CoreTyped, Constants
    <3> QED
        BY <3>1, <3>2
  <2>4. core'.count = core.count
    BY <1>4 DEF Object
  <2>5. told'.units = core'.count + Cardinality(Rx') - Cardinality(Tx')
    <3>1. CASE core.side[t] = "rx"
      <4>1. Cardinality(Rx') = Cardinality(Rx) - 1 /\ Tx' = Tx
        BY <1>6, <1>7, <3>1, CardFacts, SettledSets
      <4> QED
        BY <1>8, <2>1, <2>2, <2>3, <2>4, <3>1, <4>1
    <3>2. CASE core.side[t] # "rx"
      <4>1. Cardinality(Tx') = Cardinality(Tx) - 1 /\ Rx' = Rx
        BY <1>6, <1>7, <3>2, CardFacts, SettledSets
      <4> QED
        BY <1>8, <2>1, <2>2, <2>3, <2>4, <3>2, <4>1
    <3> QED
        BY <3>1, <3>2
  <2>6. UnitsAccounted'
    BY <2>5 DEF UnitsAccounted, Rx, Tx
  <2>7. RingIsQueue'
    BY <1>0, <1>1, <1>4, <2>1 DEF Accounts, RingIsQueue, Object
  <2>8. OneHolder' /\ Heir'
    BY <1>11 DEF OneHolder, Heir
  <2> QED
    BY <1>4, <1>5, <2>1, <2>6, <2>7, <2>8, InvParts, TypeParts DEF Accounts, ToldOK
<1>12. CASE type = "mutex"
  <2>1. core.side[t] = "rx" /\ t \in Rx /\ d = 1
    BY <1>1, <1>7, <1>8, <1>12
  <2>2. core.owner = t /\ core.depth = 1 /\ told.holds[t] = 0 /\ \A u \in Rx : u = t
    BY <1>0, <1>1, <1>12, <2>1 DEF Accounts, Heir, Rx
  <2>3. \A u \in Tasks : u # t => told.holds[u] = 0
    <3> SUFFICES ASSUME NEW u \in Tasks, u # t PROVE told.holds[u] = 0
        OBVIOUS
    <3>1. told.holds[u] \in Nat /\ ~(told.holds[u] > 0)
        BY <1>0, <1>1, <1>12, <2>2, Constants DEF Accounts, OneHolder, ToldOK
    <3> QED
        BY <3>1
  <2>4. 1 \in 0..MaxDepth
    BY <1>0, <2>2, CoreTyped
  <2>5. told.holds[t] + d = 1
    BY <2>1, <2>2
  <2>6. \A u \in Tasks : told'.holds[u] = IF u = t THEN 1 ELSE told.holds[u]
    <3>1. \A u \in Tasks : told'.holds[u] = IF u = t THEN told.holds[u] + d ELSE told.holds[u]
        BY <1>0, <1>9, <1>12, ToldFacts
    <3> QED
        BY <2>5, <3>1
  <2>7. told' \in [units : Int, holds : [Tasks -> 0..MaxDepth], expect : Seq(Tasks)]
    BY <1>0, <1>9, <2>4, <2>5, ToldFacts
  <2>8. core'.owner = t /\ core'.depth = 1 /\ Rx' = {}
    BY <1>4, <1>6, <2>2 DEF Object
  <2>9. Accounts'
    BY <1>1, <1>10, <1>12, <2>3, <2>4, <2>6, <2>8, MutexAccounts
  <2> QED
    BY <1>4, <1>5, <2>7, <2>9, InvParts, TypeParts DEF ToldOK
<1> QED
    BY <1>11, <1>12 DEF OneAtATime

LEMMA CancelKept ==
    ASSUME KobjInv, OneAtATime, NEW t \in Tasks, Cancel(t)
    PROVE  KobjInv'
<1> DEFINE x == CancelFinish(core, hnd[t], t)
<1>0. /\ TypeOK /\ Orderly /\ core \in CoreStates /\ pc[t] = "cancel"
      /\ core.wl \in Seq(Tasks) /\ core.tx \in Seq(Tasks) /\ Distinct(core.wl) /\ Distinct(core.tx)
      /\ core.st \in [Tasks -> {"idle", "wait", "grant", "failed"}]
    BY InvParts, TypeParts, CoreTyped DEF Cancel, Orderly, Queued
<1>1. /\ Leave(t, x, hnd[t], tmo[t]) /\ type' = type /\ wk' = wk
      /\ told' = IF x.r # "OK" THEN told ELSE Told(t, hnd[t], IF core.side[t] = "rx" THEN 1 ELSE -1)
    BY DEF Cancel
<1>2. Waiter(t) /\ core.st[t] \in {"wait", "grant", "failed"}
    BY <1>0 DEF Orderly, Waiter, InWait
<1>3. core.st[t] # "wait" => ~In(core.wl, t) /\ ~In(core.tx, t)
    BY <1>0 DEF Orderly, Queued
<1>4. CASE core.st[t] = "grant"
  <2>1. x = Done(core, "OK") /\ x.s = core /\ x.r = "OK" /\ x.wk = <<>>
    BY <1>4 DEF CancelFinish, Done
  <2> HIDE DEF x
  <2>2. told' = Told(t, hnd[t], IF core.side[t] = "rx" THEN 1 ELSE -1)
    BY <1>1, <2>1
  <2>3. CASE hnd[t] = core.inc
    BY <1>0, <1>1, <1>4, <2>1, <2>2, <2>3, CancelGranted
  <2>4. CASE hnd[t] # core.inc
    <3>1. told' = told
        BY <2>2, <2>4 DEF Told
    <3>2. Slot(core, core) /\ Object(core, core) /\ x.r # "BLOCK"
        BY <2>1 DEF Slot, Object
    <3> QED
        BY <1>0, <1>1, <1>3, <1>4, <2>1, <2>4, <3>1, <3>2, CancelUntold
  <2> QED
    BY <2>3, <2>4
<1>5. CASE core.st[t] = "failed"
  <2> DEFINE c == [core EXCEPT !.st[t] = "failed"]
  <2>1. x.s = c /\ x.r = "DELETED" /\ x.wk = <<>>
    BY <1>5 DEF CancelFinish, Done
  <2> HIDE DEF x
  <2>2. /\ c \in CoreStates /\ Slot(c, core) /\ Object(c, core) /\ c.wl = core.wl /\ c.tx = core.tx
        /\ c.side = core.side /\ \A u \in Tasks : u # t => c.st[u] = core.st[u]
    BY <1>0 DEF CoreStates, Slot, Object
  <2> HIDE DEF c
  <2>3. ~Granted(t) /\ told' = told
    BY <1>1, <1>5, <2>1 DEF Granted
  <2> QED
    BY <1>0, <1>1, <1>3, <1>5, <2>1, <2>2, <2>3, CancelUntold
<1>6. CASE core.st[t] = "wait"
  <2> DEFINE c == [core EXCEPT !.st[t] = "idle", !.wl = wl_remove(@, t), !.tx = wl_remove(@, t)]
  <2>1. Resolves(core, hnd[t])
    BY <1>0, <1>2, <1>6 DEF Waiter, InWait
  <2>2. x.s = c /\ x.r = "TIMEOUT" /\ x.wk = <<>>
    BY <1>6, <2>1 DEF CancelFinish, Done
  <2> HIDE DEF x
  <2>3. /\ wl_remove(core.wl, t) \in Seq(Tasks) /\ Distinct(wl_remove(core.wl, t))
        /\ \A u : In(wl_remove(core.wl, t), u) <=> In(core.wl, u) /\ u # t
        /\ core.wl = <<>> => wl_remove(core.wl, t) = <<>>
    BY <1>0, RemoveFacts
  <2>4. /\ wl_remove(core.tx, t) \in Seq(Tasks) /\ Distinct(wl_remove(core.tx, t))
        /\ \A u : In(wl_remove(core.tx, t), u) <=> In(core.tx, u) /\ u # t
        /\ core.tx = <<>> => wl_remove(core.tx, t) = <<>>
    BY <1>0, RemoveFacts
  <2>5. /\ c \in CoreStates /\ Slot(c, core) /\ Object(c, core)
        /\ c.wl = wl_remove(core.wl, t) /\ c.tx = wl_remove(core.tx, t)
        /\ c.side = core.side /\ \A u \in Tasks : u # t => c.st[u] = core.st[u]
    BY <1>0, <2>3, <2>4 DEF CoreStates, Slot, Object
  <2> HIDE DEF c
  <2>6. ~Granted(t) /\ told' = told
    BY <1>1, <1>6, <2>2 DEF Granted
  <2>7. Distinct(c.wl) /\ Distinct(c.tx) /\ (core.wl = <<>> => c.wl = <<>>) /\ (core.tx = <<>> => c.tx = <<>>)
    BY <2>3, <2>4, <2>5
  <2>8. \A u \in Tasks : /\ In(c.wl, u) <=> In(core.wl, u) /\ u # t
                         /\ In(c.tx, u) <=> In(core.tx, u) /\ u # t
                         /\ u # t => c.st[u] = core.st[u]
                         /\ c.side[u] = core.side[u]
    BY <2>3, <2>4, <2>5
  <2> QED
    BY <1>0, <1>1, <2>2, <2>5, <2>6, <2>7, <2>8, CancelUntold
<1> QED
    BY <1>2, <1>4, <1>5, <1>6

-----------------------------------------------------------------------------
(* Every step.                                                             *)
LEMMA ToldExpect ==
    ASSUME ToldOK, NEW t, NEW d
    PROVE  Told(t, core.inc, d).expect = told.expect
BY DEF Told, ToldOK

LEMMA CallFacts ==
    ASSUME KobjInv, NEW k \in Issued
    PROVE  /\ k \in 0..core.inc /\ core \in CoreStates /\ ToldOK
           /\ Resolves(core, k) => k = core.inc /\ Resolves(core, core.inc)
<1>1. TypeOK /\ Orderly /\ core \in CoreStates /\ core.inc \in Nat /\ ToldOK
    BY InvParts, TypeParts, CoreTyped, Constants
<1>2. k \in 0..core.inc
    BY <1>1 DEF Issued
<1> QED
    BY <1>1, <1>2, HandleFacts DEF Orderly, GensExact

LEMMA GetKept ==
    ASSUME KobjInv, OneAtATime, NEW t \in Tasks, Get(t)
    PROVE  KobjInv'
<1>1. PICK k \in Issued, w \in Waits[t], e \in (IF type = "event" THEN EvWaits ELSE {core.ev[t]}) :
        LET x == IF Resolves(core, k) THEN GetOp(t, w, e) ELSE Done(core, "FAIL")
        IN  /\ Begin(t, "get")
            /\ x.s.depth <= MaxDepth
            /\ Leave(t, x, k, w)
            /\ told' = IF x.r # "OK" THEN told
                       ELSE [Told(t, k, 1) EXCEPT !.expect =
                                 IF type = "queue" THEN Received(@, core) ELSE @]
            /\ UNCHANGED <<type, wk>>
    BY DEF Get
<1> DEFINE x == IF Resolves(core, k) THEN GetOp(t, w, e) ELSE Done(core, "FAIL")
<1>2. /\ pc[t] = "out" /\ x.s.depth <= MaxDepth /\ Leave(t, x, k, w) /\ type' = type /\ wk' = wk
      /\ told' = IF x.r # "OK" THEN told
                 ELSE [Told(t, k, 1) EXCEPT !.expect =
                           IF type = "queue" THEN Received(Told(t, k, 1).expect, core) ELSE Told(t, k, 1).expect]
    BY <1>1 DEF Begin
<1>3. CASE ~Resolves(core, k)
  <2>1. x = Done(core, "FAIL") /\ x.r # "OK"
    BY <1>3 DEF Done
  <2> HIDE DEF x
  <2> QED
    BY <1>2, <2>1, RefusedKept DEF InWait
<1>4. CASE Resolves(core, k)
  <2>1. k = core.inc /\ Resolves(core, core.inc) /\ ToldOK
    BY <1>4, CallFacts
  <2>2. w \in {"poll", "timed", "late", "forever"}
    BY Constants
  <2>3. x = GetOp(t, w, e)
    BY <1>4
  <2> HIDE DEF x
  <2>4. /\ Leave(t, x, core.inc, w) /\ Told(t, core.inc, 1).expect = told.expect
        /\ told' = IF x.r # "OK" THEN told
                   ELSE Tells(t, 1, IF type = "queue" THEN Received(told.expect, core) ELSE told.expect)
    BY <1>2, <2>1, ToldExpect DEF Tells
  <2>5. CASE type = "sem"
    <3>1. x = SemTake(core, t, w # "poll")
        BY <2>3, <2>5 DEF GetOp
    <3>2. told' = IF x.r # "OK" THEN told ELSE Tells(t, 1, told.expect)
        BY <2>4, <2>5
    <3> QED
        BY <1>2, <2>1, <2>2, <2>4, <2>5, <3>1, <3>2, SemGetKept
  <2>6. CASE type = "mutex"
    <3>1. x = MutexLock(core, t, w # "poll")
        BY <2>3, <2>6 DEF GetOp
    <3>2. told' = IF x.r # "OK" THEN told ELSE Tells(t, 1, told.expect)
        BY <2>4, <2>6
    <3> QED
        BY <1>2, <2>1, <2>2, <2>4, <2>6, <3>1, <3>2, MutexGetKept
  <2>7. CASE type = "queue"
    <3>1. x = QRecv(core, t, w # "poll")
        BY <2>3, <2>7 DEF GetOp
    <3>2. told' = IF x.r # "OK" THEN told ELSE Tells(t, 1, Received(told.expect, core))
        BY <2>4, <2>7
    <3> QED
        BY <1>2, <2>1, <2>2, <2>4, <2>7, <3>1, <3>2, QueueGetKept
  <2> QED
    BY <2>5, <2>6, <2>7 DEF OneAtATime
<1> QED
    BY <1>3, <1>4

LEMMA PutKept ==
    ASSUME KobjInv, OneAtATime, NEW t \in Tasks, Put(t)
    PROVE  KobjInv'
<1>1. PICK k \in Issued, w \in Waits[t], front \in BOOLEAN, bs \in (IF type = "event" THEN SUBSET Bits ELSE {{}}) :
        LET x == IF Resolves(core, k) THEN PutOp(t, w, front, bs) ELSE Done(core, "FAIL")
        IN  /\ Begin(t, IF front THEN "front" ELSE "put")
            /\ Leave(t, x, k, w)
            /\ told' = IF x.r # "OK" THEN told
                       ELSE [Told(t, k, -1) EXCEPT !.expect =
                                 IF type = "queue" /\ core.wl = <<>> THEN Sent(@, t, front) ELSE @]
            /\ UNCHANGED <<type, wk>>
    BY DEF Put
<1> DEFINE x == IF Resolves(core, k) THEN PutOp(t, w, front, bs) ELSE Done(core, "FAIL")
<1>2. /\ pc[t] = "out" /\ Leave(t, x, k, w) /\ type' = type /\ wk' = wk
      /\ told' = IF x.r # "OK" THEN told
                 ELSE [Told(t, k, -1) EXCEPT !.expect =
                           IF type = "queue" /\ core.wl = <<>> THEN Sent(Told(t, k, -1).expect, t, front)
                           ELSE Told(t, k, -1).expect]
    BY <1>1 DEF Begin
<1>3. CASE ~Resolves(core, k)
  <2>1. x = Done(core, "FAIL") /\ x.r # "OK"
    BY <1>3 DEF Done
  <2> HIDE DEF x
  <2> QED
    BY <1>2, <2>1, RefusedKept DEF InWait
<1>4. CASE Resolves(core, k)
  <2>1. k = core.inc /\ Resolves(core, core.inc) /\ ToldOK
    BY <1>4, CallFacts
  <2>2. w \in {"poll", "timed", "late", "forever"}
    BY Constants
  <2>3. x = PutOp(t, w, front, bs)
    BY <1>4
  <2> HIDE DEF x
  <2>4. /\ Leave(t, x, core.inc, w) /\ Told(t, core.inc, -1).expect = told.expect
        /\ told' = IF x.r # "OK" THEN told
                   ELSE Tells(t, -1, IF type = "queue" /\ core.wl = <<>> THEN Sent(told.expect, t, front)
                                     ELSE told.expect)
    BY <1>2, <2>1, ToldExpect DEF Tells
  <2>5. CASE type = "sem"
    <3>1. x = SemGive(core)
        BY <2>3, <2>5 DEF PutOp
    <3>2. told' = IF x.r # "OK" THEN told ELSE Tells(t, -1, told.expect)
        BY <2>4, <2>5
    <3> QED
        BY <1>2, <2>1, <2>2, <2>4, <2>5, <3>1, <3>2, SemPutKept
  <2>6. CASE type = "mutex"
    <3>1. x = MutexUnlock(core, t)
        BY <2>3, <2>6 DEF PutOp
    <3>2. told' = IF x.r # "OK" THEN told ELSE Tells(t, -1, told.expect)
        BY <2>4, <2>6
    <3> QED
        BY <1>2, <2>1, <2>2, <2>4, <2>6, <3>1, <3>2, MutexPutKept
  <2>7. CASE type = "queue"
    <3>1. x = QSend(core, t, front, w # "poll")
        BY <2>3, <2>7 DEF PutOp
    <3>2. told' = IF x.r # "OK" THEN told
                  ELSE Tells(t, -1, IF core.wl = <<>> THEN Sent(told.expect, t, front) ELSE told.expect)
        BY <2>4, <2>7
    <3> QED
        BY <1>2, <2>1, <2>2, <2>4, <2>7, <3>1, <3>2, QueuePutKept
  <2> QED
    BY <2>5, <2>6, <2>7 DEF OneAtATime
<1> QED
    BY <1>3, <1>4

LEMMA InitKept == Init /\ OneAtATime => KobjInv
<1> SUFFICES ASSUME Init, OneAtATime PROVE KobjInv
    OBVIOUS
<1>1. 0 \in Ring /\ 0 \in 0..MaxDepth /\ 0 \in 0..MaxInc /\ 0 \in 0..(IF type = "sem" THEN SemMax ELSE QLen)
    BY Constants DEF Ring
<1>2. core \in CoreStates
    BY <1>1 DEF Init, CoreStates
<1>3. /\ ~core.used /\ core.inc = 0 /\ core.wl = <<>> /\ core.tx = <<>>
      /\ \A t \in Tasks : core.st[t] = "idle" /\ core.side[t] = "rx"
    BY DEF Init
<1>4. TypeOK
  <2>1. FrameOK
    BY <1>1, EmptySeq DEF Init, FrameOK, PCs, W!WakeInit, W!WakeStates
  <2>2. ToldOK
    BY <1>1, EmptySeq DEF Init, ToldOK
  <2> QED
    BY <1>2, <2>1, <2>2, TypeParts
<1>5. Orderly
  <2>1. GensExact
    BY <1>3, Constants DEF Init, GensExact
  <2>2. Queued
    BY <1>3, EmptySeq DEF Queued, Distinct, In
  <2>3. \A t \in Tasks : Waiter(t) /\ Waking(t)
    BY <1>3 DEF Init, Waiter, Waking, InWait
  <2> QED
    BY <2>1, <2>2, <2>3 DEF Orderly
<1>6. NothingThere /\ Accounts
    BY <1>3 DEF NothingThere, Accounts, OneHolder, Heir, UnitsAccounted, RingIsQueue
<1> QED
    BY <1>4, <1>5, <1>6, InvParts

LEMMA NextKept ==
    ASSUME KobjInv, OneAtATime, TNext
    PROVE  KobjInv'
<1>1. type # "timer" /\ type # "event"
    BY DEF OneAtATime
<1>2. Next
    BY <1>1 DEF TNext, Clock
<1>3. PICK t \in Tasks : Start(t) \/ GoOn(t) \/ SpinWork(t) \/ Expire(t) \/ Scan(t)
    BY <1>2 DEF Next
<1>4. ~Clear(t)
    BY <1>1 DEF Clear
<1> QED
    BY <1>3, <1>4, GetKept, PutKept, CreateKept, DeletionsKept, ReleaseOwnerKept, WakeOneKept, WaitKept, CancelKept,
       ExpireKept DEF Start, GoOn

LEMMA TypeFixed ==
    ASSUME [TNext]_allvars
    PROVE  type' = type
<1>1. CASE Next
  <2>1. PICK t \in Tasks : Start(t) \/ GoOn(t) \/ SpinWork(t) \/ Expire(t) \/ Scan(t)
    BY <1>1 DEF Next
  <2>2. CASE Start(t)
    BY <2>2 DEF Start, Get, Put, Clear, Create, DeleteCall, DeleteBy, ReleaseOwner
  <2>3. CASE GoOn(t)
    BY <2>3 DEF GoOn, ReleaseDelete, DeleteBy, WakeOne, Prep, Test, Block, Woken, SpinEnd, Cancel
  <2>4. CASE SpinWork(t) \/ Expire(t) \/ Scan(t)
    BY <2>4 DEF SpinWork, Expire, Scan
  <2> QED
    BY <2>1, <2>2, <2>3, <2>4
<1>2. ASSUME NEW t \in Tasks, TimerStart(t) PROVE type' = type
    BY <1>2 DEF TimerStart, TimerArm, TimerSetFn, TimerDisarm, TimerRelease, TimerWait, Poking, kept, vars
<1>3. ASSUME NEW t \in Tasks, TimerGoOn(t) \/ TimerSpinWork(t) PROVE type' = type
    BY <1>3 DEF TimerGoOn, PokeRead, PokeWake, TimerPrep, TimerTest, TimerBlock, TimerWoken, TimerSpinEnd, TimerSpinWork,
                TimerReturn, TimerExpire, kept
<1>4. CASE Clock
    BY <1>4 DEF Clock, vars
<1>5. CASE UNCHANGED allvars
    BY <1>5 DEF allvars, vars
<1> QED
    BY <1>1, <1>2, <1>3, <1>4, <1>5 DEF TNext

LEMMA StutterKept ==
    ASSUME KobjInv, UNCHANGED allvars
    PROVE  KobjInv'
<1>1. UNCHANGED vars
    BY DEF allvars
<1> QED
    BY <1>1 DEF vars, KobjInv, TypeOK, CoreStates, GensExact, Waiter, Waking, Coming, Queued, NothingThere,
                OneHolder, Heir, UnitsAccounted, RingIsQueue, Unsettled, Resolves

(* The inductive invariant of semaphores, mutexes and queues: KobjInv      *)
(* holds of every state of kobj.c's tables and of the calls over them.     *)
THEOREM ObjectsKept == TSpec => []KobjKept
<1>1. TInit => KobjKept
    BY InitKept DEF TInit, KobjKept
<1>2. KobjKept /\ [TNext]_allvars => KobjKept'
  <2> SUFFICES ASSUME KobjKept, [TNext]_allvars, OneAtATime' PROVE KobjInv'
    BY DEF KobjKept
  <2>1. OneAtATime /\ KobjInv
    BY TypeFixed DEF OneAtATime, KobjKept
  <2> QED
    BY <2>1, NextKept, StutterKept
<1> QED
    BY <1>1, <1>2, PTL DEF TSpec

(* "Mutual exclusion as the callers see it": kmutex_lock(), kmutex_unlock() *)
(* and the cancel of a timed-out lock leave one holder, at the depth it    *)
(* knows, and no mutex with a waiter that gave up.                         *)
THEOREM MutexHeld == TSpec => []OneHolder
<1>1. KobjKept => OneHolder
    BY DEF KobjKept, KobjInv, OneAtATime, OneHolder
<1> QED
    BY <1>1, ObjectsKept, PTL

(* ksem_give() and kq_send() hand a unit or an item to one waiter or count *)
(* it, and the cancel does not lose the one that was handed over.          *)
THEOREM NoUnitLost == TSpec => []UnitsAccounted
<1>1. KobjKept => UnitsAccounted
    BY DEF KobjKept, KobjInv, OneAtATime, UnitsAccounted
<1> QED
    BY <1>1, ObjectsKept, PTL

(* The ring of kobj.c's queues is the sequence of what was sent and not    *)
(* received, front sends first, for every number of places.                *)
THEOREM QueueInOrder == TSpec => []RingIsQueue
<1>1. KobjKept => RingIsQueue
    BY DEF KobjKept, KobjInv, OneAtATime, RingIsQueue
<1> QED
    BY <1>1, ObjectsKept, PTL

(* No waiter stays in a list after its call has returned, in a list of an  *)
(* object that is deleted, or waiting for what the object has.             *)
THEOREM WaitersServed == TSpec => [](OneAtATime => NobodyStranded)
<1>1. KobjKept => (OneAtATime => NobodyStranded)
  <2> SUFFICES ASSUME KobjInv, OneAtATime PROVE NobodyStranded
    BY DEF KobjKept
  <2>0. TypeOK /\ Orderly /\ NothingThere /\ core.wl \in Seq(Tasks) /\ core.tx \in Seq(Tasks)
    BY InvParts, TypeParts, CoreTyped
  <2> DEFINE q == core.wl \o core.tx
  <2>1. \A t : t \in ToSet(q) <=> In(core.wl, t) \/ In(core.tx, t)
    BY <2>0, ConcatFacts
  <2>2. IsInjective(q)
    <3>1. Distinct(core.wl) /\ Distinct(core.tx) /\ \A i \in 1..Len(core.wl), j \in 1..Len(core.tx) : core.wl[i] # core.tx[j]
      <4>1. Distinct(core.wl) /\ Distinct(core.tx)
        BY <2>0 DEF Orderly, Queued
      <4>2. ASSUME NEW i \in 1..Len(core.wl), NEW j \in 1..Len(core.tx), core.wl[i] = core.tx[j] PROVE FALSE
        <5>1. PICK u \in Tasks : u = core.wl[i]
            BY <2>0
        <5>2. In(core.wl, u) /\ In(core.tx, u)
            BY <4>2, <5>1 DEF In
        <5> QED
            BY <2>0, <5>2 DEF Orderly, Queued
      <4> QED
        BY <4>1, <4>2
    <3> QED
        BY <2>0, <3>1, ConcatDistinct
  <2>3. \A t \in Tasks : In(core.wl, t) \/ In(core.tx, t) <=> pc[t] \in InWait /\ core.st[t] = "wait"
    BY <2>0 DEF Orderly, Queued, Waiter
  <2>4. q # <<>> => core.used
    <3>1. <<>> \o <<>> = <<>>
        BY ConcatEmptySeq, EmptySeq
    <3> QED
        BY <2>0, <3>1, FreeFacts
  <2>5. WaitersLive
    BY <2>1, <2>2, <2>3, <2>4 DEF WaitersLive
  <2> QED
    BY <2>0, <2>5 DEF NobodyStranded, NothingThere, OneAtATime
<1> QED
    BY <1>1, ObjectsKept, PTL

(* kobj_sched.h: "a give that lands before the waiter has gone to sleep is *)
(* not lost".                                                              *)
THEOREM GrantsArrive == TSpec => [](OneAtATime => NoLostGrant)
<1>1. KobjKept => (OneAtATime => NoLostGrant)
  <2> SUFFICES ASSUME KobjInv, OneAtATime, NEW t \in Tasks, Quiet(t), core.st[t] # "wait"
               PROVE  \E u \in Tasks : t \in ToSet(wake[u])
    BY DEF KobjKept, NoLostGrant
  <2>1. Coming(t)
    BY InvParts DEF Orderly, Waking, Quiet
  <2> QED
    BY <2>1 DEF Coming, In, ToSet
<1> QED
    BY <1>1, ObjectsKept, PTL

(* kobj.h: a stale handle is refused, however often the slot was reused:   *)
(* the 12 bits a handle has of the 16 a slot counts are compared with all. *)
THEOREM HandlesExact == TSpec => [](OneAtATime => StaleRefused)
<1>1. KobjKept => (OneAtATime => StaleRefused)
  <2> SUFFICES ASSUME KobjInv, OneAtATime, NEW k \in Issued, Resolves(core, k) PROVE k = core.inc
    BY DEF KobjKept, StaleRefused
  <2> QED
    BY CallFacts
<1> QED
    BY <1>1, ObjectsKept, PTL

-----------------------------------------------------------------------------
(* Timers.                                                                 *)

(* The millisecond a deadline is rounded up to keeps the deadlines' order. *)
LEMMA RoundedUp ==
    /\ \A a \in Nat : MsUp(a) \in Nat /\ (a # 0 => MsUp(a) # 0)
    /\ \A a, b \in Nat : a <= b => MsUp(a) <= MsUp(b)
<1>0. UsPerMs \in Nat /\ UsPerMs > 0
    BY KtimerAssumption
<1> DEFINE q(x) == x \div UsPerMs
<1>1. ASSUME NEW x \in Nat PROVE q(x) \in Nat /\ UsPerMs * q(x) <= x /\ x < UsPerMs * q(x) + UsPerMs
  <2>1. q(x) \in Nat
    BY <1>0
  <2>2. UsPerMs * q(x) <= x
    BY <1>0
  <2>3. x < UsPerMs * q(x) + UsPerMs
    BY <1>0
  <2> QED
    BY <2>1, <2>2, <2>3
<1>2. ASSUME NEW a \in Nat PROVE MsUp(a) = q(a + UsPerMs - 1) /\ a + UsPerMs - 1 \in Nat
    BY <1>0 DEF MsUp
<1> HIDE DEF q
<1>3. ASSUME NEW a \in Nat PROVE MsUp(a) \in Nat
    BY <1>1, <1>2
<1>4. ASSUME NEW a \in Nat, a # 0 PROVE MsUp(a) # 0
  <2>1. a + UsPerMs - 1 < UsPerMs * q(a + UsPerMs - 1) + UsPerMs
    BY <1>1, <1>2
  <2>2. ASSUME q(a + UsPerMs - 1) = 0 PROVE FALSE
    <3>1. UsPerMs * q(a + UsPerMs - 1) = 0
        BY <1>0, <2>2
    <3> QED
        BY <1>0, <1>4, <2>1, <3>1
  <2> QED
    BY <1>2, <2>2
<1>5. ASSUME NEW a \in Nat, NEW b \in Nat, a <= b PROVE MsUp(a) <= MsUp(b)
  <2> DEFINE x == a + UsPerMs - 1
             y == b + UsPerMs - 1
  <2>1. x \in Nat /\ y \in Nat /\ x <= y
    BY <1>0, <1>5
  <2> HIDE DEF x, y
  <2>2. PICK m, n \in Nat : m = q(x) /\ n = q(y)
    BY <1>1, <2>1
  <2>3. UsPerMs * m <= x /\ y < UsPerMs * n + UsPerMs
    BY <1>1, <2>1, <2>2
  <2>4. UsPerMs * m < UsPerMs * (n + 1)
    BY <1>0, <2>1, <2>2, <2>3
  <2>5. m < n + 1
    BY <1>0, <2>2, <2>4
  <2> QED
    BY <1>2, <2>2, <2>5 DEF x, y
<1> QED
    BY <1>3, <1>4, <1>5

(* What kos_timer_wait() computes is no later than any armed timer.        *)
LEMMA NextCovers ==
    ASSUME TimerStates, NEW t \in Tasks, tdl' = [tdl EXCEPT ![t] = Sooner(NextMs(Domain[t]), limit[t])], tm' = tm
    PROVE  tdl' \in [Tasks -> Nat] /\ Covered(t)'
<1> DEFINE S == {tm[i].deadline : i \in {j \in Timers : j[1] = Domain[t] /\ tm[j].armed}}
           c == CHOOSE a \in S : \A b \in S : a <= b
<1>1. S \subseteq Nat /\ limit[t] \in Nat /\ tdl \in [Tasks -> Nat]
    BY DEF TimerStates
<1>2. NextMs(Domain[t]) = IF S = {} THEN 0 ELSE MsUp(c)
    BY DEF NextMs
<1>3. S # {} => c \in S /\ \A b \in S : c <= b
    BY <1>1, Least
<1>5. ASSUME NEW i \in Timers, i[1] = Domain[t], tm[i].armed
      PROVE  tm[i].deadline \in S /\ tm[i].deadline # 0
    BY <1>5 DEF TimerStates
<1>6. \A b \in S : b # 0
    BY DEF TimerStates
<1> HIDE DEF S, c
<1>7. PICK m : m = NextMs(Domain[t])
    OBVIOUS
<1>8. m \in Nat /\ \A b \in S : m # 0 /\ m <= MsUp(b)
  <2>1. CASE S = {}
    BY <1>2, <1>7, <2>1
  <2>2. CASE S # {}
    <3>1. m = MsUp(c) /\ c \in Nat /\ c # 0
        BY <1>1, <1>2, <1>3, <1>6, <1>7, <2>2
    <3>2. \A b \in S : b \in Nat /\ c <= b
        BY <1>1, <1>3, <2>2
    <3> QED
        BY ONLY <3>1, <3>2, RoundedUp
  <2> QED
    BY <2>1, <2>2
<1>9. /\ Sooner(m, limit[t]) \in Nat
      /\ m # 0 => Sooner(m, limit[t]) # 0 /\ Sooner(m, limit[t]) <= m
    BY <1>1, <1>8 DEF Sooner
<1>10. tdl'[t] = Sooner(m, limit[t]) /\ tdl' \in [Tasks -> Nat]
    BY <1>1, <1>7, <1>9
<1>11. ASSUME NEW i \in Timers, i[1] = Domain[t], tm[i].armed
       PROVE  tdl'[t] # 0 /\ tdl'[t] <= MsUp(tm[i].deadline)
  <2>1. tm[i].deadline \in S
    BY <1>5, <1>11
  <2>2. m # 0 /\ m <= MsUp(tm[i].deadline) /\ MsUp(tm[i].deadline) \in Nat
    BY <1>1, <1>8, <2>1, RoundedUp
  <2> QED
    BY <1>8, <1>9, <1>10, <2>2
<1> QED
    BY <1>10, <1>11 DEF Covered

(* Steps of the objects' calls never enter the timers' wait. *)
LEMMA OutsideKept ==
    ASSUME TimerInv, type # "timer", Next
    PROVE  TimerInv'
<1> DEFINE P == {"out", "prep", "test", "block", "sleep", "spin", "cancel", "wake", "reldel"}
<1>1. PICK t \in Tasks : Start(t) \/ GoOn(t) \/ SpinWork(t) \/ Expire(t) \/ Scan(t)
    BY DEF Next
<1>2. ASSUME NEW x, NEW k, NEW w, Leave(t, x, k, w) PROVE \E p \in P : Goto(t, p)
    BY <1>2 DEF Leave
<1>3. type' = type /\ ((\E p \in P : Goto(t, p)) \/ pc' = pc)
  <2>1. CASE Get(t)
    <3>1. PICK x, k, w : Leave(t, x, k, w) /\ type' = type
        BY <2>1, Zenon DEF Get
    <3> QED
        BY <1>2, <3>1
  <2>2. CASE Put(t)
    <3>1. PICK x, k, w : Leave(t, x, k, w) /\ type' = type
        BY <2>2, Zenon DEF Put
    <3> QED
        BY <1>2, <3>1
  <2>3. CASE Clear(t)
    <3>1. PICK x, k, w : Leave(t, x, k, w) /\ type' = type
        BY <2>3, Zenon DEF Clear
    <3> QED
        BY <1>2, <3>1
  <2>4. CASE Cancel(t)
    <3>1. PICK x, k, w : Leave(t, x, k, w) /\ type' = type
        BY <2>4, Zenon DEF Cancel
    <3> QED
        BY <1>2, <3>1
  <2>5. ASSUME NEW k, DeleteBy(t, k) PROVE type' = type /\ \E p \in P : Goto(t, p)
    BY <1>2, <2>5 DEF DeleteBy
  <2>6. CASE DeleteCall(t)
    BY <2>5, <2>6 DEF DeleteCall
  <2>7. CASE ReleaseDelete(t)
    BY <2>5, <2>7 DEF ReleaseDelete
  <2>8. CASE Create(t)
    BY <2>8 DEF Create
  <2>9. CASE ReleaseOwner(t)
    BY <2>9 DEF ReleaseOwner
  <2>10. CASE WakeOne(t) \/ Prep(t) \/ Test(t) \/ Block(t) \/ Woken(t) \/ SpinEnd(t) \/ SpinWork(t)
    BY <2>10 DEF WakeOne, Prep, Test, Block, Woken, SpinEnd, SpinWork
  <2>11. CASE Expire(t) \/ Scan(t)
    BY <2>11 DEF Expire, Scan
  <2> QED
    BY <1>1, <2>1, <2>2, <2>3, <2>4, <2>6, <2>7, <2>8, <2>9, <2>10, <2>11 DEF Start, GoOn
<1>4. pc \in [Tasks -> PCs] /\ \A u \in Tasks : ~TimerWaiting(u)
    BY DEF TimerInv
<1>5. ASSUME NEW p \in P, Goto(t, p) PROVE pc' \in [Tasks -> PCs] /\ \A u \in Tasks : ~TimerWaiting(u)'
    BY <1>4, <1>5 DEF Goto, PCs, TimerWaiting
<1>6. pc' \in [Tasks -> PCs] /\ \A u \in Tasks : ~TimerWaiting(u)'
    BY <1>3, <1>4, <1>5 DEF TimerWaiting
<1> QED
    BY <1>3, <1>6 DEF TimerInv

(* With timers there are no such steps. *)
LEMMA NoObjectCalls ==
    ASSUME OneTimerThread, TimerInv, type = "timer"
    PROVE  ~Next
<1>1. ASSUME NEW t \in Tasks, NEW call, Begin(t, call) PROVE call \in TimerCalls
    BY <1>1 DEF Begin, OneTimerThread
<1>2. ASSUME NEW t \in Tasks PROVE ~Start(t)
  <2>1. ~Begin(t, "get") /\ ~Begin(t, "put") /\ ~Begin(t, "front") /\ ~Begin(t, "clear")
        /\ ~Begin(t, "create") /\ ~Begin(t, "delete")
    BY <1>1 DEF TimerCalls
  <2>2. ~Get(t)
    BY <2>1, Zenon DEF Get
  <2>3. ~Put(t)
    BY <2>1 DEF Put
  <2>4. ~Clear(t) /\ ~Create(t) /\ ~DeleteCall(t)
    BY <2>1 DEF Clear, Create, DeleteCall
  <2>5. ~ReleaseOwner(t)
    BY DEF ReleaseOwner, TimerInv, TimerStates
  <2> QED
    BY <2>2, <2>3, <2>4, <2>5 DEF Start
<1>3. ASSUME NEW t \in Tasks PROVE ~GoOn(t) /\ ~SpinWork(t) /\ ~Expire(t) /\ ~Scan(t)
  <2>1. pc[t] \in TimerPCs
    BY DEF TimerInv
  <2> QED
    BY <2>1 DEF TimerPCs, GoOn, ReleaseDelete, WakeOne, Prep, Test, Block, Woken, SpinEnd, SpinWork, Cancel, Expire, Scan
<1> QED
    BY <1>2, <1>3 DEF Next

(* Who is left alone by a step of another keeps what it counts on.         *)
Alone(u) == pc'[u] = pc[u] /\ wk'[u] = wk[u] /\ tdl'[u] = tdl[u]

LEMMA ThreadKept ==
    ASSUME NEW u \in Tasks, TimerThread(u), Alone(u),
           TimerWaiting(u) => g_timer_waiter' = g_timer_waiter,
           TimerWaiting(u) /\ Covered(u) => Covered(u)' \/ PokeComing(u)',
           TimerWaiting(u) /\ PokeComing(u) => PokeComing(u)'
    PROVE  TimerThread(u)'
BY DEF TimerThread, Alone, TimerWaiting

(* The table is changed, and timer_poke() follows. *)
LEMMA ChangesKept ==
    ASSUME TimerInv, type = "timer", NEW t \in Tasks, Poking(t), pc[t] = "out",
           tm' \in [Timers -> [used : BOOLEAN, armed : BOOLEAN, periodic : BOOLEAN, deadline : Nat, period : Nat]],
           \A i \in Timers : tm'[i].armed => tm'[i].deadline # 0
    PROVE  TimerInv'
<1>1. /\ pc' = [pc EXCEPT ![t] = "poke"] /\ type' = type /\ core' = core
      /\ UNCHANGED <<wk, now, g_timer_waiter, tdl, limit, poked>>
    BY DEF Poking, Goto, kept
<1>2. pc \in [Tasks -> PCs] /\ TimerStates /\ \A u \in Tasks : pc[u] \in TimerPCs /\ TimerThread(u)
    BY DEF TimerInv
<1>3. pc'[t] = "poke" /\ pc' \in [Tasks -> PCs] /\ \A u \in Tasks : u # t => pc'[u] = pc[u]
    BY <1>1, <1>2 DEF PCs
<1>4. TimerStates'
    BY <1>1, <1>2 DEF TimerStates
<1>5. TimerThread(t)'
    BY <1>3 DEF TimerThread, TimerWaiting
<1>6. ASSUME NEW u \in Tasks, u # t PROVE TimerThread(u)'
  <2>1. TimerWaiting(u) => PokeComing(u)'
    BY <1>1, <1>2, <1>3 DEF TimerThread, PokeComing
  <2>2. Alone(u)
    BY <1>1, <1>3, <1>6 DEF Alone
  <2> QED
    BY <1>1, <1>2, <2>1, <2>2, ThreadKept
<1>7. \A u \in Tasks : pc'[u] \in TimerPCs
    BY <1>2, <1>3 DEF TimerPCs
<1> QED
    BY <1>1, <1>3, <1>4, <1>5, <1>6, <1>7 DEF TimerInv

LEMMA StartKept ==
    ASSUME OneTimerThread, TimerInv, type = "timer", NEW t \in Tasks, TimerStart(t)
    PROVE  TimerInv'
<1> DEFINE R == [used : BOOLEAN, armed : BOOLEAN, periodic : BOOLEAN, deadline : Nat, period : Nat]
<1>0. /\ pc \in [Tasks -> PCs] /\ TimerStates /\ \A u \in Tasks : pc[u] \in TimerPCs /\ TimerThread(u)
      /\ tm \in [Timers -> R] /\ now \in Nat \ {0} /\ \A i \in Timers : tm[i].armed => tm[i].deadline # 0
    BY DEF TimerInv, TimerStates
<1>1. CASE TimerArm(t)
  <2>1. PICK k \in Keys, delay \in Delays, per \in BOOLEAN :
            LET i == <<Domain[t], k>>
                d == IF per /\ delay = 0 THEN 1 ELSE delay
            IN  /\ Begin(t, "arm") /\ Poking(t)
                /\ \/ tm' = [tm EXCEPT ![i] = [used |-> TRUE, armed |-> TRUE, periodic |-> per,
                                               deadline |-> now + d, period |-> d]]
                   \/ tm' = tm
    BY <1>1 DEF TimerArm
  <2> DEFINE i == <<Domain[t], k>>
             d == IF per /\ delay = 0 THEN 1 ELSE delay
             n == [used |-> TRUE, armed |-> TRUE, periodic |-> per, deadline |-> now + d, period |-> d]
  <2>2. d \in Nat
    BY KtimerAssumption
  <2>3. n \in R /\ n.deadline # 0
    BY <1>0, <2>2
  <2>4. tm' = [tm EXCEPT ![i] = n] \/ tm' = tm
    BY <2>1
  <2> HIDE DEF i, d, n
  <2>5. tm' \in [Timers -> R] /\ \A j \in Timers : tm'[j].armed => tm'[j].deadline # 0
    BY <1>0, <2>3, <2>4
  <2> QED
    BY <2>1, <2>5, ChangesKept DEF Begin
<1>2. CASE TimerSetFn(t)
  <2>1. PICK i : tm' = [tm EXCEPT ![i].used = TRUE] /\ UNCHANGED <<vars, now, g_timer_waiter, tdl, limit, poked>>
    BY <1>2 DEF TimerSetFn
  <2>2. UNCHANGED <<type, core, wk, pc>>
    BY <2>1 DEF vars
  <2>3. /\ tm' \in [Timers -> R]
        /\ \A j \in Timers : tm'[j].armed = tm[j].armed /\ tm'[j].deadline = tm[j].deadline
    BY <1>0, <2>1
  <2>4. TimerStates'
    BY <1>0, <2>1, <2>2, <2>3 DEF TimerStates
  <2>5. ASSUME NEW u \in Tasks PROVE TimerThread(u)'
    <3>1. Covered(u) => Covered(u)'
        BY <2>1, <2>3 DEF Covered, MsUp
    <3>2. PokeComing(u) => PokeComing(u)'
        BY <2>1, <2>2 DEF PokeComing
    <3> QED
        BY <1>0, <2>1, <2>2, <3>1, <3>2, ThreadKept DEF Alone
  <2> QED
    BY <1>0, <2>2, <2>4, <2>5 DEF TimerInv
<1>3. CASE TimerDisarm(t)
  <2>1. PICK i, new : /\ Begin(t, "disarm") /\ Poking(t) /\ tm' = [tm EXCEPT ![i] = new]
                      /\ new = Unused \/ new = [tm[i] EXCEPT !.armed = FALSE]
    <3>1. PICK k \in Keys, free \in BOOLEAN :
            LET i == <<Domain[t], k>>
            IN  /\ Begin(t, "disarm") /\ Poking(t)
                /\ tm' = [tm EXCEPT ![i] = IF free THEN Unused ELSE [tm[i] EXCEPT !.armed = FALSE]]
        BY <1>3 DEF TimerDisarm
    <3> QED
        BY <3>1
  <2>2. ASSUME i \in Timers PROVE new \in R /\ ~new.armed
    <3>1. tm[i] \in R
        BY <1>0, <2>2
    <3>2. CASE new = Unused
        BY <3>2 DEF Unused
    <3>3. CASE new = [tm[i] EXCEPT !.armed = FALSE]
        BY <3>1, <3>3
    <3> QED
        BY <2>1, <3>2, <3>3
  <2>3. tm' \in [Timers -> R] /\ \A j \in Timers : tm'[j].armed => tm'[j].deadline # 0
    BY <1>0, <2>1, <2>2
  <2> QED
    BY <2>1, <2>3, ChangesKept DEF Begin
<1>4. CASE TimerRelease(t)
  <2>1. tm' = [i \in Timers |-> IF i[1] = Domain[t] THEN Unused ELSE tm[i]] /\ Begin(t, "release") /\ Poking(t)
    BY <1>4 DEF TimerRelease
  <2>2. Unused \in R /\ ~Unused.armed
    BY DEF Unused
  <2>3. tm' \in [Timers -> R] /\ \A j \in Timers : tm'[j].armed => tm'[j].deadline # 0
    BY <1>0, <2>1, <2>2
  <2> QED
    BY <2>1, <2>3, ChangesKept DEF Begin
<1>5. CASE TimerWait(t)
  <2>1. PICK w : /\ Begin(t, "twait") /\ Goto(t, "tprep") /\ g_timer_waiter' = t
                 /\ limit' = [limit EXCEPT ![t] = IF w = "forever" THEN 0 ELSE Ms(now) + 1]
                 /\ UNCHANGED <<kept, wk, tm, now, tdl, poked>>
    BY <1>5 DEF TimerWait
  <2>2. Ms(now) + 1 \in Nat
    BY <1>0, KtimerAssumption DEF Ms
  <2>3. limit' \in [Tasks -> Nat]
    BY <1>0, <2>1, <2>2 DEF TimerStates
  <2>4. "twait" \in Calls["timer"][t] /\ type' = type /\ core' = core
    BY <2>1 DEF Begin, kept
  <2>5. pc'[t] = "tprep" /\ pc' \in [Tasks -> PCs] /\ \A u \in Tasks : u # t => pc'[u] = pc[u]
    BY <1>0, <2>1 DEF Goto, PCs
  <2>6. TimerStates'
    BY <1>0, <2>1, <2>3, <2>4 DEF TimerStates
  <2>7. TimerThread(t)'
    BY <2>1, <2>4, <2>5 DEF TimerThread, TimerWaiting
  <2>8. ASSUME NEW u \in Tasks, u # t PROVE TimerThread(u)'
    <3>1. ~TimerWaiting(u)
        BY <1>0, <2>4, <2>8 DEF TimerThread, OneTimerThread
    <3>2. ~TimerWaiting(u)'
        BY <2>5, <2>8, <3>1 DEF TimerWaiting
    <3> QED
        BY <3>2 DEF TimerThread, TimerWaiting
  <2>9. \A u \in Tasks : pc'[u] \in TimerPCs
    BY <1>0, <2>5 DEF TimerPCs
  <2> QED
    BY <2>4, <2>5, <2>6, <2>7, <2>8, <2>9 DEF TimerInv
<1> QED
    BY <1>1, <1>2, <1>3, <1>4, <1>5 DEF TimerStart

(* timer_poke() wakes whoever it has read. *)
LEMMA PokesKept ==
    ASSUME TimerInv, type = "timer", NEW t \in Tasks, PokeRead(t) \/ PokeWake(t)
    PROVE  TimerInv'
<1>0. /\ pc \in [Tasks -> PCs] /\ TimerStates /\ \A u \in Tasks : pc[u] \in TimerPCs /\ TimerThread(u)
      /\ wk \in [Tasks -> W!WakeStates] /\ poked \in [Tasks -> Tasks \cup {NoPid}]
    BY DEF TimerInv, TimerStates
<1>1. CASE PokeRead(t)
  <2>1. /\ pc[t] = "poke" /\ poked' = [poked EXCEPT ![t] = g_timer_waiter] /\ Goto(t, "unpoke")
        /\ UNCHANGED <<type, core, wk, tm, now, g_timer_waiter, tdl, limit>>
    BY <1>1 DEF PokeRead, kept
  <2>2. pc'[t] = "unpoke" /\ pc' \in [Tasks -> PCs] /\ \A u \in Tasks : u # t => pc'[u] = pc[u]
    BY <1>0, <2>1 DEF Goto, PCs
  <2>3. g_timer_waiter \in Tasks \cup {NoPid}
    BY DEF TimerInv, TimerStates
  <2>4. poked' \in [Tasks -> Tasks \cup {NoPid}] /\ poked'[t] = g_timer_waiter /\ \A u \in Tasks : u # t => poked'[u] = poked[u]
    BY <1>0, <2>1, <2>3
  <2>5. TimerStates'
    BY <1>0, <2>1, <2>4 DEF TimerStates
  <2>6. ASSUME NEW u \in Tasks PROVE TimerThread(u)'
    <3>1. CASE u = t
        BY <2>2, <3>1 DEF TimerThread, TimerWaiting
    <3>2. CASE u # t
      <4>1. PokeComing(u) => PokeComing(u)'
        BY <2>1, <2>2, <2>4 DEF PokeComing
      <4>2. Covered(u) => Covered(u)'
        BY <2>1 DEF Covered, MsUp
      <4> QED
        BY <1>0, <2>1, <2>2, <3>2, <4>1, <4>2, ThreadKept DEF Alone
    <3> QED
        BY <3>1, <3>2
  <2>7. \A u \in Tasks : pc'[u] \in TimerPCs
    BY <1>0, <2>2 DEF TimerPCs
  <2> QED
    BY <2>1, <2>2, <2>5, <2>6, <2>7 DEF TimerInv
<1>2. CASE PokeWake(t)
  <2>1. /\ pc[t] = "unpoke" /\ wk' = IF poked[t] = NoPid THEN wk ELSE W!Unblocked(wk, poked[t])
        /\ poked' = [poked EXCEPT ![t] = NoPid] /\ Goto(t, "out")
        /\ UNCHANGED <<type, core, tm, now, g_timer_waiter, tdl, limit>>
    BY <1>2 DEF PokeWake, kept
  <2>2. pc'[t] = "out" /\ pc' \in [Tasks -> PCs] /\ \A u \in Tasks : u # t => pc'[u] = pc[u]
    BY <1>0, <2>1 DEF Goto, PCs
  <2>3. poked' \in [Tasks -> Tasks \cup {NoPid}] /\ \A u \in Tasks : u # t => poked'[u] = poked[u]
    BY <1>0, <2>1
  <2>4. /\ wk' \in [Tasks -> W!WakeStates]
        /\ \A u \in Tasks : u # poked[t] => wk'[u] = wk[u]
        /\ \A u \in Tasks : u = poked[t] => wk'[u] = CASE wk[u] = "blocked" -> "none" [] wk[u] = "armed" -> "token" [] OTHER -> wk[u]
    <3>1. CASE poked[t] = NoPid
        BY <1>0, <2>1, <3>1, Constants
    <3>2. CASE poked[t] # NoPid
      <4>1. poked[t] \in Tasks
        BY <1>0, <3>2
      <4>2. wk' = W!Unblocked(wk, poked[t])
        BY <2>1, <3>2
      <4> QED
        BY <1>0, <4>1, <4>2 DEF W!Unblocked, W!WakeStates
    <3> QED
        BY <3>1, <3>2
  <2>5. TimerStates'
    BY <1>0, <2>1, <2>3, <2>4 DEF TimerStates
  <2>6. ASSUME NEW u \in Tasks PROVE TimerThread(u)'
    <3>1. CASE u = t
        BY <2>2, <3>1 DEF TimerThread, TimerWaiting
    <3>2. CASE u # t /\ u # poked[t]
      <4>1. PokeComing(u) => PokeComing(u)'
        BY <2>1, <2>2, <2>3, <3>2 DEF PokeComing
      <4>2. Covered(u) => Covered(u)'
        BY <2>1 DEF Covered, MsUp
      <4> QED
        BY <1>0, <2>1, <2>2, <2>4, <3>2, <4>1, <4>2, ThreadKept DEF Alone
    <3>3. CASE u # t /\ u = poked[t]
      <4>1. pc'[u] = pc[u] /\ (wk[u] \in {"armed", "token"} => wk'[u] = "token") /\ wk'[u] # "blocked"
        BY <1>0, <2>2, <2>4, <3>3 DEF W!WakeStates
      <4> QED
        BY <1>0, <2>1, <4>1 DEF TimerThread, TimerWaiting
    <3> QED
        BY <3>1, <3>2, <3>3
  <2>7. \A u \in Tasks : pc'[u] \in TimerPCs
    BY <1>0, <2>2 DEF TimerPCs
  <2> QED
    BY <2>1, <2>2, <2>5, <2>6, <2>7 DEF TimerInv
<1> QED
    BY <1>1, <1>2

(* The wait itself: prepare, look at the table, block. *)
LEMMA ThreadStepKept ==
    ASSUME OneTimerThread, TimerInv, type = "timer", NEW t \in Tasks,
           \/ TimerPrep(t) \/ TimerTest(t) \/ TimerBlock(t) \/ TimerWoken(t) \/ TimerSpinEnd(t) \/ TimerSpinWork(t)
           \/ TimerReturn(t) \/ TimerExpire(t)
    PROVE  TimerInv'
<1> DEFINE R == [used : BOOLEAN, armed : BOOLEAN, periodic : BOOLEAN, deadline : Nat, period : Nat]
<1>0. /\ pc \in [Tasks -> PCs] /\ TimerStates /\ \A u \in Tasks : pc[u] \in TimerPCs /\ TimerThread(u)
      /\ wk \in [Tasks -> W!WakeStates] /\ tdl \in [Tasks -> Nat] /\ limit \in [Tasks -> Nat]
      /\ tm \in [Timers -> R] /\ now \in Nat \ {0} /\ \A i \in Timers : tm[i].armed => tm[i].deadline # 0
    BY DEF TimerInv, TimerStates
<1>1. TimerWaiting(t) /\ "twait" \in Calls["timer"][t] /\ g_timer_waiter = t
  <2>1. pc[t] \in {"tprep", "ttest", "tblock", "tsleep", "tspin", "tret"}
    BY DEF TimerPrep, TimerTest, TimerBlock, TimerWoken, TimerSpinEnd, TimerSpinWork, TimerReturn, TimerExpire
  <2> QED
    BY <1>0, <2>1 DEF TimerWaiting, TimerThread
<1>2. \A u \in Tasks : u # t => ~TimerWaiting(u)
    BY <1>0, <1>1 DEF TimerThread, OneTimerThread
(* So it is enough to look at t. *)
<1>3. ASSUME TimerStates', type' = type, pc' \in [Tasks -> PCs], pc'[t] \in TimerPCs,
             \A u \in Tasks : u # t => pc'[u] = pc[u], TimerThread(t)'
      PROVE  TimerInv'
  <2>1. ASSUME NEW u \in Tasks, u # t PROVE TimerThread(u)'
    <3>1. ~TimerWaiting(u)'
        BY <1>2, <1>3, <2>1 DEF TimerWaiting
    <3> QED
        BY <3>1 DEF TimerThread, TimerWaiting
  <2> QED
    BY <1>0, <1>3, <2>1 DEF TimerInv
<1>4. ASSUME NEW p \in TimerPCs, Goto(t, p)
      PROVE  pc' \in [Tasks -> PCs] /\ pc'[t] = p /\ \A u \in Tasks : u # t => pc'[u] = pc[u]
    BY <1>0, <1>4 DEF Goto, PCs, TimerPCs
<1>5. CASE TimerPrep(t)
  <2>1. wk' = W!Prepared(wk, t) /\ Goto(t, "ttest") /\ UNCHANGED <<type, core>> /\ UNCHANGED tvars
    BY <1>5 DEF TimerPrep, kept
  <2>2. wk'[t] = "armed" /\ wk' \in [Tasks -> W!WakeStates]
    BY <1>0, <2>1 DEF W!Prepared, W!WakeStates
  <2>3. TimerStates'
    BY <1>0, <2>1, <2>2 DEF TimerStates, tvars
  <2>4. pc' \in [Tasks -> PCs] /\ pc'[t] = "ttest" /\ \A u \in Tasks : u # t => pc'[u] = pc[u]
    BY <1>4, <2>1 DEF TimerPCs
  <2>5. TimerThread(t)'
    BY <1>1, <2>1, <2>2, <2>4 DEF TimerThread, TimerWaiting, tvars
  <2> QED
    BY <1>3, <2>1, <2>3, <2>4, <2>5 DEF TimerPCs
<1>6. CASE TimerTest(t)
  <2>0. UNCHANGED <<type, core, wk, now, g_timer_waiter, limit, poked>> /\ pc[t] = "ttest"
    BY <1>6 DEF TimerTest, kept
  <2>1. CASE \E i : tm' = [tm EXCEPT ![i] = Popped(i)] /\ Goto(t, "tret") /\ UNCHANGED tdl
    <3>1. PICK i : tm' = [tm EXCEPT ![i] = Popped(i)] /\ Goto(t, "tret") /\ UNCHANGED tdl
        BY <2>1
    <3>2. ASSUME i \in Timers PROVE Popped(i) \in R /\ (Popped(i).armed => Popped(i).deadline # 0)
      <4> DEFINE next == tm[i].deadline + tm[i].period
                 d == IF next <= now THEN now + tm[i].period ELSE next
      <4>1. tm[i] \in R /\ (tm[i].armed => tm[i].deadline # 0) /\ now \in Nat /\ now # 0
        BY <1>0, <3>2
      <4>2. d \in Nat /\ d # 0
        BY <4>1
      <4> HIDE DEF d
      <4>3. Popped(i) = [tm[i] EXCEPT !.deadline = d] \/ Popped(i) = [tm[i] EXCEPT !.armed = FALSE]
        BY DEF Popped, d
      <4>4. CASE Popped(i) = [tm[i] EXCEPT !.deadline = d]
        BY <4>1, <4>2, <4>4
      <4>5. CASE Popped(i) = [tm[i] EXCEPT !.armed = FALSE]
        BY <4>1, <4>5
      <4> QED
        BY <4>3, <4>4, <4>5
    <3>3. tm' \in [Timers -> R] /\ \A j \in Timers : tm'[j].armed => tm'[j].deadline # 0
        BY <1>0, <3>1, <3>2
    <3>4. TimerStates'
        BY <1>0, <2>0, <3>1, <3>3 DEF TimerStates
    <3>5. pc' \in [Tasks -> PCs] /\ pc'[t] = "tret" /\ \A u \in Tasks : u # t => pc'[u] = pc[u]
        BY <1>4, <3>1 DEF TimerPCs
    <3>6. TimerThread(t)'
        BY <1>1, <2>0, <3>5 DEF TimerThread, TimerWaiting
    <3> QED
        BY <1>3, <2>0, <3>4, <3>5, <3>6 DEF TimerPCs
  <2>2. CASE /\ tdl' = [tdl EXCEPT ![t] = Sooner(NextMs(Domain[t]), limit[t])]
             /\ Goto(t, "tblock") /\ UNCHANGED <<tm, tseq>>
    <3>1. tdl' \in [Tasks -> Nat] /\ Covered(t)'
        BY <1>0, <2>2, NextCovers
    <3>2. TimerStates'
        BY <1>0, <2>0, <2>2, <3>1 DEF TimerStates
    <3>3. pc' \in [Tasks -> PCs] /\ pc'[t] = "tblock" /\ \A u \in Tasks : u # t => pc'[u] = pc[u]
        BY <1>4, <2>2 DEF TimerPCs
    <3>4. TimerThread(t)'
        BY <1>0, <1>1, <2>0, <3>1, <3>3 DEF TimerThread, TimerWaiting
    <3> QED
        BY <1>3, <2>0, <3>2, <3>3, <3>4 DEF TimerPCs
  <2> QED
    BY <1>6, <2>1, <2>2 DEF TimerTest
<1>7. CASE TimerBlock(t)
  <2>0. UNCHANGED <<type, core>> /\ UNCHANGED tvars /\ pc[t] = "tblock"
    BY <1>7 DEF TimerBlock, kept
  <2>1. Covered(t) => Covered(t)'
    BY <2>0 DEF Covered, MsUp, tvars
  <2>2. CASE Goto(t, "tret") /\ UNCHANGED wk
    <3>1. pc' \in [Tasks -> PCs] /\ pc'[t] = "tret" /\ \A u \in Tasks : u # t => pc'[u] = pc[u]
        BY <1>4, <2>2 DEF TimerPCs
    <3>2. TimerStates'
        BY <1>0, <2>0, <2>2 DEF TimerStates, tvars
    <3>3. TimerThread(t)'
        BY <1>1, <2>0, <3>1 DEF TimerThread, TimerWaiting, tvars
    <3> QED
        BY <1>3, <2>0, <3>1, <3>2, <3>3 DEF TimerPCs
  <2>3. CASE wk' = W!Blocked(wk, t) /\ Goto(t, IF wk'[t] = "blocked" THEN "tsleep" ELSE "tprep")
    <3>1. /\ wk' \in [Tasks -> W!WakeStates]
          /\ wk'[t] = IF wk[t] = "token" THEN "none" ELSE "blocked"
        BY <1>0, <2>3 DEF W!Blocked, W!WakeStates
    <3>2. TimerStates'
        BY <1>0, <2>0, <3>1 DEF TimerStates, tvars
    <3>3. PICK p \in TimerPCs : p = (IF wk'[t] = "blocked" THEN "tsleep" ELSE "tprep") /\ Goto(t, p)
        BY <2>3 DEF TimerPCs
    <3>4. pc' \in [Tasks -> PCs] /\ pc'[t] = p /\ \A u \in Tasks : u # t => pc'[u] = pc[u]
        BY <1>4, <3>3
    <3>5. PokeComing(t) => PokeComing(t)'
        BY <2>0, <3>4 DEF PokeComing, tvars
    <3>6. TimerThread(t)'
        BY <1>0, <1>1, <2>0, <2>1, <3>1, <3>3, <3>4, <3>5 DEF TimerThread, TimerWaiting, tvars
    <3> QED
        BY <1>3, <2>0, <3>2, <3>3, <3>4, <3>6
  <2>4. CASE wk[t] = "armed" /\ Goto(t, "tspin") /\ UNCHANGED wk
    <3>1. pc' \in [Tasks -> PCs] /\ pc'[t] = "tspin" /\ \A u \in Tasks : u # t => pc'[u] = pc[u]
        BY <1>4, <2>4 DEF TimerPCs
    <3>2. TimerStates'
        BY <1>0, <2>0, <2>4 DEF TimerStates, tvars
    <3>3. PokeComing(t) => PokeComing(t)'
        BY <2>0, <3>1 DEF PokeComing, tvars
    <3>4. TimerThread(t)'
        BY <1>0, <1>1, <2>0, <2>1, <2>4, <3>1, <3>3 DEF TimerThread, TimerWaiting, tvars
    <3> QED
        BY <1>3, <2>0, <3>1, <3>2, <3>4 DEF TimerPCs
  <2> QED
    BY <1>7, <2>2, <2>3, <2>4 DEF TimerBlock
<1>8. CASE TimerWoken(t) \/ TimerSpinEnd(t) \/ TimerSpinWork(t)
  <2>1. Goto(t, "tprep") /\ UNCHANGED <<type, core, wk>> /\ UNCHANGED tvars
    BY <1>8 DEF TimerWoken, TimerSpinEnd, TimerSpinWork, kept
  <2>2. TimerStates'
    BY <1>0, <2>1 DEF TimerStates, tvars
  <2>3. pc' \in [Tasks -> PCs] /\ pc'[t] = "tprep" /\ \A u \in Tasks : u # t => pc'[u] = pc[u]
    BY <1>4, <2>1 DEF TimerPCs
  <2>4. TimerThread(t)'
    BY <1>1, <2>1, <2>3 DEF TimerThread, TimerWaiting, tvars
  <2> QED
    BY <1>3, <2>1, <2>2, <2>3, <2>4 DEF TimerPCs
<1>9. CASE TimerReturn(t)
  <2>1. /\ wk' = W!Finished(wk, t) /\ Goto(t, "out") /\ UNCHANGED <<type, core>>
        /\ g_timer_waiter' = NoPid
        /\ tdl' = [tdl EXCEPT ![t] = 0] /\ limit' = [limit EXCEPT ![t] = 0]
        /\ UNCHANGED <<tm, now, poked>>
    BY <1>9 DEF TimerReturn, kept
  <2>2. wk' \in [Tasks -> W!WakeStates]
    BY <1>0, <2>1 DEF W!Finished, W!WakeStates
  <2>3. TimerStates'
    BY <1>0, <2>1, <2>2 DEF TimerStates
  <2>4. pc' \in [Tasks -> PCs] /\ pc'[t] = "out" /\ \A u \in Tasks : u # t => pc'[u] = pc[u]
    BY <1>4, <2>1 DEF TimerPCs
  <2>5. TimerThread(t)'
    BY <2>4 DEF TimerThread, TimerWaiting
  <2> QED
    BY <1>3, <2>1, <2>3, <2>4, <2>5 DEF TimerPCs
<1>10. CASE TimerExpire(t)
  <2>1. wk' = W!TimedOut(wk, {t}) /\ UNCHANGED <<type, core, pc>> /\ UNCHANGED tvars /\ pc[t] = "tsleep"
    BY <1>10 DEF TimerExpire, kept
  <2>2. wk' \in [Tasks -> W!WakeStates] /\ wk'[t] = "none"
    BY <1>0, <2>1 DEF W!TimedOut, W!WakeStates
  <2>3. TimerStates'
    BY <1>0, <2>1, <2>2 DEF TimerStates, tvars
  <2>4. TimerThread(t)'
    BY <1>1, <2>1, <2>2 DEF TimerThread, TimerWaiting, tvars
  <2> QED
    BY <1>0, <1>3, <2>1, <2>3, <2>4
<1> QED
    BY <1>5, <1>6, <1>7, <1>8, <1>9, <1>10

LEMMA TimersStep ==
    ASSUME OneTimerThread, TimerInv, [TNext]_allvars
    PROVE  TimerInv'
<1>1. CASE UNCHANGED allvars
    BY <1>1 DEF allvars, vars, tvars, TimerInv, TimerStates, TimerThread, TimerWaiting, Covered, PokeComing, MsUp
<1>2. CASE Next
    BY <1>2, OutsideKept, NoObjectCalls
<1>3. ASSUME type = "timer", NEW t \in Tasks, TimerStart(t) PROVE TimerInv'
    BY <1>3, StartKept
<1>4. ASSUME type = "timer", NEW t \in Tasks, TimerGoOn(t) \/ TimerSpinWork(t) PROVE TimerInv'
    BY <1>4, PokesKept, ThreadStepKept DEF TimerGoOn
<1>5. CASE Clock
  <2>1. UNCHANGED <<type, core, pc, wk, tm, g_timer_waiter, tdl, limit, poked>> /\ now' = now + 1 /\ type = "timer"
    BY <1>5 DEF Clock, vars
  <2>2. TimerStates /\ TimerStates'
    BY <2>1 DEF TimerInv, TimerStates
  <2> QED
    BY <2>1, <2>2 DEF TimerInv, TimerThread, TimerWaiting, Covered, PokeComing, MsUp
<1> QED
    BY <1>1, <1>2, <1>3, <1>4, <1>5 DEF TNext

(* "Arming or disarming wakes it to recompute": with one timer thread, it  *)
(* never sleeps past the deadline of a timer of its domain while nobody is *)
(* in timer_poke(), whatever is armed, disarmed or released meanwhile.     *)
THEOREM TimersNotLost == ASSUME OneTimerThread PROVE TSpec => []NoLostTimer
<1>1. TInit => TimerInv
  <2> SUFFICES ASSUME TInit PROVE TimerInv
    OBVIOUS
  <2>1. /\ pc = [t \in Tasks |-> "out"] /\ wk = [t \in Tasks |-> "none"] /\ core.used = FALSE
    BY DEF TInit, Init, W!WakeInit
  <2>2. /\ tm = [i \in Timers |-> Unused] /\ now = UsPerMs /\ g_timer_waiter = NoPid
        /\ tdl = [t \in Tasks |-> 0] /\ limit = [t \in Tasks |-> 0] /\ poked = [t \in Tasks |-> NoPid]
    BY DEF TInit
  <2>3. TimerStates
    BY <2>1, <2>2, KtimerAssumption DEF TimerStates, Unused, W!WakeStates
  <2>4. pc \in [Tasks -> PCs] /\ \A t \in Tasks : pc[t] \in TimerPCs /\ ~TimerWaiting(t) /\ TimerThread(t)
    BY <2>1 DEF PCs, TimerPCs, TimerWaiting, TimerThread
  <2> QED
    BY <2>3, <2>4 DEF TimerInv
<1>2. TimerInv /\ [TNext]_allvars => TimerInv'
    BY TimersStep
<1>3. TimerInv => NoLostTimer
  <2> SUFFICES ASSUME TimerInv, NEW t \in Tasks, NEW i \in Timers,
                      TimerQuiet(t), i[1] = Domain[t], tm[i].armed,
                      tdl[t] = 0 \/ MsUp(tm[i].deadline) < tdl[t]
               PROVE  PokeComing(t)
    BY DEF NoLostTimer, PokeComing
  <2>1. type = "timer" /\ TimerStates /\ TimerThread(t)
    BY DEF TimerInv, TimerWaiting, TimerQuiet
  <2>2. MsUp(tm[i].deadline) \in Nat /\ tdl[t] \in Nat
    BY <2>1, RoundedUp DEF TimerStates
  <2>3. ~Covered(t)
    BY <2>2 DEF Covered
  <2> QED
    BY <2>1, <2>3 DEF TimerThread, TimerQuiet
<1> QED
    BY <1>1, <1>2, <1>3, PTL DEF TSpec
=============================================================================
