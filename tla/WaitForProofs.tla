--------------------------- MODULE WaitForProofs ---------------------------
(***************************************************************************)
(* Proofs about WaitFor, for any tasks, servers, locks and nesting: types, *)
(* mutual exclusion of ylocks, and that refused calls leave no circle of   *)
(* callers.                                                                *)
(***************************************************************************)
EXTENDS WaitFor, TLAPS

-----------------------------------------------------------------------------
(* Every variable keeps its type. *)
LEMMA TypeInit == Init => TypeOK
  BY TasksAssumption, TurnsAssumption DEF Init, TypeOK, Idle, At, LockSteps, LockRec, EpRec, AtRec, Placed, Ylock

(* What a step stores in a task's record is one. *)
LEMMA AtStored ==
  ASSUME NEW p \in LockSteps \cup {"run", "call"},
         NEW o \in Locks \cup Servers \cup {None}, NEW s \in Tasks \cup {None},
         NEW n \in 0..CycleTurns
  PROVE  At(p, o, s, n) \in AtRec
  BY DEF AtRec, At

LEMMA TypeStep == TypeOK /\ [Next]_vars => TypeOK'
  <1> SUFFICES ASSUME TypeOK, [Next]_vars PROVE TypeOK'
    OBVIOUS
  <1>0. Idle \in AtRec /\ Placed(Idle)
    BY TurnsAssumption DEF Idle, AtRec, At, Placed, LockSteps
  <1>t. \A t \in Tasks : at[t].turns \in 0..CycleTurns /\ at[t].seen \in Tasks \cup {None}
    BY DEF TypeOK, AtRec
  <1>n. \A t \in Tasks, l \in Locks : held[t][l] \in Nat /\ lock[l].depth \in Nat
    BY DEF TypeOK, LockRec
  <1>1. ASSUME NEW t \in Tasks, Reenter(t) PROVE TypeOK'
    <2>1. at[t].on \in Locks
      BY <1>1 DEF Reenter, TypeOK, Placed, LockSteps
    <2>2. lock' \in [Locks -> LockRec]
      BY <1>1, <1>n, <2>1 DEF Reenter, TypeOK, LockRec, Ylock
    <2>3. held' \in [Tasks -> [Locks -> Nat]]
      BY <1>1, <1>n, <2>1 DEF Reenter, TypeOK
    <2> QED
      BY <1>0, <1>1, <2>2, <2>3 DEF Reenter, waitfor_leave, TypeOK
  <1>2. ASSUME NEW t \in Tasks, Gate(t) PROVE TypeOK'
    <2>1. at[t].on \in Locks
      BY <1>2 DEF Gate, TypeOK, Placed, LockSteps
    <2>2. At("own", at[t].on, None, 0) \in AtRec /\ Placed(At("own", at[t].on, None, 0))
      BY <2>1, AtStored, TurnsAssumption DEF LockSteps, Placed, At
    <2> QED
      BY <1>2, <2>1, <2>2 DEF Gate, TypeOK, LockRec, Ylock
  <1>3. ASSUME NEW t \in Tasks, Own(t) PROVE TypeOK'
    <2>1. at[t].on \in Locks
      BY <1>3 DEF Own, TypeOK, Placed, LockSteps
    <2>2. At("leave", at[t].on, None, 0) \in AtRec /\ Placed(At("leave", at[t].on, None, 0))
      BY <2>1, AtStored, TurnsAssumption DEF LockSteps, Placed, At
    <2> QED
      BY <1>3, <2>1, <2>2 DEF Own, TypeOK, LockRec, Ylock
  <1>4. ASSUME NEW t \in Tasks, Leave(t) PROVE TypeOK'
    BY <1>0, <1>4 DEF Leave, waitfor_leave, TypeOK
  <1>5. ASSUME NEW t \in Tasks, Busy(t) PROVE TypeOK'
    <2> DEFINE r == At("saw", at[t].on, lock[at[t].on].owner, at[t].turns)
    <2>1. at[t].on \in Locks
      BY <1>5 DEF Busy, TypeOK, Placed, LockSteps
    <2>2. lock[at[t].on].owner \in Tasks \cup {None}
      BY <2>1 DEF TypeOK, LockRec, Ylock
    <2>3. r \in AtRec /\ Placed(r)
      BY <1>t, <2>1, <2>2, AtStored DEF LockSteps, Placed, At
    <2> QED
      BY <1>5, <2>3 DEF Busy, TypeOK
  <1>6. ASSUME NEW t \in Tasks, Enter(t) PROVE TypeOK'
    <2> DEFINE n == IF MayWait(t, at[t].seen) THEN 0
                    ELSE IF at[t].turns < CycleTurns THEN at[t].turns + 1 ELSE at[t].turns
               r == At("loop", at[t].on, None, n)
    <2>1. at[t].on \in Locks
      BY <1>6 DEF Enter, TypeOK, Placed, LockSteps
    <2>2. n \in 0..CycleTurns
      BY <1>t, TurnsAssumption
    <2> HIDE DEF n
    <2>3. r \in AtRec /\ Placed(r)
      BY <2>1, <2>2, AtStored DEF LockSteps, Placed, At
    <2>4. g_waitfor' \in [Tasks -> Tasks \cup {None}]
      BY <1>6, <1>t DEF Enter, waitfor_enter, TypeOK
    <2>5. at' = [at EXCEPT ![t] = r]
      BY <1>6 DEF Enter, n
    <2> QED
      BY <1>6, <2>3, <2>4, <2>5 DEF Enter, TypeOK
  <1>7. ASSUME NEW t \in Tasks, Open(t) PROVE TypeOK'
    <2>1. at[t].on \in Locks
      BY <1>7 DEF Open, TypeOK, Placed, LockSteps
    <2> QED
      BY <1>0, <1>7, <2>1 DEF Open, TypeOK, LockRec, Ylock
  <1>8. ASSUME NEW t \in Tasks, Return(t) PROVE TypeOK'
    <2>1. at[t].on \in Servers
      BY <1>8 DEF Return, TypeOK, Placed
    <2> QED
      BY <1>0, <1>8, <2>1 DEF Return, waitfor_leave, TypeOK, EpRec
  <1>9. ASSUME NEW t \in Tasks, NEW l \in Locks, Acquire(t, l) PROVE TypeOK'
    <2>1. At("loop", l, None, 0) \in AtRec /\ Placed(At("loop", l, None, 0))
      BY AtStored, TurnsAssumption DEF LockSteps, Placed, At
    <2> QED
      BY <1>9, <2>1 DEF Acquire, TypeOK
  <1>10. ASSUME NEW t \in Tasks, NEW l \in Locks, TryAcquire(t, l) PROVE TypeOK'
    <2>1. At("own", l, None, 0) \in AtRec /\ Placed(At("own", l, None, 0))
      BY AtStored, TurnsAssumption DEF LockSteps, Placed, At
    <2>a. ASSUME Owns(t, l) PROVE lock' \in [Locks -> LockRec] /\ held' \in [Tasks -> [Locks -> Nat]]
      <3>1. lock' = [lock EXCEPT ![l] = Ylock(@.word, @.owner, @.depth + 1)]
            /\ held' = [held EXCEPT ![t][l] = @ + 1]
        BY <1>10, <2>a DEF TryAcquire
      <3> QED
        BY <1>n, <3>1 DEF TypeOK, LockRec, Ylock
    <2>b. ASSUME ~Owns(t, l) PROVE lock' \in [Locks -> LockRec] /\ held' \in [Tasks -> [Locks -> Nat]]
      <3>1. lock' = [lock EXCEPT ![l] = Ylock(TRUE, @.owner, @.depth)] /\ held' = held
        BY <1>10, <2>b DEF TryAcquire
      <3> QED
        BY <3>1 DEF TypeOK, LockRec, Ylock
    <2>3. at' = at \/ at' = [at EXCEPT ![t] = At("own", l, None, 0)]
      BY <1>10 DEF TryAcquire
    <2> QED
      BY <1>10, <2>1, <2>a, <2>b, <2>3 DEF TryAcquire, TypeOK
  <1>11. ASSUME NEW t \in Tasks, NEW l \in Locks, Release(t, l) PROVE TypeOK'
    <2>1. At("release", l, None, 0) \in AtRec /\ Placed(At("release", l, None, 0))
      BY AtStored, TurnsAssumption DEF LockSteps, Placed, At
    <2>2. lock' \in [Locks -> LockRec]
      BY <1>11, <1>n DEF Release, TypeOK, LockRec, Ylock
    <2>4. held' \in [Tasks -> [Locks -> Nat]]
      BY <1>11, <1>n DEF Release, TypeOK
    <2>3. at' = at \/ at' = [at EXCEPT ![t] = At("release", l, None, 0)]
      BY <1>11 DEF Release
    <2> QED
      BY <1>11, <2>1, <2>2, <2>3, <2>4 DEF Release, TypeOK
  <1>12. ASSUME NEW t \in Tasks, NEW s \in Servers, Call(t, s) PROVE TypeOK'
    <2>1. At("call", s, None, 0) \in AtRec /\ Placed(At("call", s, None, 0))
      BY AtStored, TurnsAssumption DEF LockSteps, Placed, At
    <2>2. ep' \in [Servers -> EpRec]
      BY <1>12 DEF Call, TypeOK, EpRec
    <2>3. g_waitfor' \in [Tasks -> Tasks \cup {None}]
      BY <1>12, TasksAssumption DEF Call, waitfor_enter, TypeOK
    <2> QED
      BY <1>12, <2>1, <2>2, <2>3 DEF Call, TypeOK
  <1>13. ASSUME NEW s \in Servers, Reply(s) PROVE TypeOK'
    BY <1>13 DEF Reply, TypeOK, EpRec
  <1>14. CASE UNCHANGED vars
    BY <1>14 DEF vars, TypeOK
  <1> QED
    BY <1>1, <1>2, <1>3, <1>4, <1>5, <1>6, <1>7, <1>8, <1>9, <1>10, <1>11, <1>12, <1>13,
       <1>14 DEF Next, Step

(* The type invariant of ylocks, graph and endpoints, for any number of    *)
(* tasks, servers and locks.                                               *)
THEOREM TypeCorrect == Spec => []TypeOK
  BY TypeInit, TypeStep, PTL DEF Spec
-----------------------------------------------------------------------------
(* Mutual exclusion.  OwnerExact needs the other direction too: whoever is *)
(* between the gate and the owner has the gate to itself.                  *)
Handing(t, k) == at[t].pc \in {"own", "release"} /\ at[t].on = k

LockGood(k) ==
    /\ \A t \in Tasks : held[t][k] # 0 => lock[k] = Ylock(TRUE, t, held[t][k])
    /\ lock[k].owner # None => held[lock[k].owner][k] # 0
    /\ lock[k].word /\ lock[k].owner = None => \E t \in Tasks : Handing(t, k)
    /\ \A t \in Tasks : Handing(t, k) => lock[k].word /\ lock[k].owner = None
    /\ \A t, u \in Tasks : Handing(t, k) /\ Handing(u, k) => t = u

LockInv == \A k \in Locks : LockGood(k)

LEMMA LockInvInit == Init => LockInv
  BY DEF Init, LockInv, LockGood, Handing, Idle, At, Ylock

(* A step that leaves a lock, its levels and its hand-over alone. *)
LEMMA LockFrame ==
  ASSUME NEW k \in Locks, TypeOK, LockGood(k), lock'[k] = lock[k],
         \A u \in Tasks : held'[u][k] = held[u][k] /\ (Handing(u, k)' <=> Handing(u, k))
  PROVE  LockGood(k)'
  <1>1. lock[k].owner \in Tasks \cup {None}
    BY DEF TypeOK, LockRec
  <1> QED
    BY <1>1 DEF LockGood

(* The three states a lock can be in: held, on its way, free. *)
LEMMA HeldGood ==
  ASSUME NEW k \in Locks, NEW t \in Tasks, NEW n \in Nat \ {0}, lock'[k] = Ylock(TRUE, t, n),
         held'[t][k] = n, \A u \in Tasks \ {t} : held'[u][k] = 0,
         \A u \in Tasks : ~Handing(u, k)'
  PROVE  LockGood(k)'
  <1>1. lock'[k].owner = t /\ t # None
    BY TasksAssumption DEF Ylock
  <1> QED
    BY <1>1 DEF LockGood

LEMMA HandedGood ==
  ASSUME NEW k \in Locks, NEW t \in Tasks, lock'[k].word, lock'[k].owner = None,
         \A u \in Tasks : held'[u][k] = 0, \A u \in Tasks : Handing(u, k)' <=> u = t
  PROVE  LockGood(k)'
  BY DEF LockGood

LEMMA FreeGood ==
  ASSUME NEW k \in Locks, ~lock'[k].word, lock'[k].owner = None,
         \A u \in Tasks : held'[u][k] = 0, \A u \in Tasks : ~Handing(u, k)'
  PROVE  LockGood(k)'
  BY DEF LockGood

LEMMA HeldFacts ==
  ASSUME NEW k \in Locks, TypeOK, LockGood(k), NEW t \in Tasks,
         held[t][k] > 0 \/ Owns(t, k)
  PROVE  /\ held[t][k] \in Nat \ {0} /\ lock[k] = Ylock(TRUE, t, held[t][k])
         /\ \A u \in Tasks \ {t} : held[u][k] = 0
         /\ \A u \in Tasks : ~Handing(u, k)
  <1>1. \A u \in Tasks : held[u][k] \in Nat
    BY DEF TypeOK
  <1>2. held[t][k] # 0
    BY <1>1, TasksAssumption DEF LockGood, Owns
  <1>3. lock[k] = Ylock(TRUE, t, held[t][k]) /\ lock[k].owner = t
    BY <1>2 DEF LockGood, Ylock
  <1>4. ASSUME NEW u \in Tasks \ {t} PROVE held[u][k] = 0
    <2>1. held[u][k] # 0 => lock[k] = Ylock(TRUE, u, held[u][k])
      BY DEF LockGood
    <2>2. Ylock(TRUE, u, held[u][k]).owner = u /\ Ylock(TRUE, u, held[u][k]).word
      BY DEF Ylock
    <2> QED
      BY <1>3, <2>1, <2>2
  <1> QED
    BY <1>1, <1>2, <1>3, <1>4, TasksAssumption DEF LockGood

LEMMA HandingFacts ==
  ASSUME NEW k \in Locks, TypeOK, LockGood(k), NEW t \in Tasks, Handing(t, k)
  PROVE  /\ lock[k].word /\ lock[k].owner = None
         /\ \A u \in Tasks : held[u][k] = 0 /\ (Handing(u, k) <=> u = t)
  <1>1. \A u \in Tasks : held[u][k] \in Nat
    BY DEF TypeOK
  <1>2. lock[k].word /\ lock[k].owner = None
    BY DEF LockGood, TypeOK, LockRec
  <1>3. ASSUME NEW u \in Tasks PROVE held[u][k] = 0
    <2>1. held[u][k] # 0 => lock[k] = Ylock(TRUE, u, held[u][k])
      BY DEF LockGood
    <2>2. Ylock(TRUE, u, held[u][k]).owner = u /\ Ylock(TRUE, u, held[u][k]).word
      BY DEF Ylock
    <2> QED
      BY <1>2, <2>1, <2>2, TasksAssumption
  <1> QED
    BY <1>2, <1>3 DEF LockGood

LEMMA FreeFacts ==
  ASSUME NEW k \in Locks, TypeOK, LockGood(k), ~lock[k].word
  PROVE  /\ lock[k].owner = None
         /\ \A u \in Tasks : held[u][k] = 0 /\ ~Handing(u, k)
  <1>1. \A u \in Tasks : held[u][k] \in Nat
    BY DEF TypeOK
  <1>2. ASSUME NEW u \in Tasks PROVE held[u][k] = 0
    <2>1. held[u][k] # 0 => lock[k] = Ylock(TRUE, u, held[u][k])
      BY DEF LockGood
    <2>2. Ylock(TRUE, u, held[u][k]).owner = u /\ Ylock(TRUE, u, held[u][k]).word
      BY DEF Ylock
    <2> QED
      BY <2>1, <2>2
  <1>3. lock[k].owner \in Tasks \cup {None}
    BY DEF TypeOK, LockRec
  <1> QED
    BY <1>2, <1>3 DEF LockGood

LEMMA LockInvStep == TypeOK /\ LockInv /\ [Next]_vars => LockInv'
  <1> SUFFICES ASSUME TypeOK, LockInv, [Next]_vars, NEW k \in Locks PROVE LockGood(k)'
    BY DEF LockInv
  <1>k. LockGood(k)
    BY DEF LockInv
  <1>p. \A t \in Tasks : at[t].pc \in LockSteps => at[t].on \in Locks
    BY DEF TypeOK, Placed
  <1>1. ASSUME NEW t \in Tasks, NEW l \in Locks, Owns(t, l), at[t].pc \in {"run", "loop"},
               lock' = [lock EXCEPT ![l] = Ylock(@.word, @.owner, @.depth + 1)],
               held' = [held EXCEPT ![t][l] = @ + 1],
               at' = [at EXCEPT ![t] = Idle] \/ at' = at
        PROVE  LockGood(k)'
    <2>1. \A u \in Tasks : Handing(u, k)' <=> Handing(u, k)
      BY <1>1 DEF Handing, TypeOK, Idle, At
    <2>2. CASE k # l
      BY <1>1, <1>k, <2>1, <2>2, LockFrame DEF TypeOK
    <2>3. CASE k = l
      <3>1. /\ held[t][k] \in Nat \ {0} /\ lock[k] = Ylock(TRUE, t, held[t][k])
            /\ \A u \in Tasks \ {t} : held[u][k] = 0
            /\ \A u \in Tasks : ~Handing(u, k)
        BY <1>1, <1>k, <2>3, HeldFacts
      <3>2. lock'[k] = Ylock(TRUE, t, held[t][k] + 1)
        BY <1>1, <2>3, <3>1 DEF TypeOK, Ylock
      <3>3. held'[t][k] = held[t][k] + 1 /\ \A u \in Tasks \ {t} : held'[u][k] = 0
        BY <1>1, <2>3, <3>1 DEF TypeOK
      <3>4. held[t][k] + 1 \in Nat \ {0}
        BY <3>1
      <3> QED
        BY <2>1, <3>1, <3>2, <3>3, <3>4, HeldGood
    <2> QED
      BY <2>2, <2>3
  <1>2. ASSUME NEW t \in Tasks, NEW l \in Locks, ~lock[l].word, at[t].pc \in {"run", "loop"},
               lock' = [lock EXCEPT ![l] = Ylock(TRUE, @.owner, @.depth)],
               at' = [at EXCEPT ![t] = At("own", l, None, 0)], held' = held
        PROVE  LockGood(k)'
    <2>1. \A u \in Tasks : Handing(u, k)' <=> (Handing(u, k) \/ (u = t /\ k = l))
      BY <1>2 DEF Handing, TypeOK, At
    <2>2. CASE k # l
      BY <1>2, <1>k, <2>1, <2>2, LockFrame DEF TypeOK
    <2>3. CASE k = l
      <3>1. lock[k].owner = None /\ \A u \in Tasks : held[u][k] = 0 /\ ~Handing(u, k)
        BY <1>2, <1>k, <2>3, FreeFacts
      <3>2. lock'[k].word /\ lock'[k].owner = None
        BY <1>2, <2>3, <3>1 DEF TypeOK, Ylock
      <3> QED
        BY <1>2, <2>1, <2>3, <3>1, <3>2, HandedGood
    <2> QED
      BY <2>2, <2>3
  <1>3. ASSUME NEW t \in Tasks, Own(t) PROVE LockGood(k)'
    <2>0. at[t].on \in Locks
      BY <1>3, <1>p DEF Own, LockSteps
    <2>1. \A u \in Tasks : Handing(u, k)' <=> (Handing(u, k) /\ u # t)
      BY <1>3 DEF Own, Handing, TypeOK, At
    <2>2. CASE k # at[t].on
      <3>1. ~Handing(t, k)
        BY <2>2 DEF Handing
      <3>2. lock'[k] = lock[k] /\ \A u \in Tasks : held'[u][k] = held[u][k]
        BY <1>3, <2>0, <2>2 DEF Own, TypeOK
      <3> QED
        BY <1>k, <2>1, <3>1, <3>2, LockFrame
    <2>3. CASE k = at[t].on
      <3>0. Handing(t, k)
        BY <1>3, <2>3 DEF Own, Handing
      <3>1. /\ lock[k].word
            /\ \A u \in Tasks : held[u][k] = 0 /\ (Handing(u, k) <=> u = t)
        BY <1>k, <3>0, HandingFacts
      <3>2. lock'[k] = Ylock(TRUE, t, 1)
        BY <1>3, <2>3, <3>1 DEF Own, TypeOK
      <3>3. held'[t][k] = 1 /\ \A u \in Tasks \ {t} : held'[u][k] = 0
        BY <1>3, <2>3, <3>1 DEF Own, TypeOK
      <3>4. \A u \in Tasks : ~Handing(u, k)'
        BY <2>1, <3>1
      <3>5. 1 \in Nat \ {0}
        OBVIOUS
      <3> QED
        BY <3>2, <3>3, <3>4, <3>5, HeldGood
    <2> QED
      BY <2>2, <2>3
  <1>4. ASSUME NEW t \in Tasks, NEW l \in Locks, Release(t, l) PROVE LockGood(k)'
    <2>0. /\ held[t][l] \in Nat \ {0} /\ lock[l] = Ylock(TRUE, t, held[t][l])
          /\ \A u \in Tasks \ {t} : held[u][l] = 0
          /\ \A u \in Tasks : ~Handing(u, l)
      BY <1>4, HeldFacts DEF Release, LockInv
    <2>d. lock[l].depth = held[t][l] /\ lock[l].word = TRUE /\ lock[l].owner = t
      BY <2>0 DEF Ylock
    <2>1. /\ held' = [held EXCEPT ![t][l] = @ - 1]
          /\ \A u \in Tasks \ {t} : held'[u] = held[u]
          /\ held'[t][l] = held[t][l] - 1
      BY <1>4 DEF Release, TypeOK
    <2>2. CASE k # l
      <3>1. lock'[k] = lock[k] /\ \A u \in Tasks : held'[u][k] = held[u][k]
        BY <1>4, <2>1, <2>2 DEF Release, TypeOK
      <3>2. \A u \in Tasks : Handing(u, k)' <=> Handing(u, k)
        BY <1>4, <2>2 DEF Release, Handing, At, TypeOK
      <3> QED
        BY <1>k, <3>1, <3>2, LockFrame
    <2>3. CASE k = l /\ lock[l].depth > 1
      <3>0. /\ lock' = [lock EXCEPT ![l] = Ylock(@.word, @.owner, @.depth - 1)]
            /\ at' = at /\ held[t][l] > 1
        BY <1>4, <2>d, <2>3 DEF Release
      <3>1. lock'[k] = Ylock(TRUE, t, held[t][k] - 1)
        BY <2>d, <2>3, <3>0 DEF TypeOK
      <3>2. held[t][k] - 1 \in Nat \ {0}
        BY <2>0, <2>3, <3>0
      <3>3. \A u \in Tasks : ~Handing(u, k)'
        BY <2>0, <2>3, <3>0 DEF Handing
      <3>4. held'[t][k] = held[t][k] - 1 /\ \A u \in Tasks \ {t} : held'[u][k] = 0
        BY <2>0, <2>1, <2>3
      <3> QED
        BY <3>1, <3>2, <3>3, <3>4, HeldGood
    <2>4. CASE k = l /\ lock[l].depth = 1
      <3>0. /\ lock' = [lock EXCEPT ![l] = Ylock(@.word, None, 0)]
            /\ at' = [at EXCEPT ![t] = At("release", l, None, 0)]
        BY <1>4, <2>4 DEF Release
      <3>1. lock'[k] = Ylock(TRUE, None, 0)
        BY <2>d, <2>4, <3>0 DEF TypeOK
      <3>2. \A u \in Tasks : held'[u][k] = 0
        BY <2>0, <2>1, <2>d, <2>4
      <3>3. \A u \in Tasks : Handing(u, k)' <=> u = t
        BY <2>0, <2>4, <3>0 DEF Handing, At, TypeOK
      <3> QED
        BY <3>1, <3>2, <3>3, HandedGood DEF Ylock
    <2> QED
      BY <1>4, <2>2, <2>3, <2>4 DEF Release
  <1>5. ASSUME NEW t \in Tasks, Open(t) PROVE LockGood(k)'
    <2>0. at[t].on \in Locks
      BY <1>5, <1>p DEF Open, LockSteps
    <2>1. \A u \in Tasks : Handing(u, k)' <=> (Handing(u, k) /\ u # t)
      BY <1>5 DEF Open, Handing, TypeOK, At, Idle
    <2>2. CASE k # at[t].on
      <3>1. ~Handing(t, k)
        BY <2>2 DEF Handing
      <3> QED
        BY <1>5, <1>k, <2>0, <2>1, <2>2, <3>1, LockFrame DEF Open, TypeOK
    <2>3. CASE k = at[t].on
      <3>0. Handing(t, k)
        BY <1>5, <2>3 DEF Open, Handing
      <3>1. /\ lock[k].owner = None
            /\ \A u \in Tasks : held[u][k] = 0 /\ (Handing(u, k) <=> u = t)
        BY <1>k, <3>0, HandingFacts
      <3>2. ~lock'[k].word /\ lock'[k].owner = None /\ held' = held
        BY <1>5, <2>3, <3>1 DEF Open, TypeOK, Ylock
      <3> QED
        BY <2>1, <3>1, <3>2, FreeGood
    <2> QED
      BY <2>2, <2>3
  <1>6. ASSUME NEW t \in Tasks, Leave(t) \/ Busy(t) \/ Enter(t) \/ Return(t) PROVE LockGood(k)'
    <2>1. \A u \in Tasks : Handing(u, k)' <=> Handing(u, k)
      BY <1>6 DEF Leave, Busy, Enter, Return, Handing, TypeOK, At, Idle
    <2> QED
      BY <1>6, <1>k, <2>1, LockFrame DEF Leave, Busy, Enter, Return
  <1>7. ASSUME NEW t \in Tasks, NEW l \in Locks, Acquire(t, l) PROVE LockGood(k)'
    <2>1. \A u \in Tasks : Handing(u, k)' <=> Handing(u, k)
      BY <1>7 DEF Acquire, Handing, TypeOK, At
    <2> QED
      BY <1>7, <1>k, <2>1, LockFrame DEF Acquire
  <1>8. ASSUME NEW t \in Tasks, NEW s \in Servers, Call(t, s) PROVE LockGood(k)'
    <2>1. \A u \in Tasks : Handing(u, k)' <=> Handing(u, k)
      BY <1>8 DEF Call, Handing, TypeOK, At
    <2> QED
      BY <1>8, <1>k, <2>1, LockFrame DEF Call
  <1>9. ASSUME UNCHANGED <<lock, held, at>> PROVE LockGood(k)'
    BY <1>9, <1>k, LockFrame DEF Handing
  <1>10. ASSUME NEW t \in Tasks, Reenter(t) PROVE LockGood(k)'
    BY <1>1, <1>10, <1>p DEF Reenter, LockSteps
  <1>11. ASSUME NEW t \in Tasks, Gate(t) PROVE LockGood(k)'
    BY <1>2, <1>11, <1>p DEF Gate, LockSteps
  <1>12. ASSUME NEW t \in Tasks, NEW l \in Locks, TryAcquire(t, l) PROVE LockGood(k)'
    BY <1>1, <1>2, <1>12 DEF TryAcquire
  <1> QED
    BY <1>3, <1>4, <1>5, <1>6, <1>7, <1>8, <1>9, <1>10, <1>11, <1>12
       DEF Next, Step, Reply, vars

LEMMA LockInvImplies == TypeOK /\ LockInv => OwnerExact
  <1> SUFFICES ASSUME TypeOK, LockInv, NEW l \in Locks
               PROVE  /\ \A t \in Tasks : held[t][l] > 0 => lock[l] = Ylock(TRUE, t, held[t][l])
                      /\ lock[l].owner # None => held[lock[l].owner][l] > 0
                      /\ lock[l].word /\ lock[l].owner = None =>
                            \E t \in Tasks : Handing(t, l) /\ \A u \in Tasks : Handing(u, l) => u = t
    BY DEF OwnerExact, Handing
  <1>1. \A t \in Tasks : held[t][l] \in Nat
    BY DEF TypeOK
  <1>2. lock[l].owner \in Tasks \cup {None}
    BY DEF TypeOK, LockRec
  <1>3. LockGood(l)
    BY DEF LockInv
  <1>4. ASSUME NEW t \in Tasks, held[t][l] > 0 PROVE lock[l] = Ylock(TRUE, t, held[t][l])
    <2>1. held[t][l] # 0
      BY <1>1, <1>4
    <2> QED
      BY <1>3, <2>1 DEF LockGood
  <1>5. lock[l].owner # None => held[lock[l].owner][l] > 0
    <2> SUFFICES ASSUME lock[l].owner \in Tasks PROVE held[lock[l].owner][l] > 0
      BY <1>2
    <2>1. held[lock[l].owner][l] # 0
      BY <1>3, TasksAssumption DEF LockGood
    <2> QED
      BY <1>1, <2>1
  <1>6. lock[l].word /\ lock[l].owner = None =>
            \E t \in Tasks : Handing(t, l) /\ \A u \in Tasks : Handing(u, l) => u = t
    BY <1>3 DEF LockGood
  <1> QED
    BY <1>4, <1>5, <1>6

(* A ylock has one holder, the task it names, and its depth is that task's *)
(* nesting, whatever other harts do between its word, owner and depth.     *)
THEOREM LockExclusive == Spec => []OwnerExact
  <1>1. Init => TypeOK /\ LockInv
    BY TypeInit, LockInvInit
  <1>2. (TypeOK /\ LockInv) /\ [Next]_vars => (TypeOK /\ LockInv)'
    BY TypeStep, LockInvStep
  <1>3. TypeOK /\ LockInv => OwnerExact
    BY LockInvImplies
  <1> QED
    BY <1>1, <1>2, <1>3, PTL DEF Spec

-----------------------------------------------------------------------------
(* No circle of callers.  The graph has no cycle: every set of tasks has   *)
(* one whose edge leads out of it or nowhere; and a call's edge stays up   *)
(* as long as the call.                                                    *)
Acyclic  == \A S \in (SUBSET Tasks) \ {{}} : \E t \in S : g_waitfor[t] \notin S
CallEdge == \A t \in Tasks : at[t].pc = "call" => g_waitfor[t] = at[t].on

(* Dropping an edge makes no cycle. *)
LEMMA LeaveAcyclic ==
  ASSUME TypeOK, Acyclic, NEW t \in Tasks, g_waitfor' = waitfor_leave(t)
  PROVE  Acyclic'
  <1> SUFFICES ASSUME NEW S \in (SUBSET Tasks) \ {{}} PROVE \E u \in S : g_waitfor'[u] \notin S
    BY DEF Acyclic
  <1>1. PICK u \in S : g_waitfor[u] \notin S
    BY DEF Acyclic
  <1>2. g_waitfor'[u] \in {g_waitfor[u], None}
    BY DEF waitfor_leave, TypeOK
  <1> QED
    BY <1>1, <1>2, TasksAssumption

(* An edge that waitfor_reaches() lets through closes no cycle: a set all  *)
(* of whose edges stay inside it would have, in what the target reaches,   *)
(* one that was there before.                                              *)
LEMMA EnterAcyclic ==
  ASSUME TypeOK, Acyclic, NEW me \in Tasks, NEW target \in Tasks \cup {None},
         g_waitfor' = waitfor_enter(me, target)
  PROVE  Acyclic'
  <1>1. CASE g_waitfor' = g_waitfor
    BY <1>1 DEF Acyclic
  <1>2. CASE target \in Tasks /\ ~waitfor_reaches(g_waitfor, me, target)
    <2>1. PICK R \in SUBSET Tasks : target \in R /\ Closed(g_waitfor, R) /\ me \notin R
      BY <1>2 DEF waitfor_reaches
    <2> SUFFICES ASSUME NEW S \in (SUBSET Tasks) \ {{}}, \A u \in S : g_waitfor'[u] \in S
                 PROVE FALSE
      BY DEF Acyclic
    <2>2. g_waitfor'[me] = target /\ \A u \in Tasks \ {me} : g_waitfor'[u] = g_waitfor[u]
      BY <1>2, TasksAssumption DEF waitfor_enter, MayWait, TypeOK
    <2>3. me \in S
      BY <2>2 DEF Acyclic
    <2>4. S \cap R \in (SUBSET Tasks) \ {{}}
      BY <2>1, <2>2, <2>3
    <2>5. ASSUME NEW u \in S \cap R PROVE g_waitfor[u] \in S \cap R
      BY <2>1, <2>2, TasksAssumption DEF Closed
    <2> QED
      BY <2>4, <2>5 DEF Acyclic
  <1> QED
    BY <1>1, <1>2, TasksAssumption DEF waitfor_enter, MayWait

LEMMA GraphInit == Init => Acyclic /\ CallEdge
  <1> SUFFICES ASSUME Init PROVE Acyclic /\ CallEdge
    OBVIOUS
  <1>1. \A t \in Tasks : g_waitfor[t] = None /\ at[t].pc = "run"
    BY DEF Init, Idle, At
  <1>2. ASSUME NEW S \in (SUBSET Tasks) \ {{}} PROVE \E t \in S : g_waitfor[t] \notin S
    <2>1. PICK t \in S : TRUE
      OBVIOUS
    <2> QED
      BY <1>1, <2>1, TasksAssumption
  <1> QED
    BY <1>1, <1>2 DEF Acyclic, CallEdge

LEMMA GraphStep == TypeOK /\ Acyclic /\ CallEdge /\ [Next]_vars => Acyclic' /\ CallEdge'
  <1> SUFFICES ASSUME TypeOK, Acyclic, CallEdge, [Next]_vars PROVE Acyclic' /\ CallEdge'
    OBVIOUS
  <1>1. ASSUME NEW t \in Tasks, Reenter(t) \/ Leave(t) \/ Return(t) PROVE Acyclic' /\ CallEdge'
    <2>1. g_waitfor' = waitfor_leave(t) /\ at' = [at EXCEPT ![t] = Idle]
      BY <1>1 DEF Reenter, Leave, Return
    <2>2. CallEdge'
      BY <2>1 DEF CallEdge, waitfor_leave, Idle, At, TypeOK
    <2> QED
      BY <2>1, <2>2, LeaveAcyclic
  <1>2. ASSUME NEW t \in Tasks, Enter(t) PROVE Acyclic' /\ CallEdge'
    <2>1. at[t].seen \in Tasks \cup {None}
      BY DEF TypeOK, AtRec
    <2>2. CallEdge'
      BY <1>2, <2>1 DEF Enter, CallEdge, waitfor_enter, At, TypeOK
    <2> QED
      BY <1>2, <2>1, <2>2, EnterAcyclic DEF Enter
  <1>3. ASSUME NEW t \in Tasks, NEW s \in Servers, Call(t, s) PROVE Acyclic' /\ CallEdge'
    <2>1. s \in Tasks \cup {None} /\ s # None
      BY TasksAssumption
    <2>2. CallEdge'
      BY <1>3, <2>1 DEF Call, CallEdge, waitfor_enter, At, TypeOK
    <2> QED
      BY <1>3, <2>1, <2>2, EnterAcyclic DEF Call
  <1>4. ASSUME g_waitfor' = g_waitfor, \A t \in Tasks : at'[t].pc # "call" \/ at'[t] = at[t]
        PROVE  Acyclic' /\ CallEdge'
    BY <1>4 DEF Acyclic, CallEdge
  <1>5. ASSUME NEW t \in Tasks, Gate(t) \/ Own(t) \/ Busy(t) \/ Open(t) PROVE Acyclic' /\ CallEdge'
    <2>1. g_waitfor' = g_waitfor
      BY <1>5 DEF Gate, Own, Busy, Open
    <2>2. at'[t].pc # "call" /\ \A u \in Tasks \ {t} : at'[u] = at[u]
      <3>1. CASE Gate(t)
        BY <3>1 DEF Gate, At, TypeOK
      <3>2. CASE Own(t)
        BY <3>2 DEF Own, At, TypeOK
      <3>3. CASE Busy(t)
        BY <3>3 DEF Busy, At, TypeOK
      <3>4. CASE Open(t)
        BY <3>4 DEF Open, Idle, At, TypeOK
      <3> QED
        BY <1>5, <3>1, <3>2, <3>3, <3>4
    <2>3. \A u \in Tasks : at'[u].pc # "call" \/ at'[u] = at[u]
      BY <2>2
    <2> QED
      BY <1>4, <2>1, <2>3
  <1>6. ASSUME NEW t \in Tasks, NEW l \in Locks, Acquire(t, l) \/ TryAcquire(t, l) \/ Release(t, l)
        PROVE  Acyclic' /\ CallEdge'
    <2>1. g_waitfor' = g_waitfor
      BY <1>6 DEF Acquire, TryAcquire, Release
    <2>2. at' = at \/ \E p \in {"loop", "own", "release"} : at' = [at EXCEPT ![t] = At(p, l, None, 0)]
      BY <1>6 DEF Acquire, TryAcquire, Release
    <2>3. \A u \in Tasks : at'[u].pc # "call" \/ at'[u] = at[u]
      BY <2>2 DEF At, TypeOK
    <2> QED
      BY <1>4, <2>1, <2>3
  <1>7. ASSUME NEW s \in Servers, Reply(s) PROVE Acyclic' /\ CallEdge'
    BY <1>4, <1>7 DEF Reply
  <1>8. CASE UNCHANGED vars
    BY <1>4, <1>8 DEF vars
  <1> QED
    BY <1>1, <1>2, <1>3, <1>5, <1>6, <1>7, <1>8 DEF Next, Step

LEMMA GraphImplies == TypeOK /\ Acyclic /\ CallEdge => NoCallCycle
  BY DEF Acyclic, CallEdge, NoCallCycle, CallsInto

(* Tasks never sit in a circle of calls: testing for the cycle and         *)
(* recording the edge are one step, and the edge lasts as long as the call.*)
THEOREM CallsNeverCircular == Spec => []NoCallCycle
  <1>1. Init => TypeOK /\ Acyclic /\ CallEdge
    BY TypeInit, GraphInit
  <1>2. (TypeOK /\ Acyclic /\ CallEdge) /\ [Next]_vars => (TypeOK /\ Acyclic /\ CallEdge)'
    BY TypeStep, GraphStep
  <1>3. TypeOK /\ Acyclic /\ CallEdge => NoCallCycle
    BY GraphImplies
  <1> QED
    BY <1>1, <1>2, <1>3, PTL DEF Spec
=============================================================================
