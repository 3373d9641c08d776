---------------------------- MODULE SchedProofs ----------------------------
(***************************************************************************)
(* Proofs about the scheduler, for every number of tasks, harts and stacks *)
(* and every program of the tasks: type correctness, the hand-off of       *)
(* g_sched_lock, and the stack discipline that rests on it.                *)
(***************************************************************************)
EXTENDS SchedInv, TLAPS

(* The values Sched's sentinels and index sets have. *)
LEMMA Constants ==
    /\ NTasks \in Nat \ {0} /\ NHarts \in Nat \ {0} /\ NStacks \in Nat
    /\ Tasks \subseteq Nat /\ Harts \subseteq Nat
    /\ 0 \in Tasks /\ 0 \in Harts
    /\ NoPid \notin Tasks /\ NoPid \notin Harts /\ Free \notin Harts
    /\ NULL \notin Stacks /\ NULL \notin Pages /\ NULL \notin Harts
    /\ Pages \subseteq Stacks /\ Harts \subseteq Stacks /\ Pages \cap Harts = {}
    /\ Pins \subseteq Harts \cup {NoPid} /\ Tiers \subseteq 0..3 /\ 2 \in 0..3 /\ 0 \in 0..3
    /\ 0 \notin Exiters
BY SchedAssumption DEF Tasks, Harts, Pages, Stacks, NoPid, NULL, Free

-----------------------------------------------------------------------------
(* Type correctness needs to know that a hart inside ctx_switch() has a    *)
(* task to land in and one to park.                                        *)
TypeInv == TypeOK /\ SwitchesTasks

LEMMA TypeInit == Init => TypeInv
<1> SUFFICES ASSUME Init PROVE TypeInv
    OBVIOUS
<1> USE Constants DEF Init
<1>1. TypeOK
    BY DEF TypeOK, States, PCs, Phases
<1>2. SwitchesTasks
    BY DEF SwitchesTasks
<1> QED
    BY <1>1, <1>2 DEF TypeInv

(* SetPhase() and Return() move a task along within its types. *)
LEMMA PhaseTyped ==
    ASSUME TypeOK, NEW t \in Tasks, NEW p \in Phases, SetPhase(t, p)
    PROVE  ph' \in [Tasks -> Phases] /\ tick' \in [Tasks -> Phases]
BY DEF SetPhase, TypeOK, Phases

LEMMA ReturnTyped ==
    ASSUME TypeOK, NEW t \in Tasks, Return(t)
    PROVE  ph' \in [Tasks -> Phases] /\ tick' \in [Tasks -> Phases] /\ pc' \in [Tasks -> PCs]
<1>1. "none" \in Phases /\ SetPhase(t, "none")
    BY DEF Return, Phases
<1>2. AfterBlock(t) \in PCs
    BY DEF TypeOK, AfterBlock, PCs
<1>3. pc' \in [Tasks -> PCs]
    BY <1>2 DEF Return, Goto, TypeOK
<1> QED
    BY <1>1, <1>3, PhaseTyped

(* What sched_reap() empties into the pool is a stack of the pool. *)
LEMMA ReapTyped ==
    ASSUME TypeOK, NEW h \in Harts, SchedReap(h)
    PROVE  /\ reap' \in [Harts -> Pages \cup {NULL}]
           /\ pool' \subseteq Pages
           /\ UNCHANGED <<current, lock, exec, hpc, out>>
BY DEF TypeOK, SchedReap

(* A wake leaves the columns it writes within their types. *)
LEMMA UnblockTyped ==
    ASSUME TypeOK, NEW w \in Tasks \cup {NoPid}, TaskUnblock(w)
    PROVE  /\ state' \in [Tasks -> States]
           /\ wake_at' \in [Tasks -> BOOLEAN]
           /\ armed' \in [Tasks -> BOOLEAN]
           /\ token' \in [Tasks -> BOOLEAN]
<1>1. CASE state[w] # "BLOCKED"
  <2>1. token' = [token EXCEPT ![w] = @ \/ armed[w]] /\ UNCHANGED <<state, wake_at, armed>>
    BY <1>1 DEF TaskUnblock
  <2>2. token' \in [Tasks -> BOOLEAN]
    BY <2>1 DEF TypeOK
  <2> QED
    BY <2>1, <2>2 DEF TypeOK
<1>2. CASE state[w] = "BLOCKED"
    BY <1>2 DEF TaskUnblock, TypeOK, States
<1> QED
    BY <1>1, <1>2

(* A slot that has been filled in has the types of a task. *)
LEMMA CreateInitTyped ==
    ASSUME TypeOK, NEW h \in Harts, NEW t \in Tasks, CreateInit(h, t)
    PROVE  TypeOK'
<1>1. PICK k \in pool, a \in Pins :
        /\ pool' = pool \ {k}
        /\ stack_base' = [stack_base EXCEPT ![arg[t]] = k]
        /\ sp' = [sp EXCEPT ![arg[t]] = k]
        /\ aff' = [aff EXCEPT ![arg[t]] = a]
        /\ prio' = [prio EXCEPT ![arg[t]] = 2]
        /\ wake_at' = [wake_at EXCEPT ![arg[t]] = FALSE]
        /\ armed' = [armed EXCEPT ![arg[t]] = FALSE]
        /\ token' = [token EXCEPT ![arg[t]] = FALSE]
        /\ pc' = [[pc EXCEPT ![arg[t]] = "body"] EXCEPT ![t] = "publish"]
        /\ ph' = [ph EXCEPT ![arg[t]] = "out"]
        /\ ev' = [ev EXCEPT ![arg[t]] = FALSE]
    BY DEF CreateInit
<1>2. UNCHANGED <<state, current, reap, lock, exec, hpc, out, tick, arg, dl>>
    BY DEF CreateInit
<1>3. k \in Pages /\ k \in Stacks /\ a \in Harts \cup {NoPid}
    BY Constants DEF TypeOK
<1>4. /\ stack_base' \in [Tasks -> Pages \cup {NULL}]
      /\ sp' \in [Tasks -> Stacks \cup {NULL}]
      /\ aff' \in [Tasks -> Harts \cup {NoPid}]
      /\ pool' \subseteq Pages
    BY <1>1, <1>3 DEF TypeOK
<1>5. prio' \in [Tasks -> 0..3]
  <2>1. prio' = [prio EXCEPT ![arg[t]] = 2]
    BY <1>1
  <2>2. prio \in [Tasks -> 0..3] /\ 2 \in 0..3
    BY Constants DEF TypeOK
  <2> QED
    BY ONLY <2>1, <2>2
<1>6. /\ wake_at' \in [Tasks -> BOOLEAN]
      /\ armed' \in [Tasks -> BOOLEAN]
      /\ token' \in [Tasks -> BOOLEAN]
      /\ ev' \in [Tasks -> BOOLEAN]
    BY <1>1 DEF TypeOK
<1>7. pc' \in [Tasks -> PCs] /\ ph' \in [Tasks -> Phases]
    BY <1>1 DEF TypeOK, PCs, Phases
<1> QED
    BY <1>2, <1>4, <1>5, <1>6, <1>7 DEF TypeOK

(* What the scan leaves in the table has the table's types. *)
LEMMA ScanTyped ==
    ASSUME TypeOK, NEW t \in Tasks
    PROVE  /\ Scanned(state) \in [Tasks -> States]
           /\ Scanned(Marked(t)) \in [Tasks -> States]
           /\ WakeLeft(state) \in [Tasks -> BOOLEAN]
           /\ WakeLeft(Marked(t)) \in [Tasks -> BOOLEAN]
           /\ Disarmed(t) \in [Tasks -> BOOLEAN]
<1>1. Marked(t) \in [Tasks -> States]
    BY DEF TypeOK, Marked, States
<1>2. \A st \in [Tasks -> States] : Scanned(st) \in [Tasks -> States]
    BY DEF Scanned, States
<1>3. \A st \in [Tasks -> States] : WakeLeft(st) \in [Tasks -> BOOLEAN]
    BY DEF WakeLeft
<1>4. Disarmed(t) \in [Tasks -> BOOLEAN]
    BY DEF Disarmed, TypeOK
<1> QED
    BY <1>1, <1>2, <1>3, <1>4 DEF TypeOK

(* Every step keeps the types, action by action. *)
LEMMA TypeStep == TypeInv /\ [Next]_vars => TypeInv'
<1> SUFFICES ASSUME TypeInv, [Next]_vars PROVE TypeInv'
    OBVIOUS
<1> USE Constants DEF TypeInv, TypeOK, SwitchesTasks, States, PCs, Phases, Runs, At, tcb, cpu, prog
<1>1. CASE UNCHANGED vars
    BY <1>1 DEF vars
<1>2. CASE Clock
    BY <1>2 DEF Clock
<1>3. ASSUME NEW h \in Harts, Park(h) PROVE TypeInv'
    BY <1>3 DEF Park
<1>4. ASSUME NEW h \in Harts, Resume(h) PROVE TypeInv'
    BY <1>4, PhaseTyped DEF Resume, Landed
<1>5. ASSUME NEW h \in Harts, SecondaryInit(h) PROVE TypeInv'
    BY <1>5 DEF SecondaryInit, Goto
<1>6. ASSUME NEW h \in Harts, NEW t \in Tasks, Step(h, t) \/ Tick(h, t) PROVE TypeInv'
  <2>1. CASE Reap(h, t)
    BY <2>1, ReapTyped, PhaseTyped, ReturnTyped DEF Reap
  <2>2. CASE PickWoken(h, t)
    BY <2>2, ReturnTyped DEF PickWoken, AtPick, HasToken, Disarm
  <2>3. CASE PickIdle(h, t)
    BY <2>3, ScanTyped, PhaseTyped, ReturnTyped DEF PickIdle, AtPick, StaysOn, Goto
  <2>4. CASE PickSelf(h, t)
    BY <2>4, ScanTyped, ReturnTyped DEF PickSelf, AtPick, StaysOn
  <2>5. CASE PickSwitch(h, t)
    BY <2>5, ScanTyped, PhaseTyped DEF PickSwitch, AtPick, HoldLock, NextRunnable, Runnable, Preempted
  <2>6. CASE SpinEnd(h, t)
    BY <2>6 DEF SpinEnd, Goto
  <2>7. CASE Yield(h, t)
    BY <2>7, ReapTyped DEF Yield
  <2>8. CASE PrepareBlock(h, t)
    BY <2>8 DEF PrepareBlock, Goto
  <2>9. CASE TestWait(h, t)
    <3>1. ev' \in [Tasks -> BOOLEAN]
        BY <2>9 DEF TestWait
    <3>2. pc' \in [Tasks -> PCs] /\ ph' \in [Tasks -> Phases]
        BY <2>9 DEF TestWait, Goto
    <3>3. UNCHANGED <<tcb, cpu, tick, arg, dl>>
        BY <2>9 DEF TestWait
    <3> QED
        BY <3>1, <3>2, <3>3
  <2>10. CASE SetDeadline(h, t)
    BY <2>10 DEF SetDeadline, Goto
  <2>11. CASE ClearDeadline(h, t)
    BY <2>11 DEF ClearDeadline, Goto
  <2>12. CASE WaitDone(h, t)
    BY <2>12 DEF WaitDone, Disarm, Goto
  <2>13. CASE BeginSleep(h, t)
    BY <2>13 DEF BeginSleep, Goto
  <2>14. CASE SleepAgain(h, t)
    BY <2>14 DEF SleepAgain, Goto
  <2>15. CASE EndSleep(h, t)
    BY <2>15 DEF EndSleep, Goto
  <2>16. CASE Signal(h, t)
    BY <2>16 DEF Signal, Waiters, Goto
  <2>17. CASE Unblock(h, t)
    BY <2>17, UnblockTyped DEF Unblock, Goto
  <2>18. CASE CreateReserve(h, t)
    BY <2>18 DEF CreateReserve, Goto, Reserved
  <2>19. CASE CreateFail(h, t)
    BY <2>19 DEF CreateFail, Goto
  <2>20. CASE CreateInit(h, t)
    <3>1. TypeOK'
        BY <2>20, CreateInitTyped
    <3>2. UNCHANGED <<hpc, current, out>>
        BY <2>20 DEF CreateInit
    <3> QED
        BY <3>1, <3>2
  <2>21. CASE CreatePublish(h, t)
    BY <2>21 DEF CreatePublish, Goto
  <2>22. CASE SetPriority(h, t)
    BY <2>22 DEF SetPriority
  <2>23. CASE SetAffinity(h, t)
    BY <2>23 DEF SetAffinity
  <2>24. CASE BeginExit(h, t)
    BY <2>24 DEF BeginExit, Goto
  <2>25. CASE ExitPark(h, t)
    BY <2>25, ScanTyped DEF ExitPark, Goto
  <2>26. CASE Exit(h, t)
    BY <2>26, ScanTyped DEF Exit, Goto, HoldLock, NextRunnable, Runnable
  <2>27. CASE Tick(h, t)
    BY <2>27, ReapTyped DEF Tick
  <2> QED
    BY <1>6, <2>1, <2>2, <2>3, <2>4, <2>5, <2>6, <2>7, <2>8, <2>9, <2>10, <2>11, <2>12, <2>13, <2>14, <2>15, <2>16, <2>17, <2>18, <2>19, <2>20, <2>21, <2>22, <2>23, <2>24, <2>25, <2>26, <2>27 DEF Step
<1> QED
    BY <1>1, <1>2, <1>3, <1>4, <1>5, <1>6 DEF Next, HartStep, HartTick

(* The model's types are an invariant of the scheduler: every column of    *)
(* the task table, every per-hart word and every stack stays in its range. *)
THEOREM TypeCorrect == Spec => []TypeOK
<1>1. TypeInv => TypeOK
    BY DEF TypeInv
<1> QED
    BY <1>1, TypeInit, TypeStep, PTL DEF Spec

-----------------------------------------------------------------------------
(* The lock and ctx_switch().  Only the two switches take the lock and     *)
(* keep it, only the landing gives it back; every other section leaves     *)
(* both as they were.                                                      *)
LEMMA LockOnlyInSwitch ==
    ASSUME NEW h \in Harts, NEW t \in Tasks, Step(h, t) \/ Tick(h, t)
    PROVE  \/ UNCHANGED <<lock, hpc>>
           \/ lock = Free /\ hpc[h] = "task" /\ lock' = h /\ hpc' = [hpc EXCEPT ![h] = "save"]
<1> USE DEF cpu
<1>1. CASE Reap(h, t)
    BY <1>1 DEF Reap, SchedReap
<1>2. CASE PickWoken(h, t)
    BY <1>2 DEF PickWoken
<1>3. CASE PickIdle(h, t)
    BY <1>3 DEF PickIdle
<1>4. CASE PickSelf(h, t)
    BY <1>4 DEF PickSelf
<1>5. CASE PickSwitch(h, t)
    BY <1>5 DEF PickSwitch, AtPick, Runs, HoldLock
<1>6. CASE SpinEnd(h, t)
    BY <1>6 DEF SpinEnd
<1>7. CASE Yield(h, t)
    BY <1>7 DEF Yield, SchedReap
<1>8. CASE PrepareBlock(h, t)
    BY <1>8 DEF PrepareBlock
<1>9. CASE TestWait(h, t)
    BY <1>9 DEF TestWait
<1>10. CASE SetDeadline(h, t)
    BY <1>10 DEF SetDeadline
<1>11. CASE ClearDeadline(h, t)
    BY <1>11 DEF ClearDeadline
<1>12. CASE WaitDone(h, t)
    BY <1>12 DEF WaitDone
<1>13. CASE BeginSleep(h, t)
    BY <1>13 DEF BeginSleep
<1>14. CASE SleepAgain(h, t)
    BY <1>14 DEF SleepAgain
<1>15. CASE EndSleep(h, t)
    BY <1>15 DEF EndSleep
<1>16. CASE Signal(h, t)
    BY <1>16 DEF Signal
<1>17. CASE Unblock(h, t)
    BY <1>17 DEF Unblock
<1>18. CASE CreateReserve(h, t)
    BY <1>18 DEF CreateReserve
<1>19. CASE CreateFail(h, t)
    BY <1>19 DEF CreateFail
<1>20. CASE CreateInit(h, t)
    BY <1>20 DEF CreateInit
<1>21. CASE CreatePublish(h, t)
    BY <1>21 DEF CreatePublish
<1>22. CASE SetPriority(h, t)
    BY <1>22 DEF SetPriority
<1>23. CASE SetAffinity(h, t)
    BY <1>23 DEF SetAffinity
<1>24. CASE BeginExit(h, t)
    BY <1>24 DEF BeginExit
<1>25. CASE ExitPark(h, t)
    BY <1>25 DEF ExitPark
<1>26. CASE Exit(h, t)
    BY <1>26 DEF Exit, At, Runs, HoldLock
<1>27. CASE Tick(h, t)
    BY <1>27 DEF Tick, SchedReap
<1> QED
    BY <1>1, <1>2, <1>3, <1>4, <1>5, <1>6, <1>7, <1>8, <1>9, <1>10, <1>11, <1>12, <1>13, <1>14, <1>15, <1>16, <1>17, <1>18, <1>19, <1>20, <1>21, <1>22, <1>23, <1>24, <1>25, <1>26, <1>27 DEF Step

LEMMA HandOffStep == TypeInv /\ HandOff /\ [Next]_vars => HandOff'
<1> SUFFICES ASSUME TypeInv, HandOff, [Next]_vars PROVE HandOff'
    OBVIOUS
<1> USE Constants DEF HandOff, TypeInv, TypeOK
<1>1. CASE UNCHANGED vars
    BY <1>1 DEF vars, cpu
<1>2. CASE Clock
    BY <1>2 DEF Clock, cpu
<1>3. ASSUME NEW h \in Harts, Park(h) PROVE HandOff'
    BY <1>3 DEF Park
<1>4. ASSUME NEW h \in Harts, Resume(h) PROVE HandOff'
    BY <1>4 DEF Resume
<1>5. ASSUME NEW h \in Harts, SecondaryInit(h) PROVE HandOff'
    BY <1>5 DEF SecondaryInit
<1>6. ASSUME NEW h \in Harts, NEW t \in Tasks, Step(h, t) \/ Tick(h, t) PROVE HandOff'
    BY <1>6, LockOnlyInSwitch
<1> QED
    BY <1>1, <1>2, <1>3, <1>4, <1>5, <1>6 DEF Next, HartStep, HartTick

(* handoff_check() never counts a fault: a hart inside ctx_switch() holds  *)
(* g_sched_lock and no other hart does, so that whoever lands releases     *)
(* what was handed to it, on every interleaving of any number of harts.    *)
THEOREM LockHandedOver == Spec => []HandOff
<1>1. Init => HandOff
    BY Constants DEF Init, HandOff
<1> QED
    BY <1>1, TypeInit, TypeStep, HandOffStep, PTL DEF Spec

=============================================================================
