----------------------------- MODULE WakeProofs -----------------------------
(***************************************************************************)
(* The wake token of kernel/sched.c, proved: a wake that races a block is  *)
(* never lost and never ends another wait, the scheduler implements        *)
(* WakeToken, and the stacks of tasks that exit are all accounted for.     *)
(***************************************************************************)
EXTENDS StackProofs, FiniteSetTheorems

(* TokenInv of one task. *)
Fine(u) ==
    /\ state[u] = "BLOCKED" =>
        /\ pc[u] \in {"block", "sblock", "dead", "body"}
        /\ pc[u] \in {"block", "sblock"} =>
            ph[u] = "out" /\ tick[u] = "none" /\ ~armed[u] /\ ~token[u]
    /\ armed[u] \/ token[u] => pc[u] \in Waiting \cup {"done"}
    /\ Prepared(u) => armed[u]
    /\ Prepared(u) /\ pc[u] # "test" /\ ev[u] => token[u] \/ WakePending(u)
    /\ state[u] = "BLOCKED" /\ pc[u] = "block" /\ ev[u] => WakePending(u)

LEMMA TokenOfEach == TokenInv <=> \A u \in Tasks : Fine(u)
BY DEF TokenInv, Fine, BlockedWaits, TokenScoped, StaysArmed, WakeKept, NoLostWake, WakePending

LEMMA TokenOfEachNext == TokenInv' <=> \A u \in Tasks : Fine(u)'
BY DEF TokenInv, Fine, BlockedWaits, TokenScoped, StaysArmed, WakeKept, NoLostWake, WakePending, Prepared

(* A step leaves task u as it was, except that it may make it runnable or  *)
(* take it; and it delivers no wake.                                       *)
Kept(u) ==
    /\ armed'[u] = armed[u] /\ token'[u] = token[u] /\ ev'[u] = ev[u]
    /\ pc'[u] = pc[u] /\ ph'[u] = ph[u] /\ tick'[u] = tick[u]
    /\ state'[u] = state[u] \/ state'[u] # "BLOCKED"
WakesStay == \A s \in Tasks : pc[s] = "wake" => pc'[s] = "wake" /\ arg'[s] = arg[s]

LEMMA PendingStays ==
    ASSUME NEW u \in Tasks, WakesStay, WakePending(u)
    PROVE  WakePending(u)'
BY DEF WakesStay, WakePending

LEMMA FineKept ==
    ASSUME NEW u \in Tasks, Fine(u), Kept(u), WakesStay
    PROVE  Fine(u)'
<1>1. WakePending(u) => WakePending(u)'
    BY PendingStays
<1> QED
    BY <1>1 DEF Fine, Kept, Prepared

LEMMA OneMoves ==
    ASSUME TokenInv, NEW t \in Tasks, \A u \in Tasks \ {t} : Kept(u), WakesStay, Fine(t)'
    PROVE  TokenInv'
<1>1. \A u \in Tasks : Fine(u)'
    BY FineKept, TokenOfEach
<1> QED
    BY <1>1, TokenOfEachNext

LEMMA TokenInit == Init => TokenInv
<1> SUFFICES ASSUME Init, NEW u \in Tasks PROVE Fine(u)
    BY TokenOfEach
<1> QED
    BY DEF Init, Fine, Prepared

-----------------------------------------------------------------------------
(* The waiting pattern and the sleep, but for the switch they end in. *)
LEMMA TokenWaitStep ==
    ASSUME StackInv, TokenInv, NEW h \in Harts, NEW t \in Tasks,
           \/ SpinEnd(h, t) \/ PrepareBlock(h, t) \/ TestWait(h, t) \/ SetDeadline(h, t)
           \/ ClearDeadline(h, t) \/ WaitDone(h, t) \/ BeginSleep(h, t)
           \/ SleepAgain(h, t) \/ EndSleep(h, t) \/ BeginExit(h, t)
    PROVE  TokenInv'
<1>0. Fine(t) /\ state[t] = "RUNNING" /\ TypeOK
  <2>1. Runs(h, t)
    BY DEF At, SpinEnd, PrepareBlock, TestWait, SetDeadline, ClearDeadline, WaitDone, BeginSleep, SleepAgain, EndSleep, BeginExit
  <2> QED
    BY <2>1, RunsRunning, TokenOfEach DEF StackInv
<1>1. /\ \A u \in Tasks \ {t} : Kept(u)
      /\ WakesStay /\ state'[t] = "RUNNING"
    BY <1>0 DEF TypeOK, Kept, WakesStay, At, Goto, Disarm, tcb, SpinEnd, PrepareBlock, TestWait, SetDeadline,
          ClearDeadline, WaitDone, BeginSleep, SleepAgain, EndSleep, BeginExit
<1>2. Fine(t)'
  <2>1. WakePending(t) => WakePending(t)'
    BY <1>1, PendingStays
  <2> USE <1>0, <1>1, <2>1 DEF TypeOK, Fine, Prepared, Waiting, At, Goto, Disarm, tcb
  <2>2. CASE SpinEnd(h, t)
    BY <2>2 DEF SpinEnd
  <2>3. CASE PrepareBlock(h, t)
    BY <2>3 DEF PrepareBlock
  <2>4. CASE TestWait(h, t)
    BY <2>4 DEF TestWait
  <2>5. CASE SetDeadline(h, t)
    BY <2>5 DEF SetDeadline
  <2>6. CASE ClearDeadline(h, t)
    BY <2>6 DEF ClearDeadline
  <2>7. CASE WaitDone(h, t)
    BY <2>7 DEF WaitDone
  <2>8. CASE BeginSleep(h, t)
    BY <2>8 DEF BeginSleep
  <2>9. CASE SleepAgain(h, t)
    BY <2>9 DEF SleepAgain
  <2>10. CASE EndSleep(h, t)
    BY <2>10 DEF EndSleep
  <2>11. CASE BeginExit(h, t)
    BY <2>11 DEF BeginExit
  <2> QED
    BY <2>2, <2>3, <2>4, <2>5, <2>6, <2>7, <2>8, <2>9, <2>10, <2>11
<1> QED
    BY <1>1, <1>2, OneMoves
(* sched_reap() and the steps that only move a switch along. *)
LEMMA TokenReapStep ==
    ASSUME StackInv, TokenInv, NEW h \in Harts, NEW t \in Tasks,
           Reap(h, t) \/ Yield(h, t) \/ Tick(h, t)
    PROVE  TokenInv'
<1>0. Fine(t) /\ state[t] = "RUNNING" /\ TypeOK
  <2>1. Runs(h, t)
    BY DEF At, Reap, Yield, Tick
  <2> QED
    BY <2>1, RunsRunning, TokenOfEach DEF StackInv
<1>1. /\ \A u \in Tasks \ {t} : Kept(u)
      /\ WakesStay /\ UNCHANGED <<state, armed, token, ev>>
    BY <1>0, ReturnMoves DEF TypeOK, Kept, WakesStay, At, Goto, Return, SetPhase, tcb, Reap, Yield, Tick
<1>2. Fine(t)'
  <2>1. WakePending(t) => WakePending(t)'
    BY <1>1, PendingStays
  <2>2. CASE Reap(h, t)
    <3>1. CASE Phase(t) = "reap" /\ SetPhase(t, "pick") /\ UNCHANGED pc
        BY <1>0, <1>1, <2>1, <3>1 DEF TypeOK, Fine, Prepared, SetPhase, Phase
    <3>2. CASE Phase(t) = "landed" /\ Return(t)
        BY <1>0, <1>1, <2>1, <3>2, ReturnMoves DEF TypeOK, Fine, Prepared, SetPhase, Phase, Waiting, Return
    <3> QED
        BY <2>2, <3>1, <3>2 DEF Reap
  <2>3. CASE Yield(h, t) \/ Tick(h, t)
    BY <1>0, <1>1, <2>1, <2>3 DEF TypeOK, Fine, Prepared, At, Yield, Tick
  <2> QED
    BY <2>2, <2>3
<1> QED
    BY <1>1, <1>2, OneMoves

(* SWITCH_WOKEN consumes the token in the lock section that finds it. *)
LEMMA TokenWokenStep ==
    ASSUME StackInv, TokenInv, NEW h \in Harts, NEW t \in Tasks, PickWoken(h, t)
    PROVE  TokenInv'
<1>0. Fine(t) /\ state[t] = "RUNNING" /\ TypeOK
  <2>1. Runs(h, t)
    BY DEF PickWoken, AtPick
  <2> QED
    BY <2>1, RunsRunning, TokenOfEach DEF StackInv
<1>1. /\ \A u \in Tasks \ {t} : Kept(u)
      /\ WakesStay /\ UNCHANGED <<state, ev>>
    BY <1>0, ReturnMoves DEF TypeOK, Kept, WakesStay, Return, SetPhase, PickWoken, HasToken, Blocking, Disarm
<1>2. Fine(t)'
    BY <1>0, <1>1, ReturnMoves DEF TypeOK, Fine, Prepared, Return, SetPhase, PickWoken, HasToken, Blocking, Disarm
<1> QED
    BY <1>1, <1>2, OneMoves

(* A scan that leaves the hart with its task: the others it finds due are  *)
(* made READY, and a task that goes back from its block is not BLOCKED.    *)
LEMMA TokenStaysStep ==
    ASSUME StackInv, TokenInv, NEW h \in Harts, NEW t \in Tasks,
           PickIdle(h, t) \/ PickSelf(h, t) \/ ExitPark(h, t)
    PROVE  TokenInv'
<1>0. Fine(t) /\ state[t] = "RUNNING" /\ TypeOK
  <2>1. Runs(h, t)
    BY DEF PickIdle, PickSelf, ExitPark, AtPick, At
  <2> QED
    BY <2>1, RunsRunning, TokenOfEach DEF StackInv
<1>1. /\ \A u \in Tasks \ {t} : state'[u] = state[u] \/ state'[u] # "BLOCKED"
      /\ state'[t] # "BLOCKED" /\ UNCHANGED <<token, ev, arg>>
    BY <1>0 DEF PickIdle, PickSelf, ExitPark, TypeOK, StaysOn, Scanned, Marked, Blocking, Due
<1>2. CASE PickIdle(h, t)
  <2>1. /\ \A u \in Tasks \ {t} : Kept(u)
        /\ WakesStay
    BY <1>0, <1>1, <1>2, ReturnMoves DEF TypeOK, Kept, WakesStay, Return, SetPhase, PickIdle, Blocking, Goto
  <2>2. WakePending(t) => WakePending(t)'
    BY <2>1, PendingStays
  <2>3. Fine(t)'
    <3>1. CASE Blocking(t) /\ armed[t]
        BY <1>0, <1>1, <1>2, <3>1 DEF TypeOK, Fine, Prepared, SetPhase, PickIdle, Blocking, Goto, Waiting
    <3>2. CASE ~(Blocking(t) /\ armed[t])
        BY <1>0, <1>1, <1>2, <2>2, <3>2, ReturnMoves DEF TypeOK, Fine, Prepared, SetPhase, PickIdle, Return, Waiting
    <3> QED
        BY <3>1, <3>2
  <2> QED
    BY <2>1, <2>3, OneMoves
<1>3. CASE PickSelf(h, t)
  <2>1. /\ \A u \in Tasks \ {t} : Kept(u)
        /\ WakesStay
    BY <1>0, <1>1, <1>3, ReturnMoves DEF TypeOK, Kept, WakesStay, Return, SetPhase, PickSelf, Disarmed
  <2>2. WakePending(t) => WakePending(t)'
    BY <2>1, PendingStays
  <2>3. Fine(t)'
    BY <1>0, <1>1, <1>3, <2>2, ReturnMoves DEF TypeOK, Fine, Prepared, SetPhase, PickSelf, Return, Waiting, Disarmed, Blocking
  <2> QED
    BY <2>1, <2>3, OneMoves
<1>4. CASE ExitPark(h, t)
  <2>1. /\ \A u \in Tasks \ {t} : Kept(u)
        /\ WakesStay
    BY <1>0, <1>1, <1>4 DEF TypeOK, Kept, WakesStay, ExitPark, At, Goto
  <2>3. Fine(t)'
    BY <1>0, <1>1, <1>4 DEF TypeOK, Fine, Prepared, ExitPark, At, Goto, Waiting
  <2> QED
    BY <2>1, <2>3, OneMoves
<1> QED
    BY <1>2, <1>3, <1>4

(* Only a task in task_block() is left BLOCKED by the switch. *)
LEMMA BlockedBlocks ==
    ASSUME StackInv, NEW h \in Harts, NEW t \in Tasks, PickSwitch(h, t), ~Blocking(t)
    PROVE  state'[t] # "BLOCKED"
<1>0. TypeOK /\ state[t] = "RUNNING"
    BY RunsRunning DEF StackInv, PickSwitch, AtPick
<1>1. Scanned(state) \in [Tasks -> States] /\ Scanned(state)[t] = "RUNNING"
    BY <1>0, ScanTyped DEF Scanned, Due
<1>2. Preempted(t) \in [Tasks -> States] /\ Preempted(t)[t] = "READY"
    BY <1>1 DEF Preempted, Marked, States
<1> QED
    BY <1>2 DEF PickSwitch

(* The switch proper: whoever is BLOCKED by it was in task_block(), with   *)
(* no token, and is disarmed.                                              *)
LEMMA TokenSwitchStep ==
    ASSUME StackInv, TokenInv, NEW h \in Harts, NEW t \in Tasks, PickSwitch(h, t)
    PROVE  TokenInv'
<1>0. Fine(t) /\ state[t] = "RUNNING" /\ TypeOK
  <2>1. Runs(h, t)
    BY DEF PickSwitch, AtPick
  <2> QED
    BY <2>1, RunsRunning, TokenOfEach DEF StackInv
<1>1. PICK n \in Tasks \ {t} :
        /\ state[n] = "READY" \/ (state[n] = "BLOCKED" /\ wake_at[n])
        /\ aff[n] \in {NoPid, h}
        /\ state'[n] = "RUNNING" /\ current' = [current EXCEPT ![h] = n]
        /\ \/ state'[t] = "READY"
           \/ state'[t] = "BLOCKED" /\ pc[t] \in {"block", "sblock"}
        /\ \A u \in Tasks \ {n, t} :
                \/ state'[u] = state[u]
                \/ state[u] = "BLOCKED" /\ wake_at[u] /\ state'[u] = "READY"
        /\ \A u \in Tasks : wake_at'[u] => wake_at[u]
    BY PickSwitchTable
<1>2. state'[t] = "BLOCKED" => Blocking(t)
    BY BlockedBlocks
<1>3. /\ \A u \in Tasks \ {t} : Kept(u)
      /\ WakesStay /\ UNCHANGED <<pc, ev, token>>
    BY <1>0, <1>1 DEF TypeOK, Kept, WakesStay, SetPhase, PickSwitch, Disarmed
<1>4. WakePending(t) => WakePending(t)'
    BY <1>3, PendingStays
<1>5. Fine(t)'
  <2>1. CASE Blocking(t)
    BY <1>0, <1>1, <1>3, <1>4, <2>1 DEF TypeOK, Fine, Prepared, SetPhase, PickSwitch, Disarmed, HasToken, Blocking, AtPick, Phase
  <2>2. CASE ~Blocking(t)
    BY <1>0, <1>1, <1>2, <1>3, <1>4, <2>2 DEF TypeOK, Fine, Prepared, SetPhase, PickSwitch, Disarmed, Blocking, AtPick, Phase
  <2> QED
    BY <2>1, <2>2
<1> QED
    BY <1>3, <1>5, OneMoves
(* A waiter's condition comes true: its wake is on its way. *)
LEMMA TokenSignalStep ==
    ASSUME StackInv, TokenInv, NEW h \in Harts, NEW t \in Tasks, Signal(h, t)
    PROVE  TokenInv'
<1>0. TypeOK /\ \A u \in Tasks : Fine(u)
    BY TokenOfEach DEF StackInv
<1>1. PICK w \in Waiters \ {t} : ev' = [ev EXCEPT ![w] = TRUE] /\ arg' = [arg EXCEPT ![t] = w]
    BY DEF Signal
<1>2. /\ w \in Tasks /\ pc[t] = "body" /\ pc' = [pc EXCEPT ![t] = "wake"]
      /\ UNCHANGED <<state, armed, token, ph, tick>>
    BY DEF Waiters, Signal, At, Goto, tcb
<1>3. WakesStay /\ WakePending(w)'
    BY <1>0, <1>1, <1>2 DEF WakesStay, WakePending, TypeOK
<1>4. \A u \in Tasks \ {t, w} : Fine(u)'
    BY <1>0, <1>1, <1>2, <1>3, FineKept DEF Kept, TypeOK
<1>5. Fine(w)'
    BY <1>0, <1>1, <1>2, <1>3 DEF Fine, TypeOK, Prepared
<1>6. Fine(t)'
    BY <1>0, <1>1, <1>2, RunsRunning DEF Fine, TypeOK, Prepared, Waiting, Signal, At
<1> QED
    BY <1>4, <1>5, <1>6, TokenOfEachNext

(* task_unblock() of a waiter not yet off its hart leaves the token, since *)
(* a waiter past its test is armed; one off its hart is made READY.        *)
LEMMA TokenUnblockStep ==
    ASSUME StackInv, TokenInv, NEW h \in Harts, NEW t \in Tasks, Unblock(h, t)
    PROVE  TokenInv'
<1>0. TypeOK /\ (\A u \in Tasks : Fine(u)) /\ state[t] = "RUNNING"
  <2>1. Runs(h, t)
    BY DEF Unblock, At
  <2> QED
    BY <2>1, RunsRunning, TokenOfEach DEF StackInv
<1>2. PICK w \in Tasks : w = arg[t]
  <2>1. arg[t] \in Tasks
    BY DEF Unblock, At, StackInv, WakesLive, Waiters
  <2> QED
    BY <2>1
<1>1. /\ pc[t] = "wake" /\ pc' = [pc EXCEPT ![t] = "body"] /\ TaskUnblock(w)
      /\ arg' = [arg EXCEPT ![t] = NoPid]
      /\ UNCHANGED <<ph, tick, ev>>
    BY <1>2 DEF Unblock, At, Goto
<1>3. \A u \in Tasks \ {w} : WakePending(u) => WakePending(u)'
    BY <1>0, <1>1, <1>2 DEF WakePending, TypeOK
<1>4. ASSUME NEW u \in Tasks \ {t, w} PROVE Fine(u)'
    BY <1>0, <1>1, <1>2, <1>3, <1>4 DEF Fine, TypeOK, Prepared, TaskUnblock
<1>5. ASSUME w # t PROVE Fine(w)'
  <2>1. CASE state[w] = "BLOCKED"
    BY <1>0, <1>1, <1>2, <1>5, <2>1 DEF Fine, TypeOK, Prepared, TaskUnblock
  <2>2. CASE state[w] # "BLOCKED"
    BY <1>0, <1>1, <1>2, <1>5, <2>2 DEF Fine, TypeOK, Prepared, TaskUnblock
  <2> QED
    BY <2>1, <2>2
<1>6. Fine(t)'
    BY <1>0, <1>1, <1>2 DEF Fine, TypeOK, Prepared, TaskUnblock, Waiting
<1> QED
    BY <1>2, <1>4, <1>5, <1>6, TokenOfEachNext

(* task_create_full(): a slot under construction waits for nothing. *)
LEMMA TokenCreateStep ==
    ASSUME StackInv, TokenInv, NEW h \in Harts, NEW t \in Tasks,
           CreateReserve(h, t) \/ CreateFail(h, t) \/ CreateInit(h, t) \/ CreatePublish(h, t)
    PROVE  TokenInv'
<1>0. TypeOK /\ (\A u \in Tasks : Fine(u)) /\ state[t] = "RUNNING" /\ pc[t] \in {"body", "create", "publish"}
  <2>1. Runs(h, t) /\ pc[t] \in {"body", "create", "publish"}
    BY DEF CreateReserve, CreateFail, CreateInit, CreatePublish, At
  <2> QED
    BY <2>1, RunsRunning, TokenOfEach DEF StackInv
<1>1. CASE CreateReserve(h, t)
  <2>1. PICK s \in Tasks \ {0} :
            /\ state[s] \in {"UNUSED", "DEAD"} /\ state' = [state EXCEPT ![s] = "BLOCKED"]
            /\ arg' = [arg EXCEPT ![t] = s]
    BY <1>1 DEF CreateReserve, Reserved
  <2>2. pc[s] = "dead" /\ s # t
    BY <1>0, <2>1 DEF StackInv, SlotStates
  <2>3. /\ \A u \in Tasks \ {s, t} : Kept(u)
        /\ WakesStay /\ pc' = [pc EXCEPT ![t] = "create"] /\ UNCHANGED <<armed, token, ph, tick, ev>>
    BY <1>0, <1>1, <2>1, <2>2 DEF CreateReserve, Kept, WakesStay, TypeOK, At, Goto
  <2>4. Fine(s)'
    BY <1>0, <2>1, <2>2, <2>3 DEF Fine, TypeOK, Prepared, Waiting
  <2>5. Fine(t)'
    BY <1>0, <2>1, <2>2, <2>3 DEF Fine, TypeOK, Prepared, Waiting
  <2> QED
    BY <1>0, <2>3, <2>4, <2>5, FineKept, TokenOfEachNext
<1>2. CASE CreateFail(h, t) \/ CreatePublish(h, t)
  <2>1. t \in Creators /\ arg[t] \in Tasks
    BY <1>2, SlotOffHarts DEF CreateFail, CreatePublish, At, Creators
  <2>2. /\ WakesStay /\ pc' = [pc EXCEPT ![t] = "body"] /\ UNCHANGED <<armed, token, ph, tick, ev>>
        /\ state' = [state EXCEPT ![arg[t]] = state'[arg[t]]] /\ state'[arg[t]] # "BLOCKED"
    BY <1>0, <1>2, <2>1 DEF CreateFail, CreatePublish, WakesStay, TypeOK, At, Goto
  <2>3. \A u \in Tasks \ {t} : Kept(u)
    BY <1>0, <2>1, <2>2 DEF Kept, TypeOK
  <2>4. Fine(t)'
    BY <1>0, <2>1, <2>2 DEF Fine, TypeOK, Prepared, Waiting
  <2> QED
    BY <2>2, <2>3, <2>4, OneMoves
<1>3. CASE CreateInit(h, t)
  <2>1. t \in Creators /\ pc[t] = "create"
    BY <1>3 DEF CreateInit, At, Creators
  <2>2. PICK s \in Tasks : s = arg[t] /\ pc[s] = "dead" /\ state[s] = "BLOCKED" /\ s # t
    BY <1>0, <2>1 DEF StackInv, SlotsReserved
  <2>3. /\ pc' = [[pc EXCEPT ![s] = "body"] EXCEPT ![t] = "publish"]
        /\ ph' = [ph EXCEPT ![s] = "out"] /\ ev' = [ev EXCEPT ![s] = FALSE]
        /\ armed' = [armed EXCEPT ![s] = FALSE] /\ token' = [token EXCEPT ![s] = FALSE]
        /\ UNCHANGED <<state, tick, arg>>
    BY <1>3, <2>2 DEF CreateInit
  <2>4. WakesStay /\ \A u \in Tasks \ {t, s} : Kept(u)
    BY <1>0, <2>1, <2>2, <2>3 DEF Kept, WakesStay, TypeOK
  <2>5. Fine(t)'
    BY <1>0, <2>1, <2>2, <2>3 DEF Fine, TypeOK, Prepared, Waiting
  <2>6. Fine(s)'
    BY <1>0, <2>2, <2>3 DEF Fine, Prepared, TypeOK
  <2> QED
    BY <1>0, <2>4, <2>5, <2>6, FineKept, TokenOfEachNext
<1> QED
    BY <1>1, <1>2, <1>3

(* task_exit(): the table is scanned and the task leaves it. *)
LEMMA TokenExitStep ==
    ASSUME StackInv, TokenInv, NEW h \in Harts, NEW t \in Tasks, Exit(h, t)
    PROVE  TokenInv'
<1>0. Fine(t) /\ TypeOK /\ pc[t] = "exit"
    BY TokenOfEach DEF StackInv, Exit, At
<1>1. PICK n \in NextRunnable(state, h, t) :
        state' = [[Scanned(state) EXCEPT ![t] = "DEAD"] EXCEPT ![n] = "RUNNING"]
    BY DEF Exit
<1>2. \A u \in Tasks : state'[u] = state[u] \/ state'[u] # "BLOCKED"
    BY <1>0, <1>1, ScanFacts DEF TypeOK, Scanned
<1>3. /\ \A u \in Tasks \ {t} : Kept(u)
      /\ WakesStay
    BY <1>0, <1>2 DEF TypeOK, Kept, WakesStay, Exit, Goto
<1>4. state'[t] # "BLOCKED"
    BY <1>0, <1>1, ScanTyped DEF TypeOK
<1>5. Fine(t)'
    BY <1>0, <1>4 DEF Fine, TypeOK, Prepared, Waiting, Exit, Goto
<1> QED
    BY <1>3, <1>5, OneMoves

(* A hart in ctx_switch(), or coming up. *)
LEMMA TokenHartStep ==
    ASSUME StackInv, TokenInv, NEW h \in Harts, Park(h) \/ Resume(h) \/ SecondaryInit(h)
    PROVE  TokenInv'
<1>0. TypeOK /\ \A u \in Tasks : Fine(u)
    BY TokenOfEach DEF StackInv
<1>1. CASE Park(h)
  <2>1. WakesStay /\ \A u \in Tasks : Kept(u)
    BY <1>1 DEF Park, Kept, WakesStay, prog
  <2> QED
    BY <1>0, <2>1, FineKept, TokenOfEachNext
<1>2. CASE Resume(h)
  <2>1. PICK n \in Tasks : n = current[h] /\ state[n] = "RUNNING"
    <3>1. current[h] \in Tasks /\ state[current[h]] = "RUNNING"
        BY <1>2, Constants DEF Resume, StackInv, SwitchesTasks, RunningOnce
    <3> QED
        BY <3>1
  <2>2. SetPhase(n, "landed") /\ UNCHANGED <<state, armed, token, pc, arg, ev>>
    BY <1>2, <2>1 DEF Resume, Landed
  <2>3. WakesStay /\ \A u \in Tasks \ {n} : Kept(u)
    BY <1>0, <2>1, <2>2 DEF Kept, WakesStay, SetPhase, TypeOK
  <2>4. WakePending(n) => WakePending(n)'
    BY <2>1, <2>3, PendingStays
  <2>5. Fine(n)'
    BY <1>0, <2>1, <2>2, <2>4 DEF Fine, SetPhase, TypeOK, Prepared
  <2> QED
    BY <2>1, <2>3, <2>5, OneMoves
<1>3. CASE SecondaryInit(h)
  <2>1. PICK s \in Tasks \ {0} :
            /\ state[s] = "UNUSED" /\ state' = [state EXCEPT ![s] = "RUNNING"]
            /\ pc' = [pc EXCEPT ![s] = "idle"]
    BY <1>3 DEF SecondaryInit, Goto
  <2>2. pc[s] = "dead" /\ UNCHANGED <<armed, token, ph, tick, arg, ev>>
    BY <1>3, <2>1 DEF SecondaryInit, StackInv, SlotStates
  <2>3. WakesStay /\ \A u \in Tasks \ {s} : Kept(u)
    BY <1>0, <2>1, <2>2 DEF Kept, WakesStay, TypeOK
  <2>4. Fine(s)'
    BY <1>0, <2>1, <2>2 DEF Fine, TypeOK, Prepared, Waiting
  <2> QED
    BY <2>3, <2>4, OneMoves
<1> QED
    BY <1>1, <1>2, <1>3

LEMMA TokenStep == StackInv /\ TokenInv /\ [Next]_vars => TokenInv'
<1> SUFFICES ASSUME StackInv, TokenInv, [Next]_vars PROVE TokenInv'
    OBVIOUS
<1>1. ASSUME UNCHANGED <<state, armed, token, pc, ph, tick, arg, ev>> PROVE TokenInv'
  <2>1. WakesStay /\ \A u \in Tasks : Kept(u)
    BY <1>1 DEF WakesStay, Kept
  <2> QED
    BY <2>1, FineKept, TokenOfEach, TokenOfEachNext
<1>2. CASE UNCHANGED vars \/ Clock
    BY <1>1, <1>2 DEF vars, tcb, prog, Clock
<1>3. ASSUME NEW h \in Harts, NEW t \in Tasks, Step(h, t) \/ Tick(h, t) PROVE TokenInv'
  <2>1. CASE SetPriority(h, t) \/ SetAffinity(h, t)
    BY <1>1, <2>1 DEF SetPriority, SetAffinity, prog
  <2> QED
    BY <1>3, <2>1, TokenReapStep, TokenWokenStep, TokenStaysStep, TokenSwitchStep, TokenWaitStep, TokenSignalStep,
       TokenUnblockStep, TokenCreateStep, TokenExitStep DEF Step
<1> QED
    BY <1>2, <1>3, TokenHartStep DEF Next, HartStep, HartTick

-----------------------------------------------------------------------------
(* task_block() and task_unblock(): a task asleep in a prepared wait whose *)
(* condition has come true has a wake on its way to it, for any number of  *)
(* harts and tasks, as long as nobody wakes by pid a task that exits.      *)
THEOREM NoWakeLost == ASSUME StableTargets PROVE Spec => []NoLostWake
<1>1. StackInv /\ TokenInv /\ [Next]_vars => StackInv' /\ TokenInv'
    BY StackStep, TokenStep
<1>2. TokenInv => NoLostWake
    BY DEF TokenInv
<1> QED
    BY <1>1, <1>2, StackInit, TokenInit, PTL DEF Spec

(* task_wait_done(): no token outlives the wait it was prepared for, so    *)
(* none ends an unrelated block.                                           *)
THEOREM NoTokenEscapes == ASSUME StableTargets PROVE Spec => []TokenScoped
<1>1. StackInv /\ TokenInv /\ [Next]_vars => StackInv' /\ TokenInv'
    BY StackStep, TokenStep
<1>2. TokenInv => TokenScoped
    BY DEF TokenInv
<1> QED
    BY <1>1, <1>2, StackInit, TokenInit, PTL DEF Spec

-----------------------------------------------------------------------------
(* A step of the task on hart h: the other harts' slots and the phases of  *)
(* their tasks stay, and its own slot is empty unless it is in the switch. *)
LEMMA ReapElsewhere ==
    ASSUME StackInv, ReapDue, NEW h \in Harts, NEW t \in Tasks, current[h] = t,
           reap'[h] = NULL \/ hpc'[h] # "task",
           \A g \in Harts \ {h} : reap'[g] = reap[g] /\ hpc'[g] = hpc[g] /\ current'[g] = current[g],
           \A u \in Tasks \ {t} : state[u] = "RUNNING" => ph'[u] = ph[u] /\ tick'[u] = tick[u]
    PROVE  ReapDue'
<1> SUFFICES ASSUME NEW g \in Harts, reap'[g] # NULL, hpc'[g] = "task"
             PROVE  current'[g] \in Tasks /\ Phase(current[g])' = "landed"
    BY DEF ReapDue
<1>1. g # h /\ current[g] \in Tasks /\ Phase(current[g]) = "landed" /\ current'[g] = current[g]
    BY DEF ReapDue
<1>2. current[g] # t /\ state[current[g]] = "RUNNING"
    BY <1>1, Constants DEF StackInv, RunningOnce
<1> QED
    BY <1>1, <1>2 DEF Phase

LEMMA ReapDueTaskStep ==
    ASSUME StackInv, ReapDue, NEW h \in Harts, NEW t \in Tasks, Step(h, t) \/ Tick(h, t)
    PROVE  ReapDue'
<1>0. TypeOK
    BY DEF StackInv
<1>1. CASE Reap(h, t) \/ Yield(h, t) \/ Tick(h, t)
    BY <1>0, <1>1, ReapElsewhere
    DEF TypeOK, Reap, Yield, Tick, SchedReap, Runs, At, Return, SetPhase, NULL
<1>2. CASE PickWoken(h, t) \/ PickIdle(h, t) \/ PickSelf(h, t) \/ PickSwitch(h, t)
  <2>1. Runs(h, t) /\ Phase(t) = "pick" /\ reap[h] = NULL
    BY <1>2 DEF PickWoken, PickIdle, PickSelf, PickSwitch, AtPick, ReapDue, Runs
  <2>2. \A u \in Tasks \ {t} : ph'[u] = ph[u] /\ tick'[u] = tick[u]
    BY <1>0, <1>2 DEF TypeOK, PickWoken, PickIdle, PickSelf, PickSwitch, Return, SetPhase
  <2> QED
    BY <1>0, <1>2, <2>1, <2>2, ReapElsewhere
    DEF TypeOK, PickWoken, PickIdle, PickSelf, PickSwitch, cpu, Runs
<1>3. CASE \/ SpinEnd(h, t) \/ PrepareBlock(h, t) \/ TestWait(h, t) \/ SetDeadline(h, t)
           \/ ClearDeadline(h, t) \/ WaitDone(h, t) \/ BeginSleep(h, t) \/ SleepAgain(h, t)
           \/ EndSleep(h, t) \/ Signal(h, t) \/ Unblock(h, t) \/ CreateReserve(h, t)
           \/ CreateFail(h, t) \/ CreatePublish(h, t) \/ SetPriority(h, t) \/ SetAffinity(h, t)
           \/ BeginExit(h, t) \/ ExitPark(h, t)
  <2>1. Runs(h, t) /\ Phase(t) = "none" /\ UNCHANGED cpu
    BY <1>3 DEF At, Phase, SpinEnd, PrepareBlock, TestWait, SetDeadline, ClearDeadline, WaitDone, BeginSleep, SleepAgain,
        EndSleep, Signal, Unblock, CreateReserve, CreateFail, CreatePublish, SetPriority, SetAffinity, BeginExit, ExitPark
  <2>2. \A u \in Tasks \ {t} : ph'[u] = ph[u] /\ tick'[u] = tick[u]
    BY <1>0, <1>3 DEF TypeOK, prog, SpinEnd, PrepareBlock, TestWait, SetDeadline, ClearDeadline, WaitDone, BeginSleep,
        SleepAgain, EndSleep, Signal, Unblock, CreateReserve, CreateFail, CreatePublish, SetPriority, SetAffinity,
        BeginExit, ExitPark
  <2> QED
    BY <2>1, <2>2, ReapElsewhere DEF ReapDue, Runs, cpu
<1>4. CASE CreateInit(h, t)
  <2>1. Runs(h, t) /\ Phase(t) = "none" /\ UNCHANGED <<current, hpc, reap, tick>> /\ t \in Creators
    BY <1>4 DEF At, Phase, CreateInit, Creators
  <2>2. PICK s \in Tasks : s = arg[t] /\ state[s] = "BLOCKED"
    BY <2>1, SlotOffHarts
  <2>3. ph' = [ph EXCEPT ![s] = "out"]
    BY <1>4, <2>2 DEF CreateInit
  <2> QED
    BY <1>0, <2>1, <2>2, <2>3, ReapElsewhere DEF ReapDue, Runs, TypeOK
<1>5. CASE Exit(h, t)
    BY <1>0, <1>5, ReapElsewhere DEF TypeOK, Exit, At, Runs
<1> QED
    BY <1>1, <1>2, <1>3, <1>4, <1>5 DEF Step

(* The landing has the sched_reap() that empties the slot before it. *)
LEMMA ReapDueStep == StackInv /\ ReapDue /\ [Next]_vars => ReapDue'
<1> SUFFICES ASSUME StackInv, ReapDue, [Next]_vars PROVE ReapDue'
    OBVIOUS
<1>0. TypeOK
    BY DEF StackInv
<1>1. CASE UNCHANGED vars \/ Clock
    BY <1>1 DEF vars, tcb, cpu, prog, Clock, ReapDue, Phase
<1>2. ASSUME NEW h \in Harts, Park(h) PROVE ReapDue'
    BY <1>0, <1>2 DEF TypeOK, Park, prog, ReapDue, Phase
<1>3. ASSUME NEW h \in Harts, Resume(h) PROVE ReapDue'
  <2>1. PICK n \in Tasks : n = current[h]
    BY <1>3 DEF Resume, StackInv, SwitchesTasks
  <2>2. SetPhase(n, "landed") /\ UNCHANGED <<current, reap>> /\ hpc' = [hpc EXCEPT ![h] = "task"]
    BY <1>3, <2>1 DEF Resume, Landed
  <2>3. Phase(n)' = "landed"
    BY <1>0, <2>1, <2>2 DEF TypeOK, SetPhase, Phase
  <2>4. \A u \in Tasks \ {n} : Phase(u)' = Phase(u)
    BY <1>0, <2>1, <2>2 DEF TypeOK, SetPhase, Phase
  <2>5. ASSUME NEW g \in Harts, reap'[g] # NULL, hpc'[g] = "task" PROVE current'[g] \in Tasks /\ Phase(current[g])' = "landed"
    <3>1. CASE g = h
        BY <2>1, <2>2, <2>3, <3>1 DEF Phase
    <3>2. CASE g # h
      <4>1. hpc[g] = "task" /\ reap[g] # NULL /\ current'[g] = current[g] /\ current[g] \in Tasks
            /\ Phase(current[g]) = "landed"
        BY <1>0, <2>2, <2>5, <3>2 DEF TypeOK, ReapDue
      <4>2. current[g] # n
        BY <2>1, <3>2, Constants DEF StackInv, RunningOnce
      <4> QED
        BY <2>4, <4>1, <4>2 DEF Phase
    <3> QED
        BY <3>1, <3>2
  <2> QED
    BY <2>2, <2>5 DEF ReapDue, Phase
<1>4. ASSUME NEW h \in Harts, SecondaryInit(h) PROVE ReapDue'
    BY <1>0, <1>4, Constants DEF TypeOK, SecondaryInit, ReapDue, Phase
<1> QED
    BY <1>1, <1>2, <1>3, <1>4, ReapDueTaskStep DEF Next, HartStep, HartTick

(* task_exit(): the reap slot of the hart is empty whenever a task exits,  *)
(* so the code never halts on an occupied one and no stack is overwritten. *)
THEOREM ReapSlotSafety == ASSUME StableTargets PROVE Spec => []ReapSlotDrained
<1>1. Init => ReapDue
    BY DEF Init, ReapDue
<1>2. StackInv /\ ReapDue /\ [Next]_vars => StackInv' /\ ReapDue'
    BY StackStep, ReapDueStep
<1>3. ReapDue => ReapSlotDrained
    BY DEF ReapDue, ReapSlotDrained, At, Runs, Phase
<1> QED
    BY <1>1, <1>2, <1>3, StackInit, PTL DEF Spec

-----------------------------------------------------------------------------
(* A step that moves no stack and leaves no slot dead that was not. *)
LEMMA PagesUntouched ==
    ASSUME PagesKept, UNCHANGED <<stack_base, reap, pool>>,
           \A u \in Tasks : pc'[u] = "dead" => pc[u] = "dead"
    PROVE  PagesKept'
BY DEF PagesKept

(* sched_reap() gives the stack in the slot back. *)
LEMMA PagesReaped ==
    ASSUME TypeOK, PagesKept, NEW h \in Harts, SchedReap(h), UNCHANGED stack_base,
           \A u \in Tasks : pc'[u] = "dead" => pc[u] = "dead"
    PROVE  PagesKept'
BY DEF PagesKept, SchedReap, TypeOK, NULL

LEMMA PagesTaskStep ==
    ASSUME StackInv, PagesKept, NEW h \in Harts, NEW t \in Tasks, Step(h, t) \/ Tick(h, t)
    PROVE  PagesKept'
<1>0. TypeOK
    BY DEF StackInv
<1>1. CASE Reap(h, t) \/ Yield(h, t) \/ Tick(h, t)
    BY <1>0, <1>1, ReturnMoves, PagesReaped DEF Reap, Yield, Tick, tcb, TypeOK
<1>2. CASE PickWoken(h, t) \/ PickIdle(h, t) \/ PickSelf(h, t) \/ PickSwitch(h, t)
  <2>1. \A u \in Tasks : pc'[u] = "dead" => pc[u] = "dead"
    BY <1>0, <1>2, ReturnMoves DEF TypeOK, PickWoken, PickIdle, PickSelf, PickSwitch, Goto
  <2> QED
    BY <1>2, <2>1, PagesUntouched DEF PickWoken, PickIdle, PickSelf, PickSwitch, cpu
<1>3. CASE \/ SpinEnd(h, t) \/ PrepareBlock(h, t) \/ TestWait(h, t) \/ SetDeadline(h, t)
           \/ ClearDeadline(h, t) \/ WaitDone(h, t) \/ BeginSleep(h, t) \/ SleepAgain(h, t)
           \/ EndSleep(h, t) \/ Signal(h, t) \/ Unblock(h, t) \/ CreateReserve(h, t)
           \/ CreateFail(h, t) \/ CreatePublish(h, t) \/ SetPriority(h, t) \/ SetAffinity(h, t)
           \/ BeginExit(h, t) \/ ExitPark(h, t)
  <2>1. UNCHANGED <<stack_base, reap, pool>>
    BY <1>3 DEF tcb, cpu, SpinEnd, PrepareBlock, TestWait, SetDeadline, ClearDeadline, WaitDone, BeginSleep, SleepAgain,
        EndSleep, Signal, Unblock, CreateReserve, CreateFail, CreatePublish, SetPriority, SetAffinity, BeginExit, ExitPark
  <2>2. \A u \in Tasks : pc'[u] = "dead" => pc[u] = "dead"
    BY <1>0, <1>3 DEF TypeOK, prog, Goto, SpinEnd, PrepareBlock, TestWait, SetDeadline, ClearDeadline, WaitDone,
        BeginSleep, SleepAgain, EndSleep, Signal, Unblock, CreateReserve, CreateFail, CreatePublish, SetPriority,
        SetAffinity, BeginExit, ExitPark
  <2> QED
    BY <2>1, <2>2, PagesUntouched
<1>4. CASE CreateInit(h, t)
  <2>1. PICK s \in Tasks : s = arg[t] /\ pc[s] = "dead" /\ s # t
    BY <1>4 DEF CreateInit, At, StackInv, SlotsReserved, Creators
  <2>2. PICK k \in pool : pool' = pool \ {k} /\ stack_base' = [stack_base EXCEPT ![s] = k]
    BY <1>4, <2>1 DEF CreateInit
  <2>3. pc' = [[pc EXCEPT ![s] = "body"] EXCEPT ![t] = "publish"] /\ UNCHANGED reap
    BY <1>4, <2>1 DEF CreateInit
  <2>4. stack_base[s] = NULL /\ \A u \in Tasks : pc'[u] = "dead" => u # s /\ pc[u] = "dead"
    BY <1>0, <2>1, <2>3 DEF TypeOK, PagesKept
  <2>5. \A j \in Pages \ pool' : (\E u \in Tasks : stack_base'[u] = j) \/ (\E g \in Harts : reap'[g] = j)
    <3> TAKE j \in Pages \ pool'
    <3>1. CASE j = k
        BY <1>0, <2>1, <2>2, <3>1 DEF TypeOK
    <3>2. CASE j # k
        BY <1>0, <2>2, <2>3, <2>4, <3>2, Constants DEF TypeOK, PagesKept, NULL, Pages
    <3> QED
        BY <3>1, <3>2
  <2> QED
    BY <1>0, <2>2, <2>4, <2>5 DEF TypeOK, PagesKept
<1>5. CASE Exit(h, t)
  <2>1. /\ reap[h] = NULL /\ reap' = [reap EXCEPT ![h] = stack_base[t]]
        /\ stack_base' = [stack_base EXCEPT ![t] = NULL] /\ pc' = [pc EXCEPT ![t] = "dead"] /\ UNCHANGED pool
    BY <1>5 DEF Exit, Goto
  <2>2. \A j \in Pages \ pool' : (\E u \in Tasks : stack_base'[u] = j) \/ (\E g \in Harts : reap'[g] = j)
    <3> TAKE j \in Pages \ pool'
    <3>1. CASE stack_base[t] = j
        BY <1>0, <2>1, <3>1 DEF TypeOK
    <3>2. CASE stack_base[t] # j
        BY <1>0, <2>1, <3>2, Constants DEF TypeOK, PagesKept, NULL, Pages
    <3> QED
        BY <3>1, <3>2
  <2> QED
    BY <1>0, <2>1, <2>2 DEF TypeOK, PagesKept
<1> QED
    BY <1>1, <1>2, <1>3, <1>4, <1>5 DEF Step

LEMMA PagesStep == StackInv /\ PagesKept /\ [Next]_vars => PagesKept'
<1> SUFFICES ASSUME StackInv, PagesKept, [Next]_vars PROVE PagesKept'
    OBVIOUS
<1>0. TypeOK
    BY DEF StackInv
<1>1. CASE UNCHANGED vars \/ Clock
    BY <1>1, PagesUntouched DEF vars, tcb, cpu, prog, Clock
<1>2. ASSUME NEW h \in Harts, Park(h) \/ Resume(h) PROVE PagesKept'
    BY <1>2, PagesUntouched DEF Park, Resume, prog
<1>3. ASSUME NEW h \in Harts, SecondaryInit(h) PROVE PagesKept'
  <2>1. PICK s \in Tasks \ {0} :
            /\ state[s] = "UNUSED" /\ stack_base' = [stack_base EXCEPT ![s] = NULL]
            /\ pc' = [pc EXCEPT ![s] = "idle"]
    BY <1>3 DEF SecondaryInit, Goto
  <2>2. stack_base' = stack_base /\ UNCHANGED <<reap, pool>>
    BY <1>0, <1>3, <2>1 DEF TypeOK, SecondaryInit, PagesKept, StackInv, SlotStates
  <2> QED
    BY <1>0, <2>1, <2>2, PagesUntouched DEF TypeOK
<1> QED
    BY <1>1, <1>2, <1>3, PagesTaskStep DEF Next, HartStep, HartTick

(* Where each stack is, counted. *)
LEMMA PagesCounted == StackInv /\ PagesKept => StacksAccounted
<1> SUFFICES ASSUME StackInv, PagesKept, NEW k \in Pages
             PROVE  Cardinality({t \in Tasks : stack_base[t] = k}) + Cardinality({h \in Harts : reap[h] = k})
                        = IF k \in pool THEN 0 ELSE 1
    BY DEF StacksAccounted
<1> DEFINE A == {t \in Tasks : stack_base[t] = k}
           B == {h \in Harts : reap[h] = k}
<1>0. k # NULL /\ Cardinality({}) = 0 /\ \A x : Cardinality({x}) = 1
    BY FS_EmptySet, FS_Singleton, Constants DEF NULL, Pages
<1>1. CASE k \in pool
  <2>1. A = {} /\ B = {}
    BY <1>1 DEF StackInv, PagesApart
  <2> QED
    BY <1>0, <1>1, <2>1
<1>2. CASE k \notin pool
  <2>1. CASE \E t \in Tasks : stack_base[t] = k
    <3>1. PICK t \in Tasks : stack_base[t] = k
        BY <2>1
    <3>2. A = {t} /\ B = {}
        BY <1>0, <3>1 DEF StackInv, PagesApart
    <3>3. Cardinality(A) = 1 /\ Cardinality(B) = 0
        BY <1>0, <3>2 DEF A, B
    <3> QED
        BY <1>2, <3>3
  <2>2. CASE ~\E t \in Tasks : stack_base[t] = k
    <3>1. PICK h \in Harts : reap[h] = k
        BY <1>2, <2>2 DEF PagesKept
    <3>2. A = {} /\ B = {h}
        BY <1>0, <2>2, <3>1 DEF StackInv, PagesApart
    <3> QED
        BY <1>0, <1>2, <3>2
  <2> QED
    BY <2>1, <2>2
<1> QED
    BY <1>1, <1>2

(* palloc_pages(), task_exit() and sched_reap(): no stack is lost and none *)
(* has two owners, through any number of creations and exits.              *)
THEOREM NoStackLost == ASSUME StableTargets PROVE Spec => []StacksAccounted
<1>1. Init => PagesKept
    BY DEF Init, PagesKept
<1>2. StackInv /\ PagesKept /\ [Next]_vars => StackInv' /\ PagesKept'
    BY StackStep, PagesStep
<1> QED
    BY <1>1, <1>2, StackInit, PagesCounted, PTL DEF Spec

-----------------------------------------------------------------------------
(* The refinement.  What a step may do to the wake token of task u without *)
(* being a call of u's: nothing, or find its deadline passed.              *)
TimesOut(u) == WakeView'[u] = WakeView[u] \/ (WakeView[u] = "blocked" /\ WakeView'[u] = "none")

LEMMA ScanMaps ==
    ASSUME \A u \in Tasks : TimesOut(u)
    PROVE  Wake!Scan
<1> DEFINE D == {u \in Tasks : WakeView[u] = "blocked" /\ WakeView'[u] = "none"}
<1>1. D \in SUBSET {u \in Tasks : WakeView[u] = "blocked"}
    OBVIOUS
<1>2. WakeView' = [u \in Tasks |-> WakeView'[u]]
    BY DEF WakeView
<1>3. \A u \in Tasks : WakeView'[u] = IF u \in D THEN "none" ELSE WakeView[u]
    BY DEF TimesOut
<1>4. WakeView' = [u \in Tasks |-> IF u \in D THEN "none" ELSE WakeView[u]]
    BY <1>2, <1>3
<1> HIDE DEF D
<1> QED
    BY <1>1, <1>4 DEF Wake!Scan, Wake!TimedOut

LEMMA BlockMaps ==
    ASSUME NEW t \in Tasks, \A u \in Tasks \ {t} : TimesOut(u),
           \/ WakeView[t] = "token" /\ WakeView'[t] = "none"
           \/ WakeView[t] \in {"armed", "none"} /\ WakeView'[t] \in {"blocked", "none"}
    PROVE  Wake!Block(t)
<1> DEFINE B == Wake!Blocked(WakeView, t)
           D == {u \in Tasks : B[u] = "blocked" /\ WakeView'[u] = "none"}
<1>1. /\ B = [u \in Tasks |-> B[u]] /\ \A u \in Tasks \ {t} : B[u] = WakeView[u]
      /\ B[t] = IF WakeView[t] = "token" THEN "none" ELSE "blocked"
    BY DEF Wake!Blocked, WakeView
<1>2. D \in SUBSET {u \in Tasks : B[u] = "blocked"}
    OBVIOUS
<1> HIDE DEF B
<1>3. WakeView' = [u \in Tasks |-> WakeView'[u]]
    BY DEF WakeView
<1>4. \A u \in Tasks : WakeView'[u] = IF u \in D THEN "none" ELSE B[u]
    BY <1>1 DEF TimesOut
<1>5. WakeView' = [u \in Tasks |-> IF u \in D THEN "none" ELSE B[u]]
    BY <1>3, <1>4
<1> HIDE DEF D
<1> QED
    BY <1>2, <1>5 DEF Wake!Block, Wake!TimedOut, B

(* A task the step leaves alone keeps its token, or is made runnable. *)
LEMMA ViewKept ==
    ASSUME NEW u \in Tasks, Fine(u), Kept(u)
    PROVE  TimesOut(u)
BY DEF Fine, Kept, TimesOut, WakeView

(* So does one that is not BLOCKED before or after it. *)
LEMMA ViewAwake ==
    ASSUME NEW u \in Tasks, state[u] # "BLOCKED" \/ pc[u] \notin {"block", "sblock"},
           state'[u] # "BLOCKED" \/ pc'[u] \notin {"block", "sblock"},
           armed'[u] = armed[u], token'[u] = token[u]
    PROVE  TimesOut(u)
BY DEF TimesOut, WakeView

(* The calls of the waiting pattern are those of the abstract token. *)
LEMMA WakeOfWait ==
    ASSUME StackInv, TokenInv, NEW h \in Harts, NEW t \in Tasks,
           \/ SpinEnd(h, t) \/ PrepareBlock(h, t) \/ TestWait(h, t) \/ SetDeadline(h, t)
           \/ ClearDeadline(h, t) \/ WaitDone(h, t) \/ BeginSleep(h, t)
           \/ SleepAgain(h, t) \/ EndSleep(h, t) \/ BeginExit(h, t)
    PROVE  Wake!WakeNext
<1>0. (\A u \in Tasks : Fine(u)) /\ state[t] = "RUNNING" /\ TypeOK
  <2>1. Runs(h, t)
    BY DEF At, SpinEnd, PrepareBlock, TestWait, SetDeadline, ClearDeadline, WaitDone, BeginSleep, SleepAgain, EndSleep, BeginExit
  <2> QED
    BY <2>1, RunsRunning, TokenOfEach DEF StackInv
<1>1. UNCHANGED state
    BY DEF tcb, SpinEnd, PrepareBlock, TestWait, SetDeadline,
          ClearDeadline, WaitDone, BeginSleep, SleepAgain, EndSleep, BeginExit
<1>2. \A u \in Tasks \ {t} : pc'[u] = pc[u]
    BY <1>0 DEF TypeOK, Goto, SpinEnd, PrepareBlock, TestWait, SetDeadline,
          ClearDeadline, WaitDone, BeginSleep, SleepAgain, EndSleep, BeginExit
<1>3. CASE PrepareBlock(h, t)
  <2>1. WakeView' = [WakeView EXCEPT ![t] = "armed"] /\ WakeView[t] # "blocked"
    BY <1>0, <1>1, <1>2, <1>3 DEF PrepareBlock, TypeOK, WakeView
  <2> QED
    BY <2>1 DEF Wake!WakeNext, Wake!Prepare, Wake!Prepared
<1>4. CASE WaitDone(h, t)
  <2>1. WakeView' = [WakeView EXCEPT ![t] = "none"] /\ WakeView[t] # "blocked"
    BY <1>0, <1>1, <1>2, <1>4 DEF WaitDone, Disarm, TypeOK, WakeView
  <2> QED
    BY <2>1 DEF Wake!WakeNext, Wake!WaitDone, Wake!Finished
<1>5. CASE ~PrepareBlock(h, t) /\ ~WaitDone(h, t)
  <2>1. UNCHANGED <<armed, token>>
    BY <1>5 DEF tcb, SpinEnd, TestWait, SetDeadline, ClearDeadline, BeginSleep, SleepAgain, EndSleep, BeginExit
  <2>2. \A u \in Tasks : TimesOut(u)
    BY <1>0, <1>1, <1>2, <2>1 DEF TimesOut, WakeView
  <2> QED
    BY <2>2, ScanMaps DEF Wake!WakeNext
<1> QED
    BY <1>3, <1>4, <1>5

(* sched_switch(): whoever blocks in it takes the token, goes to sleep, or *)
(* finds its own deadline passed.                                          *)
LEMMA WakeOfPick ==
    ASSUME StackInv, TokenInv, NEW h \in Harts, NEW t \in Tasks,
           PickWoken(h, t) \/ PickIdle(h, t) \/ PickSelf(h, t) \/ PickSwitch(h, t)
    PROVE  Wake!WakeNext
<1>0. (\A u \in Tasks : Fine(u)) /\ state[t] = "RUNNING" /\ TypeOK
  <2>1. Runs(h, t)
    BY DEF PickWoken, PickIdle, PickSelf, PickSwitch, AtPick
  <2> QED
    BY <2>1, RunsRunning, TokenOfEach DEF StackInv
<1>1. CASE PickWoken(h, t)
  <2>1. \A u \in Tasks \ {t} : Kept(u)
    BY <1>0, <1>1, ReturnMoves DEF TypeOK, Kept, Return, SetPhase, PickWoken, Disarm
  <2>2. WakeView[t] = "token" /\ WakeView'[t] = "none"
    BY <1>0, <1>1 DEF TypeOK, PickWoken, HasToken, Disarm, WakeView
  <2> QED
    BY <1>0, <2>1, <2>2, ViewKept, BlockMaps DEF Wake!WakeNext
<1>2. CASE PickIdle(h, t)
  <2>1. \A u \in Tasks : state'[u] = state[u] \/ (u # t /\ state'[u] # "BLOCKED")
    BY <1>0, <1>2 DEF PickIdle, TypeOK, StaysOn, Scanned, Marked, Due
  <2>2. \A u \in Tasks \ {t} : Kept(u)
    BY <1>0, <1>2, <2>1, ReturnMoves DEF TypeOK, Kept, Return, SetPhase, PickIdle, Goto
  <2>3. TimesOut(t)
    BY <1>0, <1>2, <2>1, ViewAwake DEF PickIdle
  <2> QED
    BY <1>0, <2>2, <2>3, ViewKept, ScanMaps DEF Wake!WakeNext
<1>3. CASE PickSelf(h, t)
  <2>1. /\ \A u \in Tasks \ {t} : state'[u] = state[u] \/ state'[u] # "BLOCKED"
        /\ state'[t] = "RUNNING"
    BY <1>0, <1>3 DEF PickSelf, TypeOK, StaysOn, Scanned, Marked, Due
  <2>2. Blocking(t)
    BY <1>0, <1>3 DEF PickSelf, TypeOK, NextRunnable, Runnable, Scanned, Marked, Due
  <2>3. \A u \in Tasks \ {t} : Kept(u)
    BY <1>0, <1>3, <2>1, ReturnMoves DEF TypeOK, Kept, Return, SetPhase, PickSelf, Disarmed
  <2>4. WakeView[t] \in {"armed", "none"} /\ WakeView'[t] = "none"
    BY <1>0, <1>3, <2>1, <2>2 DEF TypeOK, PickSelf, HasToken, Disarmed, WakeView
  <2> QED
    BY <1>0, <2>3, <2>4, ViewKept, BlockMaps DEF Wake!WakeNext
<1>4. CASE PickSwitch(h, t)
  <2>1. PICK n \in Tasks \ {t} :
        /\ state'[n] = "RUNNING"
        /\ state'[t] = "READY" \/ state'[t] = "BLOCKED"
        /\ \A u \in Tasks \ {n, t} : state'[u] = state[u] \/ state'[u] # "BLOCKED"
    BY <1>4, PickSwitchTable
  <2>2. \A u \in Tasks \ {t} : Kept(u)
    BY <1>0, <1>4, <2>1 DEF TypeOK, Kept, SetPhase, PickSwitch, Disarmed
  <2>3. CASE Blocking(t)
    <3>1. WakeView[t] \in {"armed", "none"} /\ WakeView'[t] \in {"blocked", "none"}
        BY <1>0, <1>4, <2>1, <2>3 DEF TypeOK, PickSwitch, HasToken, Disarmed, WakeView
    <3> QED
        BY <1>0, <2>2, <3>1, ViewKept, BlockMaps DEF Wake!WakeNext
  <2>4. CASE ~Blocking(t)
    <3>1. state'[t] # "BLOCKED"
        BY <1>4, <2>4, BlockedBlocks
    <3>2. TimesOut(t)
        BY <1>0, <1>4, <2>4, <3>1, ViewAwake DEF PickSwitch, Disarmed
    <3> QED
        BY <1>0, <2>2, <3>2, ViewKept, ScanMaps DEF Wake!WakeNext
  <2> QED
    BY <2>3, <2>4
<1> QED
    BY <1>1, <1>2, <1>3, <1>4

(* task_unblock(): a blocked task is woken, a prepared one gets the token. *)
LEMMA WakeOfUnblock ==
    ASSUME StackInv, TokenInv, NEW h \in Harts, NEW t \in Tasks, Unblock(h, t)
    PROVE  Wake!WakeNext
<1>0. TypeOK /\ (\A u \in Tasks : Fine(u)) /\ state[t] = "RUNNING"
  <2>1. Runs(h, t)
    BY DEF Unblock, At
  <2> QED
    BY <2>1, RunsRunning, TokenOfEach DEF StackInv
<1>1. PICK w \in Tasks : w = arg[t]
  <2>1. arg[t] \in Tasks
    BY DEF Unblock, At, StackInv, WakesLive, Waiters
  <2> QED
    BY <2>1
<1>2. TaskUnblock(w) /\ \A u \in Tasks \ {t} : pc'[u] = pc[u]
    BY <1>0, <1>1 DEF Unblock, Goto, TypeOK
<1>3. \A u \in Tasks \ {w} : state'[u] = state[u] /\ armed'[u] = armed[u] /\ token'[u] = token[u]
    BY <1>0, <1>2 DEF TaskUnblock, TypeOK
<1>4. \A u \in Tasks \ {w} : WakeView'[u] = WakeView[u]
    BY <1>0, <1>2, <1>3 DEF WakeView
<1>5. WakeView'[w] = CASE WakeView[w] = "blocked" -> "none"
                       [] WakeView[w] = "armed"   -> "token"
                       [] OTHER                   -> WakeView[w]
  <2>1. CASE state[w] = "BLOCKED"
    <3>1. Fine(w) /\ state'[w] = "READY" /\ ~armed'[w] /\ token'[w] = token[w]
        BY <1>0, <1>2, <2>1 DEF TaskUnblock, TypeOK
    <3>2. ~armed[w] /\ ~token[w]
        BY <2>1, <3>1 DEF Fine, Waiting
    <3>3. WakeView'[w] = "none" /\ WakeView[w] \in {"blocked", "none"}
        BY <2>1, <3>1, <3>2 DEF WakeView
    <3> QED
        BY <3>3
  <2>2. CASE state[w] # "BLOCKED"
    <3>1. state'[w] # "BLOCKED" /\ armed'[w] = armed[w] /\ token'[w] = (token[w] \/ armed[w])
        BY <1>0, <1>2, <2>2 DEF TaskUnblock, TypeOK
    <3>2. /\ token[w] => WakeView[w] = "token" /\ WakeView'[w] = "token"
          /\ armed[w] /\ ~token[w] => WakeView[w] = "armed" /\ WakeView'[w] = "token"
          /\ ~armed[w] /\ ~token[w] => WakeView[w] = "none" /\ WakeView'[w] = "none"
        BY <2>2, <3>1 DEF WakeView
    <3> QED
        BY <1>0, <3>2 DEF TypeOK
  <2> QED
    BY <2>1, <2>2
<1>6. WakeView' = [WakeView EXCEPT ![w] = WakeView'[w]]
    BY <1>4 DEF WakeView
<1>7. WakeView' = Wake!Unblocked(WakeView, w)
    BY <1>5, <1>6 DEF Wake!Unblocked, WakeView
<1> QED
    BY <1>7 DEF Wake!WakeNext, Wake!Unblock

(* Everything else is a scan, or invisible. *)
LEMMA WakeOfOther ==
    ASSUME StackInv, TokenInv, NEW h \in Harts, NEW t \in Tasks,
           \/ Reap(h, t) \/ Yield(h, t) \/ Tick(h, t) \/ Signal(h, t)
           \/ SetPriority(h, t) \/ SetAffinity(h, t) \/ ExitPark(h, t) \/ Exit(h, t)
    PROVE  Wake!WakeNext
<1>0. (\A u \in Tasks : Fine(u)) /\ state[t] = "RUNNING" /\ TypeOK
  <2>1. Runs(h, t)
    BY DEF Reap, Yield, Tick, Signal, SetPriority, SetAffinity, ExitPark, Exit, At
  <2> QED
    BY <2>1, RunsRunning, TokenOfEach DEF StackInv
<1>1. \A u \in Tasks \ {t} : pc'[u] = pc[u]
    BY <1>0, ReturnMoves DEF TypeOK, Goto, prog, Reap, Yield, Tick, Signal, SetPriority, SetAffinity, ExitPark, Exit
<1>2. UNCHANGED <<armed, token>>
    BY DEF tcb, Reap, Yield, Tick, Signal, SetPriority, SetAffinity, ExitPark, Exit
<1>3. \A u \in Tasks : state'[u] = state[u] \/ state'[u] # "BLOCKED"
  <2>1. CASE Exit(h, t)
    <3>1. PICK n \in NextRunnable(state, h, t) :
            state' = [[Scanned(state) EXCEPT ![t] = "DEAD"] EXCEPT ![n] = "RUNNING"]
        BY <2>1 DEF Exit
    <3> QED
        BY <1>0, <3>1, ScanFacts DEF TypeOK, Scanned
  <2>2. CASE ExitPark(h, t)
    BY <1>0, <2>2, ScanFacts DEF TypeOK, ExitPark
  <2> QED
    BY <2>1, <2>2 DEF tcb, Reap, Yield, Tick, Signal, SetPriority, SetAffinity
<1>4. \A u \in Tasks : TimesOut(u)
    BY <1>0, <1>1, <1>2, <1>3 DEF TimesOut, WakeView, Fine
<1> QED
    BY <1>4, ScanMaps DEF Wake!WakeNext

LEMMA WakeOfCreate ==
    ASSUME StackInv, TokenInv, NEW h \in Harts, NEW t \in Tasks,
           CreateReserve(h, t) \/ CreateFail(h, t) \/ CreateInit(h, t) \/ CreatePublish(h, t)
    PROVE  Wake!WakeNext
<1>0. (\A u \in Tasks : Fine(u)) /\ state[t] = "RUNNING" /\ TypeOK
  <2>1. Runs(h, t)
    BY DEF CreateReserve, CreateFail, CreateInit, CreatePublish, At
  <2> QED
    BY <2>1, RunsRunning, TokenOfEach DEF StackInv
<1>1. PICK s \in Tasks :
        /\ s # t /\ pc[s] \in {"dead", "body"} /\ pc'[s] \in {"dead", "body"}
        /\ \A u \in Tasks \ {s} : state'[u] = state[u] /\ armed'[u] = armed[u] /\ token'[u] = token[u]
        /\ \A u \in Tasks \ {s, t} : pc'[u] = pc[u]
        /\ UNCHANGED <<armed, token>> \/ (~armed'[s] /\ ~token'[s])
  <2>1. CASE CreateReserve(h, t)
    <3>1. PICK s \in Tasks \ {0} : state[s] \in {"UNUSED", "DEAD"} /\ state' = [state EXCEPT ![s] = Reserved]
        BY <2>1 DEF CreateReserve
    <3>2. s # t /\ pc[s] = "dead" /\ pc' = [pc EXCEPT ![t] = "create"] /\ UNCHANGED <<armed, token>>
        BY <1>0, <2>1, <3>1 DEF CreateReserve, Goto, StackInv, SlotStates
    <3> QED
        BY <1>0, <3>1, <3>2 DEF TypeOK
  <2>2. CASE ~CreateReserve(h, t)
    <3>1. t \in Creators
        BY <2>2 DEF CreateFail, CreateInit, CreatePublish, At, Creators
    <3>2. PICK s \in Tasks : s = arg[t] /\ s # t /\ pc[s] \in {"dead", "body"}
        BY <1>0, <3>1 DEF StackInv, SlotsReserved, Creators
    <3>3. CASE CreateFail(h, t) \/ CreatePublish(h, t)
        BY <1>0, <3>2, <3>3 DEF TypeOK, CreateFail, CreatePublish, Goto
    <3>4. CASE CreateInit(h, t)
        BY <1>0, <3>2, <3>4 DEF TypeOK, CreateInit
    <3> QED
        BY <2>2, <3>3, <3>4
  <2> QED
    BY <2>1, <2>2
<1>2. ~armed[s] /\ ~token[s]
    BY <1>0, <1>1 DEF Fine, Waiting
<1>3. \A u \in Tasks : TimesOut(u)
    BY <1>0, <1>1, <1>2 DEF TimesOut, WakeView
<1> QED
    BY <1>3, ScanMaps DEF Wake!WakeNext

LEMMA WakeStep == StackInv /\ TokenInv /\ [Next]_vars => [Wake!WakeNext]_WakeView
<1> SUFFICES ASSUME StackInv, TokenInv, [Next]_vars PROVE [Wake!WakeNext]_WakeView
    OBVIOUS
<1>1. CASE UNCHANGED vars \/ Clock
    BY <1>1 DEF vars, tcb, prog, Clock, WakeView
<1>2. ASSUME NEW h \in Harts, Park(h) \/ Resume(h) PROVE WakeView' = WakeView
    BY <1>2 DEF Park, Resume, prog, WakeView
<1>3. ASSUME NEW h \in Harts, SecondaryInit(h) PROVE WakeView' = WakeView
  <2>1. PICK s \in Tasks \ {0} : /\ state[s] = "UNUSED" /\ state' = [state EXCEPT ![s] = "RUNNING"]
                                 /\ pc' = [pc EXCEPT ![s] = "idle"]
    BY <1>3 DEF SecondaryInit, Goto
  <2> QED
    BY <1>3, <2>1 DEF SecondaryInit, WakeView, StackInv, TypeOK
<1>4. ASSUME NEW h \in Harts, NEW t \in Tasks, Step(h, t) \/ Tick(h, t) PROVE Wake!WakeNext
    BY <1>4, WakeOfWait, WakeOfPick, WakeOfUnblock, WakeOfOther, WakeOfCreate DEF Step
<1> QED
    BY <1>1, <1>2, <1>3, <1>4 DEF Next, HartStep, HartTick

(* kernel/sched.c implements the wake token of sched.h: every step of the  *)
(* table, the lock and the harts is a prepare, a block, a wake, a timeout  *)
(* or the end of a wait, or is invisible to those who wait.                *)
THEOREM TokenImplemented == ASSUME StableTargets PROVE Spec => ImplementsWakeToken
<1>1. Init => Wake!WakeInit
    BY DEF Init, Wake!WakeInit, WakeView
<1>2. StackInv /\ TokenInv /\ [Next]_vars => StackInv' /\ TokenInv'
    BY StackStep, TokenStep
<1> QED
    BY <1>1, <1>2, WakeStep, StackInit, TokenInit, PTL DEF Spec, ImplementsWakeToken, Wake!WakeSpec
=============================================================================
