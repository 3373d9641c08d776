---------------------------- MODULE StackProofs ----------------------------
(***************************************************************************)
(* The stack discipline of kernel/sched.c, proved: StackInv is inductive,  *)
(* so no two harts ever execute on one stack, none on a stack that has     *)
(* been freed, and none resumes a task from a frame that is not there.     *)
(***************************************************************************)
EXTENDS SchedProofs

(* What StackInv says beyond the types and the lock. *)
Discipline ==
    /\ RunningOnce
    /\ SlotStates
    /\ Deadlines
    /\ SlotsReserved
    /\ WakesLive
    /\ BootTasks
    /\ PagesApart
    /\ FramesParked
    /\ OnOwnStack

LEMMA StackInit == Init => StackInv
<1> SUFFICES ASSUME Init PROVE StackInv
    OBVIOUS
<1>1. TypeOK /\ SwitchesTasks
    BY TypeInit DEF TypeInv
<1> USE Constants DEF Init
<1>2. HandOff /\ RunningOnce
    BY DEF HandOff, RunningOnce
<1>3. SlotStates /\ SlotsReserved /\ WakesLive
    BY DEF SlotStates, SlotsReserved, WakesLive, Creators
<1>6. Deadlines
    BY DEF Deadlines
<1>4. BootTasks
    BY DEF BootTasks, NULL, NoPid
<1>5. PagesApart /\ FramesParked /\ OnOwnStack
    BY DEF PagesApart, FramesParked, OnOwnStack, Home, NULL, NoPid
<1> QED
    BY <1>1, <1>2, <1>3, <1>4, <1>5, <1>6 DEF StackInv

(* What the stacks, the frames and the hand-off are made of. *)
core == <<state, aff, stack_base, sp, current, reap, lock, exec, hpc, out, pool>>

(* Where a task can be in its code without holding anything others look at. *)
Ordinary == PCs \ {"dead", "idle", "create", "publish", "wake"}

(* Task t stays where it is in its code, or moves within the ordinary part *)
(* of it.                                                                  *)
MovesOn(t) ==
    \/ UNCHANGED pc
    \/ pc[t] \in Ordinary \cup {"wake"} /\ \E q \in Ordinary \ {"exit"} : pc' = [pc EXCEPT ![t] = q]

LEMMA MovesOnFacts ==
    ASSUME TypeOK, NEW t \in Tasks, MovesOn(t)
    PROVE  /\ \A u \in Tasks \ {t} : pc'[u] = pc[u]
           /\ \/ pc'[t] = pc[t]
              \/ /\ pc[t] \notin {"dead", "idle", "create", "publish"}
                 /\ pc'[t] \notin {"dead", "idle", "create", "publish", "wake", "exit"}
BY DEF MovesOn, TypeOK, Ordinary, PCs

(* What a running task's own moves cannot disturb: the slots, and whose    *)
(* they are.                                                               *)
LEMMA SlotsUndisturbed ==
    ASSUME StackInv, UNCHANGED <<state, arg, stack_base>>,
           NEW t \in Tasks, state[t] = "RUNNING", MovesOn(t)
    PROVE  SlotStates' /\ SlotsReserved' /\ WakesLive'
<1>0. /\ \A u \in Tasks \ {t} : pc'[u] = pc[u]
      /\ \/ pc'[t] = pc[t]
         \/ /\ pc[t] \notin {"dead", "idle", "create", "publish"}
            /\ pc'[t] \notin {"dead", "idle", "create", "publish", "wake", "exit"}
    BY MovesOnFacts DEF StackInv
<1> USE <1>0, Constants DEF StackInv
<1>1. SlotStates'
    BY DEF SlotStates
<1>4. Creators' = Creators
  <2>1. \A c \in Tasks : pc'[c] \in {"create", "publish"} <=> pc[c] \in {"create", "publish"}
    BY ONLY <1>0
  <2> QED
    BY <2>1 DEF Creators
<1>5. \A c \in Creators : pc'[c] = pc[c] /\ arg[c] # t /\ arg[c] \in Tasks
    BY DEF SlotsReserved, Creators
<1>2. SlotsReserved'
    BY ZenonT(60), <1>4, <1>5 DEF SlotsReserved
<1>3. WakesLive'
    BY <1>4, <1>5 DEF WakesLive, Waiters
<1> QED
    BY <1>1, <1>2, <1>3

(* A running task that moves along in its own code, and touches nothing of *)
(* what other harts schedule by, disturbs nothing.                         *)
LEMMA LocalStep ==
    ASSUME StackInv, UNCHANGED core, UNCHANGED arg, Deadlines',
           NEW t \in Tasks, state[t] = "RUNNING", MovesOn(t)
    PROVE  Discipline'
<1>0. /\ \A u \in Tasks \ {t} : pc'[u] = pc[u]
      /\ \/ pc'[t] = pc[t]
         \/ /\ pc[t] \notin {"dead", "idle", "create", "publish"}
            /\ pc'[t] \notin {"dead", "idle", "create", "publish", "wake", "exit"}
    BY MovesOnFacts DEF StackInv
<1> USE Constants DEF StackInv, core
<1>1. RunningOnce' /\ PagesApart'
    BY DEF RunningOnce, PagesApart
<1>2. SlotStates' /\ SlotsReserved' /\ WakesLive'
    BY SlotsUndisturbed
<1>3. BootTasks'
    BY <1>0 DEF BootTasks, SlotStates
<1>4. FramesParked'
    BY <1>0 DEF FramesParked, Home
<1>5. OnOwnStack'
    BY <1>0 DEF OnOwnStack, Home, SwitchesTasks
<1> QED
    BY <1>1, <1>2, <1>3, <1>4, <1>5 DEF Discipline

(* sched_switch() returns to where the task's code goes on: it moves only  *)
(* if the switch was task_block()'s.                                       *)
LEMMA ReturnMoves ==
    ASSUME TypeOK, NEW t \in Tasks, Return(t)
    PROVE  \/ UNCHANGED pc
           \/ /\ pc[t] \in {"block", "sblock"}
              /\ pc' = [pc EXCEPT ![t] = pc'[t]]
              /\ pc'[t] \in {"prepare", "cleardl", "sleep"}
              /\ pc'[t] = "prepare" => pc[t] = "block" /\ dl[t] = "none"
              /\ pc'[t] = "sleep" => pc[t] = "sblock"
<1>1. CASE tick[t] # "none"
    BY <1>1 DEF Return
<1>2. CASE tick[t] = "none"
  <2>1. pc' = [pc EXCEPT ![t] = AfterBlock(t)]
    BY <1>2 DEF Return, Goto
  <2>2. CASE pc[t] = "block"
    <3>1. AfterBlock(t) = IF dl[t] = "none" THEN "prepare" ELSE "cleardl"
        BY <2>2 DEF AfterBlock
    <3> QED
        BY <2>1, <2>2, <3>1 DEF TypeOK
  <2>3. CASE pc[t] = "sblock"
    <3>1. AfterBlock(t) = "sleep"
        BY <2>3 DEF AfterBlock
    <3> QED
        BY <2>1, <2>3, <3>1 DEF TypeOK
  <2>4. CASE pc[t] \notin {"block", "sblock"}
    <3>1. AfterBlock(t) = pc[t]
        BY <2>4 DEF AfterBlock
    <3> QED
        BY <2>1, <3>1 DEF TypeOK
  <2> QED
    BY <2>2, <2>3, <2>4
<1> QED
    BY <1>1, <1>2

LEMMA ReturnSafe ==
    ASSUME TypeOK, Deadlines, NEW t \in Tasks, Return(t), UNCHANGED dl,
           \A u \in Tasks : wake_at'[u] => wake_at[u]
    PROVE  MovesOn(t) /\ Deadlines'
<1>1. MovesOn(t)
    BY ReturnMoves DEF MovesOn, Ordinary, PCs
<1>2. Deadlines'
    BY ReturnMoves DEF Deadlines, TypeOK
<1> QED
    BY <1>1, <1>2

(* The task a hart runs is RUNNING. *)
LEMMA RunsRunning ==
    ASSUME StackInv, NEW h \in Harts, NEW t \in Tasks, Runs(h, t)
    PROVE  state[t] = "RUNNING" /\ pc[t] # "dead"
BY Constants DEF StackInv, RunningOnce, SlotStates, Runs

LEMMA PickWokenStep ==
    ASSUME StackInv, NEW h \in Harts, NEW t \in Tasks, PickWoken(h, t)
    PROVE  Discipline'
<1>1. UNCHANGED core /\ UNCHANGED <<arg, wake_at, dl>> /\ Runs(h, t) /\ Return(t)
    BY DEF PickWoken, AtPick, core, cpu
<1>2. TypeOK /\ Deadlines
    BY DEF StackInv
<1>3. MovesOn(t) /\ Deadlines'
    BY <1>1, <1>2, ReturnSafe
<1> QED
    BY <1>1, <1>3, LocalStep, RunsRunning

(* The waiting pattern and the sleep, but for the switch they end in. *)
LEMMA WaitStep ==
    ASSUME StackInv, NEW h \in Harts, NEW t \in Tasks,
           \/ SpinEnd(h, t) \/ PrepareBlock(h, t) \/ TestWait(h, t) \/ SetDeadline(h, t)
           \/ ClearDeadline(h, t) \/ WaitDone(h, t) \/ BeginSleep(h, t)
           \/ SleepAgain(h, t) \/ EndSleep(h, t)
    PROVE  Discipline'
<1> DEFINE Moves(q) == /\ UNCHANGED core /\ UNCHANGED arg /\ Runs(h, t)
                       /\ pc[t] \in Ordinary
                       /\ pc' = [pc EXCEPT ![t] = q]
                       /\ Deadlines'
<1>0. TypeOK /\ Deadlines
    BY DEF StackInv
<1>10. ASSUME NEW q \in Ordinary \ {"exit"}, Moves(q) PROVE Discipline'
  <2>1. MovesOn(t) /\ state[t] = "RUNNING"
    BY <1>10, RunsRunning DEF MovesOn
  <2> QED
    BY <1>10, <2>1, LocalStep
<1> USE <1>0 DEF TypeOK, Deadlines, Runs, At, Goto, Ordinary, PCs, core, tcb, cpu
<1>1. CASE SpinEnd(h, t)
  <2>1. Moves("prepare") \/ Moves("cleardl")
    BY <1>1 DEF SpinEnd
  <2> QED
    BY <2>1, <1>10
<1>2. CASE PrepareBlock(h, t)
  <2>1. Moves("test")
    BY <1>2 DEF PrepareBlock
  <2> QED
    BY <2>1, <1>10
<1>3. CASE SetDeadline(h, t)
  <2>1. Moves("block")
    BY <1>3 DEF SetDeadline
  <2> QED
    BY <2>1, <1>10
<1>4. CASE ClearDeadline(h, t)
  <2>1. Moves("prepare")
    BY <1>4 DEF ClearDeadline
  <2> QED
    BY <2>1, <1>10
<1>5. CASE WaitDone(h, t)
  <2>1. Moves("body")
    BY <1>5 DEF WaitDone, Disarm
  <2> QED
    BY <2>1, <1>10
<1>6. CASE BeginSleep(h, t)
  <2>1. Moves("sleep")
    BY <1>6 DEF BeginSleep
  <2> QED
    BY <2>1, <1>10
<1>7. CASE SleepAgain(h, t)
  <2>1. Moves("sblock")
    BY <1>7 DEF SleepAgain
  <2> QED
    BY <2>1, <1>10
<1>8. CASE EndSleep(h, t)
  <2>1. Moves("body")
    BY <1>8 DEF EndSleep
  <2> QED
    BY <2>1, <1>10
<1>9. CASE TestWait(h, t)
  <2>1. Moves("done") \/ Moves("setdl") \/ Moves("block")
    BY <1>9 DEF TestWait
  <2> QED
    BY <2>1, <1>10
<1> QED
    BY <1>1, <1>2, <1>3, <1>4, <1>5, <1>6, <1>7, <1>8, <1>9

(* sched_reap() on a hart that is outside ctx_switch(): the stack it frees *)
(* is nobody's.                                                            *)
LEMMA ReapStep ==
    ASSUME StackInv, NEW h \in Harts, NEW t \in Tasks, Runs(h, t), SchedReap(h),
           UNCHANGED <<state, aff, stack_base, sp, arg>>, MovesOn(t), Deadlines'
    PROVE  Discipline'
<1>0. /\ \A u \in Tasks \ {t} : pc'[u] = pc[u]
      /\ \/ pc'[t] = pc[t]
         \/ /\ pc[t] \notin {"dead", "idle", "create", "publish"}
            /\ pc'[t] \notin {"dead", "idle", "create", "publish", "wake", "exit"}
    BY MovesOnFacts DEF StackInv
<1>1. state[t] = "RUNNING"
    BY RunsRunning
<1>2. SlotStates' /\ SlotsReserved' /\ WakesLive'
    BY <1>1, SlotsUndisturbed
<1>3. UNCHANGED <<current, lock, exec, hpc, out>>
    BY DEF SchedReap
<1> USE Constants, <1>3 DEF StackInv
<1>4. RunningOnce'
    BY DEF RunningOnce
<1>5. BootTasks'
    BY <1>0, <1>1 DEF BootTasks, SlotStates
<1>9. /\ \A g \in Harts : reap'[g] = IF g = h THEN NULL ELSE reap[g]
      /\ \A k : k \in pool' <=> k \in pool \/ (k = reap[h] /\ k # NULL)
      /\ NULL \notin pool
    BY DEF SchedReap, TypeOK
<1>6. PagesApart'
    BY <1>9 DEF PagesApart
<1>7. FramesParked'
    BY <1>0, <1>1 DEF FramesParked, Home
<1>8. OnOwnStack'
  <2>1. OnOwnStack /\ UNCHANGED <<state, aff, stack_base, sp, current, exec, hpc, out>>
    OBVIOUS
  <2>2. \A g \in Harts : hpc[g] # "task" => reap'[g] = reap[g] /\ out[g] \in Tasks
    BY <1>9 DEF Runs, SwitchesTasks
  <2>3. \A u \in Tasks : state[u] # "RUNNING" => pc'[u] = pc[u]
    BY <1>0, <1>1
  <2>4. \A g \in Harts : current[g] \in Tasks \cup {NoPid}
    BY DEF TypeOK
  <2> QED
    BY ONLY <2>1, <2>2, <2>3, <2>4 DEF OnOwnStack, Home
<1> QED
    BY <1>2, <1>4, <1>5, <1>6, <1>7, <1>8 DEF Discipline

LEMMA ReapsStep ==
    ASSUME StackInv, NEW h \in Harts, NEW t \in Tasks, Reap(h, t) \/ Yield(h, t) \/ Tick(h, t)
    PROVE  Discipline'
<1>1. /\ Runs(h, t) /\ SchedReap(h)
      /\ UNCHANGED <<state, aff, stack_base, sp, arg, wake_at, dl>>
      /\ UNCHANGED pc \/ Return(t)
    BY DEF Reap, Yield, Tick, At, Runs, tcb
<1>2. TypeOK /\ Deadlines
    BY DEF StackInv
<1>3. MovesOn(t) /\ Deadlines'
  <2>1. CASE UNCHANGED pc
    BY <1>1, <1>2, <2>1 DEF MovesOn, Deadlines
  <2>2. CASE Return(t)
    BY <1>1, <1>2, <2>2, ReturnSafe
  <2> QED
    BY <1>1, <2>1, <2>2
<1> QED
    BY <1>1, <1>3, ReapStep

(* What next_runnable()'s scan does to the table: it wakes sleepers whose  *)
(* time has come, and nothing else.                                        *)
LEMMA ScanFacts ==
    ASSUME NEW st \in [Tasks -> States], NEW u \in Tasks
    PROVE  /\ \/ Scanned(st)[u] = st[u]
              \/ st[u] = "BLOCKED" /\ wake_at[u] /\ Scanned(st)[u] = "READY"
           /\ WakeLeft(st)[u] => wake_at[u]
BY DEF Scanned, WakeLeft, Due

(* A scan after which the hart stays with its task. *)
LEMMA ScanStep ==
    ASSUME StackInv, NEW h \in Harts, NEW t \in Tasks, Runs(h, t), lock = Free,
           UNCHANGED <<aff, stack_base, sp, cpu, arg>>, MovesOn(t), Deadlines',
           state'[t] = "RUNNING",
           \A u \in Tasks \ {t} :
                \/ state'[u] = state[u]
                \/ state[u] = "BLOCKED" /\ wake_at[u] /\ state'[u] = "READY"
    PROVE  Discipline'
<1>0. /\ \A u \in Tasks \ {t} : pc'[u] = pc[u]
      /\ \/ pc'[t] = pc[t]
         \/ /\ pc[t] \notin {"dead", "idle", "create", "publish"}
            /\ pc'[t] \notin {"dead", "idle", "create", "publish", "wake", "exit"}
    BY MovesOnFacts DEF StackInv
<1>1. state[t] = "RUNNING"
    BY RunsRunning
<1> USE Constants, <1>0, <1>1 DEF StackInv, cpu
<1>2. RunningOnce'
  <2>1. \A u \in Tasks : state'[u] = "RUNNING" <=> state[u] = "RUNNING"
    OBVIOUS
  <2>2. \A g \in Harts : current[g] \in Tasks \cup {NoPid}
    BY DEF TypeOK
  <2>3. RunningOnce /\ UNCHANGED current
    OBVIOUS
  <2> QED
    BY ONLY <2>1, <2>2, <2>3 DEF RunningOnce
<1>3. \A u \in Tasks : wake_at[u] => pc[u] \notin {"dead", "body"}
    BY DEF Deadlines
<1>4. SlotStates'
    BY <1>3 DEF SlotStates
<1>5. Creators' = Creators
  <2>1. \A c \in Tasks : pc'[c] \in {"create", "publish"} <=> pc[c] \in {"create", "publish"}
    BY ONLY <1>0
  <2> QED
    BY <2>1 DEF Creators
<1>6. \A c \in Creators : pc'[c] = pc[c] /\ arg[c] # t /\ arg[c] \in Tasks /\ ~wake_at[arg[c]]
    BY ZenonT(60), <1>3 DEF SlotsReserved, Creators
<1>7. SlotsReserved'
  <2>1. \A c \in Creators : state'[arg[c]] = state[arg[c]] /\ pc'[arg[c]] = pc[arg[c]]
    BY <1>6
  <2> QED
    BY <1>5, <1>6, <2>1 DEF SlotsReserved
<1>8. WakesLive'
  <2>1. /\ \A u \in Tasks : pc'[u] = "wake" => pc[u] = "wake"
        /\ \A u \in Tasks : pc'[u] = "dead" => pc[u] = "dead"
    BY ONLY <1>0
  <2>2. WakesLive /\ UNCHANGED arg /\ Waiters \subseteq Tasks
    BY DEF Waiters
  <2>3. Waiters' = Waiters
    BY DEF Waiters
  <2> QED
    BY ONLY <1>5, <2>1, <2>2, <2>3 DEF WakesLive
<1>9. BootTasks' /\ PagesApart'
    BY DEF BootTasks, PagesApart, SlotStates
<1>10. \A g \in Harts : hpc[g] = "task"
    BY DEF HandOff
<1>11. FramesParked'
    BY <1>3, <1>10 DEF FramesParked, Home
<1>12. OnOwnStack'
    BY <1>10 DEF OnOwnStack, Home
<1> QED
    BY <1>2, <1>4, <1>7, <1>8, <1>9, <1>11, <1>12 DEF Discipline

(* The scans after which the hart stays with its task: nothing to run, or  *)
(* the caller itself, or nothing to exit to.                               *)
LEMMA StaysStep ==
    ASSUME StackInv, NEW h \in Harts, NEW t \in Tasks,
           PickIdle(h, t) \/ PickSelf(h, t) \/ ExitPark(h, t)
    PROVE  Discipline'
<1>1. TypeOK /\ Deadlines
    BY DEF StackInv
<1>2. Runs(h, t) /\ lock = Free /\ UNCHANGED <<aff, stack_base, sp, cpu, arg, dl>>
    BY DEF PickIdle, PickSelf, ExitPark, AtPick, At
<1>3. state[t] = "RUNNING"
    BY <1>2, RunsRunning
<1>4. ASSUME PickIdle(h, t) \/ PickSelf(h, t)
      PROVE  /\ state'[t] = "RUNNING"
             /\ \A u \in Tasks \ {t} :
                    \/ state'[u] = state[u]
                    \/ state[u] = "BLOCKED" /\ wake_at[u] /\ state'[u] = "READY"
             /\ \A u \in Tasks : wake_at'[u] => wake_at[u]
  <2>1. state' = [Scanned(Marked(t)) EXCEPT ![t] = "RUNNING"] /\ wake_at' = WakeLeft(Marked(t))
    BY <1>4 DEF PickIdle, PickSelf, StaysOn
  <2>2. Marked(t) \in [Tasks -> States] /\ \A u \in Tasks \ {t} : Marked(t)[u] = state[u]
    BY <1>1 DEF Marked, TypeOK, States
  <2>3. Scanned(Marked(t)) \in [Tasks -> States]
    BY <1>1, ScanTyped
  <2>4. state'[t] = "RUNNING" /\ \A u \in Tasks \ {t} : state'[u] = Scanned(Marked(t))[u]
    BY <2>1, <2>3
  <2> QED
    BY <2>1, <2>2, <2>4, ScanFacts
<1>5. ASSUME ExitPark(h, t)
      PROVE  /\ state'[t] = "RUNNING"
             /\ \A u \in Tasks \ {t} :
                    \/ state'[u] = state[u]
                    \/ state[u] = "BLOCKED" /\ wake_at[u] /\ state'[u] = "READY"
             /\ \A u \in Tasks : wake_at'[u] => wake_at[u]
  <2>1. state' = Scanned(state) /\ wake_at' = WakeLeft(state) /\ state \in [Tasks -> States]
    BY <1>1, <1>5 DEF ExitPark, TypeOK
  <2> QED
    BY <1>3, <2>1, ScanFacts
<1>6. ASSUME PickIdle(h, t) \/ PickSelf(h, t) \/ ExitPark(h, t) PROVE MovesOn(t) /\ Deadlines'
  <2>1. CASE Return(t)
    BY <1>1, <1>2, <1>4, <1>5, <1>6, <2>1, ReturnSafe
  <2>2. CASE pc[t] \in {"block", "sblock"} /\ pc' = [pc EXCEPT ![t] = "spin"]
    <3>1. MovesOn(t)
        BY <2>2 DEF MovesOn, Ordinary, PCs
    <3>2. \A u \in Tasks : wake_at'[u] => wake_at[u]
        BY <1>4, <1>5, <1>6
    <3> QED
        BY <1>1, <1>2, <2>2, <3>1, <3>2 DEF Deadlines, TypeOK
  <2>3. CASE pc[t] = "exit" /\ pc' = [pc EXCEPT ![t] = "parked"]
    <3>1. MovesOn(t)
        BY <2>3 DEF MovesOn, Ordinary, PCs
    <3>2. \A u \in Tasks : wake_at'[u] => wake_at[u]
        BY <1>4, <1>5, <1>6
    <3> QED
        BY <1>1, <1>2, <2>3, <3>1, <3>2 DEF Deadlines, TypeOK
  <2> QED
    BY <1>6, <2>1, <2>2, <2>3 DEF PickIdle, PickSelf, ExitPark, Blocking, Goto, At
<1> QED
    BY <1>2, <1>4, <1>5, <1>6, ScanStep

(* task_exit() up to its lock section. *)
LEMMA BeginExitStep ==
    ASSUME StackInv, NEW h \in Harts, NEW t \in Tasks, BeginExit(h, t)
    PROVE  Discipline'
<1>1. /\ state[t] = "RUNNING" /\ pc[t] = "body" /\ t \in Exiters
      /\ pc' = [pc EXCEPT ![t] = "exit"]
      /\ UNCHANGED core /\ UNCHANGED <<arg, wake_at, dl>>
    BY RunsRunning DEF BeginExit, At, Goto, Exiters, core, tcb, cpu
<1>2. pc'[t] = "exit" /\ \A u \in Tasks \ {t} : pc'[u] = pc[u]
    BY <1>1 DEF StackInv, TypeOK
<1> USE Constants, <1>1, <1>2 DEF StackInv, core
<1>3. RunningOnce' /\ PagesApart' /\ Deadlines'
    BY DEF RunningOnce, PagesApart, Deadlines
<1>4. SlotStates'
    BY DEF SlotStates
<1>5. Creators' = Creators /\ \A c \in Creators : c # t /\ arg[c] # t /\ arg[c] \in Tasks
    BY DEF Creators, SlotsReserved
<1>6. SlotsReserved'
    BY <1>5 DEF SlotsReserved, Creators
<1>7. WakesLive'
    BY <1>5 DEF WakesLive, Waiters
<1>8. BootTasks'
    BY DEF BootTasks
<1>9. FramesParked'
    BY DEF FramesParked, Home
<1>10. OnOwnStack'
    BY DEF OnOwnStack, Home, SwitchesTasks
<1> QED
    BY <1>3, <1>4, <1>6, <1>7, <1>8, <1>9, <1>10 DEF Discipline

(* A step that leaves the code where it was and the stacks alone. *)
LEMMA FrameStep ==
    ASSUME StackInv, UNCHANGED core, UNCHANGED <<pc, arg>>, Deadlines'
    PROVE  Discipline'
<1> USE DEF StackInv, core
<1>1. RunningOnce' /\ SlotStates' /\ SlotsReserved' /\ WakesLive'
    BY DEF RunningOnce, SlotStates, SlotsReserved, WakesLive, Creators
<1>2. BootTasks' /\ PagesApart'
    BY DEF BootTasks, PagesApart
<1>3. FramesParked' /\ OnOwnStack'
    BY DEF FramesParked, OnOwnStack, Home
<1> QED
    BY <1>1, <1>2, <1>3 DEF Discipline

LEMMA ClockStep == StackInv /\ Clock => Discipline'
<1> SUFFICES ASSUME StackInv, Clock PROVE Discipline'
    OBVIOUS
<1>1. UNCHANGED core /\ UNCHANGED <<pc, arg, wake_at>>
    BY DEF Clock, core, tcb, cpu
<1>2. Deadlines'
    BY <1>1 DEF StackInv, Deadlines, Clock, TypeOK
<1> QED
    BY <1>1, <1>2, FrameStep

LEMMA SetPriorityStep ==
    ASSUME StackInv, NEW h \in Harts, NEW t \in Tasks, SetPriority(h, t)
    PROVE  Discipline'
<1>1. UNCHANGED core /\ UNCHANGED <<pc, arg, wake_at, dl>>
    BY DEF SetPriority, core, cpu, prog
<1>2. Deadlines'
    BY <1>1 DEF StackInv, Deadlines
<1> QED
    BY <1>1, <1>2, FrameStep

(* task_set_affinity() of a task that is not pinned: if it is alive, it has *)
(* a stack of its own.                                                      *)
LEMMA SetAffinityStep ==
    ASSUME StackInv, NEW h \in Harts, NEW t \in Tasks, SetAffinity(h, t)
    PROVE  Discipline'
<1>1. PICK u \in Tasks, a \in Pins : aff[u] = NoPid /\ aff' = [aff EXCEPT ![u] = a]
    BY DEF SetAffinity
<1>2. UNCHANGED <<state, stack_base, sp, cpu, pc, arg, wake_at, dl>>
    BY DEF SetAffinity, prog
<1>3. \A v \in Tasks : stack_base[v] = NULL /\ pc[v] # "dead" => aff'[v] = aff[v]
  <2>1. aff \in [Tasks -> Harts \cup {NoPid}] /\ BootTasks
    BY DEF StackInv, TypeOK
  <2> QED
    BY <1>1, <2>1, Constants DEF BootTasks
<1>4. RunningOnce' /\ SlotStates' /\ SlotsReserved' /\ WakesLive' /\ Deadlines' /\ PagesApart'
    BY <1>2 DEF StackInv, cpu, RunningOnce, SlotStates, SlotsReserved, WakesLive, Creators, Deadlines, PagesApart
<1>5. /\ \A g \in Harts : current[g] # NoPid => current[g] \in Tasks /\ pc[current[g]] # "dead"
      /\ \A g \in Harts : hpc[g] # "task" =>
            /\ current[g] \in Tasks /\ pc[current[g]] # "dead" /\ out[g] \in Tasks
            /\ state[out[g]] # "DEAD" => pc[out[g]] # "dead"
  <2>1. /\ \A g \in Harts : current[g] \in Tasks \cup {NoPid}
        /\ SwitchesTasks /\ SlotStates /\ RunningOnce /\ OnOwnStack /\ NoPid \notin Tasks
    BY Constants DEF StackInv, TypeOK
  <2> QED
    BY ONLY <2>1 DEF SwitchesTasks, SlotStates, RunningOnce, OnOwnStack
<1>6. BootTasks'
  <2>1. BootTasks /\ UNCHANGED <<pc, stack_base, current, hpc, exec>>
    BY <1>2 DEF StackInv, cpu
  <2> QED
    BY ONLY <1>3, <1>5, <2>1 DEF BootTasks
<1>7. FramesParked'
  <2>1. FramesParked /\ UNCHANGED <<state, pc, stack_base, sp, hpc, out>>
    BY <1>2 DEF StackInv, cpu
  <2> QED
    BY ONLY <1>3, <2>1 DEF FramesParked, Home
<1>8. OnOwnStack'
  <2>1. OnOwnStack /\ UNCHANGED <<state, pc, stack_base, sp, current, reap, exec, hpc, out>>
    BY <1>2 DEF StackInv, cpu
  <2> QED
    BY ONLY <1>3, <1>5, <2>1 DEF OnOwnStack, Home
<1> QED
    BY <1>4, <1>6, <1>7, <1>8 DEF Discipline

(* Reservations last while nothing of the slot or of its creator moves. *)
LEMMA ReservedKept ==
    ASSUME SlotsReserved, Creators' = Creators,
           \A c \in Creators :
                /\ pc'[c] = pc[c] /\ arg'[c] = arg[c]
                /\ state'[arg[c]] = state[arg[c]] /\ pc'[arg[c]] = pc[arg[c]]
                /\ stack_base'[arg[c]] = stack_base[arg[c]]
    PROVE  SlotsReserved'
BY DEF SlotsReserved

(* A waiter's condition is made true, and its wake is on its way. *)
LEMMA SignalStep ==
    ASSUME StackInv, NEW h \in Harts, NEW t \in Tasks, Signal(h, t)
    PROVE  Discipline'
<1>1. PICK w \in Waiters \ {t} : pc[w] \in Waiting /\ arg' = [arg EXCEPT ![t] = w]
    BY DEF Signal
<1>2. /\ state[t] = "RUNNING" /\ pc[t] = "body" /\ pc' = [pc EXCEPT ![t] = "wake"]
      /\ UNCHANGED core /\ UNCHANGED <<wake_at, dl>>
    BY RunsRunning DEF Signal, At, Goto, core, tcb, cpu
<1>3. /\ pc'[t] = "wake" /\ \A u \in Tasks \ {t} : pc'[u] = pc[u]
      /\ arg'[t] = w /\ \A u \in Tasks \ {t} : arg'[u] = arg[u]
    BY <1>1, <1>2 DEF StackInv, TypeOK
<1> USE Constants, <1>2, <1>3 DEF StackInv, core
<1>4. RunningOnce' /\ PagesApart' /\ Deadlines'
    BY DEF RunningOnce, PagesApart, Deadlines
<1>5. SlotStates'
    BY DEF SlotStates
<1>6. Creators' = Creators /\ \A c \in Creators : c # t /\ arg[c] # t /\ arg[c] \in Tasks /\ c \in Tasks
    BY DEF Creators, SlotsReserved
<1>7. SlotsReserved'
    BY <1>6, ReservedKept
<1>8. WakesLive'
  <2>1. w \in Tasks /\ w \in Waiters /\ pc[w] \notin {"dead", "body"}
    BY <1>1 DEF Waiters, Waiting
  <2>2. \A c \in Creators : arg[c] # w
    BY <2>1 DEF SlotsReserved, Creators
  <2> QED
    BY <1>1, <1>6, <2>1, <2>2 DEF WakesLive, Waiters
<1>9. BootTasks'
    BY DEF BootTasks
<1>10. FramesParked'
    BY DEF FramesParked, Home
<1>11. OnOwnStack'
    BY DEF OnOwnStack, Home, SwitchesTasks
<1> QED
    BY <1>4, <1>5, <1>7, <1>8, <1>9, <1>10, <1>11 DEF Discipline

(* task_unblock(): the task it makes READY is a published one, so there is *)
(* a frame to resume it from.                                              *)
LEMMA UnblockStep ==
    ASSUME StackInv, NEW h \in Harts, NEW t \in Tasks, Unblock(h, t)
    PROVE  Discipline'
<1> DEFINE w == arg[t]
<1>1. /\ state[t] = "RUNNING" /\ pc[t] = "wake" /\ pc' = [pc EXCEPT ![t] = "body"]
      /\ lock = Free /\ TaskUnblock(w) /\ arg' = [arg EXCEPT ![t] = NoPid]
      /\ UNCHANGED <<aff, stack_base, sp, cpu, dl>>
    BY RunsRunning DEF Unblock, At, Goto
<1>2. /\ pc'[t] = "body" /\ \A u \in Tasks \ {t} : pc'[u] = pc[u] /\ arg'[u] = arg[u]
    BY <1>1 DEF StackInv, TypeOK
<1>3. w \in Tasks /\ pc[w] # "dead" /\ \A c \in Creators : arg[c] # w
    BY <1>1 DEF StackInv, WakesLive, Waiters
<1>4. /\ \A u \in Tasks \ {w} : state'[u] = state[u]
      /\ state'[w] = state[w] \/ (state[w] = "BLOCKED" /\ state'[w] = "READY")
      /\ \A u \in Tasks : wake_at'[u] => wake_at[u]
    BY <1>1, <1>3 DEF TaskUnblock, StackInv, TypeOK
<1> HIDE DEF w
<1> USE Constants, <1>1, <1>2, <1>3, <1>4 DEF StackInv, cpu
<1>5. RunningOnce'
  <2>1. \A u \in Tasks : state'[u] = "RUNNING" <=> state[u] = "RUNNING"
    OBVIOUS
  <2>2. \A g \in Harts : current[g] \in Tasks \cup {NoPid}
    BY DEF TypeOK
  <2>3. RunningOnce /\ UNCHANGED current
    OBVIOUS
  <2> QED
    BY ONLY <2>1, <2>2, <2>3 DEF RunningOnce
<1>6. PagesApart' /\ Deadlines'
    BY DEF PagesApart, Deadlines
<1>7. SlotStates'
    BY DEF SlotStates
<1>8. /\ Creators' = Creators
      /\ \A c \in Creators : c # t /\ arg[c] # t /\ arg[c] # w /\ arg[c] \in Tasks /\ c \in Tasks
    BY DEF Creators, SlotsReserved
<1>9. SlotsReserved'
    BY <1>8, ReservedKept
<1>10. WakesLive'
    BY <1>8 DEF WakesLive, Waiters
<1>11. BootTasks'
    BY DEF BootTasks
<1>12. \A g \in Harts : hpc[g] = "task"
    BY DEF HandOff
<1>13. FramesParked'
    BY <1>12 DEF FramesParked, Home
<1>14. OnOwnStack'
    BY <1>12 DEF OnOwnStack, Home
<1> QED
    BY <1>5, <1>6, <1>7, <1>9, <1>10, <1>11, <1>13, <1>14 DEF Discipline

(* What a creator's slot is not: current on a hart, or being left by one. *)
LEMMA SlotOffHarts ==
    ASSUME StackInv, NEW c \in Creators
    PROVE  /\ arg[c] \in Tasks \ {0} /\ c \in Tasks /\ state[arg[c]] = "BLOCKED"
           /\ \A g \in Harts : current[g] # arg[c] /\ (hpc[g] # "task" => out[g] # arg[c])
<1>1. /\ arg[c] \in Tasks \ {0} /\ c \in Tasks /\ state[arg[c]] = "BLOCKED"
      /\ pc[arg[c]] \in {"dead", "body"}
    BY DEF StackInv, SlotsReserved, Creators
<1>2. \A g \in Harts : current[g] # arg[c]
    BY <1>1, Constants DEF StackInv, RunningOnce, TypeOK
<1>3. \A g \in Harts : hpc[g] # "task" => out[g] # arg[c]
    BY <1>1 DEF StackInv, OnOwnStack
<1> QED
    BY <1>1, <1>2, <1>3

(* RUNNING tasks stay what they were. *)
LEMMA RunningKept ==
    ASSUME StackInv, UNCHANGED current,
           \A u \in Tasks : state'[u] = "RUNNING" <=> state[u] = "RUNNING"
    PROVE  RunningOnce'
<1>1. RunningOnce /\ \A g \in Harts : current[g] \in Tasks \cup {NoPid}
    BY DEF StackInv, TypeOK
<1> QED
    BY <1>1 DEF RunningOnce

(* task_create_full(), the reservation: the slot it takes is free. *)
LEMMA CreateReserveStep ==
    ASSUME StackInv, NEW h \in Harts, NEW t \in Tasks, CreateReserve(h, t)
    PROVE  Discipline'
<1>1. PICK s \in Tasks \ {0} : /\ state[s] \in {"UNUSED", "DEAD"}
                               /\ state' = [state EXCEPT ![s] = "BLOCKED"]
                               /\ arg' = [arg EXCEPT ![t] = s]
    BY DEF CreateReserve, Reserved
<1>2. /\ state[t] = "RUNNING" /\ pc[t] = "body" /\ pc' = [pc EXCEPT ![t] = "create"]
      /\ lock = Free /\ UNCHANGED <<aff, wake_at, stack_base, sp, cpu, dl>>
    BY RunsRunning DEF CreateReserve, At, Goto
<1>3. /\ pc'[t] = "create" /\ \A u \in Tasks \ {t} : pc'[u] = pc[u]
      /\ arg'[t] = s /\ \A u \in Tasks \ {t} : arg'[u] = arg[u]
      /\ state'[s] = "BLOCKED" /\ \A u \in Tasks \ {s} : state'[u] = state[u]
    BY <1>1, <1>2 DEF StackInv, TypeOK
<1>4. pc[s] = "dead" /\ s # t
    BY <1>1, <1>2 DEF StackInv, SlotStates
<1> USE Constants, <1>1, <1>2, <1>3, <1>4 DEF StackInv, cpu
<1>5. RunningOnce'
    BY RunningKept
<1>6. PagesApart' /\ Deadlines'
    BY DEF PagesApart, Deadlines
<1>7. SlotStates'
    BY DEF SlotStates
<1>8. /\ Creators' = Creators \cup {t}
      /\ \A c \in Creators : c # t /\ arg[c] # t /\ arg[c] # s /\ arg[c] \in Tasks /\ c \in Tasks
    BY DEF Creators, SlotsReserved
<1>9. SlotsReserved'
  <2>1. \A c \in Creators : arg'[c] = arg[c] /\ pc'[c] = pc[c] /\ state'[arg[c]] = state[arg[c]]
                            /\ pc'[arg[c]] = pc[arg[c]]
    BY <1>8
  <2>2. SlotsReserved /\ UNCHANGED stack_base
    OBVIOUS
  <2> QED
    BY ONLY <1>1, <1>3, <1>4, <1>8, <2>1, <2>2 DEF SlotsReserved
<1>10. WakesLive'
    BY <1>8 DEF WakesLive, Waiters
<1>11. BootTasks'
    BY DEF BootTasks
<1>12. \A g \in Harts : hpc[g] = "task"
    BY DEF HandOff
<1>13. FramesParked'
    BY <1>12 DEF FramesParked, Home
<1>14. OnOwnStack'
    BY <1>12 DEF OnOwnStack, Home
<1> QED
    BY <1>5, <1>6, <1>7, <1>9, <1>10, <1>11, <1>13, <1>14 DEF Discipline

(* ... and its release when there is no stack to be had. *)
LEMMA CreateFailStep ==
    ASSUME StackInv, NEW h \in Harts, NEW t \in Tasks, CreateFail(h, t)
    PROVE  Discipline'
<1> DEFINE s == arg[t]
<1>1. /\ state[t] = "RUNNING" /\ pc[t] = "create" /\ pc' = [pc EXCEPT ![t] = "body"]
      /\ state' = [state EXCEPT ![s] = "UNUSED"] /\ arg' = [arg EXCEPT ![t] = NoPid]
      /\ UNCHANGED <<aff, wake_at, stack_base, sp, cpu, dl>>
    BY RunsRunning DEF CreateFail, At, Goto
<1>2. t \in Creators
    BY <1>1 DEF Creators
<1>3. /\ s \in Tasks \ {0} /\ state[s] = "BLOCKED" /\ pc[s] = "dead"
      /\ \A g \in Harts : current[g] # s /\ (hpc[g] # "task" => out[g] # s)
    BY <1>1, <1>2, SlotOffHarts DEF StackInv, SlotsReserved
<1>4. /\ pc'[t] = "body" /\ \A u \in Tasks \ {t} : pc'[u] = pc[u]
      /\ \A u \in Tasks \ {t} : arg'[u] = arg[u]
      /\ state'[s] = "UNUSED" /\ \A u \in Tasks \ {s} : state'[u] = state[u]
    BY <1>1, <1>3 DEF StackInv, TypeOK
<1> HIDE DEF s
<1> USE Constants, <1>1, <1>2, <1>3, <1>4 DEF StackInv, cpu
<1>5. RunningOnce'
    BY RunningKept
<1>6. PagesApart' /\ Deadlines'
    BY DEF PagesApart, Deadlines
<1>7. SlotStates'
    BY DEF SlotStates
<1>8. /\ Creators' = Creators \ {t}
      /\ \A c \in Creators \ {t} : arg[c] # t /\ arg[c] # s /\ arg[c] \in Tasks /\ c \in Tasks
    BY DEF Creators, SlotsReserved, s
<1>9. SlotsReserved'
  <2>1. \A c \in Creators \ {t} : arg'[c] = arg[c] /\ pc'[c] = pc[c] /\ state'[arg[c]] = state[arg[c]]
                                  /\ pc'[arg[c]] = pc[arg[c]]
    BY <1>8
  <2>2. SlotsReserved /\ UNCHANGED stack_base
    OBVIOUS
  <2> QED
    BY ONLY <1>8, <2>1, <2>2 DEF SlotsReserved
<1>10. WakesLive'
    BY <1>8 DEF WakesLive, Waiters
<1>11. BootTasks'
    BY DEF BootTasks
<1>13. FramesParked'
    BY DEF FramesParked, Home
<1>14. OnOwnStack'
  <2>1. OnOwnStack /\ UNCHANGED <<aff, stack_base, sp, current, reap, exec, hpc, out>>
    OBVIOUS
  <2>2. \A g \in Harts : hpc[g] # "task" => out[g] \in Tasks /\ out[g] # s
    BY DEF SwitchesTasks
  <2>3. \A u \in Tasks \ {s} : state'[u] = state[u] /\ (state[u] # "RUNNING" => pc'[u] = pc[u])
    OBVIOUS
  <2> QED
    BY ONLY <2>1, <2>2, <2>3 DEF OnOwnStack, Home
<1> QED
    BY <1>5, <1>6, <1>7, <1>9, <1>10, <1>11, <1>13, <1>14 DEF Discipline

(* The slot is filled in: its stack is nobody else's, and the frame that   *)
(* task_start() will be entered from is on it.                             *)
LEMMA CreateInitStep ==
    ASSUME StackInv, NEW h \in Harts, NEW t \in Tasks, CreateInit(h, t)
    PROVE  Discipline'
<1> DEFINE s == arg[t]
<1>1. PICK k \in pool, a \in Pins :
        /\ pool' = pool \ {k}
        /\ stack_base' = [stack_base EXCEPT ![s] = k]
        /\ sp' = [sp EXCEPT ![s] = k]
        /\ aff' = [aff EXCEPT ![s] = a]
        /\ wake_at' = [wake_at EXCEPT ![s] = FALSE]
        /\ pc' = [[pc EXCEPT ![s] = "body"] EXCEPT ![t] = "publish"]
    BY DEF CreateInit
<1>2. /\ state[t] = "RUNNING" /\ pc[t] = "create"
      /\ UNCHANGED <<state, current, reap, lock, exec, hpc, out, arg, dl>>
    BY RunsRunning DEF CreateInit, At
<1>3. t \in Creators
    BY <1>2 DEF Creators
<1>4. /\ s \in Tasks \ {0} /\ state[s] = "BLOCKED" /\ pc[s] = "dead" /\ s # t
      /\ \A g \in Harts : current[g] # s /\ (hpc[g] # "task" => out[g] # s)
    BY <1>2, <1>3, SlotOffHarts DEF StackInv, SlotsReserved
<1>5. /\ pc'[t] = "publish" /\ pc'[s] = "body" /\ \A u \in Tasks \ {s, t} : pc'[u] = pc[u]
      /\ stack_base'[s] = k /\ sp'[s] = k
      /\ \A u \in Tasks \ {s} : /\ stack_base'[u] = stack_base[u] /\ sp'[u] = sp[u]
                                /\ aff'[u] = aff[u] /\ wake_at'[u] = wake_at[u]
      /\ ~wake_at'[s]
    BY <1>1, <1>4 DEF StackInv, TypeOK
<1>18. k # NULL /\ 0 \in Tasks /\ NoPid \notin Tasks
    BY Constants DEF StackInv, TypeOK
<1>6. /\ \A u \in Tasks : stack_base[u] # k
      /\ \A g \in Harts : reap[g] # k
    BY DEF StackInv, PagesApart
<1>7. \A g \in Harts : /\ current[g] \in Tasks \cup {NoPid}
                       /\ hpc[g] # "task" => out[g] \in Tasks /\ current[g] \in Tasks
    BY DEF StackInv, TypeOK, SwitchesTasks
<1> HIDE DEF s
<1>8. RunningOnce'
    BY <1>2, RunningKept
<1>9. PagesApart'
  <2>1. PagesApart /\ reap' = reap /\ pool' = pool \ {k}
    BY <1>1, <1>2 DEF StackInv
  <2> QED
    BY ONLY <1>4, <1>5, <1>6, <1>18, <2>1 DEF PagesApart
<1>10. Deadlines'
    BY <1>2, <1>4, <1>5 DEF StackInv, Deadlines
<1>11. SlotStates'
    BY <1>2, <1>4, <1>5, <1>18 DEF StackInv, SlotStates
<1>12. Creators' = Creators /\ \A c \in Creators \ {t} : arg[c] # t /\ arg[c] # s /\ c # s /\ arg[c] \in Tasks /\ c \in Tasks
    BY <1>2, <1>3, <1>4, <1>5 DEF StackInv, Creators, SlotsReserved, s
<1>13. SlotsReserved'
  <2>1. \A c \in Creators \ {t} : /\ pc'[c] = pc[c]
                                  /\ pc'[arg[c]] = pc[arg[c]] /\ stack_base'[arg[c]] = stack_base[arg[c]]
    BY <1>5, <1>12
  <2>2. SlotsReserved /\ UNCHANGED <<state, arg>> /\ s = arg[t]
    BY <1>2 DEF StackInv, s
  <2> QED
    BY ONLY <1>3, <1>4, <1>5, <1>12, <1>18, <2>1, <2>2 DEF SlotsReserved
<1>14. WakesLive'
  <2>1. /\ \A u \in Tasks : pc'[u] = "wake" => pc[u] = "wake"
        /\ \A u \in Tasks : pc'[u] = "dead" => pc[u] = "dead"
    BY ONLY <1>4, <1>5
  <2>2. WakesLive /\ UNCHANGED arg /\ Waiters \subseteq Tasks /\ Waiters' = Waiters
    BY <1>2 DEF StackInv, Waiters
  <2> QED
    BY ONLY <1>12, <2>1, <2>2 DEF WakesLive
<1>15. BootTasks'
  <2>1. BootTasks /\ UNCHANGED <<current, hpc, exec>>
    BY <1>2 DEF StackInv
  <2>2. \A u \in Tasks : pc'[u] # "dead" /\ stack_base'[u] = NULL =>
            /\ pc[u] # "dead" /\ stack_base[u] = NULL /\ aff'[u] = aff[u]
            /\ pc[u] = "idle" => pc'[u] = "idle"
    BY ONLY <1>2, <1>4, <1>5, <1>18
  <2>4. \A g \in Harts : current[g] # NoPid => current[g] \in Tasks \ {s}
    BY ONLY <1>4, <1>7
  <2>5. \A u \in Tasks \ {s} : stack_base'[u] = stack_base[u] /\ aff'[u] = aff[u]
    BY ONLY <1>5
  <2>3. \A g \in Harts : current[g] # NoPid => /\ stack_base'[current[g]] = stack_base[current[g]]
                                               /\ aff'[current[g]] = aff[current[g]]
    BY ONLY <2>4, <2>5
  <2> QED
    BY ONLY <2>1, <2>2, <2>3 DEF BootTasks
<1>16. FramesParked'
  <2>1. FramesParked /\ UNCHANGED <<state, hpc, out>>
    BY <1>2 DEF StackInv
  <2> QED
    BY ONLY <1>2, <1>4, <1>5, <1>18, <2>1 DEF FramesParked, Home
<1>17. OnOwnStack'
  <2>1. OnOwnStack /\ UNCHANGED <<state, current, reap, exec, hpc, out>>
    BY <1>2 DEF StackInv
  <2>2. \A u \in Tasks \ {s} : /\ sp'[u] = sp[u] /\ stack_base'[u] = stack_base[u]
                               /\ aff'[u] = aff[u] /\ (state[u] # "RUNNING" => pc'[u] = pc[u])
    BY ONLY <1>2, <1>4, <1>5
  <2>3. \A g \in Harts : /\ current[g] # NoPid => current[g] \in Tasks \ {s}
                         /\ hpc[g] # "task" => out[g] \in Tasks \ {s} /\ current[g] \in Tasks \ {s}
    BY ONLY <1>4, <1>7
  <2> QED
    BY ONLY <2>1, <2>2, <2>3 DEF OnOwnStack, Home
<1> QED
    BY <1>8, <1>9, <1>10, <1>11, <1>13, <1>14, <1>15, <1>16, <1>17 DEF Discipline

(* The publication: there is a frame to run the new task from. *)
LEMMA CreatePublishStep ==
    ASSUME StackInv, NEW h \in Harts, NEW t \in Tasks, CreatePublish(h, t)
    PROVE  Discipline'
<1> DEFINE s == arg[t]
<1>1. /\ state[t] = "RUNNING" /\ pc[t] = "publish" /\ pc' = [pc EXCEPT ![t] = "body"] /\ lock = Free
      /\ state' = [state EXCEPT ![s] = "READY"] /\ arg' = [arg EXCEPT ![t] = NoPid]
      /\ UNCHANGED <<aff, wake_at, stack_base, sp, cpu, dl>>
    BY RunsRunning DEF CreatePublish, At, Goto
<1>2. t \in Creators
    BY <1>1 DEF Creators
<1>3. /\ s \in Tasks \ {0} /\ state[s] = "BLOCKED" /\ pc[s] = "body"
      /\ \A g \in Harts : current[g] # s
    BY <1>1, <1>2, SlotOffHarts DEF StackInv, SlotsReserved
<1>4. /\ pc'[t] = "body" /\ \A u \in Tasks \ {t} : pc'[u] = pc[u]
      /\ \A u \in Tasks \ {t} : arg'[u] = arg[u]
      /\ state'[s] = "READY" /\ \A u \in Tasks \ {s} : state'[u] = state[u]
    BY <1>1, <1>3 DEF StackInv, TypeOK
<1> HIDE DEF s
<1> USE Constants, <1>1, <1>2, <1>3, <1>4 DEF StackInv, cpu
<1>5. RunningOnce'
    BY RunningKept
<1>6. PagesApart' /\ Deadlines'
    BY DEF PagesApart, Deadlines
<1>7. SlotStates'
    BY DEF SlotStates
<1>8. /\ Creators' = Creators \ {t}
      /\ \A c \in Creators \ {t} : arg[c] # t /\ arg[c] # s /\ arg[c] \in Tasks /\ c \in Tasks
    BY DEF Creators, SlotsReserved, s
<1>9. SlotsReserved'
  <2>1. \A c \in Creators \ {t} : arg'[c] = arg[c] /\ pc'[c] = pc[c] /\ state'[arg[c]] = state[arg[c]]
                                  /\ pc'[arg[c]] = pc[arg[c]]
    BY <1>8
  <2>2. SlotsReserved /\ UNCHANGED stack_base
    OBVIOUS
  <2> QED
    BY ONLY <1>8, <2>1, <2>2 DEF SlotsReserved
<1>10. WakesLive'
    BY <1>8 DEF WakesLive, Waiters
<1>11. BootTasks'
    BY DEF BootTasks
<1>12. \A g \in Harts : hpc[g] = "task"
    BY DEF HandOff
<1>13. FramesParked'
    BY <1>12 DEF FramesParked, Home
<1>14. OnOwnStack'
    BY <1>12 DEF OnOwnStack, Home
<1> QED
    BY <1>5, <1>6, <1>7, <1>9, <1>10, <1>11, <1>13, <1>14 DEF Discipline

(* A secondary hart's boot context becomes a task on the hart's own stack. *)
LEMMA SecondaryInitStep ==
    ASSUME StackInv, NEW h \in Harts, SecondaryInit(h)
    PROVE  Discipline'
<1>1. PICK s \in Tasks \ {0} :
        /\ state[s] = "UNUSED"
        /\ state' = [state EXCEPT ![s] = "RUNNING"]
        /\ aff' = [aff EXCEPT ![s] = h]
        /\ stack_base' = [stack_base EXCEPT ![s] = NULL]
        /\ current' = [current EXCEPT ![h] = s]
        /\ pc' = [pc EXCEPT ![s] = "idle"]
    BY DEF SecondaryInit, Goto
<1>2. current[h] = NoPid /\ lock = Free /\ UNCHANGED <<wake_at, sp, reap, lock, exec, hpc, out, pool, arg, dl>>
    BY DEF SecondaryInit
<1>3. pc[s] = "dead" /\ \A g \in Harts : current[g] # s /\ hpc[g] = "task"
    BY <1>1, <1>2, Constants DEF StackInv, SlotStates, RunningOnce, HandOff, TypeOK
<1>4. /\ state'[s] = "RUNNING" /\ aff'[s] = h /\ stack_base'[s] = NULL /\ pc'[s] = "idle"
      /\ \A u \in Tasks \ {s} : /\ state'[u] = state[u] /\ aff'[u] = aff[u]
                                /\ stack_base'[u] = stack_base[u] /\ pc'[u] = pc[u]
      /\ current'[h] = s /\ \A g \in Harts \ {h} : current'[g] = current[g]
    BY <1>1 DEF StackInv, TypeOK
<1>14. /\ s \in Tasks /\ h \in Harts /\ 0 \in Tasks /\ NoPid \notin Tasks /\ NULL \notin pool
       /\ \A g \in Harts : current[g] \in Tasks \cup {NoPid}
    BY Constants DEF StackInv, TypeOK
<1>5. RunningOnce'
  <2>1. RunningOnce
    BY DEF StackInv
  <2> QED
    BY ONLY <1>14, <1>2, <1>3, <1>4, <2>1 DEF RunningOnce
<1>6. PagesApart' /\ Deadlines'
  <2>1. PagesApart /\ Deadlines /\ UNCHANGED <<wake_at, reap, pool, dl>>
    BY <1>2 DEF StackInv
  <2>2. ~wake_at[s]
    BY <1>3, <2>1 DEF Deadlines
  <2> QED
    BY ONLY <1>14, <1>4, <2>1, <2>2 DEF PagesApart, Deadlines
<1>7. SlotStates'
    BY <1>1, <1>4, <1>14 DEF StackInv, SlotStates
<1>8. Creators' = Creators /\ \A c \in Creators : c # s /\ c \in Tasks /\ arg[c] # s /\ arg[c] \in Tasks
    BY <1>1, <1>3, <1>4 DEF StackInv, Creators, SlotsReserved
<1>9. SlotsReserved'
    BY <1>2, <1>4, <1>8, ReservedKept DEF StackInv
<1>10. WakesLive'
  <2>1. WakesLive /\ UNCHANGED arg /\ Waiters \subseteq Tasks /\ Waiters' = Waiters
    BY <1>2 DEF StackInv, Waiters
  <2> QED
    BY ONLY <1>14, <1>3, <1>4, <1>8, <2>1 DEF WakesLive
<1>11. BootTasks'
  <2>1. BootTasks /\ UNCHANGED <<hpc, exec>>
    BY <1>2 DEF StackInv
  <2> QED
    BY ONLY <1>14, <1>2, <1>3, <1>4, <2>1 DEF BootTasks
<1>12. FramesParked'
  <2>1. FramesParked /\ UNCHANGED <<sp, hpc, out>>
    BY <1>2 DEF StackInv
  <2> QED
    BY ONLY <1>14, <1>3, <1>4, <2>1 DEF FramesParked, Home
<1>13. OnOwnStack'
  <2>1. OnOwnStack /\ UNCHANGED <<hpc, exec>> /\ exec[h] = h
    BY <1>2 DEF StackInv, BootTasks
  <2> QED
    BY ONLY <1>14, <1>3, <1>4, <2>1 DEF OnOwnStack, Home
<1> QED
    BY <1>5, <1>6, <1>7, <1>9, <1>10, <1>11, <1>12, <1>13 DEF Discipline

(* ctx_switch(), first half: the frame is parked on the stack of the task  *)
(* that is left.                                                           *)
LEMMA ParkStep ==
    ASSUME StackInv, NEW h \in Harts, Park(h)
    PROVE  Discipline'
<1> DEFINE o == out[h]
<1>1. /\ hpc[h] = "save" /\ sp' = [sp EXCEPT ![o] = exec[h]] /\ hpc' = [hpc EXCEPT ![h] = "land"]
      /\ UNCHANGED <<state, aff, wake_at, stack_base, current, reap, lock, exec, out, pool, pc, arg, dl>>
    BY DEF Park, prog
<1>2. /\ o \in Tasks /\ current[h] \in Tasks /\ NoPid \notin Tasks
      /\ \A g \in Harts \ {h} : hpc[g] = "task"
    BY <1>1, Constants DEF StackInv, SwitchesTasks, HandOff
<1>3. /\ sp'[o] = exec[h] /\ \A u \in Tasks \ {o} : sp'[u] = sp[u]
      /\ hpc'[h] = "land" /\ \A g \in Harts \ {h} : hpc'[g] = "task"
    BY <1>1, <1>2 DEF StackInv, TypeOK
<1>4. /\ state[current[h]] = "RUNNING" /\ state[o] # "RUNNING" /\ current[h] # o
      /\ state[o] # "DEAD" => exec[h] = Home(o)
    BY <1>1, <1>2 DEF StackInv, RunningOnce, OnOwnStack
<1>5. RunningOnce' /\ PagesApart' /\ Deadlines' /\ SlotStates' /\ SlotsReserved' /\ WakesLive'
    BY <1>1 DEF StackInv, RunningOnce, PagesApart, Deadlines, SlotStates, SlotsReserved, WakesLive, Creators
<1>6. BootTasks'
    BY <1>1, <1>2, <1>3 DEF StackInv, BootTasks
<1> HIDE DEF o
<1>7. FramesParked'
  <2>1. FramesParked /\ UNCHANGED <<state, pc, stack_base, aff, out>> /\ out[h] = o
    BY <1>1 DEF StackInv, o
  <2> QED
    BY ONLY <1>1, <1>2, <1>3, <1>4, <2>1 DEF FramesParked, Home
<1>8. OnOwnStack'
  <2>1. OnOwnStack /\ UNCHANGED <<state, aff, stack_base, current, reap, exec, out, pc>> /\ out[h] = o
    BY <1>1 DEF StackInv, o
  <2> QED
    BY ONLY <1>1, <1>2, <1>3, <1>4, <2>1 DEF OnOwnStack, Home
<1> QED
    BY <1>5, <1>6, <1>7, <1>8 DEF Discipline

(* ctx_switch(), second half: the hart is on the stack of its new task. *)
LEMMA ResumeStep ==
    ASSUME StackInv, NEW h \in Harts, Resume(h)
    PROVE  Discipline'
<1> DEFINE n == current[h]
<1>1. /\ hpc[h] = "land" /\ exec' = [exec EXCEPT ![h] = sp[n]] /\ sp' = [sp EXCEPT ![n] = NULL]
      /\ hpc' = [hpc EXCEPT ![h] = "task"]
      /\ UNCHANGED <<state, aff, wake_at, stack_base, current, reap, pool, pc, arg, dl>>
    BY DEF Resume
<1>2. /\ n \in Tasks /\ NoPid \notin Tasks
      /\ \A g \in Harts \ {h} : hpc[g] = "task"
    BY <1>1, Constants DEF StackInv, SwitchesTasks, HandOff
<1>3. /\ \A u \in Tasks \ {n} : sp'[u] = sp[u]
      /\ exec'[h] = sp[n] /\ \A g \in Harts \ {h} : exec'[g] = exec[g]
      /\ \A g \in Harts : hpc'[g] = "task"
    BY <1>1, <1>2 DEF StackInv, TypeOK
<1>4. state[n] = "RUNNING" /\ sp[n] = Home(n)
    BY <1>1, <1>2 DEF StackInv, RunningOnce, OnOwnStack
<1>5. RunningOnce' /\ PagesApart' /\ Deadlines' /\ SlotStates' /\ SlotsReserved' /\ WakesLive'
    BY <1>1 DEF StackInv, RunningOnce, PagesApart, Deadlines, SlotStates, SlotsReserved, WakesLive, Creators
<1>6. BootTasks'
  <2>1. BootTasks /\ UNCHANGED <<aff, stack_base, current, pc>> /\ current[h] # NoPid
    BY <1>1, <1>2 DEF StackInv
  <2> QED
    BY ONLY <1>3, <2>1 DEF BootTasks
<1>7. FramesParked'
  <2>1. FramesParked /\ UNCHANGED <<state, pc, stack_base, aff>>
    BY <1>1 DEF StackInv
  <2> QED
    BY ONLY <1>1, <1>2, <1>3, <1>4, <2>1 DEF FramesParked, Home
<1>8. OnOwnStack'
  <2>1. OnOwnStack /\ UNCHANGED <<aff, stack_base, current>>
    BY <1>1 DEF StackInv
  <2> QED
    BY ONLY <1>1, <1>2, <1>3, <1>4, <2>1 DEF OnOwnStack, Home
<1> QED
    BY <1>5, <1>6, <1>7, <1>8 DEF Discipline

(* The task a scan chooses is off every hart, was published, and has its   *)
(* frame on its own stack: on a boot stack only if that is this hart's.    *)
LEMMA ChosenFacts ==
    ASSUME StackInv, lock = Free, NEW h \in Harts, NEW n \in Tasks, aff[n] \in {NoPid, h},
           state[n] = "READY" \/ (state[n] = "BLOCKED" /\ wake_at[n])
    PROVE  /\ pc[n] # "dead" /\ sp[n] = Home(n)
           /\ stack_base[n] = NULL => aff[n] = h
           /\ \A g \in Harts : current[g] # n
           /\ \A c \in Creators : arg[c] # n
<1>1. pc[n] # "dead" /\ (wake_at[n] => pc[n] # "body")
    BY DEF StackInv, SlotStates, Deadlines
<1>2. sp[n] = Home(n)
    BY <1>1, Constants DEF StackInv, FramesParked, HandOff
<1>3. stack_base[n] = NULL => aff[n] = h
    BY <1>1, Constants DEF StackInv, BootTasks
<1>4. \A g \in Harts : current[g] # n
    BY Constants DEF StackInv, RunningOnce
<1>5. \A c \in Creators : arg[c] # n
    BY <1>1 DEF StackInv, SlotsReserved, Creators
<1> QED
    BY <1>1, <1>2, <1>3, <1>4, <1>5

(* What the switch makes of the table. *)
LEMMA PickSwitchTable ==
    ASSUME StackInv, NEW h \in Harts, NEW t \in Tasks, PickSwitch(h, t)
    PROVE  \E n \in Tasks \ {t} :
                /\ state[n] = "READY" \/ (state[n] = "BLOCKED" /\ wake_at[n])
                /\ aff[n] \in {NoPid, h}
                /\ state'[n] = "RUNNING" /\ current' = [current EXCEPT ![h] = n]
                /\ \/ state'[t] = "READY"
                   \/ state'[t] = "BLOCKED" /\ pc[t] \in {"block", "sblock"}
                /\ \A u \in Tasks \ {n, t} :
                        \/ state'[u] = state[u]
                        \/ state[u] = "BLOCKED" /\ wake_at[u] /\ state'[u] = "READY"
                /\ \A u \in Tasks : wake_at'[u] => wake_at[u]
<1> DEFINE st == Marked(t)
<1>1. PICK n \in NextRunnable(st, h, t) \ {t} :
        state' = [Preempted(t) EXCEPT ![n] = "RUNNING"] /\ current' = [current EXCEPT ![h] = n]
    BY DEF PickSwitch
<1>2. n \in Tasks \ {t} /\ Scanned(st)[n] = "READY" /\ aff[n] \in {NoPid, h}
    BY DEF NextRunnable, Runnable
<1>3. state[t] = "RUNNING" /\ state \in [Tasks -> States] /\ wake_at' = WakeLeft(st)
    BY RunsRunning DEF PickSwitch, AtPick, StackInv, TypeOK
<1>4. /\ st \in [Tasks -> States]
      /\ \A u \in Tasks \ {t} : st[u] = state[u]
      /\ st[t] = "RUNNING" \/ (st[t] = "BLOCKED" /\ pc[t] \in {"block", "sblock"})
    BY <1>3 DEF Marked, Blocking, States
<1>5. Scanned(st) \in [Tasks -> States]
    BY ScanTyped DEF StackInv
<1> HIDE DEF st
<1>6. /\ Preempted(t) \in [Tasks -> States]
      /\ \A u \in Tasks \ {t} : Preempted(t)[u] = Scanned(st)[u]
      /\ Preempted(t)[t] = IF Scanned(st)[t] = "RUNNING" THEN "READY" ELSE Scanned(st)[t]
    BY <1>5 DEF Preempted, States, st
<1>7. /\ state'[n] = "RUNNING" /\ state'[t] = Preempted(t)[t]
      /\ \A u \in Tasks \ {n, t} : state'[u] = Scanned(st)[u]
    BY <1>1, <1>2, <1>6
<1>8. \A u \in Tasks : /\ \/ Scanned(st)[u] = st[u]
                          \/ st[u] = "BLOCKED" /\ wake_at[u] /\ Scanned(st)[u] = "READY"
                       /\ WakeLeft(st)[u] => wake_at[u]
    BY <1>4, ScanFacts
<1>9. state[n] = "READY" \/ (state[n] = "BLOCKED" /\ wake_at[n])
    BY <1>2, <1>4, <1>8
<1>10. state'[t] = "READY" \/ (state'[t] = "BLOCKED" /\ pc[t] \in {"block", "sblock"})
    BY <1>4, <1>6, <1>7, <1>8
<1>11. \A u \in Tasks \ {n, t} : \/ state'[u] = state[u]
                                 \/ state[u] = "BLOCKED" /\ wake_at[u] /\ state'[u] = "READY"
    BY <1>4, <1>7, <1>8
<1>12. \A u \in Tasks : wake_at'[u] => wake_at[u]
    BY <1>3, <1>8
<1> QED
    BY <1>1, <1>2, <1>7, <1>9, <1>10, <1>11, <1>12

(* The switch proper: the task left behind is runnable or blocked, and the *)
(* one chosen has a frame to be resumed from.                              *)
LEMMA PickSwitchStep ==
    ASSUME StackInv, NEW h \in Harts, NEW t \in Tasks, PickSwitch(h, t)
    PROVE  Discipline'
<1>1. PICK n \in Tasks \ {t} :
        /\ state[n] = "READY" \/ (state[n] = "BLOCKED" /\ wake_at[n])
        /\ aff[n] \in {NoPid, h}
        /\ state'[n] = "RUNNING" /\ current' = [current EXCEPT ![h] = n]
        /\ \/ state'[t] = "READY"
           \/ state'[t] = "BLOCKED" /\ pc[t] \in {"block", "sblock"}
        /\ \A u \in Tasks \ {n, t} :
                \/ state'[u] = state[u]
                \/ state[u] = "BLOCKED" /\ wake_at[u] /\ state'[u] = "READY"
        /\ \A u \in Tasks : wake_at'[u] => wake_at[u]
    BY PickSwitchTable
<1>2. /\ current[h] = t /\ state[t] = "RUNNING" /\ pc[t] # "dead" /\ lock = Free
      /\ hpc' = [hpc EXCEPT ![h] = "save"] /\ out' = [out EXCEPT ![h] = t]
      /\ UNCHANGED <<aff, stack_base, sp, reap, exec, pool, pc, arg, dl>>
    BY RunsRunning DEF PickSwitch, AtPick, Runs
<1>3. /\ \A g \in Harts : hpc[g] = "task"
      /\ NoPid \notin Tasks /\ NoPid \notin Harts /\ 0 \in Tasks
      /\ t \in Tasks /\ h \in Harts
    BY <1>2, Constants DEF StackInv, HandOff
<1>4. /\ current'[h] = n /\ hpc'[h] = "save" /\ out'[h] = t
      /\ \A g \in Harts \ {h} : current'[g] = current[g] /\ hpc'[g] = "task"
      /\ \A g \in Harts : current[g] \in Tasks \cup {NoPid}
    BY <1>1, <1>2, <1>3 DEF StackInv, TypeOK
<1>5. /\ pc[n] # "dead" /\ sp[n] = Home(n)
      /\ stack_base[n] = NULL => aff[n] = h
      /\ \A g \in Harts : current[g] # n
      /\ \A c \in Creators : arg[c] # n
    BY <1>1, <1>2, ChosenFacts
<1>6. \A u \in Tasks : wake_at[u] => pc[u] \notin {"dead", "body"}
    BY DEF StackInv, Deadlines
<1>7. RunningOnce'
  <2>1. RunningOnce
    BY DEF StackInv
  <2> QED
    BY ONLY <1>1, <1>2, <1>3, <1>4, <1>5, <2>1 DEF RunningOnce
<1>8. PagesApart' /\ Deadlines' /\ WakesLive'
    BY <1>1, <1>2 DEF StackInv, PagesApart, Deadlines, WakesLive, Creators, Waiters
<1>9. SlotStates'
  <2>1. SlotStates /\ UNCHANGED pc /\ Exiters' = Exiters
    BY <1>2 DEF StackInv, Exiters
  <2> QED
    BY ONLY <1>1, <1>2, <1>5, <1>6, <2>1 DEF SlotStates
<1>10. SlotsReserved'
  <2>1. SlotsReserved /\ UNCHANGED <<pc, arg, stack_base>> /\ Creators' = Creators
    BY <1>2 DEF StackInv, Creators
  <2>2. \A c \in Creators : /\ arg[c] \in Tasks /\ state[arg[c]] = "BLOCKED"
                            /\ pc[arg[c]] \in {"dead", "body"}
    BY <2>1 DEF SlotsReserved, Creators
  <2>3. \A c \in Creators : state'[arg[c]] = state[arg[c]]
    BY <1>1, <1>2, <1>5, <1>6, <2>2
  <2> QED
    BY <2>1, <2>3, ReservedKept
<1>11. BootTasks'
  <2>1. BootTasks /\ UNCHANGED <<aff, stack_base, exec, pc>>
    BY <1>2 DEF StackInv
  <2> QED
    BY ONLY <1>1, <1>3, <1>4, <1>5, <2>1 DEF BootTasks
<1>12. FramesParked'
  <2>1. FramesParked /\ UNCHANGED <<pc, stack_base, aff, sp>>
    BY <1>2 DEF StackInv
  <2>2. \A u \in Tasks \ {t} : state'[u] \in {"READY", "BLOCKED"} => state[u] \in {"READY", "BLOCKED"}
    BY ONLY <1>1
  <2> QED
    BY ONLY <1>3, <1>4, <2>1, <2>2 DEF FramesParked, Home
<1>13. OnOwnStack'
  <2>1. OnOwnStack /\ BootTasks /\ UNCHANGED <<aff, stack_base, reap, exec, pc, sp>>
    BY <1>2 DEF StackInv
  <2>2. exec[h] = Home(t) /\ (stack_base[t] = NULL => aff[t] = h)
    BY <1>2, <1>3, <2>1 DEF OnOwnStack, BootTasks
  <2> QED
    BY ONLY <1>1, <1>3, <1>4, <1>5, <2>1, <2>2 DEF OnOwnStack, Home
<1> QED
    BY <1>7, <1>8, <1>9, <1>10, <1>11, <1>12, <1>13 DEF Discipline

(* task_exit(): the stack goes into the hart's reap slot, where it stays   *)
(* while the hart is still on it.                                          *)
LEMMA ExitStep ==
    ASSUME StackInv, StableTargets, NEW h \in Harts, NEW t \in Tasks, Exit(h, t)
    PROVE  Discipline'
<1>1. PICK n \in NextRunnable(state, h, t) :
        /\ state' = [[Scanned(state) EXCEPT ![t] = "DEAD"] EXCEPT ![n] = "RUNNING"]
        /\ current' = [current EXCEPT ![h] = n]
    BY DEF Exit
<1>2. /\ current[h] = t /\ state[t] = "RUNNING" /\ pc[t] = "exit" /\ lock = Free /\ reap[h] = NULL
      /\ wake_at' = WakeLeft(state)
      /\ reap' = [reap EXCEPT ![h] = stack_base[t]]
      /\ stack_base' = [stack_base EXCEPT ![t] = NULL]
      /\ hpc' = [hpc EXCEPT ![h] = "save"] /\ out' = [out EXCEPT ![h] = t]
      /\ pc' = [pc EXCEPT ![t] = "dead"]
      /\ UNCHANGED <<aff, sp, exec, pool, arg, dl>>
    BY RunsRunning DEF Exit, At, Runs, Goto
<1>3. n \in Tasks /\ Scanned(state)[n] = "READY" /\ aff[n] \in {NoPid, h}
    BY DEF NextRunnable, Runnable
<1>4. /\ state \in [Tasks -> States] /\ Scanned(state) \in [Tasks -> States]
      /\ \A u \in Tasks : /\ \/ Scanned(state)[u] = state[u]
                             \/ state[u] = "BLOCKED" /\ wake_at[u] /\ Scanned(state)[u] = "READY"
                          /\ WakeLeft(state)[u] => wake_at[u]
    BY ScanTyped, ScanFacts DEF StackInv, TypeOK
<1>5. /\ n # t
      /\ state[n] = "READY" \/ (state[n] = "BLOCKED" /\ wake_at[n])
    BY <1>2, <1>3, <1>4
<1>6. /\ state'[t] = "DEAD" /\ state'[n] = "RUNNING"
      /\ \A u \in Tasks \ {n, t} :
            \/ state'[u] = state[u]
            \/ state[u] = "BLOCKED" /\ wake_at[u] /\ state'[u] = "READY"
  <2>1. /\ state'[t] = "DEAD" /\ state'[n] = "RUNNING"
        /\ \A u \in Tasks \ {n, t} : state'[u] = Scanned(state)[u]
    BY <1>1, <1>3, <1>4, <1>5
  <2> QED
    BY <1>4, <2>1
<1>7. \A u \in Tasks : wake_at'[u] => wake_at[u]
    BY <1>2, <1>4
<1>8. /\ current'[h] = n /\ hpc'[h] = "save" /\ out'[h] = t /\ reap'[h] = stack_base[t]
      /\ \A g \in Harts \ {h} : current'[g] = current[g] /\ hpc'[g] = hpc[g] /\ reap'[g] = reap[g]
      /\ stack_base'[t] = NULL /\ pc'[t] = "dead"
      /\ \A u \in Tasks \ {t} : stack_base'[u] = stack_base[u] /\ pc'[u] = pc[u]
    BY <1>1, <1>2, <1>3 DEF StackInv, TypeOK
<1>9. /\ \A g \in Harts : hpc[g] = "task" /\ current[g] \in Tasks \cup {NoPid}
      /\ NoPid \notin Tasks /\ NoPid \notin Harts /\ 0 \in Tasks /\ NULL \notin pool
      /\ t \in Tasks /\ h \in Harts
    BY <1>2, Constants DEF StackInv, HandOff, TypeOK
<1>10. t # 0 /\ t \in Exiters /\ stack_base[t] # NULL /\ exec[h] = stack_base[t]
  <2>1. t \in Exiters /\ t # 0
    BY <1>2, Constants DEF StackInv, SlotStates
  <2>2. stack_base[t] # NULL
    BY <1>2, <2>1 DEF StackInv, BootTasks
  <2>3. exec[h] = Home(t)
    BY <1>2, <1>9 DEF StackInv, OnOwnStack
  <2> QED
    BY <2>1, <2>2, <2>3 DEF Home
<1>11. /\ pc[n] # "dead" /\ sp[n] = Home(n)
       /\ stack_base[n] = NULL => aff[n] = h
       /\ \A g \in Harts : current[g] # n
       /\ \A c \in Creators : arg[c] # n
    BY <1>2, <1>3, <1>5, ChosenFacts
<1>12. \A u \in Tasks : wake_at[u] => pc[u] \notin {"dead", "body", "exit"}
    BY DEF StackInv, Deadlines
<1>13. RunningOnce'
  <2>1. RunningOnce
    BY DEF StackInv
  <2> QED
    BY ONLY <1>2, <1>3, <1>5, <1>6, <1>8, <1>9, <1>11, <2>1 DEF RunningOnce
<1>14. PagesApart'
  <2>1. PagesApart /\ UNCHANGED pool
    BY <1>2 DEF StackInv
  <2> QED
    BY ONLY <1>2, <1>8, <1>9, <1>10, <2>1 DEF PagesApart
<1>15. Deadlines'
  <2>1. Deadlines /\ UNCHANGED dl
    BY <1>2 DEF StackInv
  <2> QED
    BY ONLY <1>2, <1>7, <1>8, <1>12, <2>1 DEF Deadlines
<1>16. SlotStates'
  <2>1. SlotStates /\ Exiters' = Exiters
    BY DEF StackInv, Exiters
  <2> QED
    BY ONLY <1>3, <1>6, <1>8, <1>9, <1>10, <1>11, <1>12, <2>1 DEF SlotStates
<1>17. /\ Creators' = Creators
       /\ \A c \in Creators : /\ c # t /\ c \in Tasks /\ arg[c] \in Tasks \ {t, n}
                              /\ state[arg[c]] = "BLOCKED" /\ pc[arg[c]] \in {"dead", "body"}
    BY <1>2, <1>8, <1>11 DEF StackInv, Creators, SlotsReserved
<1>18. SlotsReserved'
  <2>1. \A c \in Creators : state'[arg[c]] = state[arg[c]]
    BY <1>6, <1>12, <1>17
  <2> QED
    BY <1>2, <1>8, <1>17, <2>1, ReservedKept DEF StackInv
<1>19. WakesLive'
  <2>1. WakesLive /\ UNCHANGED arg /\ Waiters \subseteq Tasks /\ Waiters' = Waiters /\ t \notin Waiters
    BY <1>2, <1>10 DEF StackInv, Waiters, StableTargets
  <2> QED
    BY ONLY <1>8, <1>17, <2>1 DEF WakesLive
<1>20. BootTasks'
  <2>1. BootTasks /\ UNCHANGED <<aff, exec>>
    BY <1>2 DEF StackInv
  <2>2. /\ \A u \in Tasks : pc'[u] # "dead" /\ stack_base'[u] = NULL =>
                pc[u] # "dead" /\ stack_base[u] = NULL /\ pc'[u] = pc[u]
        /\ stack_base'[n] = stack_base[n]
    BY ONLY <1>3, <1>5, <1>8
  <2>3. \A g \in Harts \ {h} : current[g] # NoPid => stack_base'[current[g]] = stack_base[current[g]]
  <3>1. \A g \in Harts \ {h} : current[g] # t
    BY <1>2, <1>9 DEF StackInv, RunningOnce
  <3> QED
    BY <1>8, <1>9, <3>1
  <2> QED
    BY ONLY <1>3, <1>8, <1>9, <1>11, <2>1, <2>2, <2>3 DEF BootTasks
<1>21. FramesParked'
  <2>1. FramesParked /\ UNCHANGED <<aff, sp>>
    BY <1>2 DEF StackInv
  <2>2. \A u \in Tasks : pc'[u] # "dead" /\ state'[u] \in {"READY", "BLOCKED"} =>
            /\ pc[u] # "dead" /\ state[u] \in {"READY", "BLOCKED"} /\ stack_base'[u] = stack_base[u]
    BY ONLY <1>6, <1>8
  <2> QED
    BY ONLY <1>9, <2>1, <2>2 DEF FramesParked, Home
<1>22. OnOwnStack'
  <2>1. OnOwnStack /\ UNCHANGED <<aff, exec, sp>>
    BY <1>2 DEF StackInv
  <2>2. \A g \in Harts \ {h} : current[g] # NoPid => stack_base'[current[g]] = stack_base[current[g]]
  <3>1. \A g \in Harts \ {h} : current[g] # t
    BY <1>2, <1>9 DEF StackInv, RunningOnce
  <3> QED
    BY <1>8, <1>9, <3>1
  <2> QED
    BY ONLY <1>3, <1>5, <1>6, <1>8, <1>9, <1>10, <1>11, <2>1, <2>2 DEF OnOwnStack, Home
<1> QED
    BY <1>13, <1>14, <1>15, <1>16, <1>18, <1>19, <1>20, <1>21, <1>22 DEF Discipline

-----------------------------------------------------------------------------
LEMMA StackStep ==
    ASSUME StableTargets, StackInv, [Next]_vars
    PROVE  StackInv'
<1>1. TypeOK' /\ SwitchesTasks' /\ HandOff'
  <2>1. TypeInv /\ HandOff
    BY DEF StackInv, TypeInv
  <2> QED
    BY <2>1, TypeStep, HandOffStep DEF TypeInv
<1>2. Discipline'
  <2>1. CASE UNCHANGED vars
    <3>1. UNCHANGED core /\ UNCHANGED <<pc, arg, wake_at, dl>>
        BY <2>1 DEF vars, core, tcb, cpu, prog
    <3>2. Deadlines'
        BY <3>1 DEF StackInv, Deadlines
    <3> QED
        BY <3>1, <3>2, FrameStep
  <2>2. CASE Clock
    BY <2>2, ClockStep
  <2>3. ASSUME NEW h \in Harts, Park(h) \/ Resume(h) \/ SecondaryInit(h) PROVE Discipline'
    BY <2>3, ParkStep, ResumeStep, SecondaryInitStep
  <2>4. ASSUME NEW h \in Harts, NEW t \in Tasks, Step(h, t) \/ Tick(h, t) PROVE Discipline'
    <3>1. CASE Reap(h, t) \/ Yield(h, t) \/ Tick(h, t)
        BY <3>1, ReapsStep
    <3>2. CASE PickIdle(h, t) \/ PickSelf(h, t) \/ ExitPark(h, t)
        BY <3>2, StaysStep
    <3>3. CASE PickWoken(h, t) \/ PickSwitch(h, t)
        BY <3>3, PickWokenStep, PickSwitchStep
    <3>4. CASE \/ SpinEnd(h, t) \/ PrepareBlock(h, t) \/ TestWait(h, t) \/ SetDeadline(h, t)
               \/ ClearDeadline(h, t) \/ WaitDone(h, t) \/ BeginSleep(h, t)
               \/ SleepAgain(h, t) \/ EndSleep(h, t)
        BY <3>4, WaitStep
    <3>5. CASE Signal(h, t) \/ Unblock(h, t)
        BY <3>5, SignalStep, UnblockStep
    <3>6. CASE CreateReserve(h, t) \/ CreateFail(h, t) \/ CreateInit(h, t) \/ CreatePublish(h, t)
        BY <3>6, CreateReserveStep, CreateFailStep, CreateInitStep, CreatePublishStep
    <3>7. CASE SetPriority(h, t) \/ SetAffinity(h, t)
        BY <3>7, SetPriorityStep, SetAffinityStep
    <3>8. CASE BeginExit(h, t) \/ Exit(h, t)
        BY <3>8, BeginExitStep, ExitStep
    <3> QED
        BY <2>4, <3>1, <3>2, <3>3, <3>4, <3>5, <3>6, <3>7, <3>8 DEF Step
  <2> QED
    BY <2>1, <2>2, <2>3, <2>4 DEF Next, HartStep, HartTick
<1> QED
    BY <1>1, <1>2 DEF StackInv, Discipline

(* Whose stack a hart executes on. *)
LEMMA ExecOwner ==
    ASSUME StackInv, NEW h \in Harts
    PROVE  \/ exec[h] = h
           \/ /\ exec[h] \in Pages /\ hpc[h] = "task"
              /\ current[h] \in Tasks /\ exec[h] = stack_base[current[h]]
           \/ /\ exec[h] \in Pages /\ hpc[h] # "task"
              /\ out[h] \in Tasks /\ exec[h] = stack_base[out[h]] /\ state[out[h]] # "RUNNING"
           \/ exec[h] \in Pages /\ hpc[h] # "task" /\ exec[h] = reap[h]
<1> USE DEF StackInv
<1>1. CASE hpc[h] = "task" /\ current[h] = NoPid
    BY <1>1 DEF BootTasks
<1>2. CASE hpc[h] = "task" /\ current[h] # NoPid
  <2>1. current[h] \in Tasks /\ exec[h] = Home(current[h])
    BY <1>2 DEF OnOwnStack, TypeOK
  <2>2. stack_base[current[h]] \in Pages \cup {NULL}
    BY <2>1 DEF TypeOK
  <2> QED
    BY <1>2, <2>1, <2>2 DEF Home, BootTasks
<1>3. CASE hpc[h] # "task"
  <2>1. out[h] \in Tasks /\ stack_base[out[h]] \in Pages \cup {NULL} /\ reap[h] \in Pages \cup {NULL}
    BY <1>3 DEF SwitchesTasks, TypeOK
  <2> QED
    BY <1>3, <2>1 DEF OnOwnStack, Home
<1> QED
    BY <1>1, <1>2, <1>3

LEMMA StacksApart == StackInv => StacksExclusive /\ ReadyIsPublished
<1> SUFFICES ASSUME StackInv PROVE StacksExclusive /\ ReadyIsPublished
    OBVIOUS
<1>1. ReadyIsPublished
    BY DEF StackInv, SlotsReserved, ReadyIsPublished, Creators
<1> DEFINE Owns(h) ==
       \/ exec[h] = h
       \/ /\ exec[h] \in Pages /\ hpc[h] = "task"
          /\ current[h] \in Tasks /\ exec[h] = stack_base[current[h]]
       \/ /\ exec[h] \in Pages /\ hpc[h] # "task"
          /\ out[h] \in Tasks /\ exec[h] = stack_base[out[h]] /\ state[out[h]] # "RUNNING"
       \/ exec[h] \in Pages /\ hpc[h] # "task" /\ exec[h] = reap[h]
<1>2. \A h \in Harts : Owns(h)
    BY ExecOwner
<1>3. PagesApart /\ RunningOnce /\ HandOff /\ pool \subseteq Pages
    BY DEF StackInv, TypeOK
<1>4. /\ Pages \cap Harts = {} /\ NULL \notin Pages /\ NULL \notin Harts
      /\ NoPid \notin Tasks
    BY Constants
<1>5. ASSUME NEW h \in Harts
      PROVE  exec[h] # NULL /\ exec[h] \notin pool /\ (exec[h] \in Harts => exec[h] = h)
    BY ONLY <1>2, <1>3, <1>4, <1>5 DEF PagesApart
<1>6. ASSUME NEW h \in Harts, NEW g \in Harts \ {h} PROVE exec[g] # exec[h]
  <2>1. CASE exec[h] = h \/ exec[g] = g
    BY ONLY <1>2, <1>4, <1>6, <2>1
  <2>2. CASE exec[h] \in Pages /\ exec[g] \in Pages
    <3>1. hpc[g] = "task" \/ hpc[h] = "task"
        BY ONLY <1>3, <1>6 DEF HandOff
    <3>2. CASE hpc[g] = "task" /\ hpc[h] = "task"
        BY ONLY <1>2, <1>3, <1>4, <1>6, <2>2, <3>2 DEF PagesApart, RunningOnce
    <3>3. CASE hpc[g] # "task" /\ hpc[h] = "task"
        BY ONLY <1>2, <1>3, <1>4, <1>6, <2>2, <3>3 DEF PagesApart, RunningOnce
    <3>4. CASE hpc[g] = "task" /\ hpc[h] # "task"
        BY ONLY <1>2, <1>3, <1>4, <1>6, <2>2, <3>4 DEF PagesApart, RunningOnce
    <3> QED
        BY ONLY <3>1, <3>2, <3>3, <3>4
  <2> QED
    BY ONLY <1>2, <1>6, <2>1, <2>2
<1> QED
    BY <1>1, <1>5, <1>6 DEF StacksExclusive

(* As long as nobody wakes, by pid, a task that exits: no two harts ever   *)
(* execute on one stack, none on a freed one or from a consumed frame.     *)
THEOREM StackSafety == ASSUME StableTargets PROVE Spec => []StacksExclusive
<1>1. StackInv /\ [Next]_vars => StackInv'
    BY StackStep
<1> QED
    BY <1>1, StackInit, StacksApart, PTL DEF Spec

(* Under the same assumption a task is RUNNING exactly while one hart has  *)
(* it as its current one.                                                  *)
THEOREM RunningSafety == ASSUME StableTargets PROVE Spec => []RunningOnce
<1>1. StackInv /\ [Next]_vars => StackInv'
    BY StackStep
<1>2. StackInv => RunningOnce
    BY DEF StackInv
<1> QED
    BY <1>1, <1>2, StackInit, PTL DEF Spec

(* ... and a slot another hart could pick up is never one whose creator is *)
(* still filling it in: task_create_full() publishes last.                 *)
THEOREM PublishSafety == ASSUME StableTargets PROVE Spec => []ReadyIsPublished
<1>1. StackInv /\ [Next]_vars => StackInv'
    BY StackStep
<1> QED
    BY <1>1, StackInit, StacksApart, PTL DEF Spec
=============================================================================
