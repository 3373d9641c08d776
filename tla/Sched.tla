------------------------------- MODULE Sched -------------------------------
(***************************************************************************)
(* The multi-hart scheduler of kernel/sched.c: the task table, the lock    *)
(* that is handed across ctx_switch(), blocking with a wake token,         *)
(* deadlines, creation and exit of tasks, and the per-hart reap slot.      *)
(*                                                                         *)
(* A section under g_sched_lock is one step that needs the lock free; only *)
(* the switch holds the lock over several steps (Pick.., Park, Resume), so *)
(* `lock` says which hart is inside it.  Everything the code does without  *)
(* the lock is a step that does not look at it.                            *)
(*                                                                         *)
(* A stack is a number: 0..NHarts-1 are the linker's boot stacks, one per  *)
(* hart, the rest come from palloc_pages().  `sp[t]` is the stack that     *)
(* holds the frame task t would resume from, NULL once that frame has been *)
(* consumed: resuming from NULL is resuming from a stale frame.            *)
(***************************************************************************)
EXTENDS Integers, FiniteSets

CONSTANTS
    NTasks,   \* MAX_TASKS
    NHarts,   \* MAX_HARTS
    NStacks,  \* stacks palloc_pages() has to give
    Calls,    \* Calls[t]: what the body of a task in slot t may call
    Pins,     \* hart arguments task_create_full / task_set_affinity are given
    Tiers     \* priorities task_set_priority is given

NoPid == -1   \* TASK_NO_PID, and "no hart"
NULL  == -1   \* no stack
Free  == -1   \* g_sched_lock is not held

Tasks  == 0..(NTasks - 1)
Harts  == 0..(NHarts - 1)
Pages  == NHarts..(NHarts + NStacks - 1)
Stacks == 0..(NHarts + NStacks - 1)

CallNames == {"yield", "wait", "timedwait", "sleep", "signal", "create", "exit", "tune"}
Waiters   == {t \in Tasks : Calls[t] \cap {"wait", "timedwait"} # {}}
Exiters   == {t \in Tasks : "exit" \in Calls[t]}

ASSUME SchedAssumption ==
    /\ NTasks \in Nat \ {0} /\ NHarts \in Nat \ {0} /\ NStacks \in Nat
    /\ Calls \in [Tasks -> SUBSET CallNames]
    /\ Pins \subseteq Harts \cup {NoPid}
    /\ Tiers \subseteq 0..3
    /\ 0 \notin Exiters

VARIABLES
    state, aff, prio, wake_at, armed, token, stack_base, sp,   \* task_t
    current, reap, lock,                                       \* g_current, g_reap_stack, g_sched_lock
    exec,      \* exec[h]: the stack hart h executes on
    hpc, out,  \* where hart h is in ctx_switch(), and which task it is leaving
    pool,      \* stacks palloc holds
    pc,        \* where the task's own code is
    ph, tick,  \* where its sched_switch() is, and that of a tick on top of it
    arg,       \* pid the task is about to wake, or slot it is creating
    dl,        \* the deadline of the task's wait, against the clock
    ev         \* ev[t]: what task t waits for has happened

tcb   == <<state, aff, prio, wake_at, armed, token, stack_base, sp>>
cpu   == <<current, reap, lock, exec, hpc, out, pool>>
prog  == <<pc, ph, tick, arg, dl, ev>>
vars  == <<tcb, cpu, prog>>

States == {"UNUSED", "READY", "RUNNING", "BLOCKED", "DEAD"}
Phases == {"none", "reap", "pick", "out", "landed"}
PCs    == {"body", "idle", "prepare", "test", "setdl", "block", "spin", "cleardl", "done",
           "sleep", "sblock", "wake", "create", "publish", "exit", "parked", "dead"}

TypeOK ==
    /\ state \in [Tasks -> States]
    /\ aff \in [Tasks -> Harts \cup {NoPid}]
    /\ prio \in [Tasks -> 0..3]
    /\ wake_at \in [Tasks -> BOOLEAN]
    /\ armed \in [Tasks -> BOOLEAN]
    /\ token \in [Tasks -> BOOLEAN]
    /\ stack_base \in [Tasks -> Pages \cup {NULL}]
    /\ sp \in [Tasks -> Stacks \cup {NULL}]
    /\ current \in [Harts -> Tasks \cup {NoPid}]
    /\ reap \in [Harts -> Pages \cup {NULL}]
    /\ lock \in Harts \cup {Free}
    /\ exec \in [Harts -> Stacks \cup {NULL}]
    /\ hpc \in [Harts -> {"task", "save", "land"}]
    /\ out \in [Harts -> Tasks \cup {NoPid}]
    /\ pool \subseteq Pages
    /\ pc \in [Tasks -> PCs]
    /\ ph \in [Tasks -> Phases]
    /\ tick \in [Tasks -> Phases]
    /\ arg \in [Tasks -> Tasks \cup {NoPid}]
    /\ dl \in [Tasks -> {"none", "future", "past"}]
    /\ ev \in [Tasks -> BOOLEAN]

-----------------------------------------------------------------------------
(* sched_init(): the boot context of hart 0 becomes task 0; no other hart  *)
(* owns a task yet, though each executes on its own boot stack.            *)
Init ==
    /\ state = [t \in Tasks |-> IF t = 0 THEN "RUNNING" ELSE "UNUSED"]
    /\ aff = [t \in Tasks |-> IF t = 0 THEN 0 ELSE NoPid]
    /\ prio = [t \in Tasks |-> IF t = 0 THEN 2 ELSE 0]
    /\ wake_at = [t \in Tasks |-> FALSE]
    /\ armed = [t \in Tasks |-> FALSE]
    /\ token = [t \in Tasks |-> FALSE]
    /\ stack_base = [t \in Tasks |-> NULL]
    /\ sp = [t \in Tasks |-> NULL]
    /\ current = [h \in Harts |-> IF h = 0 THEN 0 ELSE NoPid]
    /\ reap = [h \in Harts |-> NULL]
    /\ lock = Free
    /\ exec = [h \in Harts |-> h]
    /\ hpc = [h \in Harts |-> "task"]
    /\ out = [h \in Harts |-> NoPid]
    /\ pool = Pages
    /\ pc = [t \in Tasks |-> IF t = 0 THEN "body" ELSE "dead"]
    /\ ph = [t \in Tasks |-> "none"]
    /\ tick = [t \in Tasks |-> "none"]
    /\ arg = [t \in Tasks |-> NoPid]
    /\ dl = [t \in Tasks |-> "none"]
    /\ ev = [t \in Tasks |-> FALSE]

(* Hart h executes task t, outside ctx_switch(). *)
Runs(h, t) == current[h] = t /\ hpc[h] = "task"

(* Hart h executes the code of task t itself, at p: no tick on top of it,  *)
(* and not inside sched_switch().                                          *)
At(h, t, p) == Runs(h, t) /\ tick[t] = "none" /\ ph[t] = "none" /\ pc[t] = p

Goto(t, p) == pc' = [pc EXCEPT ![t] = p]

(* The phase of the sched_switch() on top of task t's stack. *)
Phase(t) == IF tick[t] # "none" THEN tick[t] ELSE ph[t]

SetPhase(t, p) ==
    IF tick[t] # "none" THEN tick' = [tick EXCEPT ![t] = p] /\ UNCHANGED ph
                        ELSE ph' = [ph EXCEPT ![t] = p] /\ UNCHANGED tick

(* Where task t's code goes on when task_block() returns to it. *)
AfterBlock(t) ==
    CASE pc[t] = "block"  -> IF dl[t] = "none" THEN "prepare" ELSE "cleardl"
      [] pc[t] = "sblock" -> "sleep"
      [] OTHER            -> pc[t]

(* sched_switch() returns to its caller, which is task t or the tick on it. *)
Return(t) ==
    /\ SetPhase(t, "none")
    /\ IF tick[t] = "none" THEN Goto(t, AfterBlock(t)) ELSE UNCHANGED pc

(* Mutants of SchedReap: a stack is freed although the slot was empty, and *)
(* the slot is emptied without a free.                                     *)
SchedReapNull(h) ==
    /\ lock = Free
    /\ reap' = [reap EXCEPT ![h] = NULL]
    /\ pool' = pool \cup {reap[h]}
    /\ UNCHANGED <<current, lock, exec, hpc, out>>

SchedReapLeak(h) ==
    /\ lock = Free
    /\ reap' = [reap EXCEPT ![h] = NULL]
    /\ UNCHANGED <<current, lock, exec, hpc, out, pool>>

-----------------------------------------------------------------------------
(* sched_reap(): the hart's slot is emptied under the lock and the stack   *)
(* freed after it.  The free only gives pages back and nobody else has     *)
(* them in between, so the two are one step.                               *)
SchedReap(h) ==
    /\ lock = Free
    /\ reap' = [reap EXCEPT ![h] = NULL]
    /\ pool' = pool \cup ({reap[h]} \ {NULL})
    /\ UNCHANGED <<current, lock, exec, hpc, out>>

(* The sched_reap() before sched_switch() picks, and the one after landing. *)
Reap(h, t) ==
    /\ Runs(h, t)
    /\ SchedReap(h)
    /\ \/ Phase(t) = "reap"   /\ SetPhase(t, "pick") /\ UNCHANGED pc
       \/ Phase(t) = "landed" /\ Return(t)
    /\ UNCHANGED <<tcb, arg, dl, ev>>

(* Mutants of the scan: affinity is ignored, the ring starts at slot 0. *)
RunnableAnywhere(st, h) ==
    {t \in Tasks : st[t] = "READY" \/ (st[t] = "BLOCKED" /\ wake_at[t] /\ dl[t] = "past")}
RingDistFromZero(from, t) == t

(* next_runnable()'s two jobs.  st is the table's state column as the scan *)
(* finds it: sleepers whose time has come are made READY on the way, and   *)
(* the choice is the highest priority among what this hart may run, the    *)
(* first in ring order after `from` on a tie.                              *)
Due(st, t)     == st[t] = "BLOCKED" /\ wake_at[t] /\ dl[t] = "past"
Scanned(st)    == [t \in Tasks |-> IF Due(st, t) THEN "READY" ELSE st[t]]
WakeLeft(st)   == [t \in Tasks |-> wake_at[t] /\ ~Due(st, t)]
Runnable(st, h) == {t \in Tasks : Scanned(st)[t] = "READY" /\ aff[t] \in {NoPid, h}}
RingDist(from, t) == (t - from - 1) % NTasks
NextRunnable(st, h, from) ==
    {t \in Runnable(st, h) :
        \A u \in Runnable(st, h) :
            \/ prio[u] < prio[t]
            \/ prio[u] = prio[t] /\ RingDist(from, t) <= RingDist(from, u)}

(* sched_peek_runnable(): the same question, asked without the lock. *)
Peek(h) == \E t \in Tasks : state[t] = "READY" /\ aff[t] \in {NoPid, h}

(* The switch blocks its caller: task_block() called it, not a yield. *)
Blocking(t) == tick[t] = "none" /\ pc[t] \in {"block", "sblock"}

(* The state column once a blocking caller has marked itself. *)
Marked(t) == IF Blocking(t) THEN [state EXCEPT ![t] = "BLOCKED"] ELSE state

(* The wake token of a blocking caller is taken down before it blocks. *)
Disarmed(t) == IF Blocking(t) THEN [armed EXCEPT ![t] = FALSE] ELSE armed

(* Mutant: the lock is released before ctx_switch(). *)
HoldLockNot(h) == UNCHANGED lock

(* g_sched_lock is taken and stays taken: whoever lands on the other side  *)
(* of the ctx_switch() releases it (Resume).                               *)
HoldLock(h) == lock' = h

(* Mutant: a caller that could not be switched away stays BLOCKED. *)
StaysBlocked(t) == Scanned(Marked(t))

(* What a switch that does not happen leaves in the state column. *)
StaysOn(t) == [Scanned(Marked(t)) EXCEPT ![t] = "RUNNING"]

(* Mutant: the token is left armed. *)
DisarmNot(t) == armed' = armed /\ token' = [token EXCEPT ![t] = FALSE]

(* A token that has been consumed, or is no longer wanted. *)
Disarm(t) ==
    /\ armed' = [armed EXCEPT ![t] = FALSE]
    /\ token' = [token EXCEPT ![t] = FALSE]

(* Mutant: the block does not look for the token. *)
HasTokenNot(t) == FALSE

(* The wake this block would wait for has come already. *)
HasToken(t) == Blocking(t) /\ token[t]

AtPick(h, t) == Runs(h, t) /\ Phase(t) = "pick" /\ lock = Free

(* SWITCH_WOKEN: the wake came before the block. *)
PickWoken(h, t) ==
    /\ AtPick(h, t)
    /\ HasToken(t)
    /\ Disarm(t)
    /\ Return(t)
    /\ UNCHANGED <<state, aff, prio, wake_at, stack_base, sp, cpu, arg, dl, ev>>

(* SWITCH_IDLE: nothing to run here, so the caller keeps running and says  *)
(* so.  A waiter that prepared stays armed and spins in task_block().      *)
PickIdle(h, t) ==
    /\ AtPick(h, t)
    /\ ~HasToken(t)
    /\ NextRunnable(Marked(t), h, t) = {}
    /\ state' = StaysOn(t)
    /\ wake_at' = WakeLeft(Marked(t))
    /\ IF Blocking(t) /\ armed[t]
       THEN SetPhase(t, "none") /\ Goto(t, "spin")
       ELSE Return(t)
    /\ UNCHANGED <<aff, prio, armed, token, stack_base, sp, cpu, arg, dl, ev>>

(* The scan woke the caller itself and chose it: no switch is made. *)
PickSelf(h, t) ==
    /\ AtPick(h, t)
    /\ ~HasToken(t)
    /\ t \in NextRunnable(Marked(t), h, t)
    /\ state' = StaysOn(t)
    /\ wake_at' = WakeLeft(Marked(t))
    /\ armed' = Disarmed(t)
    /\ Return(t)
    /\ UNCHANGED <<aff, prio, token, stack_base, sp, cpu, arg, dl, ev>>

(* The table once the outgoing task has made way. *)
Preempted(t) == [Scanned(Marked(t)) EXCEPT ![t] = IF @ = "RUNNING" THEN "READY" ELSE @]

(* The switch proper, up to the call of ctx_switch(). *)
PickSwitch(h, t) ==
    /\ AtPick(h, t)
    /\ ~HasToken(t)
    /\ \E n \in NextRunnable(Marked(t), h, t) \ {t} :
        /\ state' = [Preempted(t) EXCEPT ![n] = "RUNNING"]
        /\ current' = [current EXCEPT ![h] = n]
    /\ wake_at' = WakeLeft(Marked(t))
    /\ armed' = Disarmed(t)
    /\ SetPhase(t, "out")
    /\ HoldLock(h)
    /\ hpc' = [hpc EXCEPT ![h] = "save"]
    /\ out' = [out EXCEPT ![h] = t]
    /\ UNCHANGED <<aff, prio, token, stack_base, sp, reap, exec, pool, pc, arg, dl, ev>>

(* ctx_switch(), first half: the outgoing frame is pushed and sp parked. *)
Park(h) ==
    /\ hpc[h] = "save"
    /\ sp' = [sp EXCEPT ![out[h]] = exec[h]]
    /\ hpc' = [hpc EXCEPT ![h] = "land"]
    /\ UNCHANGED <<state, aff, prio, wake_at, armed, token, stack_base,
                   current, reap, lock, exec, out, pool, prog>>

(* Mutant: the landing does not reap. *)
LandedNoReap(t) == SetPhase(t, "none")

(* A landing still has its sched_reap() to do. *)
Landed(t) == SetPhase(t, "landed")

(* ctx_switch(), second half, and the landing in sched_switch() or         *)
(* task_start(), which releases the lock on the incoming stack.            *)
Resume(h) ==
    /\ hpc[h] = "land"
    /\ exec' = [exec EXCEPT ![h] = sp[current[h]]]
    /\ sp' = [sp EXCEPT ![current[h]] = NULL]
    /\ lock' = Free
    /\ hpc' = [hpc EXCEPT ![h] = "task"]
    /\ out' = [out EXCEPT ![h] = NoPid]
    /\ Landed(current[h])
    /\ UNCHANGED <<state, aff, prio, wake_at, armed, token, stack_base,
                   current, reap, pool, pc, arg, dl, ev>>

(* task_block(), a prepared waiter with nothing else to run on its hart:   *)
(* it spins on plain words until it is woken or there is other work.       *)
SpinOver(h, t) == ~armed[t] \/ token[t] \/ Peek(h)

SpinEnd(h, t) ==
    /\ At(h, t, "spin")
    /\ SpinOver(h, t)
    /\ Goto(t, IF dl[t] = "none" THEN "prepare" ELSE "cleardl")
    /\ UNCHANGED <<tcb, cpu, ph, tick, arg, dl, ev>>

(* The timer interrupt: sched_yield() on top of whatever the task is at,   *)
(* as far as its leading sched_reap().                                     *)
Tick(h, t) ==
    /\ Runs(h, t)
    /\ tick[t] = "none"
    /\ SchedReap(h)
    /\ tick' = [tick EXCEPT ![t] = "pick"]
    /\ UNCHANGED <<tcb, pc, ph, arg, dl, ev>>

-----------------------------------------------------------------------------
(* What a task's own code may call.                                        *)

(* sched_yield() and the idle loop's guarded one, likewise. *)
Yield(h, t) ==
    /\ \/ At(h, t, "body") /\ "yield" \in Calls[t]
       \/ At(h, t, "idle") /\ Peek(h)
    /\ SchedReap(h)
    /\ ph' = [ph EXCEPT ![t] = "pick"]
    /\ UNCHANGED <<tcb, pc, tick, arg, dl, ev>>

(* The waiting pattern sched.h prescribes: prepare, test, block, again.    *)
(* task_prepare_block(), at the start of a wait, where the caller chooses  *)
(* a deadline or none, and again after each task_block().                  *)
PrepareBlock(h, t) ==
    /\ \/ At(h, t, "body") /\ "wait" \in Calls[t] /\ UNCHANGED dl
       \/ At(h, t, "body") /\ "timedwait" \in Calls[t] /\ dl' = [dl EXCEPT ![t] = "future"]
       \/ At(h, t, "prepare") /\ UNCHANGED dl
    /\ lock = Free
    /\ armed' = [armed EXCEPT ![t] = TRUE]
    /\ token' = [token EXCEPT ![t] = FALSE]
    /\ Goto(t, "test")
    /\ UNCHANGED <<state, aff, prio, wake_at, stack_base, sp, cpu, ph, tick, arg, ev>>

(* The waiter's test: its condition, then its deadline, then it blocks. *)
TestWait(h, t) ==
    /\ At(h, t, "test")
    /\ \/ ev[t] /\ ev' = [ev EXCEPT ![t] = FALSE] /\ Goto(t, "done") /\ UNCHANGED ph
       \/ ~ev[t] /\ dl[t] = "past" /\ Goto(t, "done") /\ UNCHANGED <<ph, ev>>
       \/ ~ev[t] /\ dl[t] = "future" /\ Goto(t, "setdl") /\ UNCHANGED <<ph, ev>>
       \/ ~ev[t] /\ dl[t] = "none" /\ Goto(t, "block")
          /\ ph' = [ph EXCEPT ![t] = "reap"] /\ UNCHANGED ev
    /\ UNCHANGED <<tcb, cpu, tick, arg, dl>>

(* Mutant: the deadline is not recorded. *)
SetDeadlineNot(h, t) ==
    /\ At(h, t, "setdl")
    /\ Goto(t, "block")
    /\ ph' = [ph EXCEPT ![t] = "reap"]
    /\ UNCHANGED <<tcb, cpu, tick, arg, dl, ev>>

(* task_block_until_ms() with a deadline, up to its task_block(). *)
SetDeadline(h, t) ==
    /\ At(h, t, "setdl")
    /\ lock = Free
    /\ wake_at' = [wake_at EXCEPT ![t] = TRUE]
    /\ Goto(t, "block")
    /\ ph' = [ph EXCEPT ![t] = "reap"]
    /\ UNCHANGED <<state, aff, prio, armed, token, stack_base, sp, cpu, tick, arg, dl, ev>>

(* ... and after it. *)
ClearDeadline(h, t) ==
    /\ At(h, t, "cleardl")
    /\ lock = Free
    /\ wake_at' = [wake_at EXCEPT ![t] = FALSE]
    /\ Goto(t, "prepare")
    /\ UNCHANGED <<state, aff, prio, armed, token, stack_base, sp, cpu, ph, tick, arg, dl, ev>>

(* task_wait_done() *)
WaitDone(h, t) ==
    /\ At(h, t, "done")
    /\ lock = Free
    /\ Disarm(t)
    /\ dl' = [dl EXCEPT ![t] = "none"]
    /\ Goto(t, "body")
    /\ UNCHANGED <<state, aff, prio, wake_at, stack_base, sp, cpu, ph, tick, arg, ev>>

(* task_sleep_ms(): blocks without preparing, and re-blocks until its time *)
(* has come whatever woke it.                                              *)
BeginSleep(h, t) ==
    /\ At(h, t, "body") /\ "sleep" \in Calls[t]
    /\ dl' = [dl EXCEPT ![t] = "future"]
    /\ Goto(t, "sleep")
    /\ UNCHANGED <<tcb, cpu, ph, tick, arg, ev>>

SleepAgain(h, t) ==
    /\ At(h, t, "sleep") /\ dl[t] = "future"
    /\ lock = Free
    /\ wake_at' = [wake_at EXCEPT ![t] = TRUE]
    /\ Goto(t, "sblock")
    /\ ph' = [ph EXCEPT ![t] = "reap"]
    /\ UNCHANGED <<state, aff, prio, armed, token, stack_base, sp, cpu, tick, arg, dl, ev>>

EndSleep(h, t) ==
    /\ At(h, t, "sleep") /\ dl[t] = "past"
    /\ lock = Free
    /\ wake_at' = [wake_at EXCEPT ![t] = FALSE]
    /\ dl' = [dl EXCEPT ![t] = "none"]
    /\ Goto(t, "body")
    /\ UNCHANGED <<state, aff, prio, armed, token, stack_base, sp, cpu, ph, tick, arg, ev>>

(* A task that has registered for what it waits for. *)
Waiting == {"prepare", "test", "setdl", "block", "spin", "cleardl"}

(* Whoever makes a waiter's condition true and then wakes it: the reply in *)
(* chan_serve_reply(), the hand-over in release_locked(), kobj's wake_all().*)
(* The two are separate steps, and the wake may come late.                 *)
Signal(h, t) ==
    /\ At(h, t, "body") /\ "signal" \in Calls[t]
    /\ \E w \in Waiters \ {t} :
        /\ pc[w] \in Waiting
        /\ ev' = [ev EXCEPT ![w] = TRUE]
        /\ arg' = [arg EXCEPT ![t] = w]
    /\ Goto(t, "wake")
    /\ UNCHANGED <<tcb, cpu, ph, tick, dl>>

(* Mutant: a wake that comes before the block is lost. *)
TaskUnblockNoToken(w) ==
    /\ armed' = [armed EXCEPT ![w] = @ /\ state[w] # "BLOCKED"]
    /\ wake_at' = [wake_at EXCEPT ![w] = @ /\ state[w] # "BLOCKED"]
    /\ state' = [state EXCEPT ![w] = IF @ = "BLOCKED" THEN "READY" ELSE @]
    /\ UNCHANGED token

(* task_unblock(): a task that is not blocked yet gets the token instead,  *)
(* if it has prepared.                                                     *)
TaskUnblock(w) ==
    \/ /\ state[w] # "BLOCKED"
       /\ token' = [token EXCEPT ![w] = @ \/ armed[w]]
       /\ UNCHANGED <<state, wake_at, armed>>
    \/ /\ state[w] = "BLOCKED"
       /\ armed' = [armed EXCEPT ![w] = FALSE]
       /\ wake_at' = [wake_at EXCEPT ![w] = FALSE]
       /\ state' = [state EXCEPT ![w] = "READY"]
       /\ UNCHANGED token

Unblock(h, t) ==
    /\ At(h, t, "wake")
    /\ lock = Free
    /\ TaskUnblock(arg[t])
    /\ arg' = [arg EXCEPT ![t] = NoPid]
    /\ Goto(t, "body")
    /\ UNCHANGED <<aff, prio, stack_base, sp, cpu, ph, tick, dl, ev>>

(* Mutant: the slot is made READY at once. *)
ReservedReady == "READY"

(* A slot is reserved as BLOCKED, which no scan picks up. *)
Reserved == "BLOCKED"

(* task_create_full(): reserve the lowest free slot ... *)
CreateReserve(h, t) ==
    /\ At(h, t, "body") /\ "create" \in Calls[t]
    /\ lock = Free
    /\ \E s \in Tasks \ {0} :
        /\ state[s] \in {"UNUSED", "DEAD"}
        /\ \A u \in Tasks \ {0} : u < s => state[u] \notin {"UNUSED", "DEAD"}
        /\ state' = [state EXCEPT ![s] = Reserved]
        /\ arg' = [arg EXCEPT ![t] = s]
    /\ Goto(t, "create")
    /\ UNCHANGED <<aff, prio, wake_at, armed, token, stack_base, sp, cpu, ph, tick, dl, ev>>

(* ... then, without the lock, give the slot back if there is no stack ... *)
CreateFail(h, t) ==
    /\ At(h, t, "create")
    /\ pool = {}
    /\ state' = [state EXCEPT ![arg[t]] = "UNUSED"]
    /\ arg' = [arg EXCEPT ![t] = NoPid]
    /\ Goto(t, "body")
    /\ UNCHANGED <<aff, prio, wake_at, armed, token, stack_base, sp, cpu, ph, tick, dl, ev>>

(* ... or fill it in and prime its first frame ... *)
CreateInit(h, t) ==
    /\ At(h, t, "create")
    /\ \E k \in pool, a \in Pins :
        /\ pool' = pool \ {k}
        /\ stack_base' = [stack_base EXCEPT ![arg[t]] = k]
        /\ sp' = [sp EXCEPT ![arg[t]] = k]
        /\ aff' = [aff EXCEPT ![arg[t]] = a]
        /\ prio' = [prio EXCEPT ![arg[t]] = 2]
        /\ wake_at' = [wake_at EXCEPT ![arg[t]] = FALSE]
        /\ armed' = [armed EXCEPT ![arg[t]] = FALSE]
        /\ token' = [token EXCEPT ![arg[t]] = FALSE]
        /\ pc' = [[pc EXCEPT ![arg[t]] = "body"] EXCEPT ![t] = "publish"]
        /\ ph' = [ph EXCEPT ![arg[t]] = "out"]
        /\ ev' = [ev EXCEPT ![arg[t]] = FALSE]
    /\ UNCHANGED <<state, current, reap, lock, exec, hpc, out, tick, arg, dl>>

(* ... and publish it, under the lock. *)
CreatePublish(h, t) ==
    /\ At(h, t, "publish")
    /\ lock = Free
    /\ state' = [state EXCEPT ![arg[t]] = "READY"]
    /\ arg' = [arg EXCEPT ![t] = NoPid]
    /\ Goto(t, "body")
    /\ UNCHANGED <<aff, prio, wake_at, armed, token, stack_base, sp, cpu, ph, tick, dl, ev>>

(* sched_secondary_init(): a secondary hart's boot context becomes a task  *)
(* that never leaves the hart, and then idles (smp.c).                     *)
SecondaryInit(h) ==
    /\ current[h] = NoPid
    /\ lock = Free
    /\ \E s \in Tasks \ {0} :
        /\ state[s] = "UNUSED"
        /\ \A u \in Tasks \ {0} : u < s => state[u] # "UNUSED"
        /\ state' = [state EXCEPT ![s] = "RUNNING"]
        /\ prio' = [prio EXCEPT ![s] = 0]
        /\ aff' = [aff EXCEPT ![s] = h]
        /\ stack_base' = [stack_base EXCEPT ![s] = NULL]
        /\ current' = [current EXCEPT ![h] = s]
        /\ Goto(s, "idle")
    /\ UNCHANGED <<wake_at, armed, token, sp, reap, lock, exec, hpc, out, pool,
                   ph, tick, arg, dl, ev>>

(* task_set_priority(), and task_set_affinity() as the shell calls it: on a *)
(* task that is not pinned yet, which none on a boot stack is.              *)
SetPriority(h, t) ==
    /\ At(h, t, "body") /\ "tune" \in Calls[t]
    /\ \E u \in Tasks, p \in Tiers :
        /\ state[u] # "UNUSED"
        /\ prio' = [prio EXCEPT ![u] = p]
    /\ UNCHANGED <<state, aff, wake_at, armed, token, stack_base, sp, cpu, prog>>

SetAffinity(h, t) ==
    /\ At(h, t, "body") /\ "tune" \in Calls[t]
    /\ lock = Free
    /\ \E u \in Tasks, a \in Pins :
        /\ state[u] # "UNUSED" /\ aff[u] = NoPid
        /\ aff' = [aff EXCEPT ![u] = a]
    /\ UNCHANGED <<state, prio, wake_at, armed, token, stack_base, sp, cpu, prog>>

(* task_exit(), up to its lock section: printk() and chan_owner_exited(). *)
BeginExit(h, t) ==
    /\ At(h, t, "body") /\ "exit" \in Calls[t]
    /\ Goto(t, "exit")
    /\ UNCHANGED <<tcb, cpu, ph, tick, arg, dl, ev>>

(* With nothing to switch to the task parks for ever, still RUNNING. *)
ExitPark(h, t) ==
    /\ At(h, t, "exit")
    /\ lock = Free
    /\ NextRunnable(state, h, t) = {}
    /\ state' = Scanned(state)
    /\ wake_at' = WakeLeft(state)
    /\ Goto(t, "parked")
    /\ UNCHANGED <<aff, prio, armed, token, stack_base, sp, cpu, ph, tick, arg, dl, ev>>

(* Otherwise its stack goes into the hart's reap slot, which the code      *)
(* halts on finding occupied (ReapSlotDrained), and the successor inherits *)
(* the lock.                                                               *)
Exit(h, t) ==
    /\ At(h, t, "exit")
    /\ lock = Free
    /\ reap[h] = NULL
    /\ \E n \in NextRunnable(state, h, t) :
        /\ state' = [[Scanned(state) EXCEPT ![t] = "DEAD"] EXCEPT ![n] = "RUNNING"]
        /\ current' = [current EXCEPT ![h] = n]
    /\ wake_at' = WakeLeft(state)
    /\ reap' = [reap EXCEPT ![h] = stack_base[t]]
    /\ stack_base' = [stack_base EXCEPT ![t] = NULL]
    /\ HoldLock(h)
    /\ hpc' = [hpc EXCEPT ![h] = "save"]
    /\ out' = [out EXCEPT ![h] = t]
    /\ Goto(t, "dead")
    /\ UNCHANGED <<aff, prio, armed, token, sp, exec, pool, ph, tick, arg, dl, ev>>

(* time_get_ms() reaches a task's deadline. *)
Clock ==
    /\ \E t \in Tasks : dl[t] = "future" /\ dl' = [dl EXCEPT ![t] = "past"]
    /\ UNCHANGED <<tcb, cpu, pc, ph, tick, arg, ev>>

-----------------------------------------------------------------------------
(* One step of what hart h executes on behalf of task t. *)
Step(h, t) ==
    \/ Reap(h, t) \/ PickWoken(h, t) \/ PickIdle(h, t) \/ PickSelf(h, t) \/ PickSwitch(h, t)
    \/ SpinEnd(h, t) \/ Yield(h, t)
    \/ PrepareBlock(h, t) \/ TestWait(h, t)
    \/ SetDeadline(h, t) \/ ClearDeadline(h, t) \/ WaitDone(h, t)
    \/ BeginSleep(h, t) \/ SleepAgain(h, t) \/ EndSleep(h, t)
    \/ Signal(h, t) \/ Unblock(h, t)
    \/ CreateReserve(h, t) \/ CreateFail(h, t) \/ CreateInit(h, t) \/ CreatePublish(h, t)
    \/ SetPriority(h, t) \/ SetAffinity(h, t)
    \/ BeginExit(h, t) \/ ExitPark(h, t) \/ Exit(h, t)

HartStep(h) == Park(h) \/ Resume(h) \/ SecondaryInit(h) \/ \E t \in Tasks : Step(h, t)
HartTick(h) == \E t \in Tasks : Tick(h, t)

Next == Clock \/ \E h \in Harts : HartStep(h) \/ HartTick(h)

Spec == Init /\ [][Next]_vars

(* What the hardware and the tick give: a hart keeps executing, a lock that *)
(* keeps becoming free is taken in the end, the timer keeps firing, a tick  *)
(* period is long enough for the interrupted code to get on by one step,    *)
(* and time passes.                                                         *)
OwnStep(t) == tick[t] = "none" /\ \E h \in Harts : Step(h, t)
Fairness ==
    /\ \A h \in Harts : SF_vars(HartStep(h)) /\ SF_vars(HartTick(h))
    /\ \A t \in Tasks : SF_vars(OwnStep(t))
    /\ WF_vars(Clock)

FairSpec == Spec /\ Fairness

-----------------------------------------------------------------------------
(* Every hart executes on a stack of its own, and on a valid frame of it:  *)
(* never two harts on one stack, never a stack palloc has back, never a    *)
(* frame that was already consumed, and a boot stack only on its own hart. *)
(* This is what handing g_sched_lock across ctx_switch() is for.           *)
StacksExclusive ==
    \A h \in Harts :
        /\ exec[h] # NULL
        /\ exec[h] \notin pool
        /\ exec[h] \in Harts => exec[h] = h
        /\ \A g \in Harts \ {h} : exec[g] # exec[h]

(* handoff_check(): a hart inside ctx_switch() holds the scheduler lock,   *)
(* and nobody else does.                                                   *)
HandOff == \A h \in Harts : hpc[h] # "task" <=> lock = h

(* A task is RUNNING exactly when one hart has it as its current task.     *)
RunningOnce ==
    /\ \A h \in Harts : current[h] # NoPid => state[current[h]] = "RUNNING"
    /\ \A g, h \in Harts : current[g] = current[h] /\ current[h] # NoPid => g = h
    /\ \A t \in Tasks : state[t] = "RUNNING" => \E h \in Harts : current[h] = t

(* task_exit(): the reap slot of the hart a task exits on is empty -- a    *)
(* property of the code rather than a hope, says its comment.              *)
ReapSlotDrained ==
    \A h \in Harts, t \in Tasks : At(h, t, "exit") => reap[h] = NULL

(* task_create_full() publishes last: "the store that makes it READY is    *)
(* what another hart's scan is looking for, so everything that scan will   *)
(* then read -- sp, the domain, and above all hart_affinity -- has to be   *)
(* visible first".                                                         *)
ReadyIsPublished ==
    \A t \in Tasks : pc[t] \in {"create", "publish"} => state[arg[t]] = "BLOCKED"

(* No stack is lost or owned twice: each is with palloc, is some task's    *)
(* stack_base, or waits in one reap slot.                                  *)
StacksAccounted ==
    \A k \in Pages :
        Cardinality({t \in Tasks : stack_base[t] = k}) + Cardinality({h \in Harts : reap[h] = k})
            = IF k \in pool THEN 0 ELSE 1

(* The wake token: a task that is blocked in a prepared wait although its  *)
(* condition holds has a wake still on its way.                            *)
NoLostWake ==
    \A t \in Tasks :
        state[t] = "BLOCKED" /\ pc[t] = "block" /\ ev[t]
            => \E s \in Tasks : pc[s] = "wake" /\ arg[s] = t

(* Outside a prepared wait no token is armed, so none can end an unrelated *)
(* block (sched.h, task_wait_done()).                                      *)
TokenScoped ==
    \A t \in Tasks : armed[t] \/ token[t] => pc[t] \in Waiting \cup {"done"}

(* A task whose condition has come true leaves its wait. *)
WaitServed ==
    \A t \in Waiters : pc[t] \in Waiting /\ ev[t] ~> pc[t] = "done"

(* Round robin with a tick starves no READY task of the one tier. *)
NoStarvation == \A t \in Tasks : state[t] = "READY" ~> state[t] = "RUNNING"

(* task_block_until_ms() "blocks until task_unblock() wakes the calling    *)
(* task or the monotonic millisecond clock reaches `deadline_ms`": a timed *)
(* wait whose deadline has passed is left.                                 *)
TimedWaitEnds == \A t \in Tasks : dl[t] = "past" ~> dl[t] = "none"

(* What a waiting task sees of all this is the wake token of WakeToken. *)
WakeView ==
    [t \in Tasks |-> IF state[t] = "BLOCKED" /\ pc[t] \in {"block", "sblock"} THEN "blocked"
                     ELSE IF token[t] THEN "token"
                     ELSE IF armed[t] THEN "armed" ELSE "none"]
Wake == INSTANCE WakeToken WITH Sleepers <- Tasks, wk <- WakeView

(* Every step of the scheduler is a step of the wake token or invisible in *)
(* it: no wake between prepare and block is lost, on any interleaving.     *)
ImplementsWakeToken == Wake!WakeSpec
=============================================================================
