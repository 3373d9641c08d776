------------------------------ MODULE SchedInv ------------------------------
(***************************************************************************)
(* The inductive invariant behind the stack discipline of kernel/sched.c:  *)
(* what has to hold of every slot, frame and stack for the hand-off of     *)
(* g_sched_lock to keep two harts off one stack.                           *)
(***************************************************************************)
EXTENDS Sched

(* Whoever may be woken by pid does not exit: otherwise a wake that comes  *)
(* late reaches whatever has been created in the slot since.               *)
StableTargets == Waiters \cap Exiters = {}

(* The stack a task runs on: its own pages, or the boot stack of the hart  *)
(* it is pinned to.                                                        *)
Home(t) == IF stack_base[t] = NULL THEN aff[t] ELSE stack_base[t]

(* A task that is not on its creator's way to being published. *)
Creators == {c \in Tasks : pc[c] \in {"create", "publish"}}

(* A hart inside ctx_switch() goes from one task to another. *)
SwitchesTasks ==
    \A h \in Harts : hpc[h] # "task" => current[h] \in Tasks /\ out[h] \in Tasks

(* A slot is dead exactly when nothing of it runs, waits or is published. *)
SlotStates ==
    /\ \A t \in Tasks : state[t] \in {"UNUSED", "DEAD"} => pc[t] = "dead"
    /\ \A t \in Tasks : pc[t] = "dead" => state[t] \in {"UNUSED", "DEAD", "BLOCKED"}
    /\ pc[0] # "dead"
    /\ \A t \in Tasks : pc[t] = "exit" => t \in Exiters

(* A deadline in the table is that of a wait the task is in. *)
Deadlines ==
    \A t \in Tasks :
        /\ wake_at[t] => pc[t] \in {"block", "spin", "cleardl", "sblock", "sleep"} /\ dl[t] # "none"
        /\ pc[t] = "setdl" => dl[t] # "none"

(* The slot a creator fills in is its own and is nobody's to run. *)
SlotsReserved ==
    /\ \A c \in Creators :
        /\ arg[c] \in Tasks \ {0}
        /\ state[arg[c]] = "BLOCKED"
        /\ pc[c] = "create" => pc[arg[c]] = "dead"
        /\ pc[c] = "publish" => pc[arg[c]] = "body" /\ stack_base[arg[c]] # NULL
    /\ \A c, d \in Creators : arg[c] = arg[d] => c = d

(* A wake on its way is for a task that is there to stay. *)
WakesLive ==
    \A t \in Tasks : pc[t] = "wake" =>
        /\ arg[t] \in Waiters
        /\ pc[arg[t]] # "dead"
        /\ \A c \in Creators : arg[c] # arg[t]

(* Boot stacks belong to task 0 and to the idle task of each other hart,   *)
(* one each, and these never leave their hart.                             *)
BootTasks ==
    /\ \A t \in Tasks : pc[t] # "dead" /\ stack_base[t] = NULL =>
        (t = 0 \/ pc[t] = "idle") /\ aff[t] \in Harts
    /\ \A t, u \in Tasks :
        (pc[t] # "dead" /\ stack_base[t] = NULL /\ pc[u] # "dead" /\ stack_base[u] = NULL)
            => (aff[t] = aff[u] => t = u)
    /\ \A h \in Harts : current[h] = NoPid =>
        /\ hpc[h] = "task" /\ exec[h] = h
        /\ \A t \in Tasks : pc[t] # "dead" /\ stack_base[t] = NULL => aff[t] # h
    /\ \A h \in Harts : current[h] # NoPid /\ stack_base[current[h]] = NULL => aff[current[h]] = h

(* Every page of stack is with one task, in one reap slot, or with palloc. *)
PagesApart ==
    /\ \A t, u \in Tasks : stack_base[t] # NULL /\ stack_base[t] = stack_base[u] => t = u
    /\ \A t \in Tasks : stack_base[t] \notin pool
    /\ \A h \in Harts : reap[h] \notin pool
    /\ \A g, h \in Harts : reap[g] # NULL /\ reap[g] = reap[h] => g = h
    /\ \A h \in Harts, t \in Tasks : reap[h] # NULL => reap[h] # stack_base[t]

(* A task off every hart can be resumed from its frame, on its own stack,  *)
(* once the hart that leaves it has parked its sp.                         *)
FramesParked ==
    \A t \in Tasks :
        state[t] \in {"READY", "BLOCKED"} /\ pc[t] # "dead"
            => sp[t] = Home(t) \/ \E h \in Harts : hpc[h] = "save" /\ out[h] = t

(* A hart executes on the stack of its task; inside ctx_switch() still on  *)
(* that of the task it leaves, which if dead is in the hart's reap slot,   *)
(* and the frame it is going to resume is there.                           *)
OnOwnStack ==
    /\ \A h \in Harts : hpc[h] = "task" /\ current[h] # NoPid => exec[h] = Home(current[h])
    /\ \A h \in Harts : hpc[h] # "task" =>
        \/ state[out[h]] = "DEAD" /\ exec[h] = reap[h] /\ reap[h] # NULL
        \/ /\ \/ state[out[h]] = "READY"
              \/ state[out[h]] = "BLOCKED" /\ pc[out[h]] \in {"block", "sblock"}
           /\ exec[h] = Home(out[h])
           /\ stack_base[out[h]] = NULL => aff[out[h]] = h
    /\ \A h \in Harts : hpc[h] # "task" => sp[current[h]] = Home(current[h])

(* The inductive invariant. *)
StackInv ==
    /\ TypeOK
    /\ HandOff
    /\ SwitchesTasks
    /\ RunningOnce
    /\ SlotStates
    /\ Deadlines
    /\ SlotsReserved
    /\ WakesLive
    /\ BootTasks
    /\ PagesApart
    /\ FramesParked
    /\ OnOwnStack
-----------------------------------------------------------------------------
(* A task off every hart in a wait or a sleep got there through the whole  *)
(* of task_block(): the token was looked for and taken down.  The only     *)
(* other slots marked BLOCKED are those under construction.                *)
BlockedWaits ==
    \A t \in Tasks : state[t] = "BLOCKED" =>
        /\ pc[t] \in {"block", "sblock", "dead", "body"}
        /\ pc[t] \in {"block", "sblock"} =>
            ph[t] = "out" /\ tick[t] = "none" /\ ~armed[t] /\ ~token[t]

(* From its prepare to the lock section of its block a waiter is armed. *)
Prepared(t) == pc[t] \in {"test", "setdl"} \/ (pc[t] = "block" /\ ph[t] \in {"reap", "pick"})
StaysArmed  == \A t \in Tasks : Prepared(t) => armed[t]

(* A waiter that has tested its condition and is about to block on it has, *)
(* if it has come true since, the token or a wake on its way.              *)
WakePending(t) == \E s \in Tasks : pc[s] = "wake" /\ arg[s] = t
WakeKept ==
    \A t \in Tasks : Prepared(t) /\ pc[t] # "test" /\ ev[t] => token[t] \/ WakePending(t)

(* The wake token's invariant, next to StackInv. *)
TokenInv ==
    /\ BlockedWaits
    /\ TokenScoped
    /\ StaysArmed
    /\ WakeKept
    /\ NoLostWake

(* A reap slot that holds a stack belongs to a hart that is in the switch  *)
(* away from it or has its sched_reap() next.                              *)
ReapDue ==
    \A h \in Harts : reap[h] # NULL /\ hpc[h] = "task" =>
        current[h] \in Tasks /\ Phase(current[h]) = "landed"

(* A slot nobody runs in owns no stack, and no stack is with nobody. *)
PagesKept ==
    /\ \A t \in Tasks : pc[t] = "dead" => stack_base[t] = NULL
    /\ \A k \in Pages \ pool :
        (\E t \in Tasks : stack_base[t] = k) \/ (\E h \in Harts : reap[h] = k)
=============================================================================
