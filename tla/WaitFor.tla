------------------------------ MODULE WaitFor ------------------------------
(***************************************************************************)
(* kernel/lock.c: the ylock, a lock that may be held across a block, and   *)
(* the wait-for graph, with the calls of kernel/chan.c that are refused    *)
(* when they would close a cycle in it.                                    *)
(*                                                                         *)
(* Tasks run on several harts: what a ylock's word, owner and depth go     *)
(* through inside one irq_save() is visible to the other harts, so the     *)
(* steps of taking and releasing it are apart.  A walk or change of the    *)
(* graph is one step under g_waitfor_lock.  Each server task has one       *)
(* endpoint; a caller that finds it claimed waits with a deadline (Chan)   *)
(* and is not in the graph meanwhile.                                      *)
(***************************************************************************)
EXTENDS Naturals

CONSTANTS
    Tasks, Servers,     \* the tasks, and those that own an endpoint
    Locks,
    None,               \* -1: no task
    Nests,              \* how deep the code of each task takes each lock, 0 where it does not
    CycleTurns          \* YLOCK_CYCLE_TURNS

ASSUME TasksAssumption == Servers \subseteq Tasks /\ None \notin Tasks \cup Locks
ASSUME NestsAssumption == Nests \in [Tasks -> [Locks -> Nat]]
ASSUME TurnsAssumption == CycleTurns \in Nat \ {0}

VARIABLES
    g_waitfor,      \* the recorded edge of each task
    lock,           \* of each ylock: word, owner, depth
    ep,             \* of each server: who has claimed its endpoint, and caller_pid
    held,           \* how many levels of each lock a task's code is inside
    at              \* where each task is: pc, the lock or server it is on, and
                    \* ylock_acquire()'s locals, the holder it saw and cycle_turns

vars == <<g_waitfor, lock, ep, held, at>>

LockSteps == {"loop", "saw", "own", "leave", "release"}
Ylock(w, o, d) == [word |-> w, owner |-> o, depth |-> d]
At(p, o, s, n) == [pc |-> p, on |-> o, seen |-> s, turns |-> n]
Idle == At("run", None, None, 0)

LockRec == [word : BOOLEAN, owner : Tasks \cup {None}, depth : Nat]
EpRec   == [claim : Tasks \cup {None}, caller : Tasks \cup {None}]
AtRec   == [pc : LockSteps \cup {"run", "call"}, on : Locks \cup Servers \cup {None},
            seen : Tasks \cup {None}, turns : 0..CycleTurns]

(* A task on its way through a lock or a call is on one. *)
Placed(r) == (r.pc \in LockSteps => r.on \in Locks) /\ (r.pc = "call" => r.on \in Servers)

TypeOK ==
    /\ g_waitfor \in [Tasks -> Tasks \cup {None}]
    /\ lock \in [Locks -> LockRec]
    /\ ep \in [Servers -> EpRec]
    /\ held \in [Tasks -> [Locks -> Nat]]
    /\ at \in [Tasks -> AtRec]
    /\ \A t \in Tasks : Placed(at[t])

Init ==
    /\ g_waitfor = [t \in Tasks |-> None]
    /\ lock = [l \in Locks |-> Ylock(FALSE, None, 0)]
    /\ ep = [s \in Servers |-> [claim |-> None, caller |-> None]]
    /\ held = [t \in Tasks |-> [l \in Locks |-> 0]]
    /\ at = [t \in Tasks |-> Idle]

-----------------------------------------------------------------------------
(* The graph.  The walk from target meets me when me is in every set that  *)
(* has target and the edges out of its members; Walk, in MCWaitFor, is the *)
(* loop of the code.                                                       *)
Closed(g, S) == \A t \in S : g[t] # None => g[t] \in S

waitfor_reaches(g, me, target) ==
    \A S \in SUBSET Tasks : target \in S /\ Closed(g, S) => me \in S

(* A target that is no task is nothing to record, and no cycle. *)
MayWait(me, target) == target # None => ~waitfor_reaches(g_waitfor, me, target)

waitfor_enter(me, target) ==
    IF target # None /\ MayWait(me, target)
    THEN [g_waitfor EXCEPT ![me] = target] ELSE g_waitfor

waitfor_leave(me) == [g_waitfor EXCEPT ![me] = None]

-----------------------------------------------------------------------------
(* ylock_acquire().  `Owns' is the test for re-entry, made before the gate.*)
Owns(t, l) == lock[l].depth > 0 /\ lock[l].owner = t

Acquire(t, l) ==
    /\ at[t].pc = "run" /\ held[t][l] < Nests[t][l]
    /\ at' = [at EXCEPT ![t] = At("loop", l, None, 0)]
    /\ UNCHANGED <<g_waitfor, lock, ep, held>>

Reenter(t) ==
    /\ at[t].pc = "loop" /\ Owns(t, at[t].on)
    /\ lock' = [lock EXCEPT ![at[t].on] = Ylock(@.word, @.owner, @.depth + 1)]
    /\ g_waitfor' = waitfor_leave(t)
    /\ held' = [held EXCEPT ![t][at[t].on] = @ + 1]
    /\ at' = [at EXCEPT ![t] = Idle]
    /\ UNCHANGED ep

Gate(t) ==
    /\ at[t].pc = "loop" /\ ~Owns(t, at[t].on)
    /\ ~lock[at[t].on].word
    /\ lock' = [lock EXCEPT ![at[t].on] = Ylock(TRUE, @.owner, @.depth)]
    /\ at' = [at EXCEPT ![t] = At("own", @.on, None, 0)]
    /\ UNCHANGED <<g_waitfor, ep, held>>

Own(t) ==
    /\ at[t].pc = "own"
    /\ lock' = [lock EXCEPT ![at[t].on] = Ylock(@.word, t, 1)]
    /\ held' = [held EXCEPT ![t][at[t].on] = 1]
    /\ at' = [at EXCEPT ![t] = At("leave", @.on, None, 0)]
    /\ UNCHANGED <<g_waitfor, ep>>

Leave(t) ==
    /\ at[t].pc = "leave"
    /\ g_waitfor' = waitfor_leave(t)
    /\ at' = [at EXCEPT ![t] = Idle]
    /\ UNCHANGED <<lock, ep, held>>

(* The waiter's edge blinks: it is dropped at the start of every turn. *)
BusyBlinks(t) ==
    /\ at[t].pc = "loop" /\ ~Owns(t, at[t].on)
    /\ lock[at[t].on].word
    /\ g_waitfor' = waitfor_leave(t)
    /\ at' = [at EXCEPT ![t] = At("saw", @.on, lock[@.on].owner, @.turns)]
    /\ UNCHANGED <<lock, ep, held>>

(* Somebody else has it: the holder is read under irq_save(), the edge is  *)
(* recorded after it, and stays up across the yield.                       *)
Busy(t) ==
    /\ at[t].pc = "loop" /\ ~Owns(t, at[t].on)
    /\ lock[at[t].on].word
    /\ at' = [at EXCEPT ![t] = At("saw", @.on, lock[@.on].owner, @.turns)]
    /\ UNCHANGED <<g_waitfor, lock, ep, held>>

Enter(t) ==
    /\ at[t].pc = "saw"
    /\ g_waitfor' = waitfor_enter(t, at[t].seen)
    /\ at' = [at EXCEPT ![t] = At("loop", @.on, None,
                                  IF MayWait(t, @.seen) THEN 0
                                  ELSE IF @.turns < CycleTurns THEN @.turns + 1 ELSE @.turns)]
    /\ UNCHANGED <<lock, ep, held>>

(* The waiter has said that it waits in a cycle (waitfor_report_cycle()). *)
Reported(t) == at[t].pc \in {"loop", "saw"} /\ at[t].turns = CycleTurns

(* ylock_try_acquire(): what it does where it succeeds. *)
TryAcquire(t, l) ==
    /\ at[t].pc = "run" /\ held[t][l] < Nests[t][l]
    /\ \/ /\ Owns(t, l)
          /\ lock' = [lock EXCEPT ![l] = Ylock(@.word, @.owner, @.depth + 1)]
          /\ held' = [held EXCEPT ![t][l] = @ + 1]
          /\ UNCHANGED at
       \/ /\ ~Owns(t, l) /\ ~lock[l].word
          /\ lock' = [lock EXCEPT ![l] = Ylock(TRUE, @.owner, @.depth)]
          /\ at' = [at EXCEPT ![t] = At("own", l, None, 0)]
          /\ UNCHANGED held
    /\ UNCHANGED <<g_waitfor, ep>>

(* The first release opens the gate, however deep the lock was taken. *)
ReleaseFlat(t, l) ==
    /\ at[t].pc = "run" /\ held[t][l] > 0
    /\ held' = [held EXCEPT ![t][l] = @ - 1]
    /\ lock' = [lock EXCEPT ![l] = Ylock(@.word, None, 0)]
    /\ at' = [at EXCEPT ![t] = At("release", l, None, 0)]
    /\ UNCHANGED <<g_waitfor, ep>>

(* ylock_release(): the last level clears the owner, then opens the gate. *)
Release(t, l) ==
    /\ at[t].pc = "run" /\ held[t][l] > 0
    /\ held' = [held EXCEPT ![t][l] = @ - 1]
    /\ \/ /\ lock[l].depth > 1
          /\ lock' = [lock EXCEPT ![l] = Ylock(@.word, @.owner, @.depth - 1)]
          /\ UNCHANGED at
       \/ /\ lock[l].depth = 1
          /\ lock' = [lock EXCEPT ![l] = Ylock(@.word, None, 0)]
          /\ at' = [at EXCEPT ![t] = At("release", l, None, 0)]
    /\ UNCHANGED <<g_waitfor, ep>>

Open(t) ==
    /\ at[t].pc = "release"
    /\ lock' = [lock EXCEPT ![at[t].on] = Ylock(FALSE, @.owner, @.depth)]
    /\ at' = [at EXCEPT ![t] = Idle]
    /\ UNCHANGED <<g_waitfor, ep, held>>

-----------------------------------------------------------------------------
(* The call tests for a cycle and records no edge of its own. *)
CallUnrecorded(t, s) ==
    /\ at[t].pc = "run" /\ ep[s].claim = None
    /\ MayWait(t, s)
    /\ ep' = [ep EXCEPT ![s] = [claim |-> t, caller |-> t]]
    /\ at' = [at EXCEPT ![t] = At("call", s, None, 0)]
    /\ UNCHANGED <<g_waitfor, lock, held>>

(* chan_call_task() where the call is not refused; one that is leaves      *)
(* nothing behind.                                                         *)
Call(t, s) ==
    /\ at[t].pc = "run" /\ ep[s].claim = None
    /\ MayWait(t, s)
    /\ g_waitfor' = waitfor_enter(t, s)
    /\ ep' = [ep EXCEPT ![s] = [claim |-> t, caller |-> t]]
    /\ at' = [at EXCEPT ![t] = At("call", s, None, 0)]
    /\ UNCHANGED <<lock, held>>

(* chan_serve_reply(), whatever locks the server took meanwhile. *)
Reply(s) ==
    /\ at[s].pc = "run" /\ ep[s].caller # None
    /\ ep' = [ep EXCEPT ![s].caller = None]
    /\ UNCHANGED <<g_waitfor, lock, held, at>>

(* The caller wakes, drops its edge and releases the endpoint. *)
Return(t) ==
    /\ at[t].pc = "call" /\ ep[at[t].on].caller # t
    /\ g_waitfor' = waitfor_leave(t)
    /\ ep' = [ep EXCEPT ![at[t].on].claim = None]
    /\ at' = [at EXCEPT ![t] = Idle]
    /\ UNCHANGED <<lock, held>>

-----------------------------------------------------------------------------
(* One step of code that does not end a critical section or a request. *)
Step(t) == Reenter(t) \/ Gate(t) \/ Own(t) \/ Leave(t) \/ Busy(t) \/ Enter(t)
           \/ Open(t) \/ Return(t)

Next ==
    \E t \in Tasks :
        \/ Step(t)
        \/ \E l \in Locks : Acquire(t, l) \/ TryAcquire(t, l) \/ Release(t, l)
        \/ \E s \in Servers : Call(t, s)
        \/ t \in Servers /\ Reply(t)

Spec == Init /\ [][Next]_vars

(* The scheduler starves no READY task (Sched, NoStarvation); when a task  *)
(* releases or replies is up to it.                                        *)
FairSpec == Spec /\ \A t \in Tasks : WF_vars(Step(t))

-----------------------------------------------------------------------------
(* A ylock is held by one task, the one it names, as deep as that task's   *)
(* code is nested in it; a lock whose gate is shut and that names nobody   *)
(* is being taken or released by one task.                                 *)
OwnerExact ==
    \A l \in Locks :
        /\ \A t \in Tasks : held[t][l] > 0 => lock[l] = Ylock(TRUE, t, held[t][l])
        /\ lock[l].owner # None => held[lock[l].owner][l] > 0
        /\ lock[l].word /\ lock[l].owner = None =>
               \E t \in Tasks : /\ at[t].pc \in {"own", "release"} /\ at[t].on = l
                                /\ \A u \in Tasks : at[u].pc \in {"own", "release"} /\ at[u].on = l => u = t

(* In an unanswered call to a task of S; waiting for a lock one of S holds. *)
CallsInto(t, S) == at[t].pc = "call" /\ ep[at[t].on].caller = t /\ at[t].on \in S
SpinsFor(t, S)  == at[t].pc \in {"loop", "saw"} /\ ~Owns(t, at[t].on) /\ lock[at[t].on].owner \in S

(* Calls refused at the graph never leave tasks that only answer each      *)
(* other: no set of tasks all sit in calls to one another (the rule at     *)
(* chan.c:63, "task A can call B, or be called by B, never both, and no    *)
(* chains either").                                                        *)
NoCallCycle == \A S \in (SUBSET Tasks) \ {{}} : \E t \in S : ~CallsInto(t, S)

(* A deadlock through locks, or through locks and calls, is not refused,   *)
(* but some task in it reports it (lock.c:602, "A ylock cycle that is real *)
(* never clears, so it is still reported").                                *)
DeadlockReported ==
    \A S \in (SUBSET Tasks) \ {{}} :
        (\A t \in S : CallsInto(t, S) \/ SpinsFor(t, S)) ~> (\E t \in S : Reported(t))
=============================================================================
