----------------------------- MODULE WakeToken -----------------------------
(***************************************************************************)
(* What kernel/sched.c promises a task that waits (sched.h, "Blocks/       *)
(* unblocks by pid"): prepare, test, block, with a wake that comes between *)
(* the prepare and the block kept as a token.  Sched implements it; Chan   *)
(* waits with it.                                                          *)
(*                                                                         *)
(* wk[t] is "armed" from the prepare, "token" once a wake came in before   *)
(* the block, "blocked" while the task is off every hart, "none" otherwise. *)
(***************************************************************************)
EXTENDS Integers

CONSTANT Sleepers   \* the tasks

VARIABLE wk

WakeStates == {"none", "armed", "token", "blocked"}

WakeInit == wk = [t \in Sleepers |-> "none"]

(* What each call makes of the caller's, or the target's, entry of w. *)
Prepared(w, t)  == [w EXCEPT ![t] = "armed"]
Finished(w, t)  == [w EXCEPT ![t] = "none"]
Blocked(w, t)   == [w EXCEPT ![t] = IF @ = "token" THEN "none" ELSE "blocked"]
Unblocked(w, t) == [w EXCEPT ![t] = CASE @ = "blocked" -> "none"
                                      [] @ = "armed"   -> "token"
                                      [] OTHER         -> @]

(* Deadlines of the blocked tasks in D have passed. *)
TimedOut(w, D) == [t \in Sleepers |-> IF t \in D THEN "none" ELSE w[t]]

(* A running task prepares, gives its wait up, blocks; anyone wakes anyone; *)
(* and the scan that a block makes may find deadlines that have passed,     *)
(* the blocking task's own among them.                                      *)
Prepare(t) == wk[t] # "blocked" /\ wk' = Prepared(wk, t)
WaitDone(t) == wk[t] # "blocked" /\ wk' = Finished(wk, t)
Unblock(t) == wk' = Unblocked(wk, t)
Scan == \E D \in SUBSET {t \in Sleepers : wk[t] = "blocked"} : wk' = TimedOut(wk, D)
Block(t) ==
    /\ wk[t] # "blocked"
    /\ \E D \in SUBSET {u \in Sleepers : Blocked(wk, t)[u] = "blocked"} :
           wk' = TimedOut(Blocked(wk, t), D)

WakeNext == Scan \/ \E t \in Sleepers : Prepare(t) \/ WaitDone(t) \/ Block(t) \/ Unblock(t)

WakeSpec == WakeInit /\ [][WakeNext]_wk
=============================================================================
