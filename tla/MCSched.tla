------------------------------ MODULE MCSched ------------------------------
(* Instances of Sched for TLC: what the task in each slot may call.        *)
EXTENDS SchedInv

(* Waits with and without a deadline, sleeps, the wakes that race them, and *)
(* tiers and pinning that change meanwhile.                                 *)
CallsWait ==
    [t \in Tasks |-> IF t = 0 THEN {"create", "signal", "timedwait"}
                     ELSE IF t = 1 THEN {"signal", "sleep", "exit"} ELSE {"wait", "tune"}]

(* Tasks come and go: slots are reused and stacks reaped. *)
CallsLife ==
    [t \in Tasks |-> IF t = 0 THEN {"create", "yield"} ELSE {"exit"}]

(* A task that waits with a deadline or without, or sleeps, and two that    *)
(* always run, one of which may wake it.                                    *)
CallsLive ==
    [t \in Tasks |-> IF t = 0 THEN {"create", "yield", "signal"}
                     ELSE IF t = 1 THEN {"wait", "timedwait", "sleep"} ELSE {"yield"}]

(* A timed wait beside tasks that are all blocked in waits of their own. *)
CallsQuiet ==
    [t \in Tasks |-> IF t = 0 THEN {"create", "timedwait"} ELSE {"wait"}]

(* A task that another one waits to wake may exit before the wake comes. *)
CallsReuse ==
    [t \in Tasks |-> IF t = 0 THEN {"create"} ELSE IF t = 1 THEN {"signal"} ELSE {"wait", "exit"}]

AnyHart  == {NoPid}
AnyOrOne == {NoPid, 1}
NoTier   == {}
IdleTier == {0}
=============================================================================
