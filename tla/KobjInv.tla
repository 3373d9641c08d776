------------------------------ MODULE KobjInv ------------------------------
(***************************************************************************)
(* The inductive invariant behind the semaphores, mutexes and queues of    *)
(* Kobj: whose waiters stand in which list, what a waiter's state says of  *)
(* the object its handle was issued for, and which wakes are on their way. *)
(***************************************************************************)
EXTENDS Ktimer

(* The objects that grant one waiter at a time. *)
OneAtATime == type \in {"sem", "mutex", "queue"}

In(q, t)    == \E i \in 1..Len(q) : q[i] = t
Distinct(q) == \A i, j \in 1..Len(q) : q[i] = q[j] => i = j

(* A slot whose generation no longer fits a handle resolves for nobody, so *)
(* it is not deleted once more and its generation never wraps.             *)
GensExact ==
    /\ core.inc <= HandleGens
    /\ \A t \in Tasks : hnd[t] <= core.inc

(* A wake for t is on its way. *)
Coming(t) == \E u \in Tasks : In(wake[u], t)

(* A task outside a wait has no waiter; one in a wait has a waiter that    *)
(* waits for the object in the slot, or was granted or failed by it or by  *)
(* one before it.                                                          *)
Waiter(t) ==
    /\ pc[t] \notin InWait => core.st[t] = "idle" /\ core.side[t] = "rx"
    /\ pc[t] \in InWait =>
        /\ core.st[t] \in {"wait", "grant", "failed"}
        /\ ~core.used => hnd[t] < core.inc
        /\ core.st[t] = "wait" => hnd[t] = core.inc /\ Resolves(core, core.inc)
        /\ core.side[t] # "rx" => type = "queue"

(* Somebody who has waiters to wake is waking them, and a waiter that has  *)
(* tested its state has a token, a wake on its way, or still waits.        *)
Waking(t) ==
    /\ wake[t] # <<>> <=> pc[t] = "wake"
    /\ pc[t] \in {"test", "block", "spin"} => wk[t] \in {"armed", "token"}
    /\ pc[t] \in {"block", "spin"} /\ core.st[t] # "wait" => wk[t] = "token" \/ Coming(t)
    /\ pc[t] = "sleep" /\ core.st[t] # "wait" => wk[t] # "blocked" \/ Coming(t)

(* The lists hold the waiters that wait, each once, by what they wait for. *)
Queued ==
    /\ Distinct(core.wl) /\ Distinct(core.tx)
    /\ \A t \in Tasks : In(core.wl, t) <=> core.st[t] = "wait" /\ core.side[t] = "rx"
    /\ \A t \in Tasks : In(core.tx, t) <=> core.st[t] = "wait" /\ core.side[t] # "rx"

(* Nobody waits for what is there. *)
NothingThere ==
    /\ core.wl # <<>> => IF type = "mutex" THEN core.owner # NoPid ELSE core.count = 0
    /\ core.tx # <<>> => core.count = QLen

(* A mutex handed to a waiter that does not know yet is that waiter's. *)
Heir ==
    core.used /\ type = "mutex" =>
        \A t \in Unsettled({"rx"}) : core.owner = t /\ core.depth = 1 /\ told.holds[t] = 0

KobjInv ==
    /\ TypeOK /\ GensExact
    /\ (\A t \in Tasks : Waiter(t) /\ Waking(t))
    /\ Queued /\ NothingThere
    /\ OneHolder /\ Heir /\ UnitsAccounted /\ RingIsQueue

KobjKept == OneAtATime => KobjInv

-----------------------------------------------------------------------------
(* kobj_sched.c: "One radio, one timer thread"; timers are no objects of a *)
(* slot, so the only calls on them are the timer calls.                    *)
TimerCalls == {"twait", "arm", "setfn", "disarm", "release"}

OneTimerThread ==
    /\ \A t \in Tasks : Calls["timer"][t] \subseteq TimerCalls
    /\ \A t, u \in Tasks : "twait" \in Calls["timer"][t] /\ "twait" \in Calls["timer"][u] => t = u

(* The task is in kos_timer_wait(), known to whoever arms a timer. *)
TimerWaiting(t) == pc[t] \in {"tprep", "ttest", "tblock", "tsleep", "tspin", "tret"}

(* The deadline t computed is no later than any timer of its domain, or    *)
(* somebody who changed the table since is in timer_poke(), to wake it.    *)
Covered(t) ==
    \A i \in Timers : i[1] = Domain[t] /\ tm[i].armed => tdl[t] # 0 /\ tdl[t] <= MsUp(tm[i].deadline)

PokeComing(t) ==
    \E u \in Tasks : (pc[u] = "poke" /\ g_timer_waiter = t) \/ (pc[u] = "unpoke" /\ poked[u] = t)

TimerThread(t) ==
    /\ TimerWaiting(t) => "twait" \in Calls["timer"][t] /\ g_timer_waiter = t
    /\ pc[t] \in {"ttest", "tblock", "tspin"} => wk[t] \in {"armed", "token"}
    /\ pc[t] \in {"tblock", "tspin"} => Covered(t) \/ PokeComing(t) \/ wk[t] = "token"
    /\ pc[t] = "tsleep" => Covered(t) \/ PokeComing(t) \/ wk[t] # "blocked"

(* An armed timer has a deadline ahead of the start of the clock, never    *)
(* the 0 that means none; there is no object that a release would delete.  *)
TimerStates ==
    /\ core.used = FALSE /\ wk \in [Tasks -> W!WakeStates] /\ g_timer_waiter \in Tasks \cup {NoPid}
    /\ tm \in [Timers -> [used : BOOLEAN, armed : BOOLEAN, periodic : BOOLEAN, deadline : Nat, period : Nat]]
    /\ tdl \in [Tasks -> Nat] /\ limit \in [Tasks -> Nat] /\ poked \in [Tasks -> Tasks \cup {NoPid}]
    /\ now \in Nat \ {0} /\ \A i \in Timers : tm[i].armed => tm[i].deadline # 0

TimerPCs == {"out", "tprep", "ttest", "tblock", "tsleep", "tspin", "tret", "poke", "unpoke"}

TimerInv ==
    /\ pc \in [Tasks -> PCs]
    /\ type # "timer" => \A t \in Tasks : ~TimerWaiting(t)
    /\ type = "timer" => TimerStates /\ \A t \in Tasks : pc[t] \in TimerPCs /\ TimerThread(t)
=============================================================================
