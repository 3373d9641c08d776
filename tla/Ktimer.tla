------------------------------- MODULE Ktimer -------------------------------
(***************************************************************************)
(* The timers of kernel/kobj.c and kos_timer_wait() of kernel/kobj_sched.c: *)
(* a table of deadlines keyed by (domain, key), which a domain's timer     *)
(* thread sleeps on, and g_timer_waiter, through which arming a timer      *)
(* wakes the thread to compute its deadline anew.                          *)
(*                                                                         *)
(* now is the clock in microseconds, of which UsPerMs make a millisecond;  *)
(* the scheduler's deadlines are milliseconds.                             *)
(***************************************************************************)
EXTENDS Kobj

CONSTANTS
    Domain,      \* Domain[t]: the memory domain of a task, the owner of its timers
    Keys,        \* keys of timers
    Delays,      \* delays tasks arm timers with
    TimerMax,    \* KTIMER_MAX
    UsPerMs,
    MaxTime      \* bound: the clock

ASSUME KtimerAssumption ==
    /\ Delays \subseteq Nat /\ TimerMax \in Nat
    /\ UsPerMs \in Nat \ {0} /\ MaxTime \in Nat /\ MaxTime % UsPerMs = 0

VARIABLES
    tm,               \* the table
    tseq,             \* the timers by their seq: the last armed is last
    now,
    g_timer_waiter,   \* a plain word, not under the lock
    tdl,              \* the millisecond a timer thread's block runs out; 0 is never
    limit,            \* the end of its timeout; 0 is none
    poked             \* the pid timer_poke() has read

tvars == <<tm, tseq, now, g_timer_waiter, tdl, limit, poked>>
allvars == <<vars, tvars>>

Timers   == {Domain[t] : t \in Tasks} \X Keys
Unused   == [used |-> FALSE, armed |-> FALSE, periodic |-> FALSE, deadline |-> 0, period |-> 0]
Ms(us)   == us \div UsPerMs                       \* time_get_ms()
MsUp(us) == (us + UsPerMs - 1) \div UsPerMs       \* (dl_us + 999) / 1000

TTypeOK ==
    /\ TypeOK
    /\ tm \in [Timers -> [used : BOOLEAN, armed : BOOLEAN, periodic : BOOLEAN,
                         deadline : Nat, period : Nat]]
    /\ tseq \in Seq(Timers) /\ now \in 0..MaxTime
    /\ g_timer_waiter \in Tasks \cup {NoPid}
    /\ tdl \in [Tasks -> Nat] /\ limit \in [Tasks -> Nat]
    /\ poked \in [Tasks -> Tasks \cup {NoPid}]

TInit ==
    /\ Init
    /\ tm = [i \in Timers |-> Unused] /\ tseq = <<>>
    /\ now = UsPerMs
    /\ g_timer_waiter = NoPid
    /\ tdl = [t \in Tasks |-> 0] /\ limit = [t \in Tasks |-> 0]
    /\ poked = [t \in Tasks |-> NoPid]

kept == <<type, core, hnd, tmo, wake, told>>

-----------------------------------------------------------------------------
(* The table                                                               *)

(* tm_get(): the timer has a slot, or there is one for it. *)
HasSlot(i) == tm[i].used \/ Cardinality({j \in Timers : tm[j].used}) < TimerMax

Due(i)   == tm[i].armed /\ tm[i].deadline <= now
DueOf(d) == {i \in Timers : i[1] = d /\ Due(i)}

(* ktimer_pop_due() takes the earliest deadline, the first armed of equals. *)
Earliest(S) ==
    LET first == {i \in S : \A j \in S : tm[i].deadline <= tm[j].deadline}
    IN  SelectInSeq(tseq, LAMBDA i : i \in first)

(* What is left of timer i once it was popped: a periodic one that has     *)
(* fallen behind drops the periods it missed.                              *)
Popped(i) ==
    LET next == tm[i].deadline + tm[i].period
    IN  IF tm[i].periodic
        THEN [tm[i] EXCEPT !.deadline = IF next <= now THEN now + tm[i].period ELSE next]
        ELSE [tm[i] EXCEPT !.armed = FALSE]

(* ktimer_next(), as the millisecond to wake at; 0 if nothing is armed. *)
NextMs(d) ==
    LET S == {tm[i].deadline : i \in {j \in Timers : j[1] = d /\ tm[j].armed}}
    IN  IF S = {} THEN 0 ELSE MsUp(CHOOSE a \in S : \A b \in S : a <= b)

(* Mutant: the caller's own timeout is left out. *)
SoonerFirst(a, b) == a

Sooner(a, b) == IF a = 0 \/ (b # 0 /\ b < a) THEN b ELSE a

-----------------------------------------------------------------------------
(* Arming and its likes: the table under the lock, then timer_poke().      *)

Poking(t) == Goto(t, "poke") /\ UNCHANGED <<kept, wk, now, g_timer_waiter, tdl, limit, poked>>

(* kos_timer_arm() *)
TimerArm(t) ==
    \E k \in Keys, delay \in Delays, per \in BOOLEAN :
        LET i == <<Domain[t], k>>
            d == IF per /\ delay = 0 THEN 1 ELSE delay
        IN  /\ Begin(t, "arm")
            /\ IF HasSlot(i)
               THEN /\ tm' = [tm EXCEPT ![i] = [used |-> TRUE, armed |-> TRUE, periodic |-> per,
                                                deadline |-> now + d, period |-> d]]
                    /\ tseq' = Append(Remove(tseq, i), i)
               ELSE UNCHANGED <<tm, tseq>>
            /\ Poking(t)

(* kos_timer_setfn() makes the slot and arms nothing. *)
TimerSetFn(t) ==
    \E k \in Keys :
        LET i == <<Domain[t], k>>
        IN  /\ Begin(t, "setfn") /\ HasSlot(i)
            /\ tm' = [tm EXCEPT ![i].used = TRUE]
            /\ UNCHANGED <<vars, tseq, now, g_timer_waiter, tdl, limit, poked>>

(* kos_timer_disarm() and kos_timer_done() *)
TimerDisarm(t) ==
    \E k \in Keys, free \in BOOLEAN :
        LET i == <<Domain[t], k>>
        IN  /\ Begin(t, "disarm")
            /\ tm' = [tm EXCEPT ![i] = IF free THEN Unused ELSE [@ EXCEPT !.armed = FALSE]]
            /\ tseq' = IF free THEN Remove(tseq, i) ELSE tseq
            /\ Poking(t)

(* kos_release_owner()'s ktimer_release_owner() *)
TimerRelease(t) ==
    /\ Begin(t, "release")
    /\ tm' = [i \in Timers |-> IF i[1] = Domain[t] THEN Unused ELSE tm[i]]
    /\ tseq' = SelectSeq(tseq, LAMBDA i : i[1] # Domain[t])
    /\ Poking(t)

(* timer_poke(): the waiter is read ... *)
PokeRead(t) ==
    /\ pc[t] = "poke"
    /\ poked' = [poked EXCEPT ![t] = g_timer_waiter]
    /\ Goto(t, "unpoke")
    /\ UNCHANGED <<kept, wk, tm, tseq, now, g_timer_waiter, tdl, limit>>

(* ... and woken. *)
PokeWake(t) ==
    /\ pc[t] = "unpoke"
    /\ wk' = IF poked[t] = NoPid THEN wk ELSE W!Unblocked(wk, poked[t])
    /\ poked' = [poked EXCEPT ![t] = NoPid]
    /\ Goto(t, "out")
    /\ UNCHANGED <<kept, tm, tseq, now, g_timer_waiter, tdl, limit>>

-----------------------------------------------------------------------------
(* kos_timer_wait()                                                        *)

TimerWait(t) ==
    \E w \in Waits[t] :
        /\ Begin(t, "twait")
        /\ limit' = [limit EXCEPT ![t] = IF w = "forever" THEN 0 ELSE Ms(now) + 1]
        /\ g_timer_waiter' = t
        /\ Goto(t, "tprep")
        /\ UNCHANGED <<kept, wk, tm, tseq, now, tdl, poked>>

(* Mutant: the table is looked at without the wait prepared. *)
TimerPrepNone(t) ==
    /\ pc[t] = "tprep"
    /\ Goto(t, "ttest")
    /\ UNCHANGED <<kept, wk, tvars>>

TimerPrep(t) ==
    /\ pc[t] = "tprep"
    /\ wk' = W!Prepared(wk, t)
    /\ Goto(t, "ttest")
    /\ UNCHANGED <<kept, tvars>>

(* Under the lock: the timer that is due, or else when the next one is. *)
TimerTest(t) ==
    /\ pc[t] = "ttest"
    /\ LET n == Earliest(DueOf(Domain[t]))
       IN  IF n # 0
           THEN /\ tm' = [tm EXCEPT ![tseq[n]] = Popped(tseq[n])]
                /\ tseq' = IF tm[tseq[n]].periodic THEN Append(Remove(tseq, tseq[n]), tseq[n]) ELSE tseq
                /\ Goto(t, "tret") /\ UNCHANGED tdl
           ELSE /\ tdl' = [tdl EXCEPT ![t] = Sooner(NextMs(Domain[t]), limit[t])]
                /\ Goto(t, "tblock") /\ UNCHANGED <<tm, tseq>>
    /\ UNCHANGED <<kept, wk, now, g_timer_waiter, limit, poked>>

(* The timeout is over, or task_block_until_ms(), which spins where        *)
(* nothing else can run.                                                   *)
TimerBlock(t) ==
    /\ pc[t] = "tblock"
    /\ LET over == limit[t] # 0 /\ Ms(now) >= limit[t]
       IN  \/ /\ over
              /\ Goto(t, "tret") /\ UNCHANGED wk
           \/ /\ ~over
              /\ wk' = W!Blocked(wk, t)
              /\ Goto(t, IF wk'[t] = "blocked" THEN "tsleep" ELSE "tprep")
           \/ /\ ~over /\ wk[t] = "armed"
              /\ Goto(t, "tspin") /\ UNCHANGED wk
    /\ UNCHANGED <<kept, tvars>>

TimerWoken(t) ==
    /\ pc[t] = "tsleep" /\ wk[t] # "blocked"
    /\ Goto(t, "tprep")
    /\ UNCHANGED <<kept, wk, tvars>>

TimerSpinEnd(t) ==
    /\ pc[t] = "tspin" /\ wk[t] = "token"
    /\ Goto(t, "tprep")
    /\ UNCHANGED <<kept, wk, tvars>>

TimerSpinWork(t) ==
    /\ pc[t] = "tspin"
    /\ Goto(t, "tprep")
    /\ UNCHANGED <<kept, wk, tvars>>

(* task_wait_done(), and nobody waits any more. *)
TimerReturn(t) ==
    /\ pc[t] = "tret"
    /\ wk' = W!Finished(wk, t)
    /\ g_timer_waiter' = NoPid
    /\ tdl' = [tdl EXCEPT ![t] = 0] /\ limit' = [limit EXCEPT ![t] = 0]
    /\ Goto(t, "out")
    /\ UNCHANGED <<kept, tm, tseq, now, poked>>

(* The clock goes on. *)
Clock ==
    /\ type = "timer" /\ now < MaxTime
    /\ now' = now + 1
    /\ UNCHANGED <<vars, tm, tseq, g_timer_waiter, tdl, limit, poked>>

(* The scan of the tick finds t asleep and the deadline of its block past. *)
TimerExpire(t) ==
    /\ pc[t] = "tsleep" /\ wk[t] = "blocked" /\ tdl[t] # 0 /\ Ms(now) >= tdl[t]
    /\ wk' = W!TimedOut(wk, {t})
    /\ UNCHANGED <<kept, pc, tvars>>

-----------------------------------------------------------------------------
TimerStart(t) == TimerArm(t) \/ TimerSetFn(t) \/ TimerDisarm(t) \/ TimerRelease(t) \/ TimerWait(t)
TimerGoOn(t)  == \/ PokeRead(t) \/ PokeWake(t) \/ TimerPrep(t) \/ TimerTest(t) \/ TimerBlock(t)
                 \/ TimerWoken(t) \/ TimerSpinEnd(t) \/ TimerReturn(t) \/ TimerExpire(t)

TNext ==
    \/ Next /\ UNCHANGED tvars
    \/ type = "timer" /\ \E t \in Tasks : TimerStart(t) \/ TimerGoOn(t) \/ TimerSpinWork(t)
    \/ Clock

TSpec == TInit /\ [][TNext]_allvars

(* A task in a call goes on, time passes, and ticks scan the sleepers.     *)
TFairSpec ==
    /\ TSpec
    /\ WF_allvars(Clock)
    /\ \A t \in Tasks :
        /\ WF_allvars(GoOn(t) /\ UNCHANGED tvars) /\ WF_allvars(Expire(t) /\ UNCHANGED tvars)
        /\ WF_allvars(Scan(t) /\ UNCHANGED tvars)
        /\ WF_allvars(TimerGoOn(t))

-----------------------------------------------------------------------------
(* Asleep, or spinning, until somebody wakes it. *)
TimerQuiet(t) == (pc[t] = "tsleep" /\ wk[t] = "blocked") \/ (pc[t] = "tspin" /\ wk[t] = "armed")

(* kobj_sched.h: "Arming or disarming wakes it to recompute. One timer     *)
(* thread per owner." A timer thread does not wait past the deadline of a  *)
(* timer of its domain, unless a wake is on its way to it.                 *)
NoLostTimer ==
    \A t \in Tasks, i \in Timers :
        /\ TimerQuiet(t)
        /\ i[1] = Domain[t] /\ tm[i].armed
        /\ tdl[t] = 0 \/ MsUp(tm[i].deadline) < tdl[t]
        => \E u \in Tasks : \/ pc[u] = "poke" /\ g_timer_waiter = t
                            \/ pc[u] = "unpoke" /\ poked[u] = t

(* A timer thread comes out of its wait for a timer that is due and at the *)
(* end of its timeout, unless it is left spinning for ever, where nobody   *)
(* reads its deadline.                                                     *)
DueFires ==
    \A t \in {u \in Tasks : "twait" \in Calls["timer"][u]} :
        LET waits == pc[t] \in {"tprep", "ttest", "tblock", "tsleep", "tspin"}
            due   == DueOf(Domain[t]) # {}
            ends  == limit[t] # 0 /\ limit[t] <= Ms(MaxTime)
        IN  []<>(pc[t] # "tspin") => (waits /\ (due \/ ends) ~> ~waits \/ ~(due \/ ends))
=============================================================================
