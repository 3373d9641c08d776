-------------------------------- MODULE Kobj --------------------------------
(***************************************************************************)
(* The kernel objects of kernel/kobj.c and the blocking calls over them in *)
(* kernel/kobj_sched.c: counting semaphores, mutexes, queues and event     *)
(* groups, with FIFO waiters, direct hand-off, cancellation on a timeout,  *)
(* deletion under waiters and generation-checked handles.                  *)
(*                                                                         *)
(* kobj.c is a set of state machines that never block: each of its         *)
(* operations is here an operator from the tables `core` to the new tables *)
(* s, the result r and the tasks to wake wk.  kobj_sched.c applies one at  *)
(* a time under g_kobj_lock, wakes the tasks named with one task_unblock() *)
(* each, and waits in the loop prepare, test, block over the wake token of *)
(* WakeToken.  Objects share nothing but the lock and the waiting, so a    *)
(* behaviour follows one slot of one of the four tables: `type` says of    *)
(* which.  An item is named by the task that sent it; one handed to a      *)
(* waiting receiver does not pass through the ring.  The timers of type    *)
(* "timer" are Ktimer's.                                                   *)
(***************************************************************************)
EXTENDS Integers, Sequences, SequencesExt, FiniteSets

CONSTANTS
    Tasks,       \* pids
    Types,       \* the object types behaviours are about
    Calls,       \* Calls[type][t]: which of "get", "put", "front", "clear", "delete", "create",
                 \* "release" t calls; "front" is a put that goes ahead of everything queued
    Waits,       \* Waits[t]: the timeouts t passes: "poll", "timed", "forever"
    SemMax,      \* a semaphore's limit
    QLen,        \* places in a queue
    Bits,        \* bits of an event group
    EvWaits,     \* what tasks wait for: [want, all, clear]
    MaxDepth,    \* bound: nested locks of a recursive mutex
    MaxInc,      \* bound: times the slot is deleted
    HandleGens,  \* generations a handle can tell apart: 2^12 in the code
    SlotGens     \* generations a slot counts: 2^16 in the code

NoPid == -1

ASSUME KobjAssumption ==
    /\ Tasks \subseteq Nat /\ IsFiniteSet(Tasks)
    /\ Types \subseteq {"sem", "mutex", "queue", "event", "timer"}
    /\ Waits \in [Tasks -> SUBSET {"poll", "timed", "forever"}]
    /\ SemMax \in Nat \ {0} /\ QLen \in Nat \ {0}
    /\ EvWaits \subseteq [want : (SUBSET Bits) \ {{}}, all : BOOLEAN, clear : BOOLEAN]
    /\ MaxDepth \in Nat /\ MaxInc \in Nat
    /\ HandleGens \in Nat \ {0} /\ SlotGens \in Nat \ {0} /\ HandleGens < SlotGens

VARIABLES
    type,
    core,     \* what g_kobj_lock guards, see CoreStates
    hnd,      \* the object of the slot that a call's handle was issued for
    tmo,      \* a call's timeout; "late" once its deadline has passed
    wake,     \* the kwake_t a task still has to work through
    wk, pc,
    told      \* history: what the results of the calls told their callers

vars == <<type, core, hnd, tmo, wake, wk, pc, told>>

W == INSTANCE WakeToken WITH Sleepers <- Tasks

Ring    == 0..(QLen - 1)
NoEvent == CHOOSE e \in EvWaits : TRUE   \* of a task that waits for none

(* The slot (used, and how often it was deleted), the object's fields, its *)
(* waiter lists (wl is rx of a queue, tx its senders), and the waiters on  *)
(* the tasks' stacks.                                                      *)
CoreStates ==
    [used : BOOLEAN, inc : 0..MaxInc,
     count : 0..(IF type = "sem" THEN SemMax ELSE QLen),
     owner : Tasks \cup {NoPid}, depth : 0..MaxDepth, rec : BOOLEAN,
     head : Ring, buf : [Ring -> Tasks \cup {NoPid}],
     bits : SUBSET Bits,
     wl : Seq(Tasks), tx : Seq(Tasks),
     st : [Tasks -> {"idle", "wait", "grant", "failed"}],
     side : [Tasks -> {"rx", "back", "front"}],
     ev : [Tasks -> EvWaits \cup {NoEvent}]]

PCs == {"out", "prep", "test", "block", "sleep", "spin", "cancel", "wake", "reldel",
        "tprep", "ttest", "tblock", "tsleep", "tspin", "tret", "poke", "unpoke"}     \* Ktimer's

TypeOK ==
    /\ type \in Types /\ core \in CoreStates
    /\ hnd \in [Tasks -> 0..MaxInc]
    /\ tmo \in [Tasks -> {"poll", "timed", "late", "forever"}]
    /\ wake \in [Tasks -> Seq(Tasks)]
    /\ wk \in [Tasks -> W!WakeStates] /\ pc \in [Tasks -> PCs]
    /\ told \in [units : Int, holds : [Tasks -> 0..MaxDepth], expect : Seq(Tasks)]

(* kos_init(): the tables are empty. *)
Init ==
    /\ type \in Types
    /\ core = [used |-> FALSE, inc |-> 0, count |-> 0, owner |-> NoPid, depth |-> 0, rec |-> FALSE,
               head |-> 0, buf |-> [i \in Ring |-> NoPid], bits |-> {}, wl |-> <<>>, tx |-> <<>>,
               st |-> [t \in Tasks |-> "idle"], side |-> [t \in Tasks |-> "rx"],
               ev |-> [t \in Tasks |-> NoEvent]]
    /\ hnd = [t \in Tasks |-> 0] /\ tmo = [t \in Tasks |-> "poll"]
    /\ wake = [t \in Tasks |-> <<>>]
    /\ W!WakeInit
    /\ pc = [t \in Tasks |-> "out"]
    /\ told = [units |-> 0, holds |-> [t \in Tasks |-> 0], expect |-> <<>>]

-----------------------------------------------------------------------------
(* kobj.c: handles and waiters                                             *)

(* Mutant: the slot's generation cut to the bits the handle has. *)
ResolvesMasked(c, k) ==
    c.used /\ (c.inc % SlotGens) % HandleGens = (k % SlotGens) % HandleGens

(* LOOKUP() of the handle issued for the k-th object of the slot: the      *)
(* handle carries the low bits of the slot's generation, and is compared   *)
(* with all of them.                                                       *)
Resolves(c, k) == c.used /\ c.inc % SlotGens = (k % SlotGens) % HandleGens

Done(c, r)      == [s |-> c, r |-> r, wk |-> <<>>]
DoneWake(c, ws) == [s |-> c, r |-> "OK", wk |-> ws]

(* wl_push() of t's waiter, of a call that may wait. *)
Wait(c, t, w, fail) ==
    IF w THEN Done([c EXCEPT !.wl = Append(@, t), !.st[t] = "wait", !.side[t] = "rx"], "BLOCK")
    ELSE Done(c, fail)

(* One waiter leaves a list. *)
wl_remove(l, t) == RemoveFirst(l, t)

(* wl_pop() of the first waiter, which is granted what it waited for. *)
GrantHead(c) == [c EXCEPT !.st[Head(c.wl)] = "grant", !.wl = Tail(@)]

(* Mutant: the timed-out waiter is not asked whether it was granted. *)
CancelAlways(c, k, t) ==
    IF c.st[t] = "failed" \/ ~Resolves(c, k)
    THEN Done([c EXCEPT !.st[t] = "failed"], "DELETED")
    ELSE Done([c EXCEPT !.st[t] = "idle", !.wl = wl_remove(@, t), !.tx = wl_remove(@, t)],
              IF c.st[t] = "grant" /\ tmo[t] # "late" THEN "OK" ELSE "TIMEOUT")

(* cancel_finish() and kq_cancel(): a grant or a deletion that came before *)
(* the cancel stands, otherwise the waiter leaves its list.                *)
CancelFinish(c, k, t) ==
    IF c.st[t] = "grant" THEN Done(c, "OK")
    ELSE IF c.st[t] = "failed" \/ ~Resolves(c, k) THEN Done([c EXCEPT !.st[t] = "failed"], "DELETED")
    ELSE Done([c EXCEPT !.st[t] = "idle", !.wl = wl_remove(@, t), !.tx = wl_remove(@, t)], "TIMEOUT")

(* Mutant: only the receivers of a queue are failed. *)
DeleteRx(c) ==
    DoneWake([c EXCEPT !.st = [t \in Tasks |-> IF t \in ToSet(c.wl) THEN "failed" ELSE @[t]],
                       !.wl = <<>>, !.used = FALSE, !.inc = @ + 1], c.wl)

(* ksem_delete(), kmutex_delete(), kq_delete(), kev_delete(): every waiter *)
(* fails, and the generation moves on.                                     *)
Delete(c) ==
    DoneWake([c EXCEPT !.st = [t \in Tasks |-> IF t \in ToSet(c.wl \o c.tx) THEN "failed" ELSE @[t]],
                       !.wl = <<>>, !.tx = <<>>, !.used = FALSE, !.inc = @ + 1],
             c.wl \o c.tx)

-----------------------------------------------------------------------------
(* kobj.c: semaphores and mutexes                                          *)

SemTake(c, t, w) ==
    IF c.count > 0 THEN Done([c EXCEPT !.count = @ - 1], "OK") ELSE Wait(c, t, w, "AGAIN")

(* Mutant: a give with a waiter counts the unit as well. *)
SemGiveTwice(c) ==
    IF c.wl # <<>> THEN DoneWake([GrantHead(c) EXCEPT !.count = @ + 1], <<Head(c.wl)>>)
    ELSE IF c.count < SemMax THEN Done([c EXCEPT !.count = @ + 1], "OK")
    ELSE Done(c, "FULL")

(* Direct hand-off: a unit given goes to the first waiter, or is counted. *)
SemGive(c) ==
    IF c.wl # <<>> THEN DoneWake(GrantHead(c), <<Head(c.wl)>>)
    ELSE IF c.count < SemMax THEN Done([c EXCEPT !.count = @ + 1], "OK")
    ELSE Done(c, "FULL")

MutexLock(c, t, w) ==
    IF c.owner = NoPid THEN Done([c EXCEPT !.owner = t, !.depth = 1], "OK")
    ELSE IF c.owner # t THEN Wait(c, t, w, "AGAIN")
    ELSE IF c.rec THEN Done([c EXCEPT !.depth = @ + 1], "OK")
    ELSE Done(c, "FAIL")

(* The last unlock passes the mutex to the first waiter. *)
MutexUnlock(c, t) ==
    IF c.owner # t THEN Done(c, "FAIL")
    ELSE IF c.depth > 1 THEN Done([c EXCEPT !.depth = @ - 1], "OK")
    ELSE IF c.wl # <<>>
         THEN DoneWake([GrantHead(c) EXCEPT !.owner = Head(c.wl), !.depth = 1], <<Head(c.wl)>>)
         ELSE Done([c EXCEPT !.owner = NoPid, !.depth = 0], "OK")

-----------------------------------------------------------------------------
(* kobj.c: queues                                                          *)

(* Mutant: a front item is put where the head was. *)
PushStale(c, i, front) ==
    [c EXCEPT !.head = IF front THEN (@ + QLen - 1) % QLen ELSE @,
              !.buf[IF front THEN c.head ELSE (c.head + c.count) % QLen] = i,
              !.count = @ + 1]

(* q_push() into the ring. *)
Push(c, i, front) ==
    LET at == IF front THEN (c.head + QLen - 1) % QLen ELSE (c.head + c.count) % QLen
    IN  [c EXCEPT !.head = IF front THEN at ELSE @, !.buf[at] = i, !.count = @ + 1]

(* kq_send(): into a waiting receiver's own buffer, into the ring, or the  *)
(* sender waits with its item.                                             *)
QSend(c, t, front, w) ==
    IF c.wl # <<>> THEN DoneWake(GrantHead(c), <<Head(c.wl)>>)
    ELSE IF c.count < QLen THEN Done(Push(c, t, front), "OK")
    ELSE IF w THEN Done([c EXCEPT !.tx = Append(@, t), !.st[t] = "wait",
                                  !.side[t] = IF front THEN "front" ELSE "back"], "BLOCK")
    ELSE Done(c, "FULL")

(* kq_recv(): the oldest item, and the first blocked sender is admitted. *)
QRecv(c, t, w) ==
    IF c.count > 0
    THEN LET d == [c EXCEPT !.head = (@ + 1) % QLen, !.count = @ - 1]
             s == Head(c.tx)
         IN  IF c.tx = <<>> THEN Done(d, "OK")
             ELSE DoneWake([Push(d, s, c.side[s] = "front") EXCEPT !.st[s] = "grant", !.tx = Tail(@)], <<s>>)
    ELSE Wait(c, t, w, "AGAIN")

-----------------------------------------------------------------------------
(* kobj.c: event groups                                                    *)

Satisfied(bs, e) == IF e.all THEN e.want \subseteq bs ELSE e.want \cap bs # {}
After(bs, e)     == IF e.clear THEN bs \ e.want ELSE bs

(* Mutant: only the first waiter is judged. *)
EvScanFirst(c) ==
    IF c.wl # <<>> /\ Satisfied(c.bits, c.ev[Head(c.wl)])
    THEN DoneWake([GrantHead(c) EXCEPT !.bits = After(@, c.ev[Head(c.wl)])], <<Head(c.wl)>>)
    ELSE Done(c, "OK")

(* ev_scan(): grants every waiter the bits satisfy, in arrival order; one  *)
(* that clears does so before the next is judged.                          *)
EvScan(c) ==
    LET judge(a, t) ==
            IF Satisfied(a.s.bits, a.s.ev[t])
            THEN DoneWake([a.s EXCEPT !.st[t] = "grant", !.wl = wl_remove(@, t),
                                      !.bits = After(@, c.ev[t])], Append(a.wk, t))
            ELSE a
    IN  FoldLeft(judge, Done(c, "OK"), c.wl)

EvSet(c, bs)   == EvScan([c EXCEPT !.bits = @ \cup bs])
EvClear(c, bs) == Done([c EXCEPT !.bits = @ \ bs], "OK")

EvWait(c, t, e, w) ==
    IF Satisfied(c.bits, e) THEN Done([c EXCEPT !.bits = After(@, e)], "OK")
    ELSE Wait([c EXCEPT !.ev[t] = e], t, w, "AGAIN")

-----------------------------------------------------------------------------
(* kobj_sched.c                                                            *)

Goto(t, p) == pc' = [pc EXCEPT ![t] = p]

(* The handles a task may pass: those of every object the slot has held. *)
Issued == 0..(IF core.used THEN core.inc ELSE core.inc - 1)

(* The waiter in the frame of a call that has returned. *)
Gone(c, t) == [c EXCEPT !.st[t] = "idle", !.side[t] = "rx", !.ev[t] = NoEvent]

(* A call with handle k and timeout w leaves the lock with x: it has others *)
(* to wake, or to wait, or returns.                                         *)
Leave(t, x, k, w) ==
    LET waits == x.r = "BLOCK"
    IN  /\ core' = IF waits THEN x.s ELSE Gone(x.s, t)
        /\ wake' = [wake EXCEPT ![t] = x.wk]
        /\ Goto(t, CASE x.wk # <<>> -> "wake" [] waits -> "prep" [] OTHER -> "out")
        /\ hnd' = [hnd EXCEPT ![t] = IF waits THEN k ELSE 0]
        /\ tmo' = [tmo EXCEPT ![t] = IF waits THEN w ELSE "poll"]

Begin(t, call) == pc[t] = "out" /\ call \in Calls[type][t]

(* The order in which the items have to come out, one more sent or received. *)
Sent(s, i, front) == IF front THEN <<i>> \o s ELSE Append(s, i)
Received(s, c) == IF c.tx = <<>> THEN Tail(s) ELSE Sent(Tail(s), Head(c.tx), c.side[Head(c.tx)] = "front")

(* What the callers know of the object once a get (d = 1) or a put (d = -1) *)
(* through the handle of object k has returned OK to t.                     *)
Told(t, k, d) ==
    IF k # core.inc THEN told
    ELSE [told EXCEPT !.units = IF type \in {"sem", "queue"} THEN @ - d ELSE @,
                      !.holds[t] = IF type = "mutex" THEN @ + d ELSE @]

(* kos_sem_take(), kos_mutex_lock(), kos_q_recv(), kos_ev_wait(), to the   *)
(* end of their first section under the lock.                              *)
GetOp(t, w, e) ==
    CASE type = "sem"   -> SemTake(core, t, w # "poll")
      [] type = "mutex" -> MutexLock(core, t, w # "poll")
      [] type = "queue" -> QRecv(core, t, w # "poll")
      [] type = "event" -> EvWait(core, t, e, w # "poll")

Get(t) ==
    \E k \in Issued, w \in Waits[t], e \in (IF type = "event" THEN EvWaits ELSE {core.ev[t]}) :
        LET x == IF Resolves(core, k) THEN GetOp(t, w, e) ELSE Done(core, "FAIL")
        IN  /\ Begin(t, "get")
            /\ x.s.depth <= MaxDepth
            /\ Leave(t, x, k, w)
            /\ told' = IF x.r # "OK" THEN told
                       ELSE [Told(t, k, 1) EXCEPT !.expect =
                                 IF type = "queue" THEN Received(@, core) ELSE @]
            /\ UNCHANGED <<type, wk>>

(* kos_sem_give(), kos_mutex_unlock(), kos_q_send(), kos_ev_set(). *)
PutOp(t, w, front, bs) ==
    CASE type = "sem"   -> SemGive(core)
      [] type = "mutex" -> MutexUnlock(core, t)
      [] type = "queue" -> QSend(core, t, front, w # "poll")
      [] type = "event" -> EvSet(core, bs)

Put(t) ==
    \E k \in Issued, w \in Waits[t],
       front \in BOOLEAN,
       bs \in (IF type = "event" THEN SUBSET Bits ELSE {{}}) :
        LET x == IF Resolves(core, k) THEN PutOp(t, w, front, bs) ELSE Done(core, "FAIL")
        IN  /\ Begin(t, IF front THEN "front" ELSE "put")
            /\ Leave(t, x, k, w)
            /\ told' = IF x.r # "OK" THEN told
                       ELSE [Told(t, k, -1) EXCEPT !.expect =
                                 IF type = "queue" /\ core.wl = <<>> THEN Sent(@, t, front) ELSE @]
            /\ UNCHANGED <<type, wk>>

(* kos_ev_clear() *)
Clear(t) ==
    \E k \in Issued, bs \in SUBSET Bits :
        /\ type = "event"
        /\ Begin(t, "clear")
        /\ Leave(t, IF Resolves(core, k) THEN EvClear(core, bs) ELSE Done(core, "FAIL"), k, "poll")
        /\ UNCHANGED <<type, wk, told>>

(* kos_sem_create() and its likes, in a slot that is free. *)
Create(t) ==
    \E init \in (IF type = "sem" THEN 0..SemMax ELSE {0}), r \in (IF type = "mutex" THEN BOOLEAN ELSE {FALSE}) :
        /\ Begin(t, "create") /\ ~core.used
        /\ core' = [core EXCEPT !.used = TRUE, !.count = init, !.owner = NoPid, !.depth = 0, !.rec = r,
                                !.head = 0, !.buf = [i \in Ring |-> NoPid], !.bits = {}]
        /\ told' = [units |-> init, holds |-> [u \in Tasks |-> 0], expect |-> <<>>]
        /\ UNCHANGED <<type, hnd, tmo, wake, wk, pc>>

DeleteBy(t, k) ==
    /\ core.inc < MaxInc
    /\ Leave(t, IF Resolves(core, k) THEN Delete(core) ELSE Done(core, "FAIL"), k, "poll")
    /\ UNCHANGED <<type, wk, told>>

(* kos_sem_delete() and its likes. *)
DeleteCall(t) == \E k \in Issued : Begin(t, "delete") /\ DeleteBy(t, k)

(* kos_release_owner(): takes the handles of the domain's objects down ... *)
ReleaseOwner(t) ==
    /\ Begin(t, "release") /\ core.used
    /\ hnd' = [hnd EXCEPT ![t] = core.inc]
    /\ Goto(t, "reldel")
    /\ UNCHANGED <<type, core, tmo, wake, wk, told>>

(* ... and deletes each in a section of its own. *)
ReleaseDelete(t) ==
    /\ pc[t] = "reldel"
    /\ DeleteBy(t, hnd[t])

(* wake_all(), one task_unblock() at a time. *)
WakeOne(t) ==
    /\ pc[t] = "wake"
    /\ wk' = W!Unblocked(wk, Head(wake[t]))
    /\ wake' = [wake EXCEPT ![t] = Tail(@)]
    /\ Goto(t, IF Len(wake[t]) > 1 THEN "wake" ELSE "out")
    /\ UNCHANGED <<type, core, hnd, tmo, told>>

(* Mutant: the state is tested before the wait is prepared. *)
PrepLate(t) ==
    /\ pc[t] = "prep"
    /\ Goto(t, "test")
    /\ UNCHANGED <<type, core, hnd, tmo, wake, wk, told>>

(* wait_for() *)
Prep(t) ==
    /\ pc[t] = "prep"
    /\ wk' = W!Prepared(wk, t)
    /\ Goto(t, "test")
    /\ UNCHANGED <<type, core, hnd, tmo, wake, told>>

Test(t) ==
    /\ pc[t] = "test"
    /\ IF core.st[t] # "wait" THEN wk' = W!Finished(wk, t) /\ Goto(t, "cancel")
                              ELSE UNCHANGED wk /\ Goto(t, "block")
    /\ UNCHANGED <<type, core, hnd, tmo, wake, told>>

(* The deadline is read, and task_block_until_ms() called if it is ahead.  *)
(* That comes back at once on a token; else the task sleeps, or, where     *)
(* nothing else can run, spins in task_block() with its wait still armed.  *)
Block(t) ==
    /\ pc[t] = "block"
    /\ \/ /\ tmo[t] = "late"
          /\ wk' = W!Finished(wk, t) /\ Goto(t, "cancel")
       \/ /\ tmo[t] # "late"
          /\ wk' = W!Blocked(wk, t)
          /\ Goto(t, IF wk'[t] = "blocked" THEN "sleep" ELSE "prep")
       \/ /\ tmo[t] # "late" /\ wk[t] = "armed"
          /\ Goto(t, "spin") /\ UNCHANGED wk
    /\ UNCHANGED <<type, core, hnd, tmo, wake, told>>

Woken(t) ==
    /\ pc[t] = "sleep" /\ wk[t] # "blocked"
    /\ Goto(t, "prep")
    /\ UNCHANGED <<type, core, hnd, tmo, wake, wk, told>>

(* The spin ends on a token ... *)
SpinEnd(t) ==
    /\ pc[t] = "spin" /\ wk[t] = "token"
    /\ Goto(t, "prep")
    /\ UNCHANGED <<type, core, hnd, tmo, wake, wk, told>>

(* ... or because another task could run. *)
SpinWork(t) ==
    /\ pc[t] = "spin"
    /\ Goto(t, "prep")
    /\ UNCHANGED <<type, core, hnd, tmo, wake, wk, told>>

(* The deadline of a wait passes ... *)
Expire(t) ==
    /\ tmo[t] = "timed" /\ pc[t] \in {"prep", "test", "block", "sleep", "spin"}
    /\ tmo' = [tmo EXCEPT ![t] = "late"]
    /\ UNCHANGED <<type, core, hnd, wake, wk, pc, told>>

(* ... and a scan of the tick or of a switch finds the task asleep.  No    *)
(* scan looks at one that spins: it is running.                            *)
Scan(t) ==
    /\ tmo[t] = "late" /\ pc[t] = "sleep" /\ wk[t] = "blocked"
    /\ wk' = W!TimedOut(wk, {t})
    /\ UNCHANGED <<type, core, hnd, tmo, wake, pc, told>>

(* The object's own cancel settles what the wait came to. *)
Cancel(t) ==
    LET x == CancelFinish(core, hnd[t], t)
    IN  /\ pc[t] = "cancel"
        /\ Leave(t, x, hnd[t], tmo[t])
        /\ told' = IF x.r # "OK" THEN told
                   ELSE Told(t, hnd[t], IF core.side[t] = "rx" THEN 1 ELSE -1)
        /\ UNCHANGED <<type, wk>>

-----------------------------------------------------------------------------
(* A task begins a call, and goes on in one. *)
Start(t) == Get(t) \/ Put(t) \/ Clear(t) \/ Create(t) \/ DeleteCall(t) \/ ReleaseOwner(t)
GoOn(t)  == \/ ReleaseDelete(t) \/ WakeOne(t) \/ Prep(t) \/ Test(t) \/ Block(t) \/ Woken(t)
            \/ SpinEnd(t) \/ Cancel(t)

Next == \E t \in Tasks : Start(t) \/ GoOn(t) \/ SpinWork(t) \/ Expire(t) \/ Scan(t)

Spec == Init /\ [][Next]_vars

(* A task in a call goes on, time passes, and ticks scan the sleepers.     *)
(* That another task turns up to end a spin is not assumed.                *)
FairSpec == Spec /\ \A t \in Tasks : WF_vars(GoOn(t)) /\ WF_vars(Expire(t)) /\ WF_vars(Scan(t))

-----------------------------------------------------------------------------
InWait == {"prep", "test", "block", "sleep", "spin", "cancel"}

(* Waiters of the object now in the slot that were granted and are not     *)
(* told yet, because they have still to be woken or to cancel.             *)
Unsettled(side) ==
    {t \in Tasks : pc[t] \in InWait /\ core.st[t] = "grant" /\ hnd[t] = core.inc /\ core.side[t] \in side}

(* Direct hand-off and the cancel that settles a race: a unit given, or an *)
(* item sent, is counted or in the hand of one granted waiter, and nothing *)
(* a caller was refused, or told it timed out on, went anywhere.           *)
UnitsAccounted ==
    core.used /\ type \in {"sem", "queue"} =>
        told.units = core.count + Cardinality(Unsettled({"rx"})) - Cardinality(Unsettled({"back", "front"}))

(* Mutual exclusion as the callers see it: whoever was told it has the     *)
(* mutex is the owner at the depth it knows, and an owner that was told    *)
(* nothing yet is about to be: no timed-out waiter is left owning it.      *)
OneHolder ==
    core.used /\ type = "mutex" =>
        \A t \in Tasks :
            /\ told.holds[t] > 0 => core.owner = t /\ core.depth = told.holds[t]
            /\ core.owner = t => told.holds[t] > 0 \/ t \in Unsettled({"rx"})

(* The items leave in the order they were sent, front sends first, over    *)
(* the wrap-around of the ring and the admission of blocked senders.       *)
RingIsQueue ==
    core.used /\ type = "queue" =>
        told.expect = [i \in 1..core.count |-> core.buf[(core.head + i - 1) % QLen]]

(* "A waiter lives in the caller's storage for exactly as long as it is    *)
(* queued": a list holds the waiters of tasks that are in their wait, once *)
(* each, and a waiting task's waiter is in a list of a live object.        *)
WaitersLive ==
    /\ IsInjective(core.wl \o core.tx)
    /\ core.wl \o core.tx # <<>> => core.used
    /\ \A t \in Tasks :
        t \in ToSet(core.wl \o core.tx) <=> pc[t] \in InWait /\ core.st[t] = "wait"

(* "a receiver implies an empty queue", and its likes for the other types: *)
(* nobody waits for what is there, in a list of an object that is gone, or *)
(* outside every list.                                                     *)
NobodyStranded ==
    /\ WaitersLive
    /\ core.wl # <<>> => CASE type = "mutex" -> core.owner # NoPid
                           [] type = "event" -> \A t \in ToSet(core.wl) : ~Satisfied(core.bits, core.ev[t])
                           [] OTHER          -> core.count = 0
    /\ core.tx # <<>> => core.count = QLen

(* Asleep, or spinning, until somebody wakes it. *)
Quiet(t) == (pc[t] = "sleep" /\ wk[t] = "blocked") \/ (pc[t] = "spin" /\ wk[t] = "armed")

(* kobj_sched.h: "a give that lands before the waiter has gone to sleep is *)
(* not lost": a task that waits for a wake though its wait is over has one *)
(* on its way.                                                             *)
NoLostGrant ==
    \A t \in Tasks : Quiet(t) /\ core.st[t] # "wait" => \E u \in Tasks : t \in ToSet(wake[u])

(* kobj.h: "a stale handle (an object deleted and its slot reused)" is     *)
(* "refused rather than operating on whatever now lives there", however    *)
(* often the generation has wrapped.                                       *)
StaleRefused == \A k \in Issued : Resolves(core, k) => k = core.inc

(* Every wait ends that was granted, whose object is no more, or that has  *)
(* a deadline: the grant, the deletion and the timeout each get the waiter *)
(* out, whichever comes first.  Of the deadline that holds of a task that  *)
(* is not left spinning for ever: nobody reads it there.                   *)
WaitEnds ==
    \A t \in {u \in Tasks : Waits[u] # {"poll"}} :
        LET over == core.st[t] = "grant" \/ hnd[t] # core.inc
        IN  /\ pc[t] \in InWait /\ over ~> pc[t] = "out"
            /\ []<>(pc[t] # "spin") => (pc[t] \in InWait /\ tmo[t] # "forever" ~> pc[t] = "out")
=============================================================================
