-------------------------------- MODULE Chan --------------------------------
(***************************************************************************)
(* One endpoint of kernel/chan.c: the claim with its FIFO of waiters and   *)
(* direct hand-off, the call of a task-owned endpoint with its blocking    *)
(* wait for the reply, the owner's serve loop, an inline handler's         *)
(* endpoint, and what chan_owner_exited() clears up when a task exits.     *)
(*                                                                         *)
(* Tasks wait with the wake token of WakeToken.  A section under ep->lock  *)
(* is one step; the plain stores and loads outside it are steps of their   *)
(* own, so the two harts interleave between them.  A message is named by   *)
(* the task whose call it belongs to.                                      *)
(***************************************************************************)
EXTENDS Integers, Sequences, SequencesExt, FiniteSets

CONSTANTS
    Callers,     \* tasks that call the endpoint
    Owner,       \* the task that owns it, of a task-owned endpoint
    WaitQLen,    \* CHAN_WAITQ_LEN
    Setups,      \* how the endpoint may be set up, see ep
    Reused       \* tasks whose slot another task takes over once they are DEAD

NoPid == -1

ChanTasks == Callers \cup {Owner}

ASSUME ChanAssumption ==
    /\ Callers \subseteq Nat /\ IsFiniteSet(Callers) /\ Owner \in Nat \ Callers
    /\ WaitQLen \in Nat \ {0}
    /\ Setups \subseteq [inline : BOOLEAN, callers : SUBSET Callers, exits : SUBSET ChanTasks]
    /\ Reused \subseteq ChanTasks

VARIABLES
    ep,         \* inline: an inline handler instead of an owner; callers: the tasks that call it;
                \* exits: the tasks that may exit
    busy, holder, wq, handed_to,            \* the claim, under ep->lock
    caller_pid, reply_len, request_pending, \* the call, plain words
    req_buf, resp_buf,                      \* whose message the buffers hold
    alive,      \* task states as sched_task_state() answers: not DEAD
    wk,         \* the wake token of each task
    pc,
    queued,     \* ep_claim()'s flag: the caller is in the wait queue
    late,       \* the caller's claim deadline has passed
    arg         \* the pid the task is about to wake

claim == <<busy, holder, wq, handed_to>>
call  == <<caller_pid, reply_len, request_pending>>
bufs  == <<req_buf, resp_buf>>
vars  == <<ep, claim, call, bufs, alive, wk, pc, queued, late, arg>>

W == INSTANCE WakeToken WITH Sleepers <- ChanTasks

CallerPCs == {"out", "top", "test", "qblock", "qsleep", "copyin", "call", "post", "wakeowner",
              "block", "sleep", "again", "recheck", "copyout", "release", "handler"}
OwnerPCs  == {"serve", "prepare", "stest", "sblock", "ssleep", "work", "reply"}
EndPCs    == {"wake", "swake", "exwake", "exiting", "dying", "dead", "other"}

TypeOK ==
    /\ ep \in Setups
    /\ busy \in BOOLEAN
    /\ holder \in ChanTasks \cup {NoPid}
    /\ wq \in Seq(Callers) /\ Len(wq) <= WaitQLen
    /\ handed_to \in Callers \cup {NoPid}
    /\ caller_pid \in Callers \cup {NoPid}
    /\ reply_len \in {-1, 0}
    /\ request_pending \in BOOLEAN
    /\ req_buf \in Callers \cup {NoPid} /\ resp_buf \in Callers \cup {NoPid}
    /\ alive \in [ChanTasks -> BOOLEAN]
    /\ wk \in [ChanTasks -> W!WakeStates]
    /\ pc \in [ChanTasks -> CallerPCs \cup OwnerPCs \cup EndPCs]
    /\ queued \in [Callers -> BOOLEAN]
    /\ late \in [Callers -> BOOLEAN]
    /\ arg \in [ChanTasks -> ChanTasks \cup {NoPid}]

(* chan_register() or chan_register_task(), with the owner at its loop. *)
Init ==
    /\ ep \in Setups
    /\ busy = FALSE /\ holder = NoPid /\ wq = <<>> /\ handed_to = NoPid
    /\ caller_pid = NoPid /\ reply_len = -1 /\ request_pending = FALSE
    /\ req_buf = NoPid /\ resp_buf = NoPid
    /\ alive = [t \in ChanTasks |-> TRUE]
    /\ W!WakeInit
    /\ pc = [t \in ChanTasks |-> IF t = Owner THEN "serve" ELSE "out"]
    /\ queued = [t \in Callers |-> FALSE]
    /\ late = [t \in Callers |-> FALSE]
    /\ arg = [t \in ChanTasks |-> NoPid]

Goto(t, p) == pc' = [pc EXCEPT ![t] = p]

(* task_block() by t at pc p: it goes off its hart, or returns at once     *)
(* because a token is there, or, when nothing else could run, at once if   *)
(* it is unprepared, and out of the spin, still armed, when other work     *)
(* turns up if it is not.                                                  *)
TaskBlock(t, p, asleep, back) ==
    /\ pc[t] = p
    /\ \/ wk' = W!Blocked(wk, t) /\ Goto(t, IF wk'[t] = "blocked" THEN asleep ELSE back)
       \/ wk[t] # "token" /\ Goto(t, back) /\ UNCHANGED wk

(* A task that is READY again goes on behind its task_block(). *)
Woken(t, asleep, back) ==
    /\ pc[t] = asleep /\ wk[t] # "blocked"
    /\ Goto(t, back)

-----------------------------------------------------------------------------
(* ep_claim() *)

(* wq_remove(): the task's entries are closed up; it has one at most, for  *)
(* only a caller that is not queued pushes itself (ChanInv, QueueOrder).   *)
wq_remove(t) == RemoveFirst(wq, t)

(* Mutants: a claim with waiters behind it goes free, and the endpoint     *)
(* goes free across a hand-off.                                            *)
ReleaseLockedFree(t, h) ==
    /\ busy' = FALSE /\ holder' = NoPid /\ handed_to' = h
    /\ arg' = [arg EXCEPT ![t] = NoPid]
    /\ UNCHANGED wq

ReleaseLockedOpen(t, h) ==
    /\ busy' = FALSE
    /\ holder' = IF wq = <<>> THEN NoPid ELSE Head(wq)
    /\ handed_to' = IF wq = <<>> THEN h ELSE Head(wq)
    /\ wq' = IF wq = <<>> THEN wq ELSE Tail(wq)
    /\ arg' = [arg EXCEPT ![t] = holder']

(* release_locked(): to the oldest waiter still alive, which keeps the     *)
(* endpoint busy, or free.  arg[t] is the pid to wake; h is handed_to as   *)
(* the release finds it.                                                   *)
ReleaseLocked(t, h) ==
    LET i    == SelectInSeq(wq, LAMBDA w : alive[w])
        next == IF i = 0 THEN NoPid ELSE wq[i]
    IN  /\ busy' = (i # 0)
        /\ holder' = next
        /\ handed_to' = IF i = 0 THEN h ELSE next
        /\ wq' = IF i = 0 THEN <<>> ELSE SubSeq(wq, i + 1, Len(wq))
        /\ arg' = [arg EXCEPT ![t] = next]

(* The claim is free and taken at once, by a caller that did not wait for  *)
(* it or that polls because the queue was full.                            *)
Take(t) ==
    /\ ~busy
    /\ busy' = TRUE /\ holder' = t
    /\ UNCHANGED <<wq, handed_to>>

(* Mutant: one place too many. *)
HasRoomPlus == Len(wq) <= WaitQLen

(* There is a place free in the wait queue. *)
HasRoom == Len(wq) < WaitQLen

(* chan_call() and chan_call_wait(): a busy endpoint is refused, or joined *)
(* in the queue while there is room.                                       *)
Claim(t) ==
    /\ pc[t] = "out" /\ alive[t]
    /\ \/ Take(t) /\ Goto(t, "copyin") /\ UNCHANGED queued
       \/ /\ busy /\ HasRoom
          /\ wq' = Append(wq, t)
          /\ queued' = [queued EXCEPT ![t] = TRUE]
          /\ Goto(t, "top")
          /\ UNCHANGED <<busy, holder, handed_to>>
       \/ /\ busy /\ ~HasRoom
          /\ queued' = [queued EXCEPT ![t] = FALSE]
          /\ Goto(t, "top")
          /\ UNCHANGED claim
    /\ UNCHANGED <<call, bufs, alive, wk, late, arg>>

(* Mutant: the waiter tests and blocks without having prepared. *)
ClaimPrepareNot(t) ==
    /\ pc[t] = "top"
    /\ Goto(t, "test")
    /\ UNCHANGED <<claim, call, bufs, alive, wk, queued, late, arg>>

(* The top of the waiting loop: only a queued waiter prepares. *)
ClaimPrepare(t) ==
    /\ pc[t] = "top"
    /\ wk' = IF queued[t] THEN W!Prepared(wk, t) ELSE wk
    /\ Goto(t, "test")
    /\ UNCHANGED <<claim, call, bufs, alive, queued, late, arg>>

(* Its test, under ep->lock, with the task_wait_done() of the paths that   *)
(* leave: the turn was handed over; a poller finds the endpoint free;      *)
(* otherwise a poller joins if there is room now, and the deadline decides *)
(* between giving up and blocking (a poller that could not join naps).     *)
Joins(t) == ~queued[t] /\ busy /\ HasRoom

ClaimTest(t) ==
    /\ pc[t] = "test"
    /\ \/ /\ queued[t] /\ handed_to = t
          /\ handed_to' = NoPid /\ holder' = t
          /\ wk' = W!Finished(wk, t)
          /\ Goto(t, "copyin")
          /\ UNCHANGED <<busy, wq, queued>>
       \/ /\ ~queued[t] /\ Take(t)
          /\ Goto(t, "copyin")
          /\ UNCHANGED <<wk, queued>>
       \/ /\ IF queued[t] THEN handed_to # t ELSE busy
          /\ late[t]
          /\ wq' = wq_remove(t)
          /\ wk' = IF queued[t] \/ Joins(t) THEN W!Finished(wk, t) ELSE wk
          /\ Goto(t, "out")
          /\ UNCHANGED <<busy, holder, handed_to, queued>>
       \/ /\ IF queued[t] THEN handed_to # t ELSE busy
          /\ ~late[t]
          /\ wq' = IF Joins(t) THEN Append(wq, t) ELSE wq
          /\ queued' = [queued EXCEPT ![t] = @ \/ Joins(t)]
          /\ Goto(t, IF queued'[t] THEN "qblock" ELSE "top")
          /\ UNCHANGED <<busy, holder, handed_to, wk>>
    /\ late' = [late EXCEPT ![t] = @ /\ pc'[t] \notin {"copyin", "out"}]
    /\ UNCHANGED <<call, bufs, alive, arg>>

(* task_block_until_ms(deadline) *)
ClaimBlock(t) ==
    /\ TaskBlock(t, "qblock", "qsleep", "top")
    /\ UNCHANGED <<claim, call, bufs, alive, queued, late, arg>>

ClaimWoken(t) ==
    /\ Woken(t, "qsleep", "top")
    /\ UNCHANGED <<claim, call, bufs, alive, wk, queued, late, arg>>

(* The clock reaches a claim's deadline, and the scheduler's scan makes a  *)
(* waiter asleep past its deadline READY.                                  *)
Clock(t) ==
    /\ pc[t] \in {"top", "test", "qblock", "qsleep"} /\ ~late[t]
    /\ late' = [late EXCEPT ![t] = TRUE]
    /\ UNCHANGED <<claim, call, bufs, alive, wk, pc, queued, arg>>

Expire(t) ==
    /\ pc[t] = "qsleep" /\ late[t] /\ wk[t] = "blocked"
    /\ wk' = W!TimedOut(wk, {t})
    /\ UNCHANGED <<claim, call, bufs, alive, pc, queued, late, arg>>

-----------------------------------------------------------------------------
(* chan_call_impl() once the endpoint is claimed *)

(* The request is copied in, unless copy_from_user() refuses it. *)
CopyIn(t) ==
    /\ pc[t] = "copyin"
    /\ \/ req_buf' = t /\ Goto(t, IF ep.inline THEN "handler" ELSE "call")
       \/ UNCHANGED req_buf /\ Goto(t, "release")
    /\ UNCHANGED <<claim, call, resp_buf, alive, wk, queued, late, arg>>

(* An inline handler runs on the caller's own stack. *)
Handler(t) ==
    /\ pc[t] = "handler"
    /\ resp_buf' = req_buf /\ reply_len' = 0
    /\ Goto(t, "copyout")
    /\ UNCHANGED <<claim, caller_pid, request_pending, req_buf, alive, wk, queued, late, arg>>

(* Mutant: the caller posts its request without having prepared. *)
CallTaskUnprepared(t) ==
    /\ pc[t] = "call"
    /\ Goto(t, IF alive[Owner] THEN "post" ELSE "release")
    /\ UNCHANGED <<claim, call, bufs, alive, wk, queued, late, arg>>

(* chan_call_task(): an owner that is DEAD is refused, before anything is  *)
(* written to the endpoint; otherwise the caller prepares.                 *)
CallTask(t) ==
    /\ pc[t] = "call"
    /\ \/ /\ ~alive[Owner]
          /\ Goto(t, "release")
          /\ UNCHANGED wk
       \/ /\ alive[Owner]
          /\ wk' = W!Prepared(wk, t)
          /\ Goto(t, "post")
    /\ UNCHANGED <<claim, call, bufs, alive, queued, late, arg>>

Post(t) ==
    /\ pc[t] = "post"
    /\ caller_pid' = t /\ reply_len' = -1 /\ request_pending' = TRUE
    /\ Goto(t, "wakeowner")
    /\ UNCHANGED <<claim, bufs, alive, wk, queued, late, arg>>

(* Mutant: the request is posted and nobody told. *)
WakeOwnerNot(t) ==
    /\ pc[t] = "wakeowner"
    /\ Goto(t, "block")
    /\ UNCHANGED <<claim, call, bufs, alive, wk, queued, late, arg>>

WakeOwner(t) ==
    /\ pc[t] = "wakeowner"
    /\ wk' = W!Unblocked(wk, Owner)
    /\ Goto(t, "block")
    /\ UNCHANGED <<claim, call, bufs, alive, queued, late, arg>>

CallBlock(t) ==
    /\ TaskBlock(t, "block", "sleep", "again")
    /\ UNCHANGED <<claim, call, bufs, alive, queued, late, arg>>

CallWoken(t) ==
    /\ Woken(t, "sleep", "again")
    /\ UNCHANGED <<claim, call, bufs, alive, wk, queued, late, arg>>

(* The loop of chan_call_task(): the reply, not the wake, ends the wait. *)
CallAgain(t) ==
    /\ pc[t] = "again"
    /\ IF caller_pid # t THEN wk' = W!Finished(wk, t) /\ Goto(t, "copyout")
                         ELSE wk' = W!Prepared(wk, t) /\ Goto(t, "recheck")
    /\ UNCHANGED <<claim, call, bufs, alive, queued, late, arg>>

CallRecheck(t) ==
    /\ pc[t] = "recheck"
    /\ IF caller_pid # t THEN wk' = W!Finished(wk, t) /\ Goto(t, "copyout")
                         ELSE UNCHANGED wk /\ Goto(t, "block")
    /\ UNCHANGED <<claim, call, bufs, alive, queued, late, arg>>

(* The response is copied out while the endpoint is still claimed. *)
CopyOut(t) ==
    /\ pc[t] = "copyout"
    /\ Goto(t, "release")
    /\ UNCHANGED <<claim, call, bufs, alive, wk, queued, late, arg>>

(* ep_release(), and the wake of the next holder after the lock is dropped. *)
Release(t) ==
    /\ pc[t] = "release"
    /\ ReleaseLocked(t, handed_to)
    /\ Goto(t, "wake")
    /\ UNCHANGED <<call, bufs, alive, wk, queued, late>>

(* task_unblock() of the pid taken down before; -1 is nobody. *)
WakeArg(t, p, back) ==
    /\ pc[t] = p
    /\ wk' = IF arg[t] = NoPid THEN wk ELSE W!Unblocked(wk, arg[t])
    /\ arg' = [arg EXCEPT ![t] = NoPid]
    /\ Goto(t, back)
    /\ UNCHANGED <<claim, call, bufs, alive, queued, late>>

-----------------------------------------------------------------------------
(* The owner: chan_serve_wait() *)

Serve ==
    /\ pc[Owner] = "serve"
    /\ Goto(Owner, IF request_pending THEN "work" ELSE "prepare")
    /\ UNCHANGED <<claim, call, bufs, alive, wk, queued, late, arg>>

ServePrepare ==
    /\ pc[Owner] = "prepare"
    /\ wk' = W!Prepared(wk, Owner)
    /\ Goto(Owner, "stest")
    /\ UNCHANGED <<claim, call, bufs, alive, queued, late, arg>>

ServeTest ==
    /\ pc[Owner] = "stest"
    /\ IF request_pending THEN wk' = W!Finished(wk, Owner) /\ Goto(Owner, "work")
                          ELSE UNCHANGED wk /\ Goto(Owner, "sblock")
    /\ UNCHANGED <<claim, call, bufs, alive, queued, late, arg>>

ServeBlock ==
    /\ TaskBlock(Owner, "sblock", "ssleep", "prepare")
    /\ UNCHANGED <<claim, call, bufs, alive, queued, late, arg>>

ServeWoken ==
    /\ Woken(Owner, "ssleep", "prepare")
    /\ UNCHANGED <<claim, call, bufs, alive, wk, queued, late, arg>>

(* The driver's own code: the answer to the request in the buffer. *)
Work ==
    /\ pc[Owner] = "work"
    /\ resp_buf' = req_buf
    /\ Goto(Owner, "reply")
    /\ UNCHANGED <<claim, call, req_buf, alive, wk, queued, late, arg>>

(* chan_serve_reply(), up to its task_unblock(). *)
EndCall(r) ==
    /\ reply_len' = r /\ request_pending' = FALSE
    /\ arg' = [arg EXCEPT ![Owner] = caller_pid]
    /\ caller_pid' = NoPid

Reply ==
    /\ pc[Owner] = "reply"
    /\ EndCall(0)
    /\ Goto(Owner, "swake")
    /\ UNCHANGED <<claim, bufs, alive, wk, queued, late>>

-----------------------------------------------------------------------------
(* task_exit() and its chan_owner_exited().                                *)

(* The owner exits of its own accord or by a fault in its code ...         *)
OwnerExits ==
    /\ Owner \in ep.exits
    /\ pc[Owner] \in {"serve", "work"}
    /\ Goto(Owner, "exiting")
    /\ UNCHANGED <<claim, call, bufs, alive, wk, queued, late, arg>>

(* ... and fails the call that is pending on it, if there is one.          *)
OwnerExited ==
    /\ pc[Owner] = "exiting"
    /\ IF request_pending THEN EndCall(-1) ELSE UNCHANGED <<call, arg>>
    /\ Goto(Owner, "exwake")
    /\ UNCHANGED <<claim, bufs, alive, wk, queued, late>>

(* A caller exits outside any call, or by a fault in an inline handler: it *)
(* leaves the queue, and the claim it died holding goes to the next.       *)
CallerExits(t) ==
    /\ t \in ep.exits
    /\ pc[t] \in {"out", "handler"}
    /\ IF busy /\ holder = t
       THEN ReleaseLocked(t, NoPid)
       ELSE wq' = wq_remove(t) /\ UNCHANGED <<busy, holder, handed_to, arg>>
    /\ Goto(t, "exwake")
    /\ UNCHANGED <<call, bufs, alive, wk, queued, late>>

(* The lock section of task_exit() marks the task DEAD, later than that. *)
Die(t) ==
    /\ pc[t] = "dying"
    /\ alive' = [alive EXCEPT ![t] = FALSE]
    /\ Goto(t, "dead")
    /\ UNCHANGED <<claim, call, bufs, wk, queued, late, arg>>

(* task_create_full() takes a DEAD slot for a task that serves nothing. *)
SlotReused(t) ==
    /\ pc[t] = "dead" /\ t \in Reused
    /\ alive' = [alive EXCEPT ![t] = TRUE]
    /\ Goto(t, "other")
    /\ UNCHANGED <<claim, call, bufs, wk, queued, late, arg>>

-----------------------------------------------------------------------------
CallerStep(t) ==
    \/ Claim(t) \/ ClaimPrepare(t) \/ ClaimTest(t) \/ ClaimBlock(t) \/ ClaimWoken(t)
    \/ CopyIn(t) \/ Handler(t) \/ CallTask(t) \/ Post(t) \/ WakeOwner(t)
    \/ CallBlock(t) \/ CallWoken(t) \/ CallAgain(t) \/ CallRecheck(t)
    \/ CopyOut(t) \/ Release(t) \/ WakeArg(t, "wake", "out")
    \/ CallerExits(t) \/ WakeArg(t, "exwake", "dying") \/ Die(t)

OwnerStep ==
    /\ ~ep.inline
    /\ \/ Serve \/ ServePrepare \/ ServeTest \/ ServeBlock \/ ServeWoken \/ Work
       \/ Reply \/ WakeArg(Owner, "swake", "serve")
       \/ OwnerExits \/ OwnerExited \/ WakeArg(Owner, "exwake", "dying") \/ Die(Owner)
       \/ SlotReused(Owner)

Next == (OwnerStep \/ \E t \in ep.callers : CallerStep(t) \/ Clock(t) \/ Expire(t)) /\ UNCHANGED ep

Spec == Init /\ [][Next]_vars

(* Every task keeps running and time passes; a call, once begun, goes on.  *)
Fairness ==
    /\ WF_vars(OwnerStep /\ UNCHANGED ep)
    /\ \A t \in Callers :
        /\ WF_vars(pc[t] # "out" /\ CallerStep(t) /\ UNCHANGED ep)
        /\ WF_vars(Clock(t) /\ UNCHANGED ep) /\ WF_vars(Expire(t) /\ UNCHANGED ep)

FairSpec == Spec /\ Fairness

-----------------------------------------------------------------------------
(* Between a successful ep_claim() and the ep_release(). *)
Claimed == {"copyin", "call", "post", "wakeowner", "block", "sleep", "again", "recheck",
            "copyout", "release", "handler"}

(* One call in flight, and no claim without someone who will release it:   *)
(* a busy endpoint's holder is in its call or has been handed its turn.    *)
ClaimAccounted ==
    /\ \A t \in Callers : pc[t] \in Claimed => busy /\ holder = t
    /\ busy => holder \in Callers /\ (pc[holder] \in Claimed \/ handed_to = holder)
    /\ handed_to # NoPid => busy /\ holder = handed_to

(* "A free endpoint means nobody is queued, so taking it overtakes no one." *)
NoOvertaking == ~busy => wq = <<>>

(* A caller that copies a reply out copies the reply to its own request,   *)
(* whoever shared the single-slot buffers before it.                       *)
ReplyIsMine ==
    \A t \in Callers : pc[t] = "copyout" /\ reply_len = 0 => resp_buf = t

(* A caller asleep although its call has ended, or an owner asleep on a    *)
(* pending request, has a wake on its way.                                 *)
NoLostMessage ==
    /\ \A t \in Callers :
        pc[t] = "sleep" /\ wk[t] = "blocked" /\ caller_pid # t
            => pc[Owner] \in {"swake", "exwake"} /\ arg[Owner] = t
    /\ pc[Owner] = "ssleep" /\ wk[Owner] = "blocked" /\ request_pending
            => \E t \in Callers : pc[t] = "wakeowner"

(* ep_claim(): "a hand-off between the test and the block leaves a token,  *)
(* so the block returns at once": a waiter asleep with the turn handed to  *)
(* it has a wake on its way.                                               *)
TurnKept ==
    \A t \in Callers :
        pc[t] = "qsleep" /\ wk[t] = "blocked" /\ handed_to = t
            => \E u \in ChanTasks : pc[u] \in {"wake", "exwake"} /\ arg[u] = t

(* The same of an endpoint whose queue has a place for everyone: nobody    *)
(* sleeps through its turn unless it found the queue full.                 *)
NoLostTurn == Cardinality(ep.callers) <= WaitQLen + 1 => TurnKept

(* A call that has claimed the endpoint comes to its end, unless its owner  *)
(* exits meanwhile: the reply's wake is never lost, whichever of the two is *)
(* late.                                                                    *)
CallReturns ==
    \A t \in Callers :
        pc[t] \in Claimed
            ~> pc[t] \notin Claimed \/ pc[Owner] \in {"exiting", "exwake", "dying", "dead", "other"}
=============================================================================
