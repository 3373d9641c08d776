------------------------------ MODULE ChanInv ------------------------------
(***************************************************************************)
(* The inductive invariant behind the endpoint of kernel/chan.c: who is in *)
(* the wait queue and who has been handed the turn, whose message is in    *)
(* the buffers, and where a wake that must not be lost is.                 *)
(***************************************************************************)
EXTENDS Chan

(* Waiting for a turn; between posting a request and leaving its call. *)
Queueing == {"top", "test", "qblock", "qsleep"}
Posted   == {"wakeowner", "block", "sleep", "again", "recheck"}

(* Owner and callers run their own code, and only the endpoint's callers   *)
(* call it.                                                                *)
Roles ==
    /\ pc[Owner] \in OwnerPCs \cup {"swake", "exiting", "exwake", "dying", "dead", "other"}
    /\ \A t \in Callers : pc[t] \in CallerPCs \cup {"wake", "exwake", "dying", "dead"}
    /\ \A t \in Callers \ ep.callers : pc[t] = "out"

(* A task in the queue waits there, once; so does the one that has been    *)
(* handed the turn, which is no longer in it.                              *)
QueueOrder ==
    /\ \A i \in 1..Len(wq) : pc[wq[i]] \in Queueing /\ queued[wq[i]] /\ handed_to # wq[i]
    /\ \A i, j \in 1..Len(wq) : wq[i] = wq[j] => i = j
    /\ \A t \in Callers : handed_to = t => pc[t] \in Queueing /\ queued[t]

(* A pending request is that of the caller in the endpoint, the buffers    *)
(* are its, and what the owner works on is that request.                   *)
OneMessage ==
    /\ request_pending <=> caller_pid # NoPid
    /\ request_pending => pc[caller_pid] \in Posted
    /\ pc[Owner] \in {"work", "reply"} => request_pending
    /\ pc[Owner] = "reply" => resp_buf = caller_pid
    /\ \A t \in Callers : pc[t] \in Posted \cup {"call", "post", "handler"} => req_buf = t
    /\ \A t \in Callers :
        pc[t] \in Posted \cup {"copyout"} /\ caller_pid # t /\ reply_len = 0 => resp_buf = t

(* The reply's wake of t is on its way; so is the wake of its turn. *)
Replying(t) == pc[Owner] \in {"swake", "exwake"} /\ arg[Owner] = t
Turning(t)  == \E u \in ChanTasks : pc[u] \in {"wake", "exwake"} /\ arg[u] = t

(* Between a prepare and its block a task has been armed, and a message    *)
(* that has come since has left the token or has its wake on the way.      *)
Armed(t) == wk[t] \in {"armed", "token"}
MessageKept ==
    /\ \A t \in Callers :
        /\ pc[t] \in {"post", "wakeowner", "block", "recheck"} => Armed(t)
        /\ pc[t] \in {"wakeowner", "block"} /\ caller_pid # t => wk[t] = "token" \/ Replying(t)
    /\ pc[Owner] \in {"stest", "sblock"} => Armed(Owner)
    /\ pc[Owner] = "sblock" /\ request_pending
            => wk[Owner] = "token" \/ \E t \in Callers : pc[t] = "wakeowner"

(* With a place for everyone nobody polls, and a turn is kept the same way. *)
Roomy == Cardinality(ep.callers) <= WaitQLen + 1
TurnsKept ==
    Roomy =>
        /\ \A t \in Callers :
            /\ pc[t] \in Queueing => queued[t]
            /\ pc[t] \in {"test", "qblock"} => Armed(t)
            /\ pc[t] = "qblock" /\ handed_to = t => wk[t] = "token" \/ Turning(t)
        /\ TurnKept

(* Only a task inside task_block() is off its hart. *)
BlockedAsleep == \A t \in ChanTasks : wk[t] = "blocked" => pc[t] \in {"qsleep", "sleep", "ssleep"}

(* The inductive invariant. *)
EndpointInv ==
    /\ TypeOK
    /\ Roles
    /\ ClaimAccounted
    /\ NoOvertaking
    /\ QueueOrder
    /\ OneMessage
    /\ MessageKept
    /\ NoLostMessage
    /\ BlockedAsleep
=============================================================================
