----------------------------- MODULE ChanProofs -----------------------------
(***************************************************************************)
(* The endpoint of kernel/chan.c, proved for any number of callers and any *)
(* length of its wait queue: one claim at a time, nobody overtaken, every  *)
(* reply with its own caller, no wake lost.                                *)
(***************************************************************************)
EXTENDS ChanInv, FiniteSetTheorems, SequenceTheorems, WellFoundedInduction, TLAPS

(* What the proofs need of the constants. *)
LEMMA Constants ==
    /\ Callers \subseteq Nat /\ IsFiniteSet(Callers) /\ Owner \in Nat /\ Owner \notin Callers
    /\ ChanTasks = Callers \cup {Owner} /\ ChanTasks \subseteq Nat
    /\ NoPid \notin ChanTasks /\ NoPid \notin Callers
    /\ WaitQLen \in Nat \ {0}
    /\ \A e \in Setups : e.callers \subseteq Callers
BY ChanAssumption DEF ChanTasks, NoPid

(* Every set of numbers that is not empty has a least. *)
LEMMA Least ==
    ASSUME NEW S \in SUBSET Nat, S # {}
    PROVE  \E m \in S : \A n \in S : m <= n
<1> DEFINE R == OpToRel(<, Nat)
<1>1. IsWellFoundedOn(R, Nat)
    BY NatLessThanWellFounded
<1>2. \A m, n \in Nat : <<n, m>> \in R <=> n < m
    BY DEF OpToRel
<1> HIDE DEF R
<1>3. PICK m \in S : \A n \in S : ~(<<n, m>> \in R)
    BY <1>1, WFMin
<1>4. S \subseteq Nat
    OBVIOUS
<1>5. \A n \in S : ~(n < m)
    BY ONLY <1>2, <1>3, <1>4, Zenon
<1> QED
    BY <1>5

LEMMA MinInSet ==
    ASSUME NEW S \in SUBSET Nat, S # {}
    PROVE  Min(S) \in S
BY Least DEF Min

-----------------------------------------------------------------------------
(* What the queue's operations leave of it.                                *)
Distinct(q) == \A i, j \in 1..Len(q) : q[i] = q[j] => i = j
Within(r, q) == \A i \in 1..Len(r) : \E j \in 1..Len(q) : r[i] = q[j]

(* release_locked() hands the turn to a waiter and drops those before it,  *)
(* or finds none alive and frees the endpoint.                             *)
LEMMA ReleaseFacts ==
    ASSUME TypeOK, Distinct(wq), NEW t \in ChanTasks, NEW h, ReleaseLocked(t, h)
    PROVE  \/ /\ busy' = FALSE /\ holder' = NoPid /\ handed_to' = h /\ wq' = <<>>
              /\ arg' = [arg EXCEPT ![t] = NoPid]
           \/ \E i \in 1..Len(wq) :
                /\ busy' = TRUE /\ holder' = wq[i] /\ handed_to' = wq[i] /\ wq[i] \in Callers
                /\ arg' = [arg EXCEPT ![t] = wq[i]]
                /\ wq' \in Seq(Callers) /\ Len(wq') <= WaitQLen
                /\ Distinct(wq)' /\ Within(wq', wq)
                /\ \A j \in 1..Len(wq') : wq'[j] # wq[i]
<1> DEFINE I == {i \in 1..Len(wq) : alive[wq[i]]}
           k == SelectInSeq(wq, LAMBDA w : alive[w])
<1>1. k = IF I # {} THEN Min(I) ELSE 0
    BY DEF SelectInSeq
<1>2. I \in SUBSET Nat /\ (k = 0 \/ k \in I)
    BY <1>1, MinInSet
<1>3. /\ busy' = (k # 0) /\ holder' = (IF k = 0 THEN NoPid ELSE wq[k])
      /\ handed_to' = (IF k = 0 THEN h ELSE wq[k])
      /\ wq' = (IF k = 0 THEN <<>> ELSE SubSeq(wq, k + 1, Len(wq)))
      /\ arg' = [arg EXCEPT ![t] = IF k = 0 THEN NoPid ELSE wq[k]]
    BY DEF ReleaseLocked
<1> HIDE DEF k
<1>4. CASE k = 0
    BY <1>3, <1>4
<1>5. CASE k \in 1..Len(wq)
  <2>1. wq \in Seq(Callers) /\ Len(wq) <= WaitQLen /\ Len(wq) \in Nat /\ WaitQLen \in Nat
    BY Constants DEF TypeOK
  <2>2. /\ wq' \in Seq(Callers) /\ Len(wq') = Len(wq) - k
        /\ \A j \in 1..Len(wq') : wq'[j] = wq[j + k] /\ j + k \in 1..Len(wq)
    BY <1>3, <1>5, <2>1
  <2>3. wq[k] \in Callers /\ Len(wq') <= WaitQLen
    BY <1>5, <2>1, <2>2
  <2>4. /\ Within(wq', wq)
        /\ \A j \in 1..Len(wq') : wq'[j] # wq[k]
    <3>1. Within(wq', wq)
        BY ONLY <2>2 DEF Within
    <3>2. ASSUME NEW j \in 1..Len(wq'), wq'[j] = wq[k] PROVE FALSE
      <4>1. wq[j + k] = wq[k] /\ j + k \in 1..Len(wq) /\ j \in Nat /\ j > 0
        BY <2>2, <3>2
      <4>2. j + k = k
        BY <1>5, <4>1 DEF Distinct
      <4> QED
        BY <1>5, <2>1, <4>1, <4>2
    <3> QED
        BY <3>1, <3>2
  <2>5. Distinct(wq)'
    BY <1>5, <2>1, <2>2 DEF Distinct
  <2> QED
    BY <1>3, <1>5, <2>2, <2>3, <2>4, <2>5
<1> QED
    BY <1>2, <1>4, <1>5

(* wq_remove() takes the task out and keeps the others. *)
LEMMA RemoveFacts ==
    ASSUME NEW q \in Seq(Callers), Distinct(q), NEW t
    PROVE  LET r == RemoveFirst(q, t) IN
           /\ r \in Seq(Callers) /\ Len(r) <= Len(q) /\ Distinct(r) /\ Within(r, q)
           /\ \A j \in 1..Len(r) : r[j] # t
           /\ q = <<>> => r = <<>>
<1> DEFINE r == RemoveFirst(q, t)
           I == {i \in 1..Len(q) : q[i] = t}
           k == SelectInSeq(q, LAMBDA v : v = t)
<1>1. CASE ~\E i \in 1..Len(q) : q[i] = t
  <2>1. r = q
    BY <1>1 DEF RemoveFirst
  <2> QED
    BY <1>1, <2>1 DEF Within
<1>2. CASE \E i \in 1..Len(q) : q[i] = t
  <2>1. k = IF I # {} THEN Min(I) ELSE 0
    BY DEF SelectInSeq
  <2>2. I # {} /\ I \in SUBSET Nat
    BY <1>2
  <2>3. k \in I
    BY <2>1, <2>2, MinInSet
  <2>4. r = SubSeq(q, 1, k - 1) \o SubSeq(q, k + 1, Len(q))
    BY <1>2 DEF RemoveFirst, RemoveAt
  <2> HIDE DEF k, r
  <2>5. k \in 1..Len(q) /\ q[k] = t /\ Len(q) \in Nat
    BY <2>3
  <2>6. /\ SubSeq(q, 1, k - 1) \in Seq(Callers) /\ SubSeq(q, k + 1, Len(q)) \in Seq(Callers)
        /\ Len(SubSeq(q, 1, k - 1)) = k - 1 /\ Len(SubSeq(q, k + 1, Len(q))) = Len(q) - k
        /\ \A j \in 1..(k - 1) : SubSeq(q, 1, k - 1)[j] = q[j]
        /\ \A j \in 1..(Len(q) - k) : SubSeq(q, k + 1, Len(q))[j] = q[j + k]
    BY <2>5
  <2>7. /\ r \in Seq(Callers) /\ Len(r) = Len(q) - 1
        /\ \A j \in 1..Len(r) : r[j] = IF j < k THEN q[j] ELSE q[j + 1]
    <3> DEFINE a == SubSeq(q, 1, k - 1)
               b == SubSeq(q, k + 1, Len(q))
    <3>1. /\ r = a \o b /\ a \in Seq(Callers) /\ b \in Seq(Callers) /\ Len(a) = k - 1 /\ Len(b) = Len(q) - k
          /\ \A j \in 1..(k - 1) : a[j] = q[j]
          /\ \A j \in 1..(Len(q) - k) : b[j] = q[j + k]
        BY <2>4, <2>6
    <3> HIDE DEF a, b
    <3>2. /\ r \in Seq(Callers) /\ Len(r) = Len(q) - 1
          /\ \A j \in 1..Len(r) : r[j] = IF j <= Len(a) THEN a[j] ELSE b[j - Len(a)]
      <4>1. /\ a \o b \in Seq(Callers) /\ Len(a \o b) = Len(a) + Len(b)
            /\ \A j \in 1..(Len(a) + Len(b)) : (a \o b)[j] = IF j <= Len(a) THEN a[j] ELSE b[j - Len(a)]
        BY <3>1, ConcatProperties
      <4>2. Len(a) + Len(b) = Len(q) - 1
        BY <2>5, <3>1
      <4> QED
        BY <3>1, <4>1, <4>2
    <3>3. ASSUME NEW j \in 1..Len(r) PROVE r[j] = IF j < k THEN q[j] ELSE q[j + 1]
      <4>1. CASE j < k
        BY <2>5, <3>1, <3>2, <4>1
      <4>2. CASE ~(j < k)
        <5>1. j - (k - 1) \in 1..(Len(q) - k) /\ (j - (k - 1)) + k = j + 1 /\ ~(j <= Len(a))
            BY <2>5, <3>1, <3>2, <4>2
        <5> QED
            BY <3>1, <3>2, <4>2, <5>1
      <4> QED
        BY <4>1, <4>2
    <3> QED
        BY <3>2, <3>3
  <2>8. Distinct(r)
    <3> SUFFICES ASSUME NEW i \in 1..Len(r), NEW j \in 1..Len(r), r[i] = r[j] PROVE i = j
        BY DEF Distinct
    <3> DEFINE m(x) == IF x < k THEN x ELSE x + 1
    <3>1. m(i) \in 1..Len(q) /\ m(j) \in 1..Len(q)
        BY <2>5, <2>7
    <3>2. q[m(i)] = q[m(j)]
        BY <2>7
    <3>3. m(i) = m(j)
        BY <3>1, <3>2 DEF Distinct
    <3> QED
        BY <2>5, <3>3
  <2>9. Within(r, q) /\ \A j \in 1..Len(r) : r[j] # t
    BY SMTT(30), <2>5, <2>7 DEF Within, Distinct
  <2> QED
    BY <2>5, <2>7, <2>8, <2>9 DEF r
<1> QED
    BY <1>1, <1>2

(* A task that joins the queue goes to its end. *)
LEMMA AppendFacts ==
    ASSUME NEW q \in Seq(Callers), Distinct(q), NEW t \in Callers, \A i \in 1..Len(q) : q[i] # t
    PROVE  LET r == Append(q, t) IN
           /\ r \in Seq(Callers) /\ Len(r) = Len(q) + 1 /\ Distinct(r)
           /\ \A j \in 1..Len(r) : r[j] = t \/ \E i \in 1..Len(q) : r[j] = q[i]
BY DEF Distinct

-----------------------------------------------------------------------------
(* What each call makes of the wake tokens, task by task. *)
LEMMA TokenCalls ==
    ASSUME wk \in [ChanTasks -> W!WakeStates], NEW t \in ChanTasks
    PROVE  /\ W!Prepared(wk, t) = [wk EXCEPT ![t] = "armed"]
           /\ W!Finished(wk, t) = [wk EXCEPT ![t] = "none"]
           /\ W!Blocked(wk, t) = [wk EXCEPT ![t] = IF wk[t] = "token" THEN "none" ELSE "blocked"]
           /\ W!TimedOut(wk, {t}) = [wk EXCEPT ![t] = "none"]
           /\ W!Unblocked(wk, t) =
                [wk EXCEPT ![t] = IF wk[t] = "blocked" THEN "none" ELSE IF wk[t] = "armed" THEN "token" ELSE wk[t]]
BY DEF W!Prepared, W!Finished, W!Blocked, W!TimedOut, W!Unblocked, W!WakeStates

LEMMA TokenTyped ==
    ASSUME wk \in [ChanTasks -> W!WakeStates], NEW t \in ChanTasks,
           \/ UNCHANGED wk
           \/ wk' \in {W!Prepared(wk, t), W!Finished(wk, t), W!Blocked(wk, t), W!TimedOut(wk, {t}), W!Unblocked(wk, t)}
    PROVE  wk' \in [ChanTasks -> W!WakeStates]
<1>1. \/ UNCHANGED wk
      \/ wk' = [wk EXCEPT ![t] = "armed"]
      \/ wk' = [wk EXCEPT ![t] = "none"]
      \/ wk' = [wk EXCEPT ![t] = IF wk[t] = "token" THEN "none" ELSE "blocked"]
      \/ wk' = [wk EXCEPT ![t] = IF wk[t] = "blocked" THEN "none" ELSE IF wk[t] = "armed" THEN "token" ELSE wk[t]]
    BY TokenCalls, Zenon
<1> QED
    BY <1>1 DEF W!WakeStates

LEMMA EndpointInit == Init => EndpointInv
<1> SUFFICES ASSUME Init PROVE EndpointInv
    OBVIOUS
<1> USE Constants DEF Init
<1>1. TypeOK
  <2>1. wk \in [ChanTasks -> W!WakeStates]
    BY DEF W!WakeInit, W!WakeStates
  <2>2. wq \in Seq(Callers) /\ Len(wq) <= WaitQLen
    OBVIOUS
  <2> QED
    BY <2>1, <2>2 DEF TypeOK, CallerPCs, OwnerPCs
<1>2. Roles
    BY DEF Roles, CallerPCs, OwnerPCs
<1>3. ClaimAccounted /\ NoOvertaking /\ QueueOrder
    BY DEF ClaimAccounted, NoOvertaking, QueueOrder, Claimed
<1>4. OneMessage /\ MessageKept /\ NoLostMessage
    BY DEF OneMessage, MessageKept, NoLostMessage, Posted
<1>5. BlockedAsleep
    BY DEF BlockedAsleep, W!WakeInit
<1> QED
    BY <1>1, <1>2, <1>3, <1>4, <1>5 DEF EndpointInv

-----------------------------------------------------------------------------
(* The steps that leave the claim alone, by what else they do. *)
CallSteps(t) ==
    \/ CopyIn(t) \/ Handler(t) \/ CallTask(t) \/ Post(t) \/ WakeOwner(t)
    \/ CallBlock(t) \/ CallWoken(t) \/ CallAgain(t) \/ CallRecheck(t) \/ CopyOut(t)
TurnSteps(t) == ClaimPrepare(t) \/ ClaimBlock(t) \/ ClaimWoken(t) \/ Clock(t) \/ Expire(t)
EndSteps(t)  == WakeArg(t, "wake", "out") \/ WakeArg(t, "exwake", "dying") \/ Die(t)
ServeSteps   == Serve \/ ServePrepare \/ ServeTest \/ ServeBlock \/ ServeWoken \/ Work \/ Reply
LeaveSteps   == \/ WakeArg(Owner, "swake", "serve") \/ OwnerExits \/ OwnerExited
                \/ WakeArg(Owner, "exwake", "dying") \/ Die(Owner) \/ SlotReused(Owner)
ClaimSteps(t) == Claim(t) \/ ClaimTest(t) \/ Release(t) \/ CallerExits(t)

LEMMA Steps ==
    ASSUME [Next]_vars
    PROVE  \/ UNCHANGED vars
           \/ ServeSteps /\ UNCHANGED ep
           \/ LeaveSteps /\ UNCHANGED ep
           \/ \E t \in ep.callers : (CallSteps(t) \/ TurnSteps(t) \/ EndSteps(t) \/ ClaimSteps(t)) /\ UNCHANGED ep
BY DEF Next, OwnerStep, CallerStep, ServeSteps, LeaveSteps, CallSteps, TurnSteps, EndSteps, ClaimSteps

(* The callers of an endpoint are among the Callers. *)
LEMMA CallersOf == ASSUME TypeOK, NEW t \in ep.callers PROVE t \in Callers /\ t \in ChanTasks /\ t # Owner
BY Constants DEF TypeOK

LEMMA CallTyped ==
    ASSUME TypeOK, NEW t \in Callers, UNCHANGED ep, CallSteps(t)
    PROVE  TypeOK'
<1> USE Constants DEF TypeOK, claim, call, bufs, Goto, CallerPCs, OwnerPCs, EndPCs
<1>1. CASE CopyIn(t) \/ Handler(t) \/ Post(t) \/ CallWoken(t) \/ CopyOut(t)
  <2>1. CASE CopyIn(t)
    BY <2>1 DEF CopyIn
  <2>2. CASE Handler(t)
    BY <2>2 DEF Handler
  <2>3. CASE Post(t)
    BY <2>3 DEF Post
  <2>4. CASE CallWoken(t)
    BY <2>4 DEF CallWoken, Woken
  <2>5. CASE CopyOut(t)
    BY <2>5 DEF CopyOut
  <2> QED
    BY <1>1, <2>1, <2>2, <2>3, <2>4, <2>5
<1>2. CASE CallTask(t) \/ CallAgain(t) \/ CallRecheck(t)
  <2>1. wk' \in [ChanTasks -> W!WakeStates]
    BY <1>2, TokenTyped DEF CallTask, CallAgain, CallRecheck
  <2> QED
    BY SMTT(30), <1>2, <2>1 DEF CallTask, CallAgain, CallRecheck
<1>3. CASE WakeOwner(t)
  <2>1. wk' \in [ChanTasks -> W!WakeStates]
    BY <1>3, TokenTyped DEF WakeOwner
  <2> QED
    BY <1>3, <2>1 DEF WakeOwner
<1>4. CASE CallBlock(t)
  <2>1. wk' \in [ChanTasks -> W!WakeStates]
    BY <1>4, TokenTyped DEF CallBlock, TaskBlock
  <2> QED
    BY <1>4, <2>1 DEF CallBlock, TaskBlock
<1> QED
    BY <1>1, <1>2, <1>3, <1>4 DEF CallSteps

LEMMA TurnTyped ==
    ASSUME TypeOK, NEW t \in Callers, UNCHANGED ep, TurnSteps(t) \/ EndSteps(t)
    PROVE  TypeOK'
<1> USE Constants DEF TypeOK, claim, call, bufs, Goto, CallerPCs, OwnerPCs, EndPCs
<1>1. wk' \in [ChanTasks -> W!WakeStates]
  <2>1. CASE WakeArg(t, "wake", "out") \/ WakeArg(t, "exwake", "dying")
    <3>1. arg[t] \in ChanTasks \cup {NoPid}
        OBVIOUS
    <3> QED
        BY <2>1, <3>1, TokenTyped DEF WakeArg
  <2> QED
    BY <2>1, TokenTyped DEF TurnSteps, EndSteps, ClaimPrepare, ClaimBlock, ClaimWoken, TaskBlock, Clock, Expire, Die
<1>2. CASE ClaimPrepare(t) \/ ClaimWoken(t)
    BY SMTT(30), <1>1, <1>2 DEF ClaimPrepare, ClaimWoken, Woken
<1>6. CASE Clock(t) \/ Expire(t)
    BY <1>1, <1>6 DEF Clock, Expire
<1>3. CASE ClaimBlock(t)
    BY <1>1, <1>3 DEF ClaimBlock, TaskBlock
<1>4. CASE WakeArg(t, "wake", "out") \/ WakeArg(t, "exwake", "dying")
  <2>1. CASE WakeArg(t, "wake", "out")
    BY <1>1, <2>1 DEF WakeArg
  <2>2. CASE WakeArg(t, "exwake", "dying")
    BY <1>1, <2>2 DEF WakeArg
  <2> QED
    BY <1>4, <2>1, <2>2
<1>5. CASE Die(t)
    BY <1>5 DEF Die
<1> QED
    BY <1>2, <1>3, <1>4, <1>5, <1>6 DEF TurnSteps, EndSteps

LEMMA ServeTyped ==
    ASSUME TypeOK, UNCHANGED ep, ServeSteps \/ LeaveSteps
    PROVE  TypeOK'
<1> USE Constants DEF TypeOK, claim, call, bufs, Goto, CallerPCs, OwnerPCs, EndPCs
<1>1. wk' \in [ChanTasks -> W!WakeStates]
  <2>1. CASE WakeArg(Owner, "swake", "serve") \/ WakeArg(Owner, "exwake", "dying")
    <3>1. arg[Owner] \in ChanTasks \cup {NoPid}
        OBVIOUS
    <3> QED
        BY <2>1, <3>1, TokenTyped DEF WakeArg
  <2> QED
    BY <2>1, TokenTyped DEF ServeSteps, LeaveSteps, Serve, ServePrepare, ServeTest, ServeBlock, TaskBlock, ServeWoken,
        Work, Reply, OwnerExits, OwnerExited, Die, SlotReused
<1>2. CASE Serve \/ ServePrepare \/ ServeTest \/ ServeWoken
  <2>1. CASE Serve
    BY <1>1, <2>1 DEF Serve
  <2>2. CASE ServePrepare
    BY <1>1, <2>2 DEF ServePrepare
  <2>3. CASE ServeTest
    BY <1>1, <2>3 DEF ServeTest
  <2>4. CASE ServeWoken
    BY <1>1, <2>4 DEF ServeWoken, Woken
  <2> QED
    BY <1>2, <2>1, <2>2, <2>3, <2>4
<1>3. CASE ServeBlock
    BY <1>1, <1>3 DEF ServeBlock, TaskBlock
<1>4. CASE Work
    BY <1>1, <1>4 DEF Work
<1>8. CASE Reply
    BY <1>1, <1>8 DEF Reply, EndCall
<1>5. CASE WakeArg(Owner, "swake", "serve") \/ WakeArg(Owner, "exwake", "dying")
    BY <1>1, <1>5 DEF WakeArg
<1>6. CASE OwnerExits
    BY <1>1, <1>6 DEF OwnerExits
<1>9. CASE OwnerExited
  <2>1. CASE request_pending
    <3>1. /\ pc' = [pc EXCEPT ![Owner] = "exwake"] /\ EndCall(-1)
          /\ UNCHANGED <<claim, bufs, alive, queued, late>>
        BY <1>9, <2>1 DEF OwnerExited
    <3>2. /\ arg' \in [ChanTasks -> ChanTasks \cup {NoPid}] /\ caller_pid' = NoPid
          /\ reply_len' = -1 /\ request_pending' = FALSE
        BY <3>1 DEF EndCall
    <3>3. pc' \in [ChanTasks -> CallerPCs \cup OwnerPCs \cup EndPCs]
        BY <3>1
    <3> QED
        BY <1>1, <3>1, <3>2, <3>3
  <2>2. CASE ~request_pending
    BY <1>1, <1>9, <2>2 DEF OwnerExited
  <2> QED
    BY <2>1, <2>2
<1>7. CASE Die(Owner) \/ SlotReused(Owner)
  <2>1. CASE Die(Owner)
    BY <2>1 DEF Die
  <2>2. CASE SlotReused(Owner)
    BY <2>2 DEF SlotReused
  <2> QED
    BY <1>7, <2>1, <2>2
<1> QED
    BY <1>2, <1>3, <1>4, <1>5, <1>6, <1>7, <1>8, <1>9 DEF ServeSteps, LeaveSteps

-----------------------------------------------------------------------------
(* The claim: who holds it, who has been handed it, who waits.             *)
ClaimInv == ClaimAccounted /\ NoOvertaking /\ QueueOrder

(* Who is not in the queue. *)
LEMMA NotQueued ==
    ASSUME QueueOrder, NEW t \in Callers, pc[t] \notin Queueing \/ ~queued[t] \/ handed_to = t
    PROVE  Distinct(wq) /\ \A i \in 1..Len(wq) : wq[i] # t
BY DEF QueueOrder, Distinct

(* A step that leaves the claim alone and moves no task in or out of it. *)
LEMMA ClaimFrame ==
    ASSUME TypeOK, ClaimInv, UNCHANGED <<claim, queued>>,
           \A t \in Callers : /\ pc'[t] \in Claimed <=> pc[t] \in Claimed
                              /\ pc'[t] \in Queueing <=> pc[t] \in Queueing
    PROVE  ClaimInv'
<1> USE DEF ClaimInv, claim
<1>1. ClaimAccounted'
    BY DEF ClaimAccounted
<1>2. NoOvertaking'
    BY DEF NoOvertaking
<1>3. QueueOrder'
  <2>1. \A i \in 1..Len(wq) : wq[i] \in Callers
    BY DEF TypeOK
  <2> QED
    BY <2>1 DEF QueueOrder
<1> QED
    BY <1>1, <1>2, <1>3

(* ep_claim(): a free endpoint is taken, which leaves nobody behind. *)
LEMMA TakeStep ==
    ASSUME TypeOK, ClaimInv, NEW t \in Callers, Take(t), UNCHANGED queued,
           pc' = [pc EXCEPT ![t] = "copyin"]
    PROVE  ClaimInv' /\ holder' \in ChanTasks \cup {NoPid} /\ busy' \in BOOLEAN
<1>1. /\ ~busy /\ busy' /\ busy' = TRUE /\ holder' = t /\ UNCHANGED <<wq, handed_to>>
      /\ wq = <<>> /\ handed_to = NoPid /\ \A u \in Callers : pc[u] \notin Claimed
    BY DEF Take, ClaimInv, NoOvertaking, ClaimAccounted
<1>2. pc'[t] = "copyin" /\ \A u \in Callers \ {t} : pc'[u] = pc[u]
    BY Constants DEF TypeOK
<1>3. ClaimAccounted' /\ NoOvertaking'
    BY <1>1, <1>2 DEF ClaimAccounted, NoOvertaking, Claimed
<1>4. QueueOrder'
    BY <1>1, Constants DEF QueueOrder
<1> QED
    BY <1>1, <1>3, <1>4, Constants DEF ClaimInv

(* A waiter joins the queue of a busy endpoint. *)
LEMMA JoinStep ==
    ASSUME TypeOK, ClaimInv, NEW t \in Callers, busy, HasRoom,
           pc[t] \notin Claimed, pc[t] \notin Queueing \/ ~queued[t],
           wq' = Append(wq, t), queued' = [queued EXCEPT ![t] = TRUE], UNCHANGED <<busy, holder, handed_to>>,
           NEW p \in Queueing, pc' = [pc EXCEPT ![t] = p]
    PROVE  ClaimInv' /\ wq' \in Seq(Callers) /\ Len(wq') <= WaitQLen /\ queued' \in [Callers -> BOOLEAN]
<1>0. wq \in Seq(Callers) /\ Len(wq) \in Nat /\ Len(wq) < WaitQLen /\ WaitQLen \in Nat
    BY Constants DEF TypeOK, HasRoom
<1>1. Distinct(wq) /\ \A i \in 1..Len(wq) : wq[i] # t
    BY NotQueued DEF ClaimInv
<1>2. /\ wq' \in Seq(Callers) /\ Len(wq') = Len(wq) + 1 /\ Distinct(wq)'
      /\ \A j \in 1..Len(wq') : wq'[j] = t \/ \E i \in 1..Len(wq) : wq'[j] = wq[i]
    BY <1>0, <1>1, AppendFacts DEF Distinct
<1>3. /\ pc'[t] = p /\ queued'[t]
      /\ \A u \in Callers \ {t} : pc'[u] = pc[u] /\ queued'[u] = queued[u]
      /\ queued' \in [Callers -> BOOLEAN]
    BY Constants DEF TypeOK
<1>4. handed_to # t
    BY DEF ClaimInv, QueueOrder
<1>5. ClaimAccounted' /\ NoOvertaking'
    BY <1>3, Constants DEF ClaimInv, ClaimAccounted, NoOvertaking, Claimed, Queueing
<1>6. QueueOrder'
  <2>1. \A j \in 1..Len(wq') : pc'[wq'[j]] \in Queueing /\ queued'[wq'[j]] /\ handed_to' # wq'[j]
    <3> TAKE j \in 1..Len(wq')
    <3>1. CASE wq'[j] = t
        BY <1>3, <1>4, <3>1
    <3>2. CASE wq'[j] # t
      <4>1. PICK i \in 1..Len(wq) : wq'[j] = wq[i]
        BY <1>2, <3>2
      <4>2. wq[i] \in Callers \ {t}
        BY <1>0, <1>1
      <4> QED
        BY <1>3, <4>1, <4>2 DEF ClaimInv, QueueOrder
    <3> QED
        BY <3>1, <3>2
  <2>2. \A u \in Callers : handed_to' = u => pc'[u] \in Queueing /\ queued'[u]
    BY <1>3, <1>4 DEF ClaimInv, QueueOrder
  <2> QED
    BY <1>2, <2>1, <2>2 DEF QueueOrder, Distinct
<1> QED
    BY <1>0, <1>2, <1>3, <1>5, <1>6 DEF ClaimInv

(* A queue that has become shorter, of tasks that still wait. *)
LEMMA ShorterQueue ==
    ASSUME TypeOK, QueueOrder, wq' \in Seq(Callers), Distinct(wq)', Within(wq', wq), UNCHANGED queued,
           NEW t \in Callers, \A u \in Callers \ {t} : pc'[u] = pc[u],
           \A j \in 1..Len(wq') : wq'[j] # t /\ wq'[j] # handed_to',
           \A u \in Callers : handed_to' = u => u # t /\ pc[u] \in Queueing /\ queued[u]
    PROVE  QueueOrder'
<1>1. \A j \in 1..Len(wq') : pc'[wq'[j]] \in Queueing /\ queued'[wq'[j]] /\ handed_to' # wq'[j]
  <2> TAKE j \in 1..Len(wq')
  <2>1. PICK i \in 1..Len(wq) : wq'[j] = wq[i]
    BY DEF Within
  <2>2. wq[i] \in Callers \ {t}
    BY <2>1 DEF TypeOK
  <2> QED
    BY <2>1, <2>2 DEF QueueOrder
<1> QED
    BY <1>1 DEF QueueOrder, Distinct

(* release_locked() by the holder, or for a task that dies. *)
LEMMA ReleaseStep ==
    ASSUME TypeOK, ClaimInv, NEW t \in Callers, busy, holder = t, pc[t] \notin Queueing,
           NEW h, h \in {NoPid, handed_to}, ReleaseLocked(t, h), UNCHANGED queued,
           NEW p, p \notin Claimed, pc' = [pc EXCEPT ![t] = p]
    PROVE  /\ ClaimInv' /\ busy' \in BOOLEAN /\ holder' \in ChanTasks \cup {NoPid} /\ wq' \in Seq(Callers)
           /\ Len(wq') <= WaitQLen /\ handed_to' \in Callers \cup {NoPid}
           /\ arg' \in [ChanTasks -> ChanTasks \cup {NoPid}]
           /\ handed_to' # NoPid => arg'[t] = handed_to'
<1>0. Distinct(wq) /\ (\A i \in 1..Len(wq) : wq[i] # t) /\ handed_to = NoPid /\ h = NoPid
  <2>1. handed_to # t
    BY DEF ClaimInv, QueueOrder
  <2> QED
    BY <2>1, NotQueued DEF ClaimInv, ClaimAccounted
<1>1. pc'[t] = p /\ \A u \in Callers \ {t} : pc'[u] = pc[u] /\ (pc[u] \notin Claimed)
    BY Constants DEF TypeOK, ClaimInv, ClaimAccounted
<1>2. CASE /\ busy' = FALSE /\ holder' = NoPid /\ handed_to' = h /\ wq' = <<>>
           /\ arg' = [arg EXCEPT ![t] = NoPid]
  <2>1. ClaimAccounted' /\ NoOvertaking' /\ QueueOrder'
    BY <1>0, <1>1, <1>2, Constants DEF ClaimAccounted, NoOvertaking, QueueOrder
  <2>2. wq' \in Seq(Callers) /\ Len(wq') <= WaitQLen
    BY <1>2, Constants
  <2> QED
    BY <1>0, <1>2, <2>1, <2>2, Constants DEF TypeOK, ClaimInv
<1>3. ASSUME NEW i \in 1..Len(wq),
             busy' = TRUE /\ holder' = wq[i] /\ handed_to' = wq[i] /\ wq[i] \in Callers,
             arg' = [arg EXCEPT ![t] = wq[i]], wq' \in Seq(Callers), Len(wq') <= WaitQLen,
             Distinct(wq)', Within(wq', wq), \A j \in 1..Len(wq') : wq'[j] # wq[i]
      PROVE  /\ ClaimInv' /\ busy' \in BOOLEAN /\ holder' \in ChanTasks \cup {NoPid}
             /\ arg' \in [ChanTasks -> ChanTasks \cup {NoPid}] /\ arg'[t] = handed_to'
  <2>1. wq[i] # t /\ pc[wq[i]] \in Queueing /\ queued[wq[i]]
    BY <1>0 DEF ClaimInv, QueueOrder
  <2>2. \A j \in 1..Len(wq') : wq'[j] # t
    BY <1>0, <1>3 DEF Within
  <2>3. QueueOrder'
    BY <1>1, <1>3, <2>1, <2>2, ShorterQueue DEF ClaimInv
  <2>4. ClaimAccounted' /\ NoOvertaking'
    BY <1>1, <1>3, <2>1, Constants DEF ClaimAccounted, NoOvertaking
  <2> QED
    BY <1>3, <2>3, <2>4, Constants DEF TypeOK, ClaimInv
<1>4. t \in ChanTasks
    BY Constants
<1> QED
    BY <1>0, <1>2, <1>3, <1>4, ReleaseFacts

(* The waiters of a queue that t has left, and their turn. *)
LEMMA DropStep ==
    ASSUME TypeOK, ClaimInv, NEW t \in Callers, pc[t] \notin Claimed, handed_to # t,
           wq' = wq_remove(t), UNCHANGED <<busy, holder, handed_to, queued>>,
           NEW p, p \notin Claimed, pc' = [pc EXCEPT ![t] = p]
    PROVE  ClaimInv' /\ wq' \in Seq(Callers) /\ Len(wq') <= WaitQLen
<1>0. wq \in Seq(Callers) /\ Len(wq) \in Nat /\ Len(wq) <= WaitQLen /\ WaitQLen \in Nat /\ Distinct(wq)
    BY Constants DEF TypeOK, ClaimInv, QueueOrder, Distinct
<1>1. /\ wq' \in Seq(Callers) /\ Len(wq') <= Len(wq) /\ Distinct(wq') /\ Within(wq', wq)
      /\ \A j \in 1..Len(wq') : wq'[j] # t
      /\ wq = <<>> => wq' = <<>>
    BY <1>0, RemoveFacts DEF wq_remove
<1>2. pc'[t] = p /\ \A u \in Callers \ {t} : pc'[u] = pc[u]
    BY Constants DEF TypeOK
<1>3. \A j \in 1..Len(wq') : wq'[j] # t /\ wq'[j] # handed_to'
    BY <1>1 DEF ClaimInv, QueueOrder, Within
<1>4. QueueOrder'
  <2>1. Distinct(wq)'
    BY <1>1 DEF Distinct
  <2>2. \A u \in Callers : handed_to' = u => u # t /\ pc[u] \in Queueing /\ queued[u]
    BY DEF ClaimInv, QueueOrder
  <2> QED
    BY <1>1, <1>2, <1>3, <2>1, <2>2, ShorterQueue DEF ClaimInv
<1>5. ClaimAccounted' /\ NoOvertaking'
    BY <1>1, <1>2 DEF ClaimInv, ClaimAccounted, NoOvertaking
<1>6. Len(wq') <= WaitQLen
  <2>1. Len(wq') \in Nat
    BY <1>1
  <2> QED
    BY <1>0, <1>1, <2>1
<1> QED
    BY <1>1, <1>4, <1>5, <1>6 DEF ClaimInv

(* The turn that was handed over is taken up. *)
LEMMA TurnStep ==
    ASSUME TypeOK, ClaimInv, NEW t \in Callers, handed_to = t, handed_to' = NoPid, holder' = t,
           UNCHANGED <<busy, wq, queued>>, pc' = [pc EXCEPT ![t] = "copyin"]
    PROVE  ClaimInv'
<1>0. /\ pc'[t] = "copyin" /\ (\A u \in Callers \ {t} : pc'[u] = pc[u])
      /\ busy /\ holder = t /\ t # NoPid
    BY Constants DEF TypeOK, ClaimInv, ClaimAccounted
<1>1. \A i \in 1..Len(wq) : wq[i] # t /\ wq[i] \in Callers
    BY NotQueued DEF ClaimInv, TypeOK
<1>2. ClaimAccounted' /\ NoOvertaking'
    BY <1>0 DEF ClaimInv, ClaimAccounted, NoOvertaking, Claimed
<1>3. QueueOrder'
    BY <1>0, <1>1, Constants DEF ClaimInv, QueueOrder
<1> QED
    BY <1>2, <1>3 DEF ClaimInv

LEMMA ClaimTyped ==
    ASSUME TypeOK, ClaimInv, NEW t \in Callers, UNCHANGED ep, ClaimSteps(t)
    PROVE  TypeOK' /\ ClaimInv'
<1> DEFINE Claims == /\ ClaimInv' /\ busy' \in BOOLEAN /\ holder' \in ChanTasks \cup {NoPid}
                     /\ wq' \in Seq(Callers) /\ Len(wq') <= WaitQLen /\ handed_to' \in Callers \cup {NoPid}
                     /\ queued' \in [Callers -> BOOLEAN] /\ arg' \in [ChanTasks -> ChanTasks \cup {NoPid}]
<1>0. /\ busy \in BOOLEAN /\ holder \in ChanTasks \cup {NoPid} /\ wq \in Seq(Callers) /\ Len(wq) <= WaitQLen
      /\ handed_to \in Callers \cup {NoPid} /\ queued \in [Callers -> BOOLEAN]
      /\ arg \in [ChanTasks -> ChanTasks \cup {NoPid}] /\ pc \in [ChanTasks -> CallerPCs \cup OwnerPCs \cup EndPCs]
      /\ t \in ChanTasks /\ t # NoPid
    BY Constants DEF TypeOK
<1>1. CASE Claim(t)
  <2>0. /\ pc[t] = "out" /\ pc[t] \notin Claimed /\ pc[t] \notin Queueing
        /\ UNCHANGED <<call, bufs, alive, wk, late, arg>>
    BY <1>1 DEF Claim, Claimed, Queueing
  <2>1. CASE Take(t) /\ Goto(t, "copyin") /\ UNCHANGED queued
    <3>1. Claims
        BY <1>0, <2>0, <2>1, TakeStep DEF Take, Goto
    <3>2. pc' \in [ChanTasks -> CallerPCs \cup OwnerPCs \cup EndPCs]
        BY <1>0, <2>1 DEF Goto, CallerPCs
    <3> QED
        BY <2>0, <3>1, <3>2 DEF TypeOK, call, bufs
  <2>2. CASE /\ busy /\ HasRoom /\ wq' = Append(wq, t) /\ queued' = [queued EXCEPT ![t] = TRUE]
             /\ Goto(t, "top") /\ UNCHANGED <<busy, holder, handed_to>>
    <3>1. Claims
        BY <1>0, <2>0, <2>2, JoinStep DEF Goto, Queueing
    <3>2. pc' \in [ChanTasks -> CallerPCs \cup OwnerPCs \cup EndPCs]
        BY <1>0, <2>2 DEF Goto, CallerPCs
    <3> QED
        BY <2>0, <3>1, <3>2 DEF TypeOK, call, bufs
  <2>3. CASE /\ busy /\ ~HasRoom /\ queued' = [queued EXCEPT ![t] = FALSE]
             /\ Goto(t, "top") /\ UNCHANGED claim
    <3>1. /\ pc'[t] = "top" /\ ~queued'[t] /\ queued' \in [Callers -> BOOLEAN]
          /\ \A u \in Callers \ {t} : pc'[u] = pc[u] /\ queued'[u] = queued[u]
        BY <1>0, <2>3 DEF Goto
    <3>2. \A i \in 1..Len(wq) : wq[i] # t /\ wq[i] \in Callers
        BY <1>0, <2>0, NotQueued DEF ClaimInv
    <3>3. handed_to # t
        BY <2>0 DEF ClaimInv, QueueOrder
    <3>4. ClaimAccounted' /\ NoOvertaking'
        BY <2>0, <2>3, <3>1, <3>3, Constants DEF ClaimInv, ClaimAccounted, NoOvertaking, Claimed, claim
    <3>5. QueueOrder'
        BY <2>3, <3>1, <3>2, <3>3 DEF ClaimInv, QueueOrder, claim
    <3>6. pc' \in [ChanTasks -> CallerPCs \cup OwnerPCs \cup EndPCs]
        BY <1>0, <2>3 DEF Goto, CallerPCs
    <3> QED
        BY <2>0, <2>3, <3>1, <3>4, <3>5, <3>6 DEF TypeOK, ClaimInv, call, bufs, claim
  <2> QED
    BY <1>1, <2>1, <2>2, <2>3 DEF Claim
<1>2. CASE ClaimTest(t)
  <2>0. /\ pc[t] = "test" /\ pc[t] \notin Claimed /\ UNCHANGED <<call, bufs, alive, arg>>
        /\ late' = [late EXCEPT ![t] = @ /\ pc'[t] \notin {"copyin", "out"}]
    BY <1>2 DEF ClaimTest, Claimed
  <2>01. late' \in [Callers -> BOOLEAN]
    BY <2>0 DEF TypeOK
  <2>1. CASE /\ queued[t] /\ handed_to = t /\ handed_to' = NoPid /\ holder' = t
             /\ wk' = W!Finished(wk, t) /\ Goto(t, "copyin") /\ UNCHANGED <<busy, wq, queued>>
    <3>1. ClaimInv'
        BY <2>1, TurnStep DEF Goto
    <3>2. wk' \in [ChanTasks -> W!WakeStates]
        BY <1>0, <2>1, TokenTyped DEF TypeOK
    <3>3. pc' \in [ChanTasks -> CallerPCs \cup OwnerPCs \cup EndPCs]
        BY <1>0, <2>1 DEF Goto, CallerPCs
    <3> QED
        BY <1>0, <2>0, <2>01, <2>1, <3>1, <3>2, <3>3 DEF TypeOK, call, bufs
  <2>2. CASE ~queued[t] /\ Take(t) /\ Goto(t, "copyin") /\ UNCHANGED <<wk, queued>>
    <3>1. Claims
        BY <1>0, <2>0, <2>2, TakeStep DEF Take, Goto
    <3>2. pc' \in [ChanTasks -> CallerPCs \cup OwnerPCs \cup EndPCs]
        BY <1>0, <2>2 DEF Goto, CallerPCs
    <3> QED
        BY <2>0, <2>01, <2>2, <3>1, <3>2 DEF TypeOK, call, bufs
  <2>3. CASE /\ IF queued[t] THEN handed_to # t ELSE busy
             /\ wq' = wq_remove(t) /\ wk' = (IF queued[t] \/ Joins(t) THEN W!Finished(wk, t) ELSE wk)
             /\ Goto(t, "out") /\ UNCHANGED <<busy, holder, handed_to, queued>>
    <3>1. handed_to # t
        BY <2>3 DEF ClaimInv, QueueOrder
    <3>2. ClaimInv' /\ wq' \in Seq(Callers) /\ Len(wq') <= WaitQLen
        BY <2>0, <2>3, <3>1, DropStep DEF Goto, Claimed
    <3>3. wk' \in [ChanTasks -> W!WakeStates]
        BY <1>0, <2>3, TokenTyped DEF TypeOK
    <3>4. pc' \in [ChanTasks -> CallerPCs \cup OwnerPCs \cup EndPCs]
        BY <1>0, <2>3 DEF Goto, CallerPCs
    <3> QED
        BY <1>0, <2>0, <2>01, <2>3, <3>2, <3>3, <3>4 DEF TypeOK, call, bufs
  <2>4. CASE /\ IF queued[t] THEN handed_to # t ELSE busy
             /\ wq' = (IF Joins(t) THEN Append(wq, t) ELSE wq)
             /\ queued' = [queued EXCEPT ![t] = @ \/ Joins(t)]
             /\ Goto(t, IF queued'[t] THEN "qblock" ELSE "top")
             /\ UNCHANGED <<busy, holder, handed_to, wk>>
    <3>1. pc' \in [ChanTasks -> CallerPCs \cup OwnerPCs \cup EndPCs]
        BY <1>0, <2>4 DEF Goto, CallerPCs
    <3>2. CASE Joins(t)
      <4>1. queued' = [queued EXCEPT ![t] = TRUE] /\ pc' = [pc EXCEPT ![t] = "qblock"]
        BY <1>0, <2>4, <3>2 DEF Goto
      <4>2. ClaimInv' /\ wq' \in Seq(Callers) /\ Len(wq') <= WaitQLen /\ queued' \in [Callers -> BOOLEAN]
        BY <2>0, <2>4, <3>2, <4>1, JoinStep DEF Joins, Queueing
      <4> QED
        BY <1>0, <2>0, <2>01, <2>4, <3>1, <4>2 DEF TypeOK, call, bufs
    <3>3. CASE ~Joins(t)
      <4>1. queued' = queued /\ wq' = wq
        BY <1>0, <2>4, <3>3
      <4>2. /\ pc'[t] \in {"qblock", "top"} /\ \A u \in Callers \ {t} : pc'[u] = pc[u]
        BY <1>0, <2>4 DEF Goto
      <4>3. ClaimInv'
        BY <2>0, <2>4, <4>1, <4>2, ClaimFrame DEF claim, Claimed, Queueing
      <4> QED
        BY <1>0, <2>0, <2>01, <2>4, <3>1, <4>1, <4>3 DEF TypeOK, call, bufs
    <3> QED
        BY <3>2, <3>3
  <2> QED
    BY <1>2, <2>1, <2>2, <2>3, <2>4 DEF ClaimTest
<1>3. CASE Release(t)
  <2>1. /\ pc[t] = "release" /\ pc[t] \in Claimed /\ pc[t] \notin Queueing /\ ReleaseLocked(t, handed_to)
        /\ pc' = [pc EXCEPT ![t] = "wake"] /\ UNCHANGED <<call, bufs, alive, wk, queued, late>>
    BY <1>3 DEF Release, Claimed, Queueing, Goto
  <2>2. busy /\ holder = t
    BY <2>1 DEF ClaimInv, ClaimAccounted
  <2>3. Claims
    BY <1>0, <2>1, <2>2, ReleaseStep DEF Claimed
  <2>4. pc' \in [ChanTasks -> CallerPCs \cup OwnerPCs \cup EndPCs]
    BY <1>0, <2>1 DEF EndPCs
  <2> QED
    BY <2>1, <2>3, <2>4 DEF TypeOK, call, bufs
<1>4. CASE CallerExits(t)
  <2>1. /\ pc[t] \in {"out", "handler"} /\ pc[t] \notin Queueing
        /\ pc' = [pc EXCEPT ![t] = "exwake"] /\ UNCHANGED <<call, bufs, alive, wk, queued, late>>
    BY <1>4 DEF CallerExits, Queueing, Goto
  <2>2. pc' \in [ChanTasks -> CallerPCs \cup OwnerPCs \cup EndPCs]
    BY <1>0, <2>1 DEF EndPCs
  <2>3. CASE busy /\ holder = t
    <3>1. ReleaseLocked(t, NoPid)
        BY <1>4, <2>3 DEF CallerExits
    <3>2. Claims
        BY <1>0, <2>1, <2>3, <3>1, ReleaseStep DEF Claimed
    <3> QED
        BY <2>1, <2>2, <3>2 DEF TypeOK, call, bufs
  <2>4. CASE ~(busy /\ holder = t)
    <3>1. wq' = wq_remove(t) /\ UNCHANGED <<busy, holder, handed_to, arg>>
        BY <1>4, <2>4 DEF CallerExits
    <3>2. pc[t] \notin Claimed /\ handed_to # t
        BY <2>1, <2>4 DEF ClaimInv, ClaimAccounted, QueueOrder
    <3>3. ClaimInv' /\ wq' \in Seq(Callers) /\ Len(wq') <= WaitQLen
        BY <2>1, <3>1, <3>2, DropStep DEF Claimed
    <3> QED
        BY <1>0, <2>1, <2>2, <3>1, <3>3 DEF TypeOK, call, bufs
  <2> QED
    BY <2>3, <2>4
<1> QED
    BY <1>1, <1>2, <1>3, <1>4 DEF ClaimSteps

(* The steps that leave the claim alone. *)
LEMMA ClaimKept ==
    ASSUME TypeOK, ClaimInv, NEW t \in Callers, CallSteps(t) \/ TurnSteps(t) \/ EndSteps(t)
    PROVE  ClaimInv'
<1> USE DEF claim, Goto
<1>0. pc \in [ChanTasks -> CallerPCs \cup OwnerPCs \cup EndPCs] /\ t \in ChanTasks /\ Callers \subseteq ChanTasks
    BY Constants DEF TypeOK
<1>1. CASE CallSteps(t)
  <2>1. UNCHANGED <<claim, queued>>
    BY <1>1 DEF CallSteps, CopyIn, Handler, CallTask, Post, WakeOwner, CallBlock, CallWoken, CallAgain, CallRecheck,
        CopyOut
  <2>2. pc[t] \in Claimed /\ \E p \in Claimed : pc' = [pc EXCEPT ![t] = p]
    BY <1>1 DEF CallSteps, CopyIn, Handler, CallTask, Post, WakeOwner, CallBlock, TaskBlock, CallWoken, Woken, CallAgain,
        CallRecheck, CopyOut, Claimed
  <2> QED
    BY <1>0, <2>1, <2>2, ClaimFrame DEF Claimed, Queueing
<1>2. CASE TurnSteps(t)
  <2>1. UNCHANGED <<claim, queued>>
    BY <1>2 DEF TurnSteps, ClaimPrepare, ClaimBlock, ClaimWoken, Clock, Expire
  <2>2. pc[t] \in Queueing /\ \E p \in Queueing : pc' = [pc EXCEPT ![t] = p]
    BY <1>0, <1>2 DEF TurnSteps, ClaimPrepare, ClaimBlock, TaskBlock, ClaimWoken, Woken, Clock, Expire, Queueing
  <2> QED
    BY <1>0, <2>1, <2>2, ClaimFrame DEF Claimed, Queueing
<1>3. CASE EndSteps(t)
  <2>1. UNCHANGED <<claim, queued>>
    BY <1>3 DEF EndSteps, WakeArg, Die
  <2>2. pc[t] \in {"wake", "exwake", "dying"} /\ \E p \in {"out", "dying", "dead"} : pc' = [pc EXCEPT ![t] = p]
    BY <1>3 DEF EndSteps, WakeArg, Die
  <2> QED
    BY <1>0, <2>1, <2>2, ClaimFrame DEF Claimed, Queueing
<1> QED
    BY <1>1, <1>2, <1>3

LEMMA ClaimServed ==
    ASSUME TypeOK, ClaimInv, ServeSteps \/ LeaveSteps
    PROVE  ClaimInv'
<1> USE DEF claim, Goto
<1>1. UNCHANGED <<claim, queued>>
    BY DEF ServeSteps, LeaveSteps, Serve, ServePrepare, ServeTest, ServeBlock, ServeWoken, Work, Reply, WakeArg,
        OwnerExits, OwnerExited, Die, SlotReused
<1>2. \E p : pc' = [pc EXCEPT ![Owner] = p]
    BY DEF ServeSteps, LeaveSteps, Serve, ServePrepare, ServeTest, ServeBlock, TaskBlock, ServeWoken, Woken, Work, Reply,
        WakeArg, OwnerExits, OwnerExited, Die, SlotReused
<1> QED
    BY <1>1, <1>2, ClaimFrame, Constants DEF TypeOK

(* Each keeps to its own code. *)
OwnerCode  == OwnerPCs \cup {"swake", "exiting", "exwake", "dying", "dead", "other"}
CallerCode == CallerPCs \cup {"wake", "exwake", "dying", "dead"}

LEMMA RolesCaller ==
    ASSUME TypeOK, Roles, NEW t \in ep.callers, UNCHANGED ep,
           CallSteps(t) \/ TurnSteps(t) \/ EndSteps(t) \/ ClaimSteps(t)
    PROVE  Roles'
<1> USE DEF Goto
<1>0. pc \in [ChanTasks -> CallerPCs \cup OwnerPCs \cup EndPCs]
      /\ t \in Callers /\ t \in ChanTasks /\ t # Owner /\ Callers \subseteq ChanTasks /\ Owner \in ChanTasks
    BY CallersOf, Constants DEF TypeOK
<1>1. \E p \in CallerCode : pc' = [pc EXCEPT ![t] = p]
  <2>1. CASE CallSteps(t)
    BY <2>1 DEF CallSteps, CopyIn, Handler, CallTask, Post, WakeOwner, CallBlock, TaskBlock, CallWoken, Woken, CallAgain,
        CallRecheck, CopyOut, CallerCode, CallerPCs
  <2>2. CASE TurnSteps(t)
    BY <1>0, <2>2 DEF Roles, TurnSteps, ClaimPrepare, ClaimBlock, TaskBlock, ClaimWoken, Woken, Clock, Expire, CallerCode, CallerPCs
  <2>3. CASE EndSteps(t)
    BY <2>3 DEF EndSteps, WakeArg, Die, CallerCode, CallerPCs
  <2>4. CASE ClaimSteps(t)
    BY <2>4 DEF ClaimSteps, Claim, ClaimTest, Release, CallerExits, CallerCode, CallerPCs
  <2> QED
    BY <2>1, <2>2, <2>3, <2>4
<1> QED
    BY <1>0, <1>1, Constants DEF Roles, CallerCode, OwnerCode

LEMMA RolesOwner ==
    ASSUME TypeOK, Roles, UNCHANGED ep, ServeSteps \/ LeaveSteps
    PROVE  Roles'
<1> USE DEF Goto
<1>0. /\ pc \in [ChanTasks -> CallerPCs \cup OwnerPCs \cup EndPCs] /\ Owner \in ChanTasks
      /\ Callers \subseteq ChanTasks /\ Owner \notin Callers
    BY Constants DEF TypeOK
<1>1. \E p \in OwnerCode : pc' = [pc EXCEPT ![Owner] = p]
    BY DEF ServeSteps, LeaveSteps, Serve, ServePrepare, ServeTest, ServeBlock, TaskBlock, ServeWoken, Woken, Work, Reply,
        WakeArg, OwnerExits, OwnerExited, Die, SlotReused, OwnerCode, OwnerPCs
<1> QED
    BY <1>0, <1>1 DEF Roles, OwnerCode

-----------------------------------------------------------------------------
(* The message in the endpoint.                                            *)

(* One caller is in its call, and it is the one whose request is pending. *)
LEMMA Alone ==
    ASSUME TypeOK, ClaimAccounted, OneMessage
    PROVE  /\ \A t, u \in Callers : pc[t] \in Claimed /\ pc[u] \in Claimed => t = u
           /\ request_pending => caller_pid \in Callers /\ pc[caller_pid] \in Posted
           /\ \A t \in Callers : request_pending /\ pc[t] \in Claimed => caller_pid = t
<1>1. \A t, u \in Callers : pc[t] \in Claimed /\ pc[u] \in Claimed => t = u
    BY DEF ClaimAccounted
<1>2. request_pending => caller_pid \in Callers /\ pc[caller_pid] \in Posted /\ pc[caller_pid] \in Claimed
    BY DEF TypeOK, OneMessage, Posted, Claimed
<1> QED
    BY <1>1, <1>2

(* A step of a caller that is not in its call, before or after. *)
Held == Posted \cup {"call", "post", "handler", "copyout"}

LEMMA MessageFrame ==
    ASSUME TypeOK, OneMessage, UNCHANGED <<call, bufs>>, NEW t \in Callers,
           \/ pc[t] \notin Posted /\ pc'[t] \notin Held
           \/ pc[t] \in Posted /\ pc'[t] \in Posted,
           \A u \in ChanTasks \ {t} : pc'[u] = pc[u]
    PROVE  OneMessage'
<1>0. t # Owner /\ Callers \subseteq ChanTasks /\ Owner \in ChanTasks /\ NoPid \notin Callers
    BY Constants
<1>1. pc'[Owner] = pc[Owner]
    BY <1>0
<1>2. request_pending => caller_pid \in Callers
    BY DEF OneMessage, TypeOK
<1>3. \A u \in Callers : /\ pc'[u] \in Posted => pc[u] \in Posted
                         /\ pc'[u] \in Held => pc[u] \in Posted \/ pc'[u] = pc[u]
                         /\ pc[u] \in Posted => pc'[u] \in Posted
    BY <1>0 DEF Held
<1>4. \A u \in Callers : pc'[u] \in Posted \cup {"call", "post", "handler"} => req_buf = u
    BY <1>3 DEF OneMessage, Held
<1>5. \A u \in Callers : pc'[u] \in Posted \cup {"copyout"} /\ caller_pid # u /\ reply_len = 0 => resp_buf = u
    BY <1>3 DEF OneMessage, Held
<1> QED
    BY <1>1, <1>2, <1>3, <1>4, <1>5 DEF OneMessage, call, bufs

LEMMA MessageOutside ==
    ASSUME TypeOK, OneMessage, NEW t \in Callers, TurnSteps(t) \/ EndSteps(t) \/ ClaimSteps(t)
    PROVE  OneMessage'
<1>0. pc \in [ChanTasks -> CallerPCs \cup OwnerPCs \cup EndPCs] /\ t \in ChanTasks
    BY Constants DEF TypeOK
<1>1. UNCHANGED <<call, bufs>>
    BY DEF TurnSteps, EndSteps, ClaimSteps, ClaimPrepare, ClaimBlock, ClaimWoken, Clock, Expire, WakeArg, Die, Claim,
        ClaimTest, Release, CallerExits
<1>2. pc[t] \notin Posted /\ \E p : p \notin Held /\ pc' = [pc EXCEPT ![t] = p]
  <2>1. CASE TurnSteps(t)
    BY <1>0, <2>1 DEF TurnSteps, ClaimPrepare, ClaimBlock, TaskBlock, ClaimWoken, Woken, Clock, Expire, Goto, Held, Posted
  <2>2. CASE EndSteps(t)
    BY <2>2 DEF EndSteps, WakeArg, Die, Goto, Held, Posted
  <2>3. CASE ClaimSteps(t)
    BY <2>3 DEF ClaimSteps, Claim, ClaimTest, Release, CallerExits, Goto, Held, Posted
  <2> QED
    BY <2>1, <2>2, <2>3
<1> QED
    BY <1>0, <1>1, <1>2, MessageFrame

LEMMA MessageCalled ==
    ASSUME TypeOK, ClaimAccounted, OneMessage, NEW t \in Callers, CallSteps(t)
    PROVE  OneMessage'
<1> USE DEF Goto
<1>0. /\ pc \in [ChanTasks -> CallerPCs \cup OwnerPCs \cup EndPCs] /\ t \in ChanTasks /\ t # Owner /\ t # NoPid
      /\ Callers \subseteq ChanTasks /\ Owner \in ChanTasks
    BY Constants DEF TypeOK
<1>1. pc[t] \in Claimed
    BY DEF CallSteps, CopyIn, Handler, CallTask, Post, WakeOwner, CallBlock, TaskBlock, CallWoken, Woken, CallAgain,
        CallRecheck, CopyOut, Claimed
<1>2. /\ \A u \in Callers \ {t} : pc[u] \notin Claimed
      /\ request_pending => caller_pid = t /\ pc[t] \in Posted
      /\ \A u \in Callers \ {t} : pc[u] \notin Held
    BY <1>1, Alone DEF Claimed, Held, Posted
<1>3. ASSUME pc[t] \notin Posted
      PROVE  /\ ~request_pending /\ caller_pid = NoPid /\ pc[Owner] \notin {"work", "reply"}
    BY <1>2, <1>3 DEF OneMessage
<1>4. CASE CopyIn(t) \/ Handler(t) \/ CallTask(t) \/ Post(t)
  <2>1. pc[t] \in {"copyin", "handler", "call", "post"} /\ pc[t] \notin Posted
    BY <1>4 DEF CopyIn, Handler, CallTask, Post, Posted
  <2>2. \E p : pc' = [pc EXCEPT ![t] = p]
    BY <1>4 DEF CopyIn, Handler, CallTask, Post
  <2>3. /\ pc'[Owner] = pc[Owner] /\ pc'[Owner] \notin {"work", "reply"}
        /\ \A u \in Callers \ {t} : pc'[u] \notin Held
    BY <1>0, <1>2, <1>3, <2>1, <2>2
  <2>4. CASE CopyIn(t)
    <3>1. /\ ~request_pending' /\ caller_pid' = NoPid
          /\ \/ pc'[t] \in {"handler", "call"} /\ req_buf' = t
             \/ pc'[t] = "release"
        BY <1>0, <1>3, <2>1, <2>4 DEF CopyIn, call
    <3> QED
        BY <2>3, <3>1 DEF OneMessage, Posted, Held
  <2>5. CASE Handler(t)
    <3>1. ~request_pending' /\ caller_pid' = NoPid /\ pc'[t] = "copyout" /\ resp_buf' = t
        BY <1>0, <1>3, <2>1, <2>5 DEF Handler, OneMessage
    <3> QED
        BY <2>3, <3>1 DEF OneMessage, Posted, Held
  <2>6. CASE CallTask(t)
    <3>1. ~request_pending' /\ caller_pid' = NoPid /\ pc'[t] \in {"post", "release"} /\ req_buf' = t
        BY <1>0, <1>3, <2>1, <2>6 DEF CallTask, OneMessage, call, bufs
    <3> QED
        BY <2>3, <3>1 DEF OneMessage, Posted, Held
  <2>7. CASE Post(t)
    <3>1. request_pending' /\ caller_pid' = t /\ pc'[t] = "wakeowner" /\ req_buf' = t /\ reply_len' = -1
        BY <1>0, <2>1, <2>7 DEF Post, OneMessage, bufs
    <3> QED
        BY <1>0, <2>3, <3>1 DEF OneMessage, Posted, Held
  <2> QED
    BY <1>4, <2>4, <2>5, <2>6, <2>7
<1>5. CASE WakeOwner(t) \/ CallBlock(t) \/ CallWoken(t) \/ CopyOut(t) \/ (CallAgain(t) /\ caller_pid = t)
           \/ (CallRecheck(t) /\ caller_pid = t)
  <2>1. UNCHANGED <<call, bufs>>
    BY <1>5 DEF WakeOwner, CallBlock, CallWoken, CopyOut, CallAgain, CallRecheck
  <2>2. \/ pc[t] = "copyout" /\ pc' = [pc EXCEPT ![t] = "release"]
        \/ pc[t] \in Posted /\ \E p \in Posted : pc' = [pc EXCEPT ![t] = p]
    BY <1>5 DEF WakeOwner, CallBlock, TaskBlock, CallWoken, Woken, CopyOut, CallAgain, CallRecheck, Posted
  <2>3. \/ pc[t] \notin Posted /\ pc'[t] \notin Held
        \/ pc[t] \in Posted /\ pc'[t] \in Posted
    BY <1>0, <2>2 DEF Posted, Held
  <2>4. \A u \in ChanTasks \ {t} : pc'[u] = pc[u]
    BY <1>0, <2>2
  <2> QED
    BY <2>1, <2>3, <2>4, MessageFrame
<1>6. CASE (CallAgain(t) \/ CallRecheck(t)) /\ caller_pid # t
  <2>1. UNCHANGED <<call, bufs>> /\ pc' = [pc EXCEPT ![t] = "copyout"] /\ pc[t] \in Posted
    BY <1>6 DEF CallAgain, CallRecheck, Posted
  <2>2. ~request_pending /\ caller_pid = NoPid
    BY <1>2, <1>6 DEF OneMessage
  <2>3. pc'[t] = "copyout" /\ \A u \in ChanTasks \ {t} : pc'[u] = pc[u]
    BY <1>0, <2>1
  <2>4. reply_len = 0 => resp_buf = t
    BY <1>6, <2>1 DEF OneMessage
  <2>5. pc'[Owner] \notin {"work", "reply"} /\ \A u \in Callers \ {t} : pc'[u] \notin Held
    BY <1>0, <1>2, <2>2, <2>3 DEF OneMessage
  <2> QED
    BY <2>1, <2>2, <2>3, <2>4, <2>5 DEF OneMessage, Posted, Held, call, bufs
<1> QED
    BY <1>4, <1>5, <1>6 DEF CallSteps

LEMMA MessageServed ==
    ASSUME TypeOK, Roles, ClaimAccounted, OneMessage, ServeSteps \/ LeaveSteps
    PROVE  OneMessage'
<1> USE DEF Goto
<1>0. /\ pc \in [ChanTasks -> CallerPCs \cup OwnerPCs \cup EndPCs]
      /\ Owner \notin Callers /\ Callers \subseteq ChanTasks /\ Owner \in ChanTasks /\ NoPid \notin Callers
    BY Constants DEF TypeOK
<1>1. \E p : pc' = [pc EXCEPT ![Owner] = p]
    BY DEF ServeSteps, LeaveSteps, Serve, ServePrepare, ServeTest, ServeBlock, TaskBlock, ServeWoken, Woken, Work, Reply,
        WakeArg, OwnerExits, OwnerExited, Die, SlotReused
<1>2. (\A u \in Callers : pc'[u] = pc[u]) /\ (request_pending => caller_pid \in Callers)
    BY <1>0, <1>1 DEF TypeOK, OneMessage
<1>3. ASSUME UNCHANGED <<call, bufs>>, pc'[Owner] = "work" => request_pending, pc'[Owner] # "reply"
      PROVE  OneMessage'
    BY <1>2, <1>3 DEF OneMessage, call, bufs
<1>4. CASE Serve \/ ServePrepare \/ ServeTest \/ ServeBlock \/ ServeWoken
    BY <1>0, <1>3, <1>4 DEF Serve, ServePrepare, ServeTest, ServeBlock, TaskBlock, ServeWoken, Woken
<1>5. CASE WakeArg(Owner, "swake", "serve") \/ OwnerExits \/ WakeArg(Owner, "exwake", "dying") \/ Die(Owner)
           \/ SlotReused(Owner)
    BY <1>0, <1>3, <1>5 DEF WakeArg, OwnerExits, Die, SlotReused
<1>6. CASE Work
  <2>1. /\ pc[Owner] = "work" /\ resp_buf' = req_buf /\ pc' = [pc EXCEPT ![Owner] = "reply"]
        /\ UNCHANGED <<call, req_buf>>
    BY <1>6 DEF Work
  <2>2. request_pending /\ caller_pid \in Callers /\ pc[caller_pid] \in Posted /\ req_buf = caller_pid
    BY <1>2, <2>1 DEF OneMessage
  <2>3. \A u \in Callers : pc[u] \in Posted \cup {"copyout"} => caller_pid = u
    BY <2>2, Alone DEF Posted, Claimed
  <2> QED
    BY <1>0, <1>2, <2>1, <2>2, <2>3 DEF OneMessage, call
<1>7. CASE Reply
  <2>1. /\ pc[Owner] = "reply" /\ reply_len' = 0 /\ ~request_pending' /\ caller_pid' = NoPid
        /\ pc' = [pc EXCEPT ![Owner] = "swake"] /\ UNCHANGED bufs
    BY <1>7 DEF Reply, EndCall
  <2>2. request_pending /\ caller_pid \in Callers /\ pc[caller_pid] \in Posted /\ resp_buf = caller_pid
    BY <1>2, <2>1 DEF OneMessage
  <2>3. \A u \in Callers : pc[u] \in Posted \cup {"copyout"} => caller_pid = u
    BY <2>2, Alone DEF Posted, Claimed
  <2> QED
    BY <1>0, <1>2, <2>1, <2>2, <2>3 DEF OneMessage, bufs
<1>8. CASE OwnerExited
  <2>1. CASE ~request_pending
    <3>1. UNCHANGED <<call, bufs>> /\ pc'[Owner] = "exwake"
        BY <1>0, <1>8, <2>1 DEF OwnerExited
    <3> QED
        BY <1>3, <3>1
  <2>2. CASE request_pending
    <3>1. /\ reply_len' = -1 /\ ~request_pending' /\ caller_pid' = NoPid /\ pc'[Owner] = "exwake" /\ UNCHANGED bufs
        BY <1>0, <1>8, <2>2 DEF OwnerExited, EndCall
    <3> QED
        BY <1>2, <3>1 DEF OneMessage, bufs
  <2> QED
    BY <2>1, <2>2
<1> QED
    BY <1>4, <1>5, <1>6, <1>7, <1>8 DEF ServeSteps, LeaveSteps

-----------------------------------------------------------------------------
(* The wakes of a message, task by task.                                   *)
WakesCaller(t) ==
    /\ pc[t] \in {"post", "wakeowner", "block", "recheck"} => Armed(t)
    /\ pc[t] \in {"wakeowner", "block"} /\ caller_pid # t => wk[t] = "token" \/ Replying(t)
    /\ pc[t] = "sleep" /\ wk[t] = "blocked" /\ caller_pid # t => Replying(t)
Calling == \E t \in Callers : pc[t] = "wakeowner"
WakesOwner ==
    /\ pc[Owner] \in {"stest", "sblock"} => Armed(Owner)
    /\ pc[Owner] = "sblock" /\ request_pending => wk[Owner] = "token" \/ Calling
    /\ pc[Owner] = "ssleep" /\ wk[Owner] = "blocked" /\ request_pending => Calling
Asleep(t) == wk[t] = "blocked" => pc[t] \in {"qsleep", "sleep", "ssleep"}
WakeInv == (\A t \in Callers : WakesCaller(t)) /\ WakesOwner /\ \A t \in ChanTasks : Asleep(t)

LEMMA WakeInvIs == WakeInv <=> MessageKept /\ NoLostMessage /\ BlockedAsleep
<1>1. (\A t \in Callers : WakesCaller(t)) /\ WakesOwner <=> MessageKept /\ NoLostMessage
    BY DEF WakesCaller, WakesOwner, Calling, Replying, MessageKept, NoLostMessage
<1> QED
    BY <1>1 DEF WakeInv, Asleep, BlockedAsleep

(* What others do to a task's token: nothing, or they wake it. *)
Kept(t) == /\ Armed(t) => Armed(t)'
           /\ wk[t] = "token" => wk'[t] = "token"
           /\ wk'[t] = "blocked" => wk[t] = "blocked"
Hit(t)  == wk'[t] # "blocked" /\ (Armed(t) => wk'[t] = "token")

LEMMA WakeHits ==
    ASSUME wk \in [ChanTasks -> W!WakeStates], NEW t \in ChanTasks, wk' = W!Unblocked(wk, t)
    PROVE  Hit(t) /\ \A u \in ChanTasks : Kept(u)
<1>1. wk' = [wk EXCEPT ![t] = IF wk[t] = "blocked" THEN "none" ELSE IF wk[t] = "armed" THEN "token" ELSE wk[t]]
    BY TokenCalls
<1> QED
    BY <1>1 DEF Hit, Kept, Armed

LEMMA OwnToken ==
    ASSUME wk \in [ChanTasks -> W!WakeStates], NEW t \in ChanTasks,
           \/ UNCHANGED wk
           \/ wk' \in {W!Prepared(wk, t), W!Finished(wk, t), W!Blocked(wk, t), W!TimedOut(wk, {t})}
    PROVE  \A u \in ChanTasks \ {t} : Kept(u)
<1>1. \/ UNCHANGED wk
      \/ wk' = [wk EXCEPT ![t] = "armed"]
      \/ wk' = [wk EXCEPT ![t] = "none"]
      \/ wk' = [wk EXCEPT ![t] = IF wk[t] = "token" THEN "none" ELSE "blocked"]
    BY TokenCalls, Zenon
<1>2. \A u \in ChanTasks \ {t} : wk'[u] = wk[u]
    BY <1>1
<1> QED
    BY <1>2 DEF Kept, Armed

(* A caller, or the owner, during another's step. *)
LEMMA CallerWaits ==
    ASSUME NEW t \in Callers, WakesCaller(t), pc'[t] = pc[t], Kept(t),
           caller_pid' # t => caller_pid # t \/ Replying(t)',
           Replying(t) => Replying(t)' \/ Hit(t)
    PROVE  WakesCaller(t)'
<1>1. pc[t] \in {"post", "wakeowner", "block", "recheck"} => Armed(t) /\ Armed(t)'
    BY DEF WakesCaller, Kept
<1>2. ASSUME pc[t] \in {"wakeowner", "block"}, caller_pid' # t PROVE wk'[t] = "token" \/ Replying(t)'
    BY <1>1, <1>2 DEF WakesCaller, Kept, Hit
<1>3. ASSUME pc[t] = "sleep", wk'[t] = "blocked", caller_pid' # t PROVE Replying(t)'
    BY <1>3 DEF WakesCaller, Kept, Hit
<1> QED
    BY <1>1, <1>2, <1>3 DEF WakesCaller

LEMMA OwnerWaits ==
    ASSUME WakesOwner, pc'[Owner] = pc[Owner], Kept(Owner),
           request_pending' => request_pending \/ Calling',
           Calling => Calling' \/ Hit(Owner)
    PROVE  WakesOwner'
<1>1. pc[Owner] \in {"stest", "sblock"} => Armed(Owner) /\ Armed(Owner)'
    BY DEF WakesOwner, Kept
<1>2. ASSUME pc[Owner] = "sblock", request_pending' PROVE wk'[Owner] = "token" \/ Calling'
    BY <1>1, <1>2 DEF WakesOwner, Kept, Hit
<1>3. ASSUME pc[Owner] = "ssleep", wk'[Owner] = "blocked", request_pending' PROVE Calling'
    BY <1>3 DEF WakesOwner, Kept, Hit
<1> QED
    BY <1>1, <1>2, <1>3 DEF WakesOwner

(* What a caller's step leaves its own token and the others' as. *)
Local(t) == WakesCaller(t)' /\ Asleep(t)' /\ \A u \in ChanTasks \ {t} : Kept(u)

LEMMA LocalQueue ==
    ASSUME TypeOK, WakeInv, NEW t \in Callers, TurnSteps(t) \/ EndSteps(t) \/ ClaimSteps(t)
    PROVE  Local(t) /\ pc[t] # "wakeowner" /\ UNCHANGED call
<1> USE DEF Goto
<1>0. /\ pc \in [ChanTasks -> CallerPCs \cup OwnerPCs \cup EndPCs] /\ t \in ChanTasks /\ t # Owner
      /\ wk \in [ChanTasks -> W!WakeStates] /\ arg[t] \in ChanTasks \cup {NoPid} /\ Asleep(t)
    BY Constants DEF TypeOK, WakeInv
<1>1. CASE TurnSteps(t)
  <2>1. CASE ClaimPrepare(t) \/ Expire(t)
    <3>1. pc[t] \in Queueing /\ pc'[t] \in Queueing
        BY <1>0, <2>1 DEF ClaimPrepare, Expire, Queueing
    <3>2. \A u \in ChanTasks \ {t} : Kept(u)
        BY <1>0, <2>1, OwnToken DEF ClaimPrepare, Expire
    <3>3. wk'[t] # "blocked" \/ (wk' = wk /\ pc[t] = "top")
        BY <1>0, <2>1, TokenCalls DEF ClaimPrepare, Expire
    <3> QED
        BY <1>0, <2>1, <3>1, <3>2, <3>3 DEF Local, WakesCaller, Asleep, Queueing, ClaimPrepare, Expire
  <2>2. CASE ClaimWoken(t) \/ Clock(t)
    <3>1. \A u \in ChanTasks \ {t} : Kept(u)
        BY <1>0, <2>2, OwnToken DEF ClaimWoken, Clock
    <3> QED
        BY <1>0, <2>2, <3>1 DEF Local, WakesCaller, Asleep, ClaimWoken, Woken, Clock
  <2>3. CASE ClaimBlock(t)
    <3>1. \A u \in ChanTasks \ {t} : Kept(u)
        BY <1>0, <2>3, OwnToken DEF ClaimBlock, TaskBlock
    <3>2. pc[t] = "qblock" /\ wk[t] # "blocked"
        BY <1>0, <2>3 DEF ClaimBlock, TaskBlock, Asleep
    <3>3. pc'[t] \in {"qsleep", "top"} /\ (wk'[t] = "blocked" => pc'[t] = "qsleep")
        BY <1>0, <2>3, <3>2 DEF ClaimBlock, TaskBlock
    <3>4. UNCHANGED call
        BY <2>3 DEF ClaimBlock
    <3> QED
        BY <3>1, <3>2, <3>3, <3>4 DEF Local, WakesCaller, Asleep
  <2> QED
    BY <1>1, <2>1, <2>2, <2>3 DEF TurnSteps
<1>2. CASE EndSteps(t)
  <2>1. pc[t] \in {"wake", "exwake", "dying"} /\ pc'[t] \in {"out", "dying", "dead"} /\ wk[t] # "blocked" /\ UNCHANGED call
    BY <1>0, <1>2 DEF EndSteps, WakeArg, Die, Asleep
  <2>2. \A u \in ChanTasks : Kept(u)
    <3>1. CASE UNCHANGED wk
        BY <3>1 DEF Kept, Armed
    <3>2. CASE arg[t] \in ChanTasks /\ wk' = W!Unblocked(wk, arg[t])
        BY <1>0, <3>2, WakeHits
    <3> QED
        BY <1>0, <1>2, <3>1, <3>2 DEF EndSteps, WakeArg, Die
  <2> QED
    BY <1>0, <2>1, <2>2 DEF Local, WakesCaller, Asleep, Kept
<1>3. CASE ClaimSteps(t)
  <2>1. /\ pc[t] \in {"out", "test", "release", "handler"} /\ UNCHANGED call
        /\ pc'[t] \in {"copyin", "top", "out", "qblock", "wake", "exwake"} /\ wk[t] # "blocked"
    BY <1>0, <1>3 DEF ClaimSteps, Claim, ClaimTest, Release, CallerExits, Asleep
  <2>2. UNCHANGED wk \/ wk' = W!Finished(wk, t)
    BY <1>3 DEF ClaimSteps, Claim, ClaimTest, Release, CallerExits
  <2>3. wk'[t] # "blocked"
    BY <1>0, <2>1, <2>2, TokenCalls
  <2>4. \A u \in ChanTasks \ {t} : Kept(u)
    BY <1>0, <2>2, OwnToken
  <2> QED
    BY <2>1, <2>3, <2>4 DEF Local, WakesCaller, Asleep
<1> QED
    BY <1>1, <1>2, <1>3

LEMMA LocalCall ==
    ASSUME TypeOK, WakeInv, NEW t \in Callers, CallSteps(t)
    PROVE  Local(t) /\ (pc[t] = "wakeowner" => Hit(Owner))
<1> USE DEF Goto
<1>0. /\ pc \in [ChanTasks -> CallerPCs \cup OwnerPCs \cup EndPCs] /\ t \in ChanTasks /\ t # Owner /\ Owner \in ChanTasks
      /\ wk \in [ChanTasks -> W!WakeStates] /\ Asleep(t) /\ WakesCaller(t)
    BY Constants DEF TypeOK, WakeInv
<1>1. CASE CopyIn(t) \/ Handler(t) \/ CopyOut(t)
  <2>1. /\ UNCHANGED wk /\ pc[t] \in {"copyin", "handler", "copyout"}
        /\ pc'[t] \in {"handler", "call", "release", "copyout"}
    BY <1>0, <1>1 DEF CopyIn, Handler, CopyOut
  <2>2. \A u \in ChanTasks \ {t} : Kept(u)
    BY <2>1 DEF Kept, Armed
  <2> QED
    BY <1>0, <2>1, <2>2 DEF Local, WakesCaller, Asleep
<1>2. CASE CallTask(t) \/ CallAgain(t) \/ CallRecheck(t)
  <2>1. \A u \in ChanTasks \ {t} : Kept(u)
    BY <1>0, <1>2, OwnToken DEF CallTask, CallAgain, CallRecheck
  <2>2. /\ pc[t] \in {"call", "again", "recheck"} /\ wk[t] # "blocked" /\ UNCHANGED call
    BY <1>0, <1>2 DEF CallTask, CallAgain, CallRecheck, Asleep
  <2>3. \/ pc'[t] \in {"release", "copyout"} /\ (UNCHANGED wk \/ wk' = [wk EXCEPT ![t] = "none"])
        \/ pc'[t] \in {"post", "recheck"} /\ wk' = [wk EXCEPT ![t] = "armed"]
        \/ pc[t] = "recheck" /\ pc'[t] = "block" /\ caller_pid = t /\ UNCHANGED wk
    BY <1>0, <1>2, TokenCalls DEF CallTask, CallAgain, CallRecheck
  <2> QED
    BY <1>0, <2>1, <2>2, <2>3 DEF Local, WakesCaller, Asleep, Armed, call
<1>3. CASE Post(t)
  <2>1. pc[t] = "post" /\ pc'[t] = "wakeowner" /\ UNCHANGED wk /\ caller_pid' = t
    BY <1>0, <1>3 DEF Post
  <2>2. \A u \in ChanTasks \ {t} : Kept(u)
    BY <2>1 DEF Kept, Armed
  <2> QED
    BY <1>0, <2>1, <2>2 DEF Local, WakesCaller, Asleep, Armed
<1>4. CASE WakeOwner(t)
  <2>1. /\ pc[t] = "wakeowner" /\ pc'[t] = "block" /\ wk' = W!Unblocked(wk, Owner) /\ UNCHANGED <<call, arg>>
        /\ pc'[Owner] = pc[Owner]
    BY <1>0, <1>4 DEF WakeOwner
  <2>2. Hit(Owner) /\ \A u \in ChanTasks : Kept(u)
    BY <1>0, <2>1, WakeHits
  <2>3. WakesCaller(t)'
    BY <1>0, <2>1, <2>2 DEF WakesCaller, Kept, Replying, call
  <2> QED
    BY <1>0, <2>1, <2>2, <2>3 DEF Local, Asleep, Kept
<1>5. CASE CallBlock(t)
  <2>1. pc[t] = "block" /\ UNCHANGED <<call, arg>> /\ pc'[Owner] = pc[Owner] /\ Armed(t)
    BY <1>0, <1>5 DEF CallBlock, TaskBlock, WakesCaller
  <2>2. \A u \in ChanTasks \ {t} : Kept(u)
    BY <1>0, <1>5, OwnToken DEF CallBlock, TaskBlock
  <2>3. \/ pc'[t] = "again" /\ wk'[t] # "blocked"
        \/ pc'[t] = "sleep" /\ wk[t] # "token"
    <3>1. CASE UNCHANGED wk /\ pc'[t] = "again"
        BY <2>1, <3>1 DEF Armed
    <3>2. CASE wk' = [wk EXCEPT ![t] = IF wk[t] = "token" THEN "none" ELSE "blocked"]
      <4>1. \/ pc' = [pc EXCEPT ![t] = IF wk'[t] = "blocked" THEN "sleep" ELSE "again"]
            \/ pc'[t] = "again" /\ UNCHANGED wk
        BY <1>0, <1>5 DEF CallBlock, TaskBlock
      <4> QED
        BY <1>0, <2>1, <3>2, <4>1 DEF Armed
    <3> QED
        BY <1>0, <1>5, <3>1, <3>2, TokenCalls DEF CallBlock, TaskBlock
  <2> QED
    BY <1>0, <2>1, <2>2, <2>3 DEF Local, WakesCaller, Asleep, Replying, call
<1>6. CASE CallWoken(t)
  <2>1. pc[t] = "sleep" /\ pc'[t] = "again" /\ UNCHANGED wk /\ wk[t] # "blocked"
    BY <1>0, <1>6 DEF CallWoken, Woken
  <2>2. \A u \in ChanTasks \ {t} : Kept(u)
    BY <2>1 DEF Kept, Armed
  <2> QED
    BY <2>1, <2>2 DEF Local, WakesCaller, Asleep
<1> QED
    BY <1>1, <1>2, <1>3, <1>4, <1>5, <1>6 DEF CallSteps

(* Every step of a caller keeps the wakes. *)
LEMMA WakesCalled ==
    ASSUME TypeOK, ClaimAccounted, OneMessage, WakeInv, NEW t \in Callers,
           CallSteps(t) \/ TurnSteps(t) \/ EndSteps(t) \/ ClaimSteps(t)
    PROVE  WakeInv'
<1>0. /\ pc \in [ChanTasks -> CallerPCs \cup OwnerPCs \cup EndPCs] /\ arg \in [ChanTasks -> ChanTasks \cup {NoPid}]
      /\ t \in ChanTasks /\ t # Owner /\ Owner \in ChanTasks /\ Callers \subseteq ChanTasks /\ NoPid \notin Callers
      /\ Owner \notin Callers /\ ChanTasks = Callers \cup {Owner}
    BY Constants DEF TypeOK
<1>1. Local(t) /\ (pc[t] = "wakeowner" => Hit(Owner))
    BY LocalCall, LocalQueue
<1>2. \E p : pc' = [pc EXCEPT ![t] = p]
  <2>1. CASE CallSteps(t)
    BY <2>1 DEF CallSteps, CopyIn, Handler, CallTask, Post, WakeOwner, CallBlock, TaskBlock, CallWoken, Woken, CallAgain,
        CallRecheck, CopyOut, Goto
  <2>2. CASE TurnSteps(t)
    BY <1>0, <2>2 DEF TurnSteps, ClaimPrepare, ClaimBlock, TaskBlock, ClaimWoken, Woken, Clock, Expire, Goto
  <2>3. CASE EndSteps(t) \/ ClaimSteps(t)
    BY <2>3 DEF EndSteps, WakeArg, Die, ClaimSteps, Claim, ClaimTest, Release, CallerExits, Goto
  <2> QED
    BY <2>1, <2>2, <2>3
<1>3. arg'[Owner] = arg[Owner]
  <2>1. CASE CallSteps(t)
    BY <2>1 DEF CallSteps, CopyIn, Handler, CallTask, Post, WakeOwner, CallBlock, CallWoken, CallAgain, CallRecheck, CopyOut
  <2>2. CASE TurnSteps(t) \/ EndSteps(t)
    BY <1>0, <2>2 DEF TurnSteps, ClaimPrepare, ClaimBlock, ClaimWoken, Clock, Expire, EndSteps, WakeArg, Die
  <2>3. CASE ClaimSteps(t)
    BY <1>0, <2>3 DEF ClaimSteps, Claim, ClaimTest, Release, CallerExits, ReleaseLocked
  <2> QED
    BY <2>1, <2>2, <2>3
<1>4. \/ UNCHANGED call
      \/ pc[t] = "handler" /\ UNCHANGED <<caller_pid, request_pending>>
      \/ pc[t] = "post" /\ pc'[t] = "wakeowner" /\ caller_pid = NoPid /\ caller_pid' = t
  <2>1. CASE CallSteps(t)
    <3>1. CASE Post(t)
      <4>1. pc[t] = "post" /\ pc'[t] = "wakeowner" /\ caller_pid' = t
        BY <1>0, <3>1 DEF Post, Goto
      <4>2. ~request_pending
        BY <1>0, <4>1, Alone DEF Claimed, Posted
      <4> QED
        BY <4>1, <4>2 DEF OneMessage
    <3> QED
        BY <2>1, <3>1 DEF CallSteps, CopyIn, Handler, CallTask, WakeOwner, CallBlock, CallWoken, CallAgain, CallRecheck,
            CopyOut
  <2> QED
    BY <2>1, LocalQueue
<1>5. pc'[Owner] = pc[Owner] /\ \A u \in Callers \ {t} : pc'[u] = pc[u]
    BY <1>0, <1>2
<1>6. ASSUME NEW u \in Callers PROVE WakesCaller(u)'
  <2>1. CASE u = t
    BY <1>1, <2>1 DEF Local
  <2>2. CASE u # t
    <3>1. WakesCaller(u) /\ pc'[u] = pc[u] /\ Kept(u)
        BY <1>0, <1>1, <1>5, <2>2 DEF WakeInv, Local
    <3>2. Replying(u) => Replying(u)'
        BY <1>3, <1>5 DEF Replying
    <3>3. caller_pid' # u => caller_pid # u
        BY <1>0, <1>4 DEF call
    <3> QED
        BY <3>1, <3>2, <3>3, CallerWaits
  <2> QED
    BY <2>1, <2>2
<1>7. WakesOwner'
  <2>1. Kept(Owner) /\ WakesOwner
    BY <1>0, <1>1 DEF Local, WakeInv
  <2>2. request_pending' => request_pending \/ Calling'
    BY <1>4 DEF Calling, call
  <2>3. Calling => Calling' \/ Hit(Owner)
    BY <1>1, <1>5 DEF Calling
  <2> QED
    BY <1>5, <2>1, <2>2, <2>3, OwnerWaits
<1>8. ASSUME NEW u \in ChanTasks PROVE Asleep(u)'
    BY <1>0, <1>1, <1>5 DEF Local, Asleep, Kept, WakeInv
<1> QED
    BY <1>6, <1>7, <1>8 DEF WakeInv

(* Every step of the owner keeps the wakes. *)
LEMMA WakesServed ==
    ASSUME TypeOK, Roles, ClaimAccounted, OneMessage, WakeInv, ServeSteps \/ LeaveSteps
    PROVE  WakeInv'
<1> USE DEF Goto
<1>0. /\ pc \in [ChanTasks -> CallerPCs \cup OwnerPCs \cup EndPCs] /\ arg \in [ChanTasks -> ChanTasks \cup {NoPid}]
      /\ Owner \in ChanTasks /\ Callers \subseteq ChanTasks /\ Owner \notin Callers /\ NoPid \notin Callers
      /\ wk \in [ChanTasks -> W!WakeStates] /\ ChanTasks = Callers \cup {Owner} /\ NoPid \notin ChanTasks
      /\ WakesOwner /\ Asleep(Owner) /\ \A t \in Callers : WakesCaller(t) /\ Asleep(t)
    BY Constants DEF TypeOK, WakeInv
<1>1. \E p : pc' = [pc EXCEPT ![Owner] = p]
    BY DEF ServeSteps, LeaveSteps, Serve, ServePrepare, ServeTest, ServeBlock, TaskBlock, ServeWoken, Woken, Work, Reply,
        WakeArg, OwnerExits, OwnerExited, Die, SlotReused
<1>2. (\A u \in Callers : pc'[u] = pc[u]) /\ (Calling <=> Calling')
    BY <1>0, <1>1 DEF Calling
<1>3. ASSUME \A t \in Callers : Kept(t), \A t \in Callers : WakesCaller(t)', WakesOwner', Asleep(Owner)'
      PROVE  WakeInv'
  <2>1. \A t \in Callers : Asleep(t)'
    BY <1>0, <1>2, <1>3 DEF Asleep, Kept
  <2> QED
    BY <1>0, <1>3, <2>1 DEF WakeInv
<1>4. ASSUME pc[Owner] \notin {"swake", "exwake"}, UNCHANGED caller_pid,
             \A t \in Callers : Kept(t), NEW t \in Callers
      PROVE  WakesCaller(t)'
  <2>1. ~Replying(t)
    BY <1>4 DEF Replying
  <2> QED
    BY <1>0, <1>2, <1>4, <2>1, CallerWaits
<1>5. CASE Serve \/ ServePrepare \/ ServeTest \/ ServeWoken
  <2>1. /\ pc[Owner] \in {"serve", "prepare", "stest", "ssleep"} /\ UNCHANGED call
        /\ pc'[Owner] \in {"work", "prepare", "stest", "sblock"}
    BY <1>0, <1>5 DEF Serve, ServePrepare, ServeTest, ServeWoken, Woken
  <2>2. \A t \in Callers : Kept(t)
    BY <1>0, <1>5, OwnToken DEF Serve, ServePrepare, ServeTest, ServeWoken
  <2>3. \A t \in Callers : WakesCaller(t)'
    BY <1>4, <2>1, <2>2 DEF call
  <2>4. wk[Owner] # "blocked"
    BY <1>0, <1>5 DEF Serve, ServePrepare, ServeTest, ServeWoken, Woken, Asleep
  <2>5. \/ pc'[Owner] = "stest" /\ wk' = [wk EXCEPT ![Owner] = "armed"]
        \/ pc[Owner] = "stest" /\ pc'[Owner] = "sblock" /\ UNCHANGED wk /\ ~request_pending
        \/ pc'[Owner] = "work" /\ wk' = [wk EXCEPT ![Owner] = "none"]
        \/ pc'[Owner] \in {"work", "prepare"} /\ UNCHANGED wk
    <3>1. CASE Serve \/ ServeWoken
      BY <1>0, <3>1 DEF Serve, ServeWoken, Woken
    <3>2. CASE ServePrepare
      <4>1. W!Prepared(wk, Owner) = [wk EXCEPT ![Owner] = "armed"]
        BY <1>0, TokenCalls
      <4> QED
        BY <1>0, <3>2, <4>1 DEF ServePrepare
    <3>3. CASE ServeTest
      <4>1. W!Finished(wk, Owner) = [wk EXCEPT ![Owner] = "none"]
        BY <1>0, TokenCalls
      <4> QED
        BY <1>0, <3>3, <4>1 DEF ServeTest
    <3> QED
      BY <1>5, <3>1, <3>2, <3>3
  <2>6. WakesOwner' /\ Asleep(Owner)'
    BY <1>0, <2>1, <2>4, <2>5 DEF WakesOwner, Asleep, Armed, call
  <2> QED
    BY <1>3, <2>2, <2>3, <2>6
<1>6. CASE ServeBlock
  <2>1. pc[Owner] = "sblock" /\ UNCHANGED call /\ Armed(Owner)
    BY <1>0, <1>6 DEF ServeBlock, TaskBlock, WakesOwner
  <2>2. \A t \in Callers : Kept(t)
    BY <1>0, <1>6, OwnToken DEF ServeBlock, TaskBlock
  <2>3. \A t \in Callers : WakesCaller(t)'
    BY <1>4, <2>1, <2>2 DEF call
  <2>4. \/ pc'[Owner] = "prepare" /\ wk'[Owner] # "blocked"
        \/ pc'[Owner] = "ssleep" /\ wk[Owner] # "token"
    <3>1. CASE UNCHANGED wk /\ pc'[Owner] = "prepare"
        BY <2>1, <3>1 DEF Armed
    <3>2. CASE wk' = [wk EXCEPT ![Owner] = IF wk[Owner] = "token" THEN "none" ELSE "blocked"]
      <4>1. \/ pc' = [pc EXCEPT ![Owner] = IF wk'[Owner] = "blocked" THEN "ssleep" ELSE "prepare"]
            \/ pc'[Owner] = "prepare" /\ UNCHANGED wk
        BY <1>0, <1>6 DEF ServeBlock, TaskBlock
      <4> QED
        BY <1>0, <2>1, <3>2, <4>1 DEF Armed
    <3> QED
        BY <1>0, <1>6, <3>1, <3>2, TokenCalls DEF ServeBlock, TaskBlock
  <2>5. WakesOwner' /\ Asleep(Owner)'
    BY <1>0, <1>2, <2>1, <2>4 DEF WakesOwner, Asleep, call
  <2> QED
    BY <1>3, <2>2, <2>3, <2>5
<1>7. CASE Work \/ OwnerExits \/ Die(Owner) \/ SlotReused(Owner)
  <2>1. /\ pc[Owner] \in {"serve", "work", "dying", "dead"} /\ pc'[Owner] \in {"reply", "exiting", "dead", "other"}
        /\ UNCHANGED <<call, wk>>
    BY <1>0, <1>7 DEF Work, OwnerExits, Die, SlotReused
  <2>2. \A t \in Callers : Kept(t)
    BY <2>1 DEF Kept, Armed
  <2>3. \A t \in Callers : WakesCaller(t)'
    BY <1>4, <2>1, <2>2 DEF call
  <2> QED
    BY <1>0, <1>3, <2>1, <2>2, <2>3 DEF WakesOwner, Asleep
<1>8. CASE Reply \/ OwnerExited
  <2>1. /\ pc[Owner] \in {"reply", "exiting"} /\ pc'[Owner] \in {"swake", "exwake"} /\ UNCHANGED wk
        /\ \/ arg'[Owner] = caller_pid /\ caller_pid' = NoPid
           \/ UNCHANGED caller_pid
    BY <1>0, <1>8 DEF Reply, OwnerExited, EndCall, call
  <2>2. \A t \in Callers : Kept(t)
    BY <2>1 DEF Kept, Armed
  <2>3. ASSUME NEW t \in Callers PROVE WakesCaller(t)'
    <3>1. ~Replying(t)
        BY <2>1 DEF Replying
    <3>2. caller_pid' # t => caller_pid # t \/ Replying(t)'
        BY <1>0, <2>1 DEF Replying
    <3> QED
        BY <1>0, <1>2, <2>2, <3>1, <3>2, CallerWaits
  <2> QED
    BY <1>0, <1>3, <2>1, <2>2, <2>3 DEF WakesOwner, Asleep
<1>9. CASE WakeArg(Owner, "swake", "serve") \/ WakeArg(Owner, "exwake", "dying")
  <2>1. /\ pc[Owner] \in {"swake", "exwake"} /\ pc'[Owner] \in {"serve", "dying"} /\ UNCHANGED call
        /\ wk' = IF arg[Owner] = NoPid THEN wk ELSE W!Unblocked(wk, arg[Owner])
    BY <1>0, <1>9 DEF WakeArg
  <2>2. (\A t \in ChanTasks : Kept(t)) /\ (arg[Owner] # NoPid => Hit(arg[Owner]))
    <3>1. CASE arg[Owner] = NoPid
        BY <2>1, <3>1 DEF Kept, Armed
    <3>2. CASE arg[Owner] # NoPid
      <4>1. arg[Owner] \in ChanTasks /\ wk' = W!Unblocked(wk, arg[Owner])
        BY <1>0, <2>1, <3>2
      <4>2. Hit(arg[Owner]) /\ \A u \in ChanTasks : Kept(u)
        BY <1>0, <4>1, WakeHits
      <4> QED
        BY <4>2
    <3> QED
        BY <3>1, <3>2
  <2>3. ASSUME NEW t \in Callers PROVE WakesCaller(t)'
    <3>1. Replying(t) => Hit(t)
        BY <1>0, <2>2 DEF Replying
    <3> QED
        BY <1>0, <1>2, <2>1, <2>2, <3>1, CallerWaits DEF call
  <2>4. Asleep(Owner)' /\ WakesOwner'
    BY <1>0, <2>1, <2>2 DEF WakesOwner, Asleep, Kept
  <2>5. \A t \in Callers : Kept(t)
    BY <1>0, <2>2
  <2> QED
    BY <1>3, <2>3, <2>4, <2>5
<1> QED
    BY <1>5, <1>6, <1>7, <1>8, <1>9 DEF ServeSteps, LeaveSteps

-----------------------------------------------------------------------------
(* The invariant, step by step. *)
LEMMA EndpointStep == EndpointInv /\ [Next]_vars => EndpointInv'
<1> SUFFICES ASSUME EndpointInv, [Next]_vars PROVE EndpointInv'
    OBVIOUS
<1>0. TypeOK /\ Roles /\ ClaimInv /\ OneMessage /\ WakeInv /\ ClaimAccounted
    BY WakeInvIs DEF EndpointInv, ClaimInv
<1>1. SUFFICES TypeOK' /\ Roles' /\ ClaimInv' /\ OneMessage' /\ WakeInv'
  <2>1. ASSUME WakeInv' PROVE MessageKept' /\ NoLostMessage' /\ BlockedAsleep'
    <3>1. (WakeInv <=> MessageKept /\ NoLostMessage /\ BlockedAsleep)'
        BY WakeInvIs, PTL
    <3> QED
        BY <2>1, <3>1
  <2> QED
    BY <2>1 DEF EndpointInv, ClaimInv
<1>2. CASE UNCHANGED vars
    BY <1>0, <1>2 DEF vars, claim, call, bufs, TypeOK, Roles, ClaimInv, ClaimAccounted, NoOvertaking, QueueOrder, OneMessage,
        WakeInv, WakesCaller, WakesOwner, Asleep, Armed, Replying, Calling
<1>3. CASE (ServeSteps \/ LeaveSteps) /\ UNCHANGED ep
    BY <1>0, <1>3, ServeTyped, RolesOwner, ClaimServed, MessageServed, WakesServed
<1>4. ASSUME NEW t \in ep.callers, UNCHANGED ep, CallSteps(t) \/ TurnSteps(t) \/ EndSteps(t) \/ ClaimSteps(t)
      PROVE  TypeOK' /\ Roles' /\ ClaimInv' /\ OneMessage' /\ WakeInv'
  <2>1. t \in Callers
    BY <1>0, <1>4, CallersOf
  <2>2. Roles' /\ WakeInv'
    BY <1>0, <1>4, <2>1, RolesCaller, WakesCalled
  <2>3. OneMessage'
    BY <1>0, <1>4, <2>1, MessageCalled, MessageOutside
  <2>4. TypeOK' /\ ClaimInv'
    BY <1>0, <1>4, <2>1, CallTyped, TurnTyped, ClaimTyped, ClaimKept
  <2> QED
    BY <2>2, <2>3, <2>4
<1> QED
    BY <1>2, <1>3, <1>4, Steps

LEMMA EndpointHolds == Spec => []EndpointInv
BY EndpointInit, EndpointStep, PTL DEF Spec

-----------------------------------------------------------------------------
(* With a place for everyone nobody finds the queue full: neither a task   *)
(* that is about to join nor the holder is in it.                          *)
LEMMA RoomForAll ==
    ASSUME EndpointInv, Roomy, busy, NEW t \in ep.callers, pc[t] = "out"
    PROVE  HasRoom
<1>0. /\ wq \in Seq(Callers) /\ Len(wq) \in Nat /\ WaitQLen \in Nat /\ t \in Callers /\ ep.callers \subseteq Callers
      /\ IsFiniteSet(Callers) /\ TypeOK
    BY Constants, CallersOf DEF EndpointInv, TypeOK
<1>1. /\ holder \in Callers /\ pc[holder] \in Claimed \cup Queueing
      /\ \A i \in 1..Len(wq) : wq[i] # holder
    BY DEF EndpointInv, ClaimAccounted, QueueOrder, Claimed, Queueing
<1>2. holder # t /\ holder \in ep.callers
    BY <1>1 DEF EndpointInv, Roles, Claimed, Queueing
<1>3. \A i \in 1..Len(wq) : wq[i] \in (ep.callers \ {t}) \ {holder}
  <2> TAKE i \in 1..Len(wq)
  <2>1. wq[i] \in Callers /\ pc[wq[i]] \in Queueing
    BY <1>0 DEF EndpointInv, QueueOrder
  <2>2. wq[i] # t /\ wq[i] \in ep.callers
    BY <2>1 DEF EndpointInv, Roles, Queueing
  <2> QED
    BY <1>1, <2>2
<1>4. /\ IsFiniteSet(ep.callers) /\ Cardinality(ep.callers) \in Nat
    BY <1>0, FS_Subset, FS_CardinalityType
<1>5. /\ IsFiniteSet(ep.callers \ {t}) /\ Cardinality(ep.callers \ {t}) = Cardinality(ep.callers) - 1
    BY <1>4, FS_RemoveElement
<1>6. /\ IsFiniteSet((ep.callers \ {t}) \ {holder})
      /\ Cardinality((ep.callers \ {t}) \ {holder}) = Cardinality(ep.callers) - 2
  <2>1. holder \in ep.callers \ {t}
    BY <1>2
  <2>2. /\ IsFiniteSet((ep.callers \ {t}) \ {holder})
        /\ Cardinality((ep.callers \ {t}) \ {holder}) = Cardinality(ep.callers \ {t}) - 1
    BY ONLY <1>5, <2>1, FS_RemoveElement
  <2> QED
    BY <1>4, <1>5, <2>2
<1>7. IsFiniteSet(1..Len(wq)) /\ Cardinality(1..Len(wq)) = Len(wq)
    BY <1>0, FS_Interval
<1>8. wq \in [1..Len(wq) -> (ep.callers \ {t}) \ {holder}]
    BY <1>0, <1>3
<1>9. ~(Cardinality(ep.callers) - 2 < Len(wq))
  <2> SUFFICES ASSUME Cardinality(ep.callers) - 2 < Len(wq) PROVE FALSE
    OBVIOUS
  <2>1. \E x, y \in 1..Len(wq) : x # y /\ wq[x] = wq[y]
    <3> DEFINE S == 1..Len(wq)
               T == (ep.callers \ {t}) \ {holder}
    <3>1. IsFiniteSet(S) /\ IsFiniteSet(T) /\ Cardinality(T) < Cardinality(S) /\ wq \in [S -> T]
        BY <1>6, <1>7, <1>8
    <3> HIDE DEF S, T
    <3>2. \E x, y \in S : x # y /\ wq[x] = wq[y]
        BY <3>1, FS_PigeonHole
    <3> QED
        BY <3>2 DEF S
  <2> QED
    BY <2>1 DEF EndpointInv, QueueOrder
<1> QED
    BY <1>0, <1>4, <1>9 DEF Roomy, HasRoom

(* A waiter and the wake of its turn. *)
Turn(t) ==
    /\ pc[t] \in Queueing => queued[t]
    /\ pc[t] \in {"test", "qblock"} => Armed(t)
    /\ pc[t] = "qblock" /\ handed_to = t => wk[t] = "token" \/ Turning(t)
    /\ pc[t] = "qsleep" /\ wk[t] = "blocked" /\ handed_to = t => Turning(t)

LEMMA TurnsAre == TurnsKept <=> (Roomy => \A t \in Callers : Turn(t))
BY DEF TurnsKept, TurnKept, Turn, Turning

(* A waiter during another's step. *)
LEMMA TurnWaits ==
    ASSUME NEW t \in Callers, Turn(t), pc'[t] = pc[t], queued'[t] = queued[t], Kept(t),
           handed_to' = t => handed_to = t \/ Turning(t)',
           Turning(t) => Turning(t)' \/ Hit(t)
    PROVE  Turn(t)'
<1>1. pc[t] \in {"test", "qblock"} => Armed(t) /\ Armed(t)'
    BY DEF Turn, Kept
<1>2. ASSUME pc[t] = "qblock", handed_to' = t PROVE wk'[t] = "token" \/ Turning(t)'
    BY <1>1, <1>2 DEF Turn, Kept, Hit
<1>3. ASSUME pc[t] = "qsleep", wk'[t] = "blocked", handed_to' = t PROVE Turning(t)'
    BY <1>3 DEF Turn, Kept, Hit
<1>4. pc'[t] \in Queueing => queued'[t]
    BY DEF Turn
<1> QED
    BY <1>1, <1>2, <1>3, <1>4 DEF Turn

(* What a step of task a leaves of the wakes on their way. *)
LEMMA TurningKept ==
    ASSUME NEW a \in ChanTasks, NEW t \in Callers, Turning(t),
           \A u \in ChanTasks \ {a} : pc'[u] = pc[u] /\ arg'[u] = arg[u],
           pc[a] \in {"wake", "exwake"} /\ arg[a] # NoPid => Hit(arg[a])
    PROVE  Turning(t)' \/ Hit(t)
BY Constants DEF Turning

(* Which tasks a step touches. *)
Only(a) == /\ \A u \in ChanTasks \ {a} : pc'[u] = pc[u] /\ arg'[u] = arg[u] /\ Kept(u)
           /\ \A u \in Callers \ {a} : queued'[u] = queued[u]
           /\ pc[a] \in {"wake", "exwake"} /\ arg[a] # NoPid => Hit(arg[a])

LEMMA OnlyCaller ==
    ASSUME EndpointInv, NEW t \in Callers, CallSteps(t) \/ TurnSteps(t) \/ EndSteps(t) \/ ClaimSteps(t)
    PROVE  Only(t)
<1> USE DEF Goto
<1>0. /\ pc \in [ChanTasks -> CallerPCs \cup OwnerPCs \cup EndPCs] /\ arg \in [ChanTasks -> ChanTasks \cup {NoPid}]
      /\ t \in ChanTasks /\ Callers \subseteq ChanTasks /\ queued \in [Callers -> BOOLEAN]
      /\ wk \in [ChanTasks -> W!WakeStates] /\ TypeOK /\ WakeInv
    BY Constants, WakeInvIs DEF EndpointInv, TypeOK
<1>1. Local(t)
    BY <1>0, LocalCall, LocalQueue
<1>2. \E p : pc' = [pc EXCEPT ![t] = p]
  <2>1. CASE CallSteps(t)
    BY <2>1 DEF CallSteps, CopyIn, Handler, CallTask, Post, WakeOwner, CallBlock, TaskBlock, CallWoken, Woken, CallAgain,
        CallRecheck, CopyOut
  <2>2. CASE TurnSteps(t)
    BY <1>0, <2>2 DEF TurnSteps, ClaimPrepare, ClaimBlock, TaskBlock, ClaimWoken, Woken, Clock, Expire
  <2>3. CASE EndSteps(t) \/ ClaimSteps(t)
    BY <2>3 DEF EndSteps, WakeArg, Die, ClaimSteps, Claim, ClaimTest, Release, CallerExits
  <2> QED
    BY <2>1, <2>2, <2>3
<1>3. \A u \in ChanTasks \ {t} : arg'[u] = arg[u]
  <2>1. CASE CallSteps(t)
    BY <2>1 DEF CallSteps, CopyIn, Handler, CallTask, Post, WakeOwner, CallBlock, CallWoken, CallAgain, CallRecheck, CopyOut
  <2>2. CASE TurnSteps(t) \/ EndSteps(t)
    BY <1>0, <2>2 DEF TurnSteps, ClaimPrepare, ClaimBlock, ClaimWoken, Clock, Expire, EndSteps, WakeArg, Die
  <2>3. CASE ClaimSteps(t)
    BY <1>0, <2>3 DEF ClaimSteps, Claim, ClaimTest, Release, CallerExits, ReleaseLocked
  <2> QED
    BY <2>1, <2>2, <2>3
<1>4. \A u \in Callers \ {t} : queued'[u] = queued[u]
  <2>1. CASE CallSteps(t)
    BY <2>1 DEF CallSteps, CopyIn, Handler, CallTask, Post, WakeOwner, CallBlock, CallWoken, CallAgain, CallRecheck, CopyOut
  <2>2. CASE TurnSteps(t) \/ EndSteps(t)
    BY <2>2 DEF TurnSteps, ClaimPrepare, ClaimBlock, ClaimWoken, Clock, Expire, EndSteps, WakeArg, Die
  <2>3. CASE ClaimSteps(t)
    BY <1>0, <2>3 DEF ClaimSteps, Claim, ClaimTest, Release, CallerExits
  <2> QED
    BY <2>1, <2>2, <2>3
<1>5. ASSUME pc[t] \in {"wake", "exwake"}, arg[t] # NoPid PROVE Hit(arg[t])
  <2>1. EndSteps(t)
    BY <1>5 DEF CallSteps, CopyIn, Handler, CallTask, Post, WakeOwner, CallBlock, TaskBlock, CallWoken, Woken, CallAgain,
        CallRecheck, CopyOut, TurnSteps, ClaimPrepare, ClaimBlock, ClaimWoken, Clock, Expire, ClaimSteps, Claim, ClaimTest,
        Release, CallerExits
  <2>2. arg[t] \in ChanTasks /\ wk' = W!Unblocked(wk, arg[t])
    BY <1>0, <1>5, <2>1 DEF EndSteps, WakeArg, Die
  <2>3. Hit(arg[t]) /\ \A u \in ChanTasks : Kept(u)
    BY <1>0, <2>2, WakeHits
  <2> QED
    BY <2>3
<1> QED
    BY <1>0, <1>1, <1>2, <1>3, <1>4, <1>5 DEF Only, Local

LEMMA OnlyOwner ==
    ASSUME EndpointInv, ServeSteps \/ LeaveSteps
    PROVE  Only(Owner) /\ UNCHANGED handed_to
<1> USE DEF Goto
<1>0. /\ pc \in [ChanTasks -> CallerPCs \cup OwnerPCs \cup EndPCs] /\ arg \in [ChanTasks -> ChanTasks \cup {NoPid}]
      /\ Owner \in ChanTasks /\ Callers \subseteq ChanTasks /\ wk \in [ChanTasks -> W!WakeStates]
    BY Constants DEF EndpointInv, TypeOK
<1>1. \E p : pc' = [pc EXCEPT ![Owner] = p]
    BY DEF ServeSteps, LeaveSteps, Serve, ServePrepare, ServeTest, ServeBlock, TaskBlock, ServeWoken, Woken, Work, Reply,
        WakeArg, OwnerExits, OwnerExited, Die, SlotReused
<1>2. UNCHANGED <<queued, handed_to>>
    BY DEF ServeSteps, LeaveSteps, Serve, ServePrepare, ServeTest, ServeBlock, ServeWoken, Work, Reply, WakeArg,
        OwnerExits, OwnerExited, Die, SlotReused, claim
<1>3. UNCHANGED arg \/ \E x : arg' = [arg EXCEPT ![Owner] = x]
    BY DEF ServeSteps, LeaveSteps, Serve, ServePrepare, ServeTest, ServeBlock, ServeWoken, Work, Reply, EndCall, WakeArg,
        OwnerExits, OwnerExited, Die, SlotReused
<1>4. CASE pc[Owner] \in {"swake", "exwake"}
  <2>1. wk' = IF arg[Owner] = NoPid THEN wk ELSE W!Unblocked(wk, arg[Owner])
    BY <1>4 DEF ServeSteps, LeaveSteps, Serve, ServePrepare, ServeTest, ServeBlock, TaskBlock, ServeWoken, Woken, Work,
        Reply, WakeArg, OwnerExits, OwnerExited, Die, SlotReused
  <2>2. (\A t \in ChanTasks : Kept(t)) /\ (arg[Owner] # NoPid => Hit(arg[Owner]))
    <3>1. CASE arg[Owner] = NoPid
        BY <2>1, <3>1 DEF Kept, Armed
    <3>2. CASE arg[Owner] # NoPid
      <4>1. arg[Owner] \in ChanTasks /\ wk' = W!Unblocked(wk, arg[Owner])
        BY <1>0, <2>1, <3>2
      <4>2. Hit(arg[Owner]) /\ \A u \in ChanTasks : Kept(u)
        BY <1>0, <4>1, WakeHits
      <4> QED
        BY <4>2
    <3> QED
        BY <3>1, <3>2
  <2> QED
    BY <1>0, <1>1, <1>2, <1>3, <2>2 DEF Only
<1>5. CASE pc[Owner] \notin {"swake", "exwake"}
  <2>1. \/ UNCHANGED wk
        \/ wk' \in {W!Prepared(wk, Owner), W!Finished(wk, Owner), W!Blocked(wk, Owner), W!TimedOut(wk, {Owner})}
    BY <1>5 DEF ServeSteps, LeaveSteps, Serve, ServePrepare, ServeTest, ServeBlock, TaskBlock, ServeWoken, Woken, Work,
        Reply, WakeArg, OwnerExits, OwnerExited, Die, SlotReused
  <2>2. \A u \in ChanTasks \ {Owner} : Kept(u)
    BY <1>0, <2>1, OwnToken
  <2>3. pc[Owner] # "wake"
    BY DEF EndpointInv, Roles, OwnerPCs
  <2> QED
    BY <1>0, <1>1, <1>2, <1>3, <1>5, <2>2, <2>3 DEF Only
<1> QED
    BY <1>4, <1>5

(* The turn of the task that takes the step itself. *)
LEMMA OwnTurn ==
    ASSUME EndpointInv, EndpointInv', Roomy, NEW t \in ep.callers, t \in Callers, Turn(t),
           CallSteps(t) \/ TurnSteps(t) \/ EndSteps(t) \/ ClaimSteps(t)
    PROVE  Turn(t)'
<1> USE DEF Goto
<1>0. /\ pc \in [ChanTasks -> CallerPCs \cup OwnerPCs \cup EndPCs] /\ t \in ChanTasks /\ Callers \subseteq ChanTasks
      /\ queued \in [Callers -> BOOLEAN] /\ wk \in [ChanTasks -> W!WakeStates] /\ Only(t)
    BY Constants, OnlyCaller DEF EndpointInv, TypeOK
<1>1. CASE CallSteps(t) \/ EndSteps(t) \/ Release(t) \/ CallerExits(t)
  <2>1. pc'[t] \notin Queueing
    BY <1>0, <1>1 DEF CallSteps, CopyIn, Handler, CallTask, Post, WakeOwner, CallBlock, TaskBlock, CallWoken, Woken,
        CallAgain, CallRecheck, CopyOut, EndSteps, WakeArg, Die, Release, CallerExits, Queueing
  <2> QED
    BY <2>1 DEF Turn, Queueing
<1>2. CASE ClaimPrepare(t)
  <2>1. pc[t] = "top" /\ queued[t] /\ pc'[t] = "test" /\ UNCHANGED queued /\ wk' = W!Prepared(wk, t)
    BY <1>0, <1>2 DEF ClaimPrepare, Turn, Queueing
  <2>2. wk'[t] = "armed"
    BY <1>0, <2>1, TokenCalls
  <2> QED
    BY <2>1, <2>2 DEF Turn, Armed
<1>3. CASE ClaimBlock(t)
  <2>1. pc[t] = "qblock" /\ UNCHANGED <<queued, handed_to, arg>> /\ queued[t] /\ Armed(t)
    BY <1>3 DEF ClaimBlock, TaskBlock, claim, Turn, Queueing
  <2>2. \/ pc'[t] = "top"
        \/ pc'[t] = "qsleep" /\ wk[t] # "token"
    <3>1. CASE UNCHANGED wk /\ pc'[t] = "top"
        BY <3>1
    <3>2. CASE wk' = [wk EXCEPT ![t] = IF wk[t] = "token" THEN "none" ELSE "blocked"]
      <4>1. \/ pc' = [pc EXCEPT ![t] = IF wk'[t] = "blocked" THEN "qsleep" ELSE "top"]
            \/ pc'[t] = "top"
        BY <1>0, <1>3 DEF ClaimBlock, TaskBlock
      <4> QED
        BY <1>0, <2>1, <3>2, <4>1 DEF Armed
    <3> QED
        BY <1>0, <1>3, <3>1, <3>2, TokenCalls DEF ClaimBlock, TaskBlock
  <2>3. Turning(t) => Turning(t)'
    BY <1>0, <2>1 DEF Turning, Only
  <2> QED
    BY <2>1, <2>2, <2>3 DEF Turn, Queueing
<1>4. CASE ClaimWoken(t) \/ Expire(t)
  <2>1. /\ pc[t] = "qsleep" /\ UNCHANGED <<queued, handed_to, arg>> /\ queued[t] /\ pc'[t] \in {"top", "qsleep"}
    BY <1>0, <1>4 DEF ClaimWoken, Woken, Expire, claim, Turn, Queueing
  <2>2. pc'[t] = "qsleep" => wk'[t] = "none"
    <3>1. CASE ClaimWoken(t)
        BY <1>0, <3>1 DEF ClaimWoken, Woken
    <3>2. CASE Expire(t)
      <4>1. wk' = [wk EXCEPT ![t] = "none"]
        BY <1>0, <3>2, TokenCalls DEF Expire
      <4> QED
        BY <1>0, <4>1
    <3> QED
        BY <1>4, <3>1, <3>2
  <2> QED
    BY <2>1, <2>2 DEF Turn, Queueing
<1>5. CASE Clock(t)
    BY <1>5 DEF Clock, Turn, Turning, Armed, claim
<1>6. CASE Claim(t)
  <2>1. pc[t] = "out" /\ (busy => HasRoom)
    BY <1>6, RoomForAll DEF Claim
  <2>2. pc'[t] = "copyin" \/ (pc'[t] = "top" /\ queued'[t])
    BY <1>0, <1>6, <2>1 DEF Claim
  <2> QED
    BY <2>2 DEF Turn, Queueing
<1>7. CASE ClaimTest(t)
  <2>1. pc[t] = "test" /\ queued[t] /\ Armed(t)
    BY <1>7 DEF ClaimTest, Turn, Queueing
  <2>2. \/ pc'[t] \in {"copyin", "out"}
        \/ pc'[t] = "qblock" /\ queued'[t] /\ UNCHANGED <<handed_to, wk>> /\ handed_to # t
    BY <1>0, <1>7, <2>1 DEF ClaimTest
  <2> QED
    BY <2>1, <2>2 DEF Turn, Queueing, Armed
<1> QED
    BY <1>1, <1>2, <1>3, <1>4, <1>5, <1>6, <1>7 DEF TurnSteps, ClaimSteps

(* Whoever a step hands the turn to has its wake on the way. *)
LEMMA HandedOver ==
    ASSUME EndpointInv, NEW t \in Callers, CallSteps(t) \/ TurnSteps(t) \/ EndSteps(t) \/ ClaimSteps(t),
           NEW u \in Callers, handed_to' = u
    PROVE  handed_to = u \/ Turning(u)'
<1>0. TypeOK /\ ClaimInv /\ t \in ChanTasks /\ u # NoPid /\ pc \in [ChanTasks -> CallerPCs \cup OwnerPCs \cup EndPCs]
    BY Constants DEF EndpointInv, ClaimInv, TypeOK
<1>1. CASE Release(t)
  <2>1. /\ pc[t] = "release" /\ pc[t] \in Claimed /\ pc[t] \notin Queueing /\ ReleaseLocked(t, handed_to)
        /\ pc' = [pc EXCEPT ![t] = "wake"] /\ UNCHANGED queued
    BY <1>1 DEF Release, Claimed, Queueing, Goto
  <2>2. busy /\ holder = t
    BY <1>0, <2>1 DEF ClaimInv, ClaimAccounted
  <2>3. handed_to' # NoPid => arg'[t] = handed_to'
    BY <1>0, <2>1, <2>2, ReleaseStep DEF Claimed
  <2>4. pc'[t] = "wake"
    BY <1>0, <2>1
  <2> QED
    BY <1>0, <2>3, <2>4 DEF Turning
<1>2. CASE CallerExits(t) /\ busy /\ holder = t
  <2>1. /\ pc[t] \in {"out", "handler"} /\ pc[t] \notin Queueing /\ ReleaseLocked(t, NoPid)
        /\ pc' = [pc EXCEPT ![t] = "exwake"] /\ UNCHANGED queued
    BY <1>2 DEF CallerExits, Queueing, Goto
  <2>2. handed_to' # NoPid => arg'[t] = handed_to'
    BY <1>0, <1>2, <2>1, ReleaseStep DEF Claimed
  <2>3. pc'[t] = "exwake"
    BY <1>0, <2>1
  <2> QED
    BY <1>0, <2>2, <2>3 DEF Turning
<1>3. CASE CallerExits(t) /\ ~(busy /\ holder = t)
    BY <1>3 DEF CallerExits
<1>4. CASE CallSteps(t)
    BY <1>4 DEF CallSteps, CopyIn, Handler, CallTask, Post, WakeOwner, CallBlock, CallWoken, CallAgain, CallRecheck, CopyOut,
        claim
<1>5. CASE TurnSteps(t) \/ EndSteps(t)
    BY <1>5 DEF TurnSteps, ClaimPrepare, ClaimBlock, ClaimWoken, Clock, Expire, EndSteps, WakeArg, Die, claim
<1>6. CASE Claim(t) \/ ClaimTest(t)
    BY <1>0, <1>6 DEF Claim, ClaimTest, Take, claim
<1> QED
    BY <1>1, <1>2, <1>3, <1>4, <1>5, <1>6 DEF ClaimSteps

LEMMA TurnsStep == EndpointInv /\ EndpointInv' /\ TurnsKept /\ [Next]_vars => TurnsKept'
<1> SUFFICES ASSUME EndpointInv, EndpointInv', TurnsKept, [Next]_vars, Roomy' PROVE \A u \in Callers : Turn(u)'
  <2>1. (TurnsKept <=> (Roomy => \A t \in Callers : Turn(t)))'
    BY TurnsAre, PTL
  <2> QED
    BY <2>1
<1> TAKE u \in Callers
<1>1. UNCHANGED ep /\ Roomy
    BY Steps DEF vars, Roomy
<1>2. Turn(u) /\ u \in ChanTasks /\ u # Owner
    BY <1>1, TurnsAre, Constants
<1>3. CASE UNCHANGED vars
    BY <1>2, <1>3 DEF vars, claim, Turn, Armed, Turning
<1>4. CASE ServeSteps \/ LeaveSteps
  <2>1. Only(Owner) /\ UNCHANGED handed_to
    BY <1>4, OnlyOwner
  <2>2. Turning(u) => Turning(u)' \/ Hit(u)
    BY <2>1, TurningKept, Constants DEF Only
  <2> QED
    BY <1>2, <2>1, <2>2, TurnWaits DEF Only
<1>5. ASSUME NEW t \in ep.callers, CallSteps(t) \/ TurnSteps(t) \/ EndSteps(t) \/ ClaimSteps(t) PROVE Turn(u)'
  <2>0. t \in Callers /\ t \in ChanTasks
    BY <1>5, CallersOf DEF EndpointInv
  <2>1. CASE u = t
    BY <1>1, <1>2, <1>5, <2>0, <2>1, OwnTurn
  <2>2. CASE u # t
    <3>1. Only(t)
        BY <1>5, <2>0, OnlyCaller
    <3>2. handed_to' = u => handed_to = u \/ Turning(u)'
        BY <1>5, <2>0, HandedOver
    <3>3. Turning(u) => Turning(u)' \/ Hit(u)
        BY <2>0, <3>1, TurningKept DEF Only
    <3> QED
        BY <1>2, <2>2, <3>1, <3>2, <3>3, TurnWaits DEF Only
  <2> QED
    BY <2>1, <2>2
<1> QED
    BY <1>3, <1>4, <1>5, Steps

-----------------------------------------------------------------------------
(* chan.c's state is always within its types, with any number of callers:  *)
(* in particular the wait queue never grows past CHAN_WAITQ_LEN.           *)
THEOREM EndpointTyped == Spec => []TypeOK
<1>1. EndpointInv => TypeOK
    BY DEF EndpointInv
<1> QED
    BY <1>1, EndpointHolds, PTL

(* ep_claim(), release_locked() and chan_owner_exited(): at most one task  *)
(* is inside a call, and a busy endpoint always has a holder that is in    *)
(* its call or has been handed its turn.                                   *)
THEOREM ClaimSafety == Spec => []ClaimAccounted
<1>1. EndpointInv => ClaimAccounted
    BY DEF EndpointInv
<1> QED
    BY <1>1, EndpointHolds, PTL

(* ep_claim()'s fast path: a free endpoint has nobody queued, so a caller  *)
(* that takes it at once overtakes no waiter.                              *)
THEOREM QueueRespected == Spec => []NoOvertaking
<1>1. EndpointInv => NoOvertaking
    BY DEF EndpointInv
<1> QED
    BY <1>1, EndpointHolds, PTL

(* chan_call_task(): the reply a caller copies out of the shared buffers   *)
(* is the answer to its own request.                                       *)
THEOREM RepliesMatched == Spec => []ReplyIsMine
<1>1. EndpointInv => ReplyIsMine
  <2> SUFFICES ASSUME EndpointInv, NEW t \in Callers, pc[t] = "copyout", reply_len = 0 PROVE resp_buf = t
    BY DEF ReplyIsMine
  <2>1. caller_pid # t
    BY Constants DEF EndpointInv, OneMessage, Posted
  <2> QED
    BY <2>1 DEF EndpointInv, OneMessage
<1> QED
    BY <1>1, EndpointHolds, PTL

(* chan_call_task() and chan_serve_wait(): no caller sleeps through the    *)
(* end of its call and no owner through a request; the wake is on its way. *)
THEOREM NoMessageLost == Spec => []NoLostMessage
<1>1. EndpointInv => NoLostMessage
    BY DEF EndpointInv
<1> QED
    BY <1>1, EndpointHolds, PTL

(* ep_claim(): on an endpoint whose queue has a place for every caller, no *)
(* waiter sleeps through the turn that was handed to it.                   *)
THEOREM NoTurnLost == Spec => []NoLostTurn
<1>1. Init => TurnsKept
  <2> SUFFICES ASSUME Init PROVE \A t \in Callers : Turn(t)
    BY TurnsAre
  <2> QED
    BY Constants DEF Init, Turn, Queueing
<1>2. EndpointInv /\ TurnsKept => NoLostTurn
    BY DEF TurnsKept, NoLostTurn, Roomy
<1> QED
    BY <1>1, <1>2, EndpointHolds, TurnsStep, PTL DEF Spec
=============================================================================
