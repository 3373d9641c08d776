------------------------------- MODULE LlpInv -------------------------------
(***************************************************************************)
(* The inductive invariants behind Llp.  SessionInv is about the session   *)
(* numbers on the wire, in the order they travel: a node's number grows    *)
(* with every restart, so what a frame says of its sender and of the node  *)
(* it is for can be compared with what both believe of each other.         *)
(* CountInv is about the numbers of the messages within a session, and     *)
(* about the room for them.                                                *)
(***************************************************************************)
EXTENDS Llp

(* The session a frame is from, and the session of the node it is for that *)
(* its sender knew of; 0 if none.                                          *)
From(f)  == IF f.op = "hello" THEN f.session ELSE f.from
Knew(f)  == IF f.op = "hello" THEN f.seen ELSE f.to

(* On the way to s, from the other node in this or an earlier session. *)
Sent(s) == 1..Len(wire[s])

(* What is on the way to s is from sessions in their order, none older     *)
(* than the one s talks to and none newer than the sender's own.           *)
FromInOrder(s) ==
    /\ \A i \in Sent(s) : /\ From(wire[s][i]) \in link[s].peer..link[Other(s)].session
                          /\ From(wire[s][i]) > 0
    /\ \A i, j \in Sent(s) : i < j => From(wire[s][i]) <= From(wire[s][j])
    /\ link[s].peer <= link[Other(s)].session

(* What their senders knew of s comes in order too, up to what the other   *)
(* node knows now and to the truth; whoever does not know says 0.          *)
KnewInOrder(s) ==
    /\ \A i \in Sent(s) : Knew(wire[s][i]) \in 0..link[s].session
    /\ \A i, j \in Sent(s) : i < j /\ Knew(wire[s][j]) # 0 => Knew(wire[s][i]) <= Knew(wire[s][j])
    /\ \A i \in Sent(s) : link[Other(s)].peer # 0 => Knew(wire[s][i]) <= link[Other(s)].peer

(* Who knew of a session of s has read everything s sent before it. *)
ReadUpTo(s) ==
    \A i \in Sent(s), j \in Sent(Other(s)) : Knew(wire[s][i]) <= From(wire[Other(s)][j])

(* A node that is up is known by its number to all that is on its way to   *)
(* it, and has nothing older of its own under way.                         *)
UpKnown(s) ==
    link[s].state = "up" =>
        /\ link[s].peer # 0
        /\ \A i \in Sent(s) : Knew(wire[s][i]) \in {0, link[s].session}
        /\ link[Other(s)].peer \in {0, link[s].session}
        /\ \A j \in Sent(Other(s)) : From(wire[Other(s)][j]) = link[s].session

(* Data, credits and probes for the session s is in are from a peer that s *)
(* has met: only a node that is up sends them, and it is up because s said *)
(* so.                                                                     *)
HasMet(s) ==
    /\ \A i \in Sent(s) : wire[s][i].op # "hello" =>
        /\ Knew(wire[s][i]) # 0
        /\ Knew(wire[s][i]) = link[s].session => From(wire[s][i]) <= link[s].peer
    /\ link[Other(s)].state = "up" /\ link[Other(s)].peer = link[s].session
        => link[Other(s)].session <= link[s].peer
    /\ \A j \in Sent(Other(s)) : From(wire[Other(s)][j]) = link[s].session => Knew(wire[Other(s)][j]) <= link[s].peer

(* A message is only sent to the peer it was queued for. *)
Addressed(s) ==
    /\ \A i \in 1..Len(txq[s]) : txq[s][i] = p9peer[s]
    /\ link[s].state = "up" /\ ~evUp[s] => p9peer[s] = link[s].peer

SessionInv ==
    /\ TypeOK
    /\ \A s \in Sides : FromInOrder(s) /\ KnewInOrder(s) /\ ReadUpTo(s) /\ UpKnown(s) /\ HasMet(s) /\ Addressed(s)

-----------------------------------------------------------------------------
(* What is on the way to s within the session it is in: the messages and   *)
(* probes of its peer, and the credits.                                    *)
Ours(s, f) == f.op # "hello" /\ From(f) = link[s].peer /\ Knew(f) = link[s].session
Stream(s)  == {i \in Sent(s) : Ours(s, wire[s][i]) /\ wire[s][i].op # "credit"}
Credits(s) == {i \in Sent(s) : Ours(s, wire[s][i]) /\ wire[s][i].op = "credit"}

(* The number a receiver of f expects next; how far s has been credited.   *)
Reach(f) == IF f.op = "data" THEN f.n + 1 ELSE f.n
Unacked(s) == Minus(link[s].tx_seq, link[s].tx_ack)
Acked(s)   == ghost[s].sent - Unacked(s)

(* Both nodes are in the session they have with each other. *)
Together(s) == link[s].peer = link[Other(s)].session /\ link[Other(s)].peer = link[s].session

(* The eight bits are those of the number they stand for. *)
Stands(f) ==
    CASE f.op = "hello"  -> f.flow = TRUE
      [] f.op = "credit" -> f.ack = f.n % Mod
      [] f.op = "probe"  -> f.next = f.n % Mod
      [] f.op = "data"   -> f.seq = f.n % Mod

Numbered(s) ==
    /\ link[s].rx_next = ghost[s].next % Mod /\ link[s].tx_seq = ghost[s].sent % Mod
    /\ link[s].peer # 0 => link[s].flow
    /\ \A i \in Sent(s) : Stands(wire[s][i])

(* What is under way is less than half of the numbers away from what s     *)
(* expects, and comes in order; so do the credits.                         *)
Near(s) ==
    /\ \A i \in Stream(s) : Reach(wire[s][i]) \in ghost[s].next..(ghost[s].next + MaxWindow)
    /\ \A i, j \in Stream(s) : i < j => Reach(wire[s][i]) <= Reach(wire[s][j])
    /\ \A i \in Credits(s) : wire[s][i].n \in Acked(s)..ghost[s].sent
    /\ \A i, j \in Credits(s) : i < j => wire[s][i].n <= wire[s][j].n
    /\ Unacked(s) <= MaxWindow

(* The peer has sent what is under way, s has read what it credits, and    *)
(* was not credited for what it has not read.                              *)
Agree(s) ==
    Together(s) =>
        /\ ghost[s].next \in Acked(Other(s))..ghost[Other(s)].sent
        /\ \A i \in Stream(s) : Reach(wire[s][i]) <= ghost[Other(s)].sent
        /\ \A i \in Credits(s) : wire[s][i].n <= ghost[Other(s)].next

(* Before the peer knows of s nothing is counted. *)
Fresh(s) ==
    \/ link[s].peer = 0
    \/ link[s].peer = link[Other(s)].session /\ link[Other(s)].peer # link[s].session
    => ghost[s].next = 0 /\ ghost[s].sent = 0 /\ Unacked(s) = 0

CountInv == \A s \in Sides : Numbered(s) /\ Near(s) /\ Agree(s) /\ Fresh(s)

-----------------------------------------------------------------------------
(* While neither node restarts: the first number s has no place for, which *)
(* never goes down, and which nothing s has promised goes beyond.          *)
Room(s) == ghost[s].next + (Slots - Len(rxq[s]))

Promised(s) ==
    /\ ghost[Other(s)].sent <= Room(s)
    /\ Acked(Other(s)) + link[Other(s)].tx_window <= Room(s)
    /\ \A j \in Sent(Other(s)) :
        LET f == wire[Other(s)][j]
        IN  /\ f.op = "hello"  => f.window <= Room(s)
            /\ f.op = "credit" => f.n + f.window <= Room(s)

RoomInv == (\A s \in Sides : link[s].session = 1) => \A s \in Sides : Promised(s)
=============================================================================
