--------------------------------- MODULE Llp ---------------------------------
(***************************************************************************)
(* Two nodes on a board and the link between them: the state machine of    *)
(* kernel/llp.c (handshake, sequence numbers, credits, probes, timers) on  *)
(* a serial channel, and the parts of kernel/llp_node.c that move 9P       *)
(* messages through it.                                                    *)
(*                                                                         *)
(* A channel keeps frames in order; it loses or repeats some, and refuses  *)
(* one when it is full.  Frames are records: SLIP and the CRC are          *)
(* abstracted to "a damaged frame is lost".  Sequence numbers are modulo   *)
(* Mod, 256 in the code.  Time is abstracted to which timer has run out    *)
(* when llp_link_tick() looks.  Each frame that counts carries as a ghost  *)
(* the number it stands for, unbounded, and the sessions it is from and    *)
(* for: `n`, `from` and `to` decide nothing.                               *)
(***************************************************************************)
EXTENDS Integers, Sequences, FiniteSets

CONSTANTS
    Sides,       \* the two nodes
    Talkers,     \* the nodes whose tasks have 9P messages to send
    Majors,      \* Majors[s]: the major versions of the builds s may run
    Mod,         \* sequence numbers: 256 in the code
    MaxWindow,   \* LLP_MAX_WINDOW, 64 in the code
    Slots,       \* places in a receive queue, P9_SLOTS
    RxWindow,    \* cfg.rx_window: 0 when the channel does flow control itself
    WireLen,     \* frames a channel holds
    MaxFrames,   \* bound: messages sent in one session
    MaxFaults    \* bound: MaxFaults.line frames lost or repeated, MaxFaults.node restarts and silences

Half == Mod \div 2

ASSUME LlpAssumption ==
    /\ IsFiniteSet(Sides) /\ Cardinality(Sides) = 2 /\ Talkers \subseteq Sides
    /\ Majors \in [Sides -> SUBSET Nat]
    /\ Mod \in Nat /\ Mod = 2 * Half /\ MaxWindow \in 1..(Half - 1)
    /\ Slots \in Nat \ {0} /\ RxWindow \in 0..Slots /\ RxWindow <= MaxWindow
    /\ WireLen \in Nat \ {0} /\ MaxFrames \in Nat /\ MaxFaults \in [line : Nat, node : Nat]

VARIABLES
    link,     \* llp_link_t of each node
    wire,     \* wire[s]: the frames on their way to s
    rxq,      \* g_p9_rx: per message, the session it came from
    stale,    \* g_p9_rx_stale, as how many at the head of rxq are to be dropped unread
    txq,      \* g_p9_tx: per message, the session of the peer it was queued for
    draft,    \* p9_send() holds a message there was no room for yet
    p9peer,   \* g_p9_session
    evUp,     \* g_ev_up
    ghost,    \* how many messages were sent, and which number is expected next
    faults    \* faults so far

vars == <<link, wire, rxq, stale, txq, draft, p9peer, evUp, ghost, faults>>

Other(s)  == CHOOSE t \in Sides : t # s
Minus(x, y) == (x - y) % Mod
Sooner(x, y) == IF x < y THEN x ELSE y

Links == [state : {"down", "up", "mismatch"}, session : Nat \ {0}, major : Nat,
          peer : Nat, flow : BOOLEAN,
          tx_seq : 0..(Mod - 1), tx_ack : 0..(Mod - 1), tx_window : 0..MaxWindow, blocked : BOOLEAN,
          rx_next : 0..(Mod - 1), adv : 0..(Mod - 1)]

Frames == [op : {"hello"}, session : Nat \ {0}, seen : Nat, major : Nat, up : BOOLEAN,
           flow : BOOLEAN, window : 0..Slots]
          \cup [op : {"credit"}, ack : 0..(Mod - 1), window : 0..Slots, from : Nat, to : Nat, n : 0..MaxFrames]
          \cup [op : {"probe"}, next : 0..(Mod - 1), from : Nat, to : Nat, n : 0..MaxFrames]
          \cup [op : {"data"}, seq : 0..(Mod - 1), from : Nat, to : Nat, n : 0..(MaxFrames - 1)]

TypeOK ==
    /\ link \in [Sides -> Links]
    /\ wire \in [Sides -> Seq(Frames)]
    /\ rxq \in [Sides -> Seq(Nat)] /\ stale \in [Sides -> Nat] /\ txq \in [Sides -> Seq(Nat)]
    /\ \A s \in Sides : /\ Len(wire[s]) <= WireLen /\ Len(rxq[s]) <= Slots /\ Len(txq[s]) <= 1
                        /\ stale[s] <= Len(rxq[s])
    /\ draft \in [Sides -> BOOLEAN] /\ p9peer \in [Sides -> Nat] /\ evUp \in [Sides -> BOOLEAN]
    /\ ghost \in [Sides -> [sent : 0..MaxFrames, next : 0..MaxFrames]]
    /\ faults \in [line : 0..MaxFaults.line, node : 0..MaxFaults.node]

-----------------------------------------------------------------------------
(* A step of the link code takes l, the link, and q, the frames it has     *)
(* handed to the channel so far; the channel takes those it has room for.  *)

Emitted(s, q) ==
    LET room == WireLen - Len(wire[Other(s)])
    IN  wire[Other(s)] \o SubSeq(q, 1, Sooner(Len(q), room))

rx_window_now(s) == Sooner(Slots - Len(rxq[s]), RxWindow)

Hello(s, l) == [op |-> "hello", session |-> l.session, seen |-> l.peer, major |-> l.major,
                up |-> l.state = "up", flow |-> RxWindow > 0, window |-> rx_window_now(s)]

send_hello(s, l) ==
    [l |-> [l EXCEPT !.adv = (l.rx_next + rx_window_now(s)) % Mod], q |-> <<Hello(s, l)>>]

send_credit(l, window, n) ==
    [l |-> [l EXCEPT !.adv = (l.rx_next + window) % Mod],
     q |-> <<[op |-> "credit", ack |-> l.rx_next, window |-> window,
              from |-> l.session, to |-> l.peer, n |-> n]>>]

(* A credit goes out when the far edge of the window has moved enough.     *)
(* rx_next stands for n.                                                   *)
maybe_credit(s, l, n, force) ==
    LET window == rx_window_now(s)
        moved  == Minus(l.rx_next + window, l.adv)
        thresh == IF RxWindow \div 4 > 0 THEN RxWindow \div 4 ELSE 1
    IN  IF \/ force
           \/ RxWindow > 0 /\ moved >= thresh /\ moved < Half
        THEN send_credit(l, window, n)
        ELSE [l |-> l, q |-> <<>>]

(* Mutant: the window is taken for the last number one may send. *)
can_send_one_more(l) ==
    /\ l.state = "up"
    /\ l.flow => Minus(l.tx_seq, l.tx_ack) <= l.tx_window

llp_link_can_send(l) ==
    /\ l.state = "up"
    /\ l.flow => Minus(l.tx_seq, l.tx_ack) < l.tx_window

(* Mutant: the receive side of the old session is kept. *)
MetKeepsRx(l, f) ==
    [l EXCEPT !.peer = f.session, !.flow = f.flow, !.tx_seq = 0, !.tx_ack = 0,
              !.tx_window = Sooner(f.window, MaxWindow), !.blocked = FALSE,
              !.state = IF f.major = l.major THEN "down" ELSE "mismatch"]

(* A peer not seen before: everything about the old session is gone. *)
Met(l, f) ==
    [l EXCEPT !.peer = f.session, !.flow = f.flow, !.tx_seq = 0, !.tx_ack = 0,
              !.tx_window = Sooner(f.window, MaxWindow), !.blocked = FALSE, !.rx_next = 0,
              !.state = IF f.major = l.major THEN "down" ELSE "mismatch"]

(* Mutant: a HELLO that says the peer is up is answered too. *)
on_hello_echo(s, l, f) ==
    LET m == IF f.session # l.peer THEN Met(l, f) ELSE [l EXCEPT !.flow = f.flow]
    IN  IF m.state = "mismatch" \/ f.seen # l.session THEN send_hello(s, m)
        ELSE send_hello(s, [m EXCEPT !.state = "up"])

on_hello(s, l, f) ==
    LET new == f.session # l.peer
        m   == IF new THEN Met(l, f) ELSE [l EXCEPT !.flow = f.flow]
        up  == [m EXCEPT !.state = "up"]
    IN  IF ~new /\ l.state = "mismatch" THEN [l |-> l, q |-> <<>>]
        ELSE IF m.state = "mismatch" THEN send_hello(s, m)
        ELSE IF f.seen # l.session THEN send_hello(s, m)
        ELSE IF f.up THEN [l |-> up, q |-> <<>>]
        ELSE send_hello(s, up)

on_credit(l, f) ==
    IF l.state # "up" \/ Minus(f.ack, l.tx_ack) > Minus(l.tx_seq, l.tx_ack) THEN l
    ELSE LET m == [l EXCEPT !.tx_ack = f.ack, !.tx_window = Sooner(f.window, MaxWindow)]
         IN  IF llp_link_can_send(m) THEN [m EXCEPT !.blocked = FALSE] ELSE m

(* A probe's "everything before next was sent" is believed if it is ahead. *)
Ahead(l, seq) == Minus(seq, l.rx_next) < Half

on_probe(s, l, f) ==
    IF l.state # "up" THEN [l |-> l, q |-> <<>>]
    ELSE IF Ahead(l, f.next) THEN maybe_credit(s, [l EXCEPT !.rx_next = f.next], f.n, TRUE)
    ELSE maybe_credit(s, l, ghost[s].next, TRUE)

(* A data frame goes to the caller unless it is behind the sequence. *)
Accepts(l, f) == l.state = "up" /\ Ahead(l, f.seq)

on_data(l, f) == IF Accepts(l, f) THEN [l EXCEPT !.rx_next = (f.seq + 1) % Mod] ELSE l

-----------------------------------------------------------------------------
(* The pump reads its channel: one frame through llp_link_input(), and a   *)
(* data frame on to the 9P queue, which drops it when it is full.          *)

Input(s, f, w) ==
    LET l   == link[s]
        res == CASE f.op = "hello"  -> on_hello(s, l, f)
                 [] f.op = "credit" -> [l |-> on_credit(l, f), q |-> <<>>]
                 [] f.op = "probe"  -> on_probe(s, l, f)
                 [] f.op = "data"   -> [l |-> on_data(l, f), q |-> <<>>]
    IN  /\ link' = [link EXCEPT ![s] = res.l]
        /\ wire' = [wire EXCEPT ![Other(s)] = Emitted(s, res.q), ![s] = w]
        /\ evUp' = [evUp EXCEPT ![s] = @ \/ (f.op = "hello" /\ res.l.state = "up" /\
                                             (l.state # "up" \/ res.l.peer # l.peer))]
        /\ rxq' = [rxq EXCEPT ![s] = IF f.op = "data" /\ Accepts(l, f) /\ Len(@) < Slots
                                     THEN Append(@, f.from) ELSE @]
        /\ ghost' = [ghost EXCEPT ![s] =
               IF res.l.peer # l.peer THEN [sent |-> 0, next |-> 0]
               ELSE IF res.l.rx_next # l.rx_next \/ (f.op = "data" /\ Accepts(l, f))
               THEN [@ EXCEPT !.next = IF f.op = "data" THEN f.n + 1 ELSE f.n] ELSE @]
        /\ UNCHANGED <<stale, txq, draft, p9peer>>

Read(s) ==
    /\ wire[s] # <<>>
    /\ Input(s, Head(wire[s]), Tail(wire[s]))
    /\ UNCHANGED faults

(* Mutant: what was queued for the old peer stays queued. *)
EventsKeep(s) ==
    /\ evUp[s] /\ evUp' = [evUp EXCEPT ![s] = FALSE]
    /\ p9peer' = [p9peer EXCEPT ![s] = link[s].peer]
    /\ IF p9peer[s] = link[s].peer THEN UNCHANGED stale ELSE stale' = [stale EXCEPT ![s] = Len(rxq[s])]
    /\ UNCHANGED <<link, wire, rxq, txq, draft, ghost, faults>>

(* The pump's turn after reading: a handshake done means p9_new_peer(). *)
Events(s) ==
    /\ evUp[s] /\ evUp' = [evUp EXCEPT ![s] = FALSE]
    /\ p9peer' = [p9peer EXCEPT ![s] = link[s].peer]
    /\ IF p9peer[s] = link[s].peer THEN UNCHANGED <<stale, txq>>
       ELSE /\ stale' = [stale EXCEPT ![s] = Len(rxq[s])]
            /\ txq' = [txq EXCEPT ![s] = <<>>]
    /\ UNCHANGED <<link, wire, rxq, draft, ghost, faults>>

(* ... then the queued message, through llp_link_send(). *)
Drain(s) ==
    LET l == link[s] IN
    /\ ~evUp[s] /\ txq[s] # <<>> /\ l.state = "up"
    /\ \/ /\ ~llp_link_can_send(l) /\ ~l.blocked
          /\ link' = [link EXCEPT ![s].blocked = TRUE]
          /\ UNCHANGED <<wire, txq, ghost>>
       \/ /\ llp_link_can_send(l) /\ ghost[s].sent < MaxFrames
          /\ wire' = [wire EXCEPT ![Other(s)] = Emitted(s,
                 <<[op |-> "data", seq |-> l.tx_seq, from |-> l.session, to |-> Head(txq[s]),
                    n |-> ghost[s].sent]>>)]
          /\ txq' = [txq EXCEPT ![s] = Tail(@)]
          /\ IF Len(wire[Other(s)]) < WireLen
             THEN /\ link' = [link EXCEPT ![s].tx_seq = (@ + 1) % Mod]
                  /\ ghost' = [ghost EXCEPT ![s].sent = @ + 1]
             ELSE UNCHANGED <<link, ghost>>
    /\ UNCHANGED <<rxq, stale, draft, p9peer, evUp, faults>>

(* ... then llp_link_tick(), with the timer that has run out, if any.  The *)
(* timers are long against a frame's time on the line: one that sends      *)
(* finds a channel that has nearly drained, and a peer is only taken for   *)
(* dead by a pump that has just read everything there was.  A keepalive is *)
(* due after a second without a frame sent, and a node that is held back   *)
(* sends a probe every tenth of one.                                       *)
Tick(s, due) ==
    LET l == link[s]
        can == llp_link_can_send(l)
        res == CASE l.state = "down" -> send_hello(s, l)
                 [] due = "dead"     -> send_hello(s, [l EXCEPT !.state = "down"])
                 [] due = "alive"    -> maybe_credit(s, l, ghost[s].next, TRUE)
                 [] OTHER -> LET c == maybe_credit(s, l, ghost[s].next, FALSE)
                             IN [l |-> [c.l EXCEPT !.blocked = @ /\ ~can],
                                 q |-> c.q \o IF due = "probe"
                                              THEN <<[op |-> "probe", next |-> l.tx_seq, from |-> l.session,
                                                      to |-> l.peer, n |-> ghost[s].sent]>>
                                              ELSE <<>>]
    IN  /\ ~evUp[s] /\ l.state # "mismatch"
        /\ due = "hello" <=> l.state = "down"
        /\ due = "probe" => l.blocked /\ ~can
        /\ due = "alive" => ~l.blocked
        /\ due = "dead"  => faults.node < MaxFaults.node /\ wire[s] = <<>>
        /\ due \in {"hello", "probe", "alive"} => Len(wire[Other(s)]) < WireLen - 1
        /\ faults' = IF due = "dead" THEN [faults EXCEPT !.node = @ + 1] ELSE faults
        /\ link' = [link EXCEPT ![s] = res.l]
        /\ wire' = [wire EXCEPT ![Other(s)] = Emitted(s, res.q)]
        /\ UNCHANGED <<rxq, stale, txq, draft, p9peer, evUp, ghost>>

-----------------------------------------------------------------------------
(* The tasks at the two ends of the 9P link. *)

(* A client of the link writes a request: the mount it is for was opened   *)
(* with the peer p9_new_peer() last saw, and the link is up.               *)
p9_write(s) ==
    /\ s \in Talkers /\ ~draft[s]
    /\ link[s].state = "up" /\ p9peer[s] # 0
    /\ draft' = [draft EXCEPT ![s] = TRUE]
    /\ UNCHANGED <<link, wire, rxq, stale, txq, p9peer, evUp, ghost, faults>>

(* p9_send() waits until there is room, whoever the peer is by then ...    *)
p9_send(s) ==
    /\ draft[s] /\ txq[s] = <<>>
    /\ txq' = [txq EXCEPT ![s] = <<p9peer[s]>>]
    /\ draft' = [draft EXCEPT ![s] = FALSE]
    /\ UNCHANGED <<link, wire, rxq, stale, p9peer, evUp, ghost, faults>>

(* ... and gives up after two seconds. *)
p9_give_up(s) ==
    /\ draft[s] /\ txq[s] # <<>>
    /\ draft' = [draft EXCEPT ![s] = FALSE]
    /\ UNCHANGED <<link, wire, rxq, stale, txq, p9peer, evUp, ghost, faults>>

(* What an ended session left is dropped; then a message is taken. *)
p9_recv(s) ==
    /\ rxq[s] # <<>>
    /\ LET rest == SubSeq(rxq[s], stale[s] + 1, Len(rxq[s]))
       IN  rxq' = [rxq EXCEPT ![s] = IF rest = <<>> THEN <<>> ELSE Tail(rest)]
    /\ stale' = [stale EXCEPT ![s] = 0]
    /\ UNCHANGED <<link, wire, txq, draft, p9peer, evUp, ghost, faults>>

-----------------------------------------------------------------------------
(* What the line and the nodes may do to each other, MaxFaults times.      *)

Lose(s) ==
    /\ wire[s] # <<>> /\ wire' = [wire EXCEPT ![s] = Tail(@)]
    /\ UNCHANGED <<link, rxq, stale, txq, draft, p9peer, evUp, ghost>>

Repeat(s) == wire[s] # <<>> /\ Input(s, Head(wire[s]), wire[s])

Started(session, major) ==
    [state |-> "down", session |-> session, major |-> major, peer |-> 0, flow |-> FALSE,
     tx_seq |-> 0, tx_ack |-> 0, tx_window |-> 0, blocked |-> FALSE, rx_next |-> 0,
     adv |-> RxWindow % Mod]

FirstHello(l) == [op |-> "hello", session |-> l.session, seen |-> 0, major |-> l.major, up |-> FALSE,
                  flow |-> RxWindow > 0, window |-> RxWindow]

(* llp_node_start() after a reset, perhaps of another build. *)
Restart(s, major) ==
    LET l == Started(link[s].session + 1, major) IN
    /\ link' = [link EXCEPT ![s] = l]
    /\ wire' = [wire EXCEPT ![Other(s)] = Emitted(s, <<FirstHello(l)>>)]
    /\ rxq' = [rxq EXCEPT ![s] = <<>>] /\ stale' = [stale EXCEPT ![s] = 0]
    /\ txq' = [txq EXCEPT ![s] = <<>>] /\ draft' = [draft EXCEPT ![s] = FALSE]
    /\ p9peer' = [p9peer EXCEPT ![s] = 0]
    /\ evUp' = [evUp EXCEPT ![s] = FALSE]
    /\ ghost' = [ghost EXCEPT ![s] = [sent |-> 0, next |-> 0]]

Fault(s) ==
    \/ /\ faults.line < MaxFaults.line /\ faults' = [faults EXCEPT !.line = @ + 1]
       /\ Lose(s) \/ Repeat(s)
    \/ /\ faults.node < MaxFaults.node /\ faults' = [faults EXCEPT !.node = @ + 1]
       /\ \E major \in Majors[s] : Restart(s, major)

-----------------------------------------------------------------------------
(* The two nodes start, in either order: a first HELLO may find nobody.    *)
Init ==
    /\ link \in {l \in [Sides -> {Started(1, major) : major \in UNION {Majors[s] : s \in Sides}}] :
                   \A s \in Sides : l[s].major \in Majors[s]}
    /\ wire \in {w \in [Sides -> {<<FirstHello(link[s])>> : s \in Sides} \cup {<<>>}] :
                   \A s \in Sides : w[s] \in {<<>>, <<FirstHello(link[Other(s)])>>}}
    /\ rxq = [s \in Sides |-> <<>>] /\ stale = [s \in Sides |-> 0]
    /\ txq = [s \in Sides |-> <<>>] /\ draft = [s \in Sides |-> FALSE]
    /\ p9peer = [s \in Sides |-> 0]
    /\ evUp = [s \in Sides |-> FALSE]
    /\ ghost = [s \in Sides |-> [sent |-> 0, next |-> 0]]
    /\ faults = [line |-> 0, node |-> 0]

Timers == {"none", "hello", "dead", "probe", "alive"}

Next ==
    \E s \in Sides :
        \/ Read(s) \/ Events(s) \/ Drain(s)
        \/ p9_write(s) \/ p9_send(s) \/ p9_give_up(s) \/ p9_recv(s)
        \/ \E due \in Timers : Tick(s, due)
        \/ Fault(s)

Spec == Init /\ [][Next]_vars

(* The pump is a task that is never blocked for ever and goes round its    *)
(* loop; the reader of the queue is one too.  A timer runs out again.      *)
FairSpec ==
    /\ Spec
    /\ \A s \in Sides : /\ WF_vars(Read(s)) /\ WF_vars(Events(s) \/ Drain(s)) /\ WF_vars(p9_recv(s))
                        /\ WF_vars(\E due \in {"none", "hello", "probe"} : Tick(s, due))

-----------------------------------------------------------------------------
(* What the pump is about to hand on. *)
Arriving(s) == {f \in {wire[s][i] : i \in {1} \cap DOMAIN wire[s]} : f.op = "data"}

(* A message queued for one session of the peer, or sent by a session that *)
(* has ended, is never handed on: what llp_link_input() gives to deliver() *)
(* was sent by the session this node talks to, and queued when its sender  *)
(* took this node for the session it is in.  p9_new_peer() has to run      *)
(* before anything is sent.  It says nothing of the message p9_send()      *)
(* still holds then: that one is queued for the new peer.                  *)
OwnSession ==
    \A s \in Sides : \A f \in Arriving(s) :
        Accepts(link[s], f) => f.from = link[s].peer /\ f.to = link[s].session

(* The comparison of eight-bit numbers in llp_link_input() gives the       *)
(* verdict that unbounded numbers would: a frame is taken when it is not   *)
(* older than the one expected and dropped when it is, through losses,     *)
(* repeats, probes, silences and restarts.                                 *)
SequenceExact ==
    \A s \in Sides : \A f \in Arriving(s) :
        f.from = link[s].peer /\ link[s].state = "up"
            => (Accepts(link[s], f) <=> f.n >= ghost[s].next)

(* While neither node restarts, credit is never spent beyond what the      *)
(* receive queue can hold: fq_put() finds a place for every message that   *)
(* llp_link_input() accepts.                                               *)
NoOverrun ==
    (\A s \in Sides : link[s].session = 1) =>
        \A s \in Sides : \A f \in Arriving(s) : Accepts(link[s], f) => Len(rxq[s]) < Slots

Compatible == \A s, t \in Sides : link[s].major = link[t].major

Quiet == \A s \in Sides : \A i \in DOMAIN wire[s] : wire[s][i].op # "hello"

(* Once the faults have ended, two nodes of the same major version come    *)
(* up and stay up, the answering of HELLOs comes to an end, and a node     *)
(* that llp_link_send() held back for credit is let go on: a lost frame    *)
(* does not keep its credit.                                               *)
Recovers ==
    /\ <>[](Compatible => Quiet /\ \A s \in Sides : link[s].state = "up")
    /\ \A s \in Talkers : (link[s].blocked /\ Compatible ~> ~link[s].blocked \/ ~Compatible)
=============================================================================
