------------------------------ MODULE LlpProofs ------------------------------
(***************************************************************************)
(* The link protocol, for any number of restarts, silences, lost and       *)
(* repeated frames: a message never crosses from one session into another, *)
(* eight-bit numbers decide as unbounded ones would, and credit is never   *)
(* overspent.  A step is taken apart into what it takes off the sender's   *)
(* wire, what it puts on the other, and what it makes of the link and of   *)
(* its counts.                                                             *)
(***************************************************************************)
EXTENDS LlpInv, FiniteSetTheorems, SequenceTheorems, TLAPS

(* The two nodes are each other's only peer. *)
LEMMA TwoSides ==
    ASSUME NEW s \in Sides
    PROVE  /\ Other(s) \in Sides /\ Other(s) # s /\ Other(Other(s)) = s
           /\ \A t \in Sides : t = s \/ t = Other(s)
<1>1. IsFiniteSet(Sides \ {s}) /\ Cardinality(Sides \ {s}) = 1
    BY LlpAssumption, FS_RemoveElement, FS_CardinalityType
<1>2. PICK o : Sides \ {s} = {o}
    BY <1>1, FS_Singleton
<1>3. o \in Sides /\ o # s /\ \A t \in Sides : t = s \/ t = o
    BY <1>2
<1>4. Other(s) = o
    BY <1>3 DEF Other
<1>5. Other(o) = s
    BY <1>3 DEF Other
<1> QED
    BY <1>3, <1>4, <1>5

(* Eight-bit arithmetic stays within eight bits. *)
LEMMA ModIn == \A x \in Int : x % Mod \in 0..(Mod - 1)
BY LlpAssumption DEF Half

LEMMA Bounds ==
    /\ Mod \in Nat /\ Mod > 0 /\ MaxWindow \in Nat /\ Slots \in Nat /\ Slots > 0
    /\ RxWindow \in 0..Slots /\ WireLen \in Nat /\ MaxFrames \in Nat
BY LlpAssumption DEF Half

(* Every number is a multiple of Mod and a remainder, in one way only.     *)
LEMMA Divides ==
    ASSUME NEW x \in Int
    PROVE  x % Mod \in 0..(Mod - 1) /\ \E q \in Int : x = Mod * q + (x % Mod)
<1>1. x \div Mod \in Int /\ x = Mod * (x \div Mod) + (x % Mod) /\ x % Mod \in 0..(Mod - 1)
    BY Bounds
<1> QED
    BY <1>1

LEMMA OneRemainder ==
    ASSUME NEW q \in Int, NEW p \in Int, NEW a \in 0..(Mod - 1), NEW b \in 0..(Mod - 1),
           Mod * q + a = Mod * p + b
    PROVE  a = b
<1>1. PICK m \in Nat : m = Mod /\ m > 0
    BY Bounds
<1>2. Mod * (q - p) = b - a
    BY <1>1
<1>3. CASE q - p >= 1
  <2>1. Mod * (q - p) >= Mod * 1
    BY <1>1, <1>3
  <2> QED
    BY <1>1, <1>2, <2>1
<1>4. CASE q - p <= -1
  <2>1. Mod * (p - q) >= Mod * 1
    BY <1>1, <1>4
  <2>2. Mod * (p - q) = a - b
    BY <1>1
  <2> QED
    BY <1>1, <2>1, <2>2
<1>5. CASE q = p
    BY <1>1, <1>2, <1>5
<1> QED
    BY <1>3, <1>4, <1>5

(* Numbers that are less than Mod apart are as far apart in eight bits.    *)
LEMMA Apart ==
    ASSUME NEW a \in Int, NEW b \in Int, NEW k \in 0..(Mod - 1), a - b = k \/ a - b = k - Mod
    PROVE  Minus(a % Mod, b % Mod) = k
<1>1. PICK m \in Nat : m = Mod /\ m > 0
    BY Bounds
<1>2. a % Mod \in Int /\ b % Mod \in Int
    BY Divides
<1>3. PICK r \in Int : r = Minus(a % Mod, b % Mod) /\ r \in 0..(Mod - 1)
    BY <1>2, Divides DEF Minus
<1>4. PICK p \in Int : a = Mod * p + (a % Mod)
    BY Divides
<1>5. PICK q \in Int : b = Mod * q + (b % Mod)
    BY Divides
<1>6. PICK t \in Int : (a % Mod) - (b % Mod) = Mod * t + r
    BY <1>2, <1>3, Divides DEF Minus
<1>7. PICK u \in Int : u = p - q + t
    OBVIOUS
<1>8. a - b = Mod * u + r
  <2>1. a - b = Mod * p - Mod * q + Mod * t + r
    BY <1>1, <1>2, <1>4, <1>5, <1>6
  <2>2. Mod * p - Mod * q + Mod * t = Mod * u
    BY <1>1, <1>7
  <2> QED
    BY <1>1, <2>1, <2>2
<1>9. CASE a - b = k
  <2>1. Mod * u + r = Mod * 0 + k
    BY <1>1, <1>8, <1>9
  <2> QED
    BY <1>3, <2>1, OneRemainder
<1>10. CASE a - b = k - Mod
  <2>1. Mod * u + r = Mod * (-1) + k
    BY <1>1, <1>8, <1>10
  <2>2. PICK e \in Int : e = -1
    OBVIOUS
  <2>3. Mod * u + r = Mod * e + k
    BY <2>1, <2>2
  <2> QED
    BY <1>3, <2>3, OneRemainder
<1> QED
    BY <1>9, <1>10

(* One more in eight bits is one more. *)
LEMMA OneMore ==
    ASSUME NEW a \in Int
    PROVE  ((a % Mod) + 1) % Mod = (a + 1) % Mod
<1>1. PICK m \in Nat : m = Mod /\ m > 0
    BY Bounds
<1>2. a % Mod \in Int /\ (a % Mod) + 1 \in Int /\ a + 1 \in Int
    BY Divides
<1>3. PICK r \in 0..(Mod - 1) : r = ((a % Mod) + 1) % Mod
    BY <1>2, Divides
<1>4. PICK z \in 0..(Mod - 1) : z = (a + 1) % Mod
    BY <1>2, Divides
<1>5. PICK p \in Int : a = Mod * p + (a % Mod)
    BY Divides
<1>6. PICK q \in Int : (a % Mod) + 1 = Mod * q + r
    BY <1>2, <1>3, Divides
<1>7. PICK t \in Int : a + 1 = Mod * t + z
    BY <1>2, <1>4, Divides
<1>8. PICK u \in Int : u = p + q
    OBVIOUS
<1>9. Mod * u + r = Mod * t + z
  <2>1. Mod * p + Mod * q = Mod * u
    BY <1>1, <1>8
  <2>2. a + 1 = Mod * p + Mod * q + r
    BY <1>1, <1>2, <1>5, <1>6
  <2> QED
    BY <1>1, <1>7, <2>1, <2>2
<1> QED
    BY <1>3, <1>4, <1>9, OneRemainder

(* Numbers less than Mod apart that are the same in eight bits are one.    *)
LEMMA SameEight ==
    ASSUME NEW a \in Int, NEW b \in Int, a - b \in 0..(Mod - 1), a % Mod = b % Mod
    PROVE  a = b
<1>1. PICK k \in 0..(Mod - 1) : k = a - b
    OBVIOUS
<1>2. Minus(a % Mod, b % Mod) = k
    BY <1>1, Apart
<1>3. Minus(a % Mod, b % Mod) = Minus(b % Mod, b % Mod)
    BY DEF Minus
<1>4. PICK z \in 0..(Mod - 1) : z = 0
    BY Bounds
<1>5. Minus(b % Mod, b % Mod) = z
    BY <1>4, Apart
<1> QED
    BY <1>1, <1>2, <1>3, <1>4, <1>5

LEMMA FrameNumbers ==
    ASSUME NEW f \in Frames
    PROVE  From(f) \in Nat /\ Knew(f) \in Nat
BY DEF Frames, From, Knew

(* What the channel has room for goes to the end of the other node's wire. *)
LEMMA EmittedFacts ==
    ASSUME wire \in [Sides -> Seq(Frames)], NEW s \in Sides, Len(wire[Other(s)]) <= WireLen, NEW q \in Seq(Frames)
    PROVE  LET w == wire[Other(s)]
               e == Emitted(s, q)
           IN  /\ e \in Seq(Frames) /\ Len(w) <= Len(e) /\ Len(e) <= WireLen
               /\ \A i \in 1..Len(w) : e[i] = w[i]
               /\ \A i \in (Len(w) + 1)..Len(e) : \E j \in 1..Len(q) : e[i] = q[j]
<1> DEFINE w == wire[Other(s)]
           n == Sooner(Len(q), WireLen - Len(w))
           p == SubSeq(q, 1, n)
<1>0. w \in Seq(Frames) /\ Len(w) \in Nat /\ Len(w) <= WireLen
    BY TwoSides
<1>1. n \in 0..Len(q) /\ n <= WireLen - Len(w)
  <2> HIDE DEF w
  <2> QED
    BY <1>0, Bounds DEF Sooner
<1>2. p \in Seq(Frames) /\ Len(p) = n /\ \A j \in 1..n : p[j] = q[j]
    BY <1>1
<1>3. Emitted(s, q) = w \o p
    BY DEF Emitted
<1> HIDE DEF p, n, w
<1>4. /\ Len(w) \in Nat /\ w \o p \in Seq(Frames) /\ Len(w \o p) = Len(w) + n
      /\ \A i \in 1..(Len(w) + n) : (w \o p)[i] = IF i <= Len(w) THEN w[i] ELSE p[i - Len(w)]
    BY <1>0, <1>1, <1>2, ConcatProperties
<1>5. \A i \in (Len(w) + 1)..(Len(w) + n) : (w \o p)[i] = q[i - Len(w)] /\ i - Len(w) \in 1..Len(q)
    BY <1>1, <1>2, <1>4
<1>8. PICK e : e = w \o p
    OBVIOUS
<1>6. /\ e \in Seq(Frames) /\ Len(w) <= Len(e) /\ Len(e) <= WireLen
      /\ \A i \in 1..Len(w) : e[i] = w[i]
    BY ONLY <1>0, <1>1, <1>4, <1>8, Bounds
<1>7. \A i \in (Len(w) + 1)..Len(e) : \E j \in 1..Len(q) : e[i] = q[j]
    BY ONLY <1>4, <1>5, <1>8
<1> QED
    BY <1>3, <1>6, <1>7, <1>8 DEF w

-----------------------------------------------------------------------------
(* The functions of llp.c, from a link to a link and the frames to send.   *)
(* None changes the session or the version of its node, and what it sends  *)
(* says what it then knows; all but a HELLO is sent by a node that is up.  *)
Signed(l, f) == From(f) = l.session /\ Knew(f) = l.peer /\ (f.op # "hello" => l.state = "up")

Answers(l, r) ==
    /\ r.l \in Links /\ r.l.session = l.session /\ r.q \in Seq(Frames)
    /\ \A i \in 1..Len(r.q) : Signed(r.l, r.q[i])

LEMMA WindowNow ==
    ASSUME TypeOK, NEW s \in Sides PROVE rx_window_now(s) \in 0..Slots
BY Bounds DEF TypeOK, rx_window_now, Sooner

LEMMA HelloAnswers ==
    ASSUME TypeOK, NEW s \in Sides, NEW l \in Links
    PROVE  /\ Answers(l, send_hello(s, l))
           /\ send_hello(s, l).l.state = l.state /\ send_hello(s, l).l.peer = l.peer
<1>1. rx_window_now(s) \in 0..Slots
    BY WindowNow
<1>2. (l.rx_next + rx_window_now(s)) % Mod \in 0..(Mod - 1)
    BY <1>1, ModIn DEF Links
<1>3. Hello(s, l) \in Frames
    BY <1>1 DEF Hello, Frames, Links
<1>4. Hello(s, l).op = "hello" /\ From(Hello(s, l)) = l.session /\ Knew(Hello(s, l)) = l.peer
    BY DEF Hello, From, Knew
<1> DEFINE h == Hello(s, l)
           m == [l EXCEPT !.adv = (l.rx_next + rx_window_now(s)) % Mod]
<1>5. m \in Links /\ m.session = l.session /\ m.peer = l.peer /\ m.state = l.state
    BY <1>2 DEF Links
<1>6. send_hello(s, l) = [l |-> m, q |-> <<h>>]
    BY DEF send_hello
<1> HIDE DEF h, m
<1> QED
    BY <1>3, <1>4, <1>5, <1>6 DEF Answers, Signed, h

LEMMA CreditAnswers ==
    ASSUME TypeOK, NEW s \in Sides, NEW l \in Links, l.state = "up", NEW n \in 0..MaxFrames, NEW force \in BOOLEAN
    PROVE  LET r == maybe_credit(s, l, n, force) IN
           /\ Answers(l, r) /\ r.l.state = l.state /\ r.l.peer = l.peer
           /\ r.l.rx_next = l.rx_next
<1>1. rx_window_now(s) \in 0..Slots
    BY WindowNow
<1> DEFINE a == (l.rx_next + rx_window_now(s)) % Mod
           m == [l EXCEPT !.adv = a]
           c == [op |-> "credit", ack |-> l.rx_next, window |-> rx_window_now(s),
                 from |-> l.session, to |-> l.peer, n |-> n]
           r == maybe_credit(s, l, n, force)
<1>2. a \in 0..(Mod - 1)
    BY <1>1, ModIn DEF Links
<1> HIDE DEF a
<1>3. c \in Frames /\ From(c) = l.session /\ Knew(c) = l.peer
    BY <1>1 DEF Frames, Links, From, Knew
<1>4. m \in Links /\ m.session = l.session /\ m.peer = l.peer /\ m.state = l.state /\ m.rx_next = l.rx_next
    BY <1>2 DEF Links
<1>5. r = [l |-> m, q |-> <<c>>] \/ r = [l |-> l, q |-> <<>>]
    BY DEF maybe_credit, send_credit, a
<1> HIDE DEF r, m, c
<1>7. CASE r = [l |-> m, q |-> <<c>>]
  <2>1. r.l = m /\ r.q \in Seq(Frames) /\ \A i \in 1..Len(r.q) : r.q[i] = c
    BY <1>3, <1>7
  <2>2. Answers(l, r)
    BY <1>3, <1>4, <2>1 DEF Answers, Signed
  <2> QED
    BY <1>4, <2>1, <2>2 DEF r
<1>8. CASE r = [l |-> l, q |-> <<>>]
  <2>1. r.l = l /\ r.q \in Seq(Frames) /\ r.q = <<>>
    BY <1>8
  <2>2. Answers(l, r)
    BY <2>1 DEF Answers
  <2> QED
    BY <2>1, <2>2 DEF r
<1> QED
    BY <1>5, <1>7, <1>8 DEF r

(* A HELLO that counts makes its sender the peer.  A node comes up by one  *)
(* that names its session.                                                 *)
LEMMA HelloRead ==
    ASSUME TypeOK, NEW s \in Sides, NEW l \in Links, NEW f \in Frames, f.op = "hello"
    PROVE  LET r == on_hello(s, l, f) IN
           /\ Answers(l, r) /\ r.l.peer = f.session
           /\ r.l.state = "up" => f.seen = l.session \/ (l.state = "up" /\ l.peer = f.session)
           /\ r.l.peer = l.peer => r.l.rx_next = l.rx_next
<1>1. f.session \in Nat \ {0} /\ f.flow \in BOOLEAN /\ f.window \in 0..Slots
    BY DEF Frames
<1>2. Sooner(f.window, MaxWindow) \in 0..MaxWindow
    BY <1>1, Bounds DEF Sooner
<1> DEFINE new == f.session # l.peer
           m   == IF new THEN Met(l, f) ELSE [l EXCEPT !.flow = f.flow]
           up  == [m EXCEPT !.state = "up"]
<1>3. m \in Links /\ m.session = l.session /\ m.peer = f.session
  <2>1. CASE new
    <3> DEFINE st == IF f.major = l.major THEN "down" ELSE "mismatch"
               wd == Sooner(f.window, MaxWindow)
    <3>0. st \in {"down", "mismatch"} /\ 0 \in 0..(Mod - 1) /\ f.session \in Nat
        BY <1>1, Bounds
    <3>2. Met(l, f) = [l EXCEPT !.peer = f.session, !.flow = f.flow, !.tx_seq = 0, !.tx_ack = 0,
              !.tx_window = wd, !.blocked = FALSE, !.rx_next = 0, !.state = st]
        BY DEF Met
    <3> HIDE DEF st, wd
    <3>1. Met(l, f) = [state |-> st, session |-> l.session, major |-> l.major, peer |-> f.session, flow |-> f.flow,
                       tx_seq |-> 0, tx_ack |-> 0, tx_window |-> wd, blocked |-> FALSE, rx_next |-> 0, adv |-> l.adv]
        BY <3>2 DEF Links
    <3>3. Met(l, f) \in Links /\ Met(l, f).session = l.session /\ Met(l, f).peer = f.session
        BY <1>1, <1>2, <3>0, <3>1 DEF Links, wd
    <3> QED
        BY <2>1, <3>3
  <2>2. CASE ~new
    BY <1>1, <2>2 DEF Links
  <2> QED
    BY <2>1, <2>2
<1>4. ~new => m.rx_next = l.rx_next /\ m.state = l.state
    BY DEF Links
<1>5. new => m.state # "up"
    BY DEF Met, Links
<1>6. on_hello(s, l, f) =
        IF ~new /\ l.state = "mismatch" THEN [l |-> l, q |-> <<>>]
        ELSE IF m.state = "mismatch" THEN send_hello(s, m)
        ELSE IF f.seen # l.session THEN send_hello(s, m)
        ELSE IF f.up THEN [l |-> up, q |-> <<>>]
        ELSE send_hello(s, up)
    BY DEF on_hello
<1> HIDE DEF m
<1>7. up \in Links /\ up.session = l.session /\ up.peer = f.session /\ up.rx_next = m.rx_next
    BY <1>3 DEF Links
<1> HIDE DEF up
<1>8. /\ Answers(m, send_hello(s, m)) /\ send_hello(s, m).l.state = m.state
      /\ send_hello(s, m).l.peer = m.peer /\ send_hello(s, m).l.rx_next = m.rx_next
    BY <1>3, HelloAnswers DEF send_hello, Links
<1>9. /\ Answers(up, send_hello(s, up))
      /\ send_hello(s, up).l.peer = up.peer /\ send_hello(s, up).l.rx_next = up.rx_next
    BY <1>7, HelloAnswers DEF send_hello, Links
<1> DEFINE r == on_hello(s, l, f)
<1> HIDE DEF r
<1>10. CASE r = [l |-> l, q |-> <<>>] /\ ~new /\ l.state = "mismatch"
    BY <1>10 DEF Answers, r
<1>11. CASE r = send_hello(s, m)
    BY <1>3, <1>4, <1>5, <1>8, <1>11 DEF Answers, r
<1>12. CASE r = [l |-> up, q |-> <<>>] /\ f.seen = l.session
    BY <1>4, <1>7, <1>12 DEF Answers, r
<1>13. CASE r = send_hello(s, up) /\ f.seen = l.session
    BY <1>4, <1>7, <1>9, <1>13 DEF Answers, r
<1> QED
    BY <1>6, <1>10, <1>11, <1>12, <1>13 DEF r

(* Nothing else does. *)
LEMMA CreditRead ==
    ASSUME NEW l \in Links, NEW f \in Frames, f.op = "credit"
    PROVE  LET m == on_credit(l, f) IN
           /\ m \in Links /\ m.session = l.session /\ m.peer = l.peer /\ m.state = l.state
           /\ m.rx_next = l.rx_next
<1>1. f.ack \in 0..(Mod - 1) /\ f.window \in 0..Slots
    BY DEF Frames
<1>2. Sooner(f.window, MaxWindow) \in 0..MaxWindow
    BY <1>1, Bounds DEF Sooner
<1> DEFINE m == [l EXCEPT !.tx_ack = f.ack, !.tx_window = Sooner(f.window, MaxWindow)]
           n == [m EXCEPT !.blocked = FALSE]
<1>3. on_credit(l, f) \in {l, m, n}
    BY DEF on_credit
<1>4. m \in Links /\ m.session = l.session /\ m.peer = l.peer /\ m.state = l.state /\ m.rx_next = l.rx_next
    BY <1>1, <1>2 DEF Links
<1> HIDE DEF m
<1>5. n \in Links /\ n.session = m.session /\ n.peer = m.peer /\ n.state = m.state /\ n.rx_next = m.rx_next
    BY <1>4 DEF Links
<1> QED
    BY <1>3, <1>4, <1>5

LEMMA ProbeRead ==
    ASSUME TypeOK, NEW s \in Sides, NEW l \in Links, NEW f \in Frames, f.op = "probe"
    PROVE  LET r == on_probe(s, l, f) IN
           /\ Answers(l, r) /\ r.l.peer = l.peer /\ r.l.state = l.state
           /\ r.l.rx_next \in {l.rx_next, f.next}
<1>1. f.next \in 0..(Mod - 1) /\ f.n \in 0..MaxFrames /\ ghost[s].next \in 0..MaxFrames
    BY DEF Frames, TypeOK
<1>2. PICK force \in BOOLEAN : force = TRUE
    OBVIOUS
<1> DEFINE m == [l EXCEPT !.rx_next = f.next]
<1>3. m \in Links /\ m.session = l.session /\ m.peer = l.peer /\ m.state = l.state /\ m.rx_next = f.next
    BY <1>1 DEF Links
<1>4. on_probe(s, l, f) = IF l.state # "up" THEN [l |-> l, q |-> <<>>]
                          ELSE IF Ahead(l, f.next) THEN maybe_credit(s, m, f.n, force)
                          ELSE maybe_credit(s, l, ghost[s].next, force)
    BY <1>2 DEF on_probe
<1> HIDE DEF m
<1> DEFINE r == on_probe(s, l, f)
<1> HIDE DEF r
<1>5. CASE l.state # "up"
  <2>1. r = [l |-> l, q |-> <<>>]
    BY <1>4, <1>5 DEF r
  <2> QED
    BY <2>1 DEF Answers, r
<1>6. CASE l.state = "up" /\ Ahead(l, f.next)
  <2>1. r = maybe_credit(s, m, f.n, force)
    BY <1>4, <1>6 DEF r
  <2>2. Answers(m, r) /\ r.l.peer = m.peer /\ r.l.state = m.state /\ r.l.rx_next = m.rx_next
    BY <1>1, <1>3, <1>6, <2>1, CreditAnswers
  <2> QED
    BY <1>3, <2>2 DEF Answers, r
<1>7. CASE l.state = "up" /\ ~Ahead(l, f.next)
  <2>1. r = maybe_credit(s, l, ghost[s].next, force)
    BY <1>4, <1>7 DEF r
  <2>2. Answers(l, r) /\ r.l.peer = l.peer /\ r.l.state = l.state /\ r.l.rx_next = l.rx_next
    BY <1>1, <1>7, <2>1, CreditAnswers
  <2> QED
    BY <2>2 DEF r
<1> QED
    BY <1>5, <1>6, <1>7

LEMMA DataRead ==
    ASSUME NEW l \in Links, NEW f \in Frames, f.op = "data"
    PROVE  LET m == on_data(l, f) IN
           /\ m \in Links /\ m.session = l.session /\ m.peer = l.peer /\ m.state = l.state
<1>1. f.seq \in 0..(Mod - 1)
    BY DEF Frames
<1>2. (f.seq + 1) % Mod \in 0..(Mod - 1)
    BY <1>1, ModIn
<1> QED
    BY <1>2 DEF on_data, Links

-----------------------------------------------------------------------------
(* What a step of one node's, or of the line to it, does to the sessions:  *)
(* it takes at most one frame off the line, the other line is only added   *)
(* to, and what is added says what the node then is and knows.             *)
Drops(s) ==
    \E d \in {0, 1} : /\ Len(wire'[s]) = Len(wire[s]) - d
                      /\ \A i \in 1..Len(wire'[s]) : wire'[s][i] = wire[s][i + d]

Says(s, f) == Signed(link'[s], f)

Adds(s) ==
    /\ Len(wire[Other(s)]) <= Len(wire'[Other(s)])
    /\ \A i \in 1..Len(wire[Other(s)]) : wire'[Other(s)][i] = wire[Other(s)][i]
    /\ \A i \in (Len(wire[Other(s)]) + 1)..Len(wire'[Other(s)]) : Says(s, wire'[Other(s)][i])

Remains(s) ==
    /\ link'[s].session = link[s].session /\ link'[s].peer = link[s].peer
    /\ link'[s].state = "up" => link[s].state = "up"
Meets(s) ==
    /\ 1 \in Sent(s) /\ wire[s][1].op = "hello"
    /\ link'[s].session = link[s].session /\ link'[s].peer = From(wire[s][1])
    /\ link'[s].state = "up" =>
        Knew(wire[s][1]) = link[s].session \/ (link[s].state = "up" /\ link'[s].peer = link[s].peer)
Restarts(s) ==
    link'[s].session = link[s].session + 1 /\ link'[s].peer = 0 /\ link'[s].state # "up"

NodeStep(s) ==
    /\ link'[Other(s)] = link[Other(s)]
    /\ Drops(s) /\ Adds(s)
    /\ Remains(s) \/ Meets(s) \/ Restarts(s)

Sessions(s) == FromInOrder(s) /\ KnewInOrder(s) /\ ReadUpTo(s) /\ UpKnown(s) /\ HasMet(s)

LEMMA SessionsKept ==
    ASSUME TypeOK, TypeOK', NEW s \in Sides, NodeStep(s), Sessions(s), Sessions(Other(s))
    PROVE  Sessions(s)' /\ Sessions(Other(s))'
<1> DEFINE o == Other(s)
<1>1. PICK d \in {0, 1} : /\ Len(wire'[s]) = Len(wire[s]) - d
                          /\ \A i \in 1..Len(wire'[s]) : wire'[s][i] = wire[s][i + d]
    BY DEF NodeStep, Drops
<1>2. o \in Sides /\ Other(o) = s /\ o # s
    BY TwoSides
<1>3. /\ link[s].session \in Nat /\ link'[s].session \in Nat /\ link[o].session \in Nat
      /\ link[s].peer \in Nat /\ link'[s].peer \in Nat /\ link[o].peer \in Nat
      /\ link[s].session > 0 /\ link'[s].session > 0 /\ link'[o] = link[o]
  <2>1. link[s] \in Links /\ link'[s] \in Links /\ link[o] \in Links
    BY <1>2 DEF TypeOK
  <2>2. link'[o] = link[o]
    BY DEF NodeStep
  <2> QED
    BY <2>1, <2>2 DEF Links
<1>4. \A t \in Sides : wire[t] \in Seq(Frames) /\ wire'[t] \in Seq(Frames)
    BY DEF TypeOK
<1>5. \A t \in Sides : \A i \in Sent(t) : From(wire[t][i]) \in Nat /\ Knew(wire[t][i]) \in Nat
    BY <1>4, FrameNumbers DEF Sent
<1>6. \A i \in Sent(s)' : i + d \in Sent(s) /\ wire'[s][i] = wire[s][i + d]
    BY <1>1, <1>4 DEF Sent
<1>7. \A i, j \in Sent(s)' : i < j <=> i + d < j + d
    BY DEF Sent
(* A frame on the other line is an old one, or says what is the case now. *)
<1>8. \A i \in Sent(o)' :
        \/ i \in Sent(o) /\ wire'[o][i] = wire[o][i]
        \/ i > Len(wire[o]) /\ Says(s, wire'[o][i])
    BY <1>2, <1>4 DEF Sent, NodeStep, Adds
<1>9. \A i \in Sent(o)' :
        \/ i \in Sent(o) /\ wire'[o][i] = wire[o][i]
        \/ /\ i > Len(wire[o]) /\ From(wire'[o][i]) = link'[s].session /\ Knew(wire'[o][i]) = link'[s].peer
           /\ wire'[o][i].op # "hello" => link'[s].state = "up"
    BY <1>8 DEF Sent, Says, Signed
<1>10. \A i \in Sent(o), j \in Sent(o)' : i \in Int /\ j \in Int /\ (j > Len(wire[o]) => i < j)
    BY <1>2, <1>4 DEF Sent
<1>11. \A i \in Sent(s) : i \in Nat /\ i >= 1
    BY DEF Sent
<1>12. FromInOrder(s) /\ KnewInOrder(s) /\ ReadUpTo(s) /\ UpKnown(s) /\ HasMet(s)
    BY DEF Sessions
<1>13. FromInOrder(o) /\ KnewInOrder(o) /\ ReadUpTo(o) /\ UpKnown(o) /\ HasMet(o)
    BY DEF Sessions
<1>14. \/ Remains(s)
       \/ Meets(s) /\ link'[s].peer \in Nat \ {0} /\ link'[s].peer >= link[s].peer
       \/ Restarts(s)
  <2>1. Meets(s) => From(wire[s][1]) >= link[s].peer /\ From(wire[s][1]) > 0
    BY <1>2, <1>3, <1>5, <1>12 DEF Meets, FromInOrder
  <2> QED
    BY <1>3, <1>5, <2>1 DEF NodeStep, Meets
<1>15. \/ link'[s].session = link[s].session /\ link[s].peer <= link'[s].peer
       \/ Restarts(s)
    BY <1>3, <1>14 DEF Remains, Meets
<1>16. \A i \in Sent(s)' : link'[s].peer <= From(wire'[s][i])
  <2> SUFFICES ASSUME NEW i \in Sent(s)' PROVE link'[s].peer <= From(wire[s][i + d])
    BY <1>6
  <2>1. i + d \in Sent(s) /\ From(wire[s][i + d]) \in Nat
    BY <1>2, <1>5, <1>6
  <2>2. link[s].peer <= From(wire[s][i + d])
    BY <1>3, <1>12, <2>1 DEF FromInOrder
  <2>3. CASE Meets(s)
    <3>1. 1 < i + d => From(wire[s][1]) <= From(wire[s][i + d])
        BY <1>12, <2>1, <2>3 DEF FromInOrder, Meets
    <3> QED
        BY <1>3, <1>11, <2>1, <2>3, <3>1 DEF Meets
  <2> QED
    BY <1>14, <2>1, <2>2, <2>3 DEF Remains, Restarts
<1>17. link'[s].peer <= link[o].session
  <2>1. link[s].peer <= link[o].session
    BY <1>12 DEF FromInOrder
  <2>2. Meets(s) => From(wire[s][1]) <= link[o].session
    BY <1>3, <1>5, <1>12 DEF Meets, FromInOrder
  <2> QED
    BY <1>3, <1>14, <2>1, <2>2 DEF Remains, Meets, Restarts
<1>18. link'[s].peer # 0 => \A j \in Sent(o) : Knew(wire[o][j]) <= link'[s].peer
  <2> SUFFICES ASSUME link'[s].peer # 0, NEW j \in Sent(o) PROVE Knew(wire[o][j]) <= link'[s].peer
    OBVIOUS
  <2>1. link[s].peer # 0 => Knew(wire[o][j]) <= link[s].peer
    BY <1>2, <1>13 DEF KnewInOrder
  <2>2. Meets(s) => Knew(wire[o][j]) <= From(wire[s][1])
    BY <1>2, <1>13 DEF ReadUpTo, Meets
  <2> QED
    BY <1>2, <1>3, <1>5, <1>14, <2>1, <2>2 DEF Remains, Meets, Restarts
<1>19. FromInOrder(s)'
  <2>1. \A i \in Sent(s)' : From(wire'[s][i]) \in link'[s].peer..link'[o].session /\ From(wire'[s][i]) > 0
    BY <1>2, <1>3, <1>5, <1>6, <1>12, <1>16 DEF FromInOrder
  <2>2. \A i, j \in Sent(s)' : i < j => From(wire'[s][i]) <= From(wire'[s][j])
    BY <1>6, <1>7, <1>12 DEF FromInOrder
  <2> QED
    BY <1>3, <1>17, <2>1, <2>2 DEF FromInOrder
<1>20. FromInOrder(o)'
  <2>0. link[s].session <= link'[s].session
    BY <1>3, <1>15 DEF Restarts
  <2>1. \A i \in Sent(o)' : From(wire'[o][i]) \in link[o].peer..link'[s].session /\ From(wire'[o][i]) > 0
    BY <1>2, <1>3, <1>5, <1>9, <1>13, <2>0 DEF FromInOrder
  <2>2. \A i \in Sent(o)' : From(wire'[o][i]) <= link'[s].session
    BY <1>3, <2>1
  <2>3. \A i, j \in Sent(o)' : i < j => From(wire'[o][i]) <= From(wire'[o][j])
    <3> SUFFICES ASSUME NEW i \in Sent(o)', NEW j \in Sent(o)', i < j PROVE From(wire'[o][i]) <= From(wire'[o][j])
        OBVIOUS
    <3>1. CASE j \in Sent(o) /\ wire'[o][j] = wire[o][j]
      <4>1. i \in Sent(o) /\ wire'[o][i] = wire[o][i]
        BY <1>9, <1>10, <3>1
      <4> QED
        BY <1>13, <3>1, <4>1 DEF FromInOrder
    <3>2. CASE From(wire'[o][j]) = link'[s].session
        BY <2>2, <3>2
    <3> QED
        BY <1>9, <3>1, <3>2
  <2> QED
    BY <1>2, <1>3, <1>13, <2>0, <2>1, <2>3 DEF FromInOrder
<1>21. KnewInOrder(s)'
  <2>1. \A i \in Sent(s)' : Knew(wire'[s][i]) \in 0..link'[s].session
    BY <1>3, <1>5, <1>6, <1>12, <1>15 DEF KnewInOrder, Restarts
  <2>2. \A i, j \in Sent(s)' : i < j /\ Knew(wire'[s][j]) # 0 => Knew(wire'[s][i]) <= Knew(wire'[s][j])
    BY <1>6, <1>7, <1>12 DEF KnewInOrder
  <2>3. \A i \in Sent(s)' : link[o].peer # 0 => Knew(wire'[s][i]) <= link[o].peer
    BY <1>6, <1>12 DEF KnewInOrder
  <2> QED
    BY <1>3, <2>1, <2>2, <2>3 DEF KnewInOrder
<1>22. KnewInOrder(o)'
  <2>1. \A i \in Sent(o)' : Knew(wire'[o][i]) \in 0..link[o].session
    BY <1>3, <1>5, <1>2, <1>9, <1>13, <1>17 DEF KnewInOrder
  <2>2. \A i \in Sent(o)' : link'[s].peer # 0 => Knew(wire'[o][i]) <= link'[s].peer
    BY <1>3, <1>9, <1>18
  <2>3. \A i, j \in Sent(o)' : i < j /\ Knew(wire'[o][j]) # 0 => Knew(wire'[o][i]) <= Knew(wire'[o][j])
    <3> SUFFICES ASSUME NEW i \in Sent(o)', NEW j \in Sent(o)', i < j, Knew(wire'[o][j]) # 0
                 PROVE  Knew(wire'[o][i]) <= Knew(wire'[o][j])
        OBVIOUS
    <3>1. CASE j \in Sent(o) /\ wire'[o][j] = wire[o][j]
      <4>1. i \in Sent(o) /\ wire'[o][i] = wire[o][i]
        BY <1>9, <1>10, <3>1
      <4> QED
        BY <1>13, <3>1, <4>1 DEF KnewInOrder
    <3>2. CASE Knew(wire'[o][j]) = link'[s].peer
        BY <2>2, <3>2
    <3> QED
        BY <1>9, <3>1, <3>2
  <2> QED
    BY <1>2, <1>3, <2>1, <2>2, <2>3 DEF KnewInOrder
<1>23. ReadUpTo(s)'
  <2> SUFFICES ASSUME NEW i \in Sent(s)', NEW j \in Sent(o)' PROVE Knew(wire'[s][i]) <= From(wire'[o][j])
    BY DEF ReadUpTo
  <2>1. i + d \in Sent(s) /\ wire'[s][i] = wire[s][i + d]
    BY <1>6
  <2>2. CASE j \in Sent(o) /\ wire'[o][j] = wire[o][j]
    BY <1>12, <2>1, <2>2 DEF ReadUpTo
  <2>3. CASE From(wire'[o][j]) = link'[s].session
    BY <1>3, <1>21, <2>3 DEF KnewInOrder
  <2> QED
    BY <1>9, <2>2, <2>3
<1>24. ReadUpTo(o)'
  <2> SUFFICES ASSUME NEW i \in Sent(o)', NEW j \in Sent(s)' PROVE Knew(wire'[o][i]) <= From(wire'[s][j])
    BY <1>2 DEF ReadUpTo
  <2>1. j + d \in Sent(s) /\ wire'[s][j] = wire[s][j + d]
    BY <1>6
  <2>2. CASE i \in Sent(o) /\ wire'[o][i] = wire[o][i]
    BY <1>2, <1>13, <2>1, <2>2 DEF ReadUpTo
  <2>3. CASE Knew(wire'[o][i]) = link'[s].peer
    BY <1>16, <2>3
  <2> QED
    BY <1>9, <2>2, <2>3
(* A node that comes up has been named by its session, and so has all that *)
(* is behind that frame.                                                   *)
<1>25. UpKnown(s)'
  <2> SUFFICES ASSUME link'[s].state = "up"
               PROVE  /\ link'[s].peer # 0
                      /\ \A i \in Sent(s)' : Knew(wire'[s][i]) \in {0, link'[s].session}
                      /\ link'[o].peer \in {0, link'[s].session}
                      /\ \A j \in Sent(o)' : From(wire'[o][j]) = link'[s].session
    BY DEF UpKnown
  <2>1. CASE link'[s].session = link[s].session /\ link'[s].peer = link[s].peer /\ link[s].state = "up"
    BY <1>3, <1>6, <1>9, <1>12, <2>1 DEF UpKnown
  <2>2. CASE Meets(s) /\ Knew(wire[s][1]) = link[s].session
    <3>1. 1 \in Sent(s) /\ link'[s].session = link[s].session /\ link'[s].peer # 0
        BY <1>3, <1>5, <1>12, <2>2 DEF Meets, FromInOrder
    <3>2. ASSUME NEW i \in Sent(s) PROVE Knew(wire[s][i]) \in {0, link[s].session}
      <4>1. Knew(wire[s][i]) \in 0..link[s].session
        BY <1>12 DEF KnewInOrder
      <4>2. 1 < i /\ Knew(wire[s][i]) # 0 => link[s].session <= Knew(wire[s][i])
        BY <1>12, <2>2, <3>1 DEF KnewInOrder
      <4> QED
        BY <1>3, <1>11, <2>2, <4>1, <4>2
    <3>3. link[o].peer \in {0, link[s].session}
      <4>1. link[o].peer # 0 => link[s].session <= link[o].peer
        BY <1>12, <2>2, <3>1 DEF KnewInOrder
      <4>2. link[o].peer <= link[s].session
        BY <1>2, <1>13 DEF FromInOrder
      <4> QED
        BY <1>3, <4>1, <4>2
    <3>4. ASSUME NEW j \in Sent(o) PROVE From(wire[o][j]) = link[s].session
      <4>1. link[s].session <= From(wire[o][j])
        BY <1>12, <2>2, <3>1 DEF ReadUpTo
      <4>2. From(wire[o][j]) <= link[s].session
        BY <1>2, <1>3, <1>13 DEF FromInOrder
      <4> QED
        BY <1>2, <1>3, <1>5, <4>1, <4>2
    <3> QED
        BY <1>3, <1>6, <1>9, <3>1, <3>2, <3>3, <3>4
  <2> QED
    BY <1>14, <2>1, <2>2 DEF Remains, Meets, Restarts
<1>26. link[o].state = "up" => link'[s].peer \in {0, link[o].session}
  <2> SUFFICES ASSUME link[o].state = "up" PROVE link'[s].peer \in {0, link[o].session}
    OBVIOUS
  <2>1. link[s].peer \in {0, link[o].session} /\ \A i \in Sent(s) : From(wire[s][i]) = link[o].session
    BY <1>2, <1>13 DEF UpKnown
  <2> QED
    BY <1>14, <2>1 DEF Remains, Meets, Restarts
<1>27. UpKnown(o)'
  <2> SUFFICES ASSUME link[o].state = "up"
               PROVE  /\ link[o].peer # 0
                      /\ \A i \in Sent(o)' : Knew(wire'[o][i]) \in {0, link[o].session}
                      /\ link'[s].peer \in {0, link[o].session}
                      /\ \A j \in Sent(s)' : From(wire'[s][j]) = link[o].session
    BY <1>2, <1>3 DEF UpKnown
  <2>1. /\ link[o].peer # 0 /\ \A i \in Sent(o) : Knew(wire[o][i]) \in {0, link[o].session}
        /\ \A j \in Sent(s) : From(wire[s][j]) = link[o].session
    BY <1>2, <1>13 DEF UpKnown
  <2> QED
    BY <1>6, <1>9, <1>26, <2>1
<1>28. HasMet(s)'
  <2>1. ASSUME NEW i \in Sent(s)', wire'[s][i].op # "hello"
        PROVE  /\ Knew(wire'[s][i]) # 0
               /\ Knew(wire'[s][i]) = link'[s].session => From(wire'[s][i]) <= link'[s].peer
    <3>1. i + d \in Sent(s) /\ wire'[s][i] = wire[s][i + d]
        BY <1>6
    <3>2. /\ Knew(wire[s][i + d]) # 0 /\ Knew(wire[s][i + d]) <= link[s].session
          /\ Knew(wire[s][i + d]) = link[s].session => From(wire[s][i + d]) <= link[s].peer
        BY <1>3, <1>5, <1>12, <2>1, <3>1 DEF HasMet, KnewInOrder
    <3> QED
        BY <1>3, <1>5, <1>15, <3>1, <3>2 DEF Restarts
  <2>2. link[o].state = "up" /\ link[o].peer = link'[s].session => link[o].session <= link'[s].peer
    <3>1. link[o].peer <= link[s].session
        BY <1>2, <1>13 DEF FromInOrder
    <3>2. link[o].state = "up" /\ link[o].peer = link[s].session => link[o].session <= link[s].peer
        BY <1>12 DEF HasMet
    <3> QED
        BY <1>3, <1>15, <3>1, <3>2 DEF Restarts
  <2>3. ASSUME NEW j \in Sent(o)', From(wire'[o][j]) = link'[s].session
        PROVE  Knew(wire'[o][j]) <= link'[s].peer
    <3>1. CASE j \in Sent(o) /\ wire'[o][j] = wire[o][j]
      <4>1. From(wire[o][j]) <= link[s].session
        BY <1>2, <1>3, <1>13, <3>1 DEF FromInOrder
      <4>2. From(wire[o][j]) = link[s].session => Knew(wire[o][j]) <= link[s].peer
        BY <1>12, <3>1 DEF HasMet
      <4> QED
        BY <1>2, <1>3, <1>5, <1>15, <2>3, <3>1, <4>1, <4>2 DEF Restarts
    <3>2. CASE Knew(wire'[o][j]) = link'[s].peer
        BY <1>3, <3>2
    <3> QED
        BY <1>9, <3>1, <3>2
  <2> QED
    BY <1>3, <2>1, <2>2, <2>3 DEF HasMet
<1>29. link'[s].state = "up" /\ link'[s].peer = link[o].session => link'[s].session <= link[o].peer
  <2> SUFFICES ASSUME link'[s].state = "up", link'[s].peer = link[o].session PROVE link'[s].session <= link[o].peer
    OBVIOUS
  <2>1. CASE link'[s].session = link[s].session /\ link'[s].peer = link[s].peer /\ link[s].state = "up"
    BY <1>2, <1>13, <2>1 DEF HasMet
  <2>2. CASE Meets(s) /\ Knew(wire[s][1]) = link[s].session
    BY <1>2, <1>13, <2>2 DEF HasMet, Meets
  <2> QED
    BY <1>14, <2>1, <2>2 DEF Remains, Meets, Restarts
<1>30. HasMet(o)'
  <2>1. ASSUME NEW i \in Sent(o)', wire'[o][i].op # "hello"
        PROVE  /\ Knew(wire'[o][i]) # 0
               /\ Knew(wire'[o][i]) = link[o].session => From(wire'[o][i]) <= link[o].peer
    <3>1. CASE i \in Sent(o) /\ wire'[o][i] = wire[o][i]
        BY <1>2, <1>13, <2>1, <3>1 DEF HasMet
    <3>2. CASE /\ From(wire'[o][i]) = link'[s].session /\ Knew(wire'[o][i]) = link'[s].peer
               /\ link'[s].state = "up"
        BY <1>25, <1>29, <3>2 DEF UpKnown
    <3> QED
        BY <1>9, <2>1, <3>1, <3>2
  <2>2. ASSUME NEW j \in Sent(s)', From(wire'[s][j]) = link[o].session
        PROVE  Knew(wire'[s][j]) <= link[o].peer
    BY <1>2, <1>6, <1>13, <2>2 DEF HasMet
  <2> QED
    BY <1>2, <1>3, <1>29, <2>1, <2>2 DEF HasMet
<1> QED
    BY <1>19, <1>20, <1>21, <1>22, <1>23, <1>24, <1>25, <1>27, <1>28, <1>30 DEF Sessions

-----------------------------------------------------------------------------
(* The wire to the other node once q has been handed to the channel.       *)
LEMMA AddsAll ==
    ASSUME TypeOK, NEW s \in Sides, NEW q \in Seq(Frames), wire'[Other(s)] = Emitted(s, q),
           \A i \in 1..Len(q) : Says(s, q[i])
    PROVE  Adds(s) /\ wire'[Other(s)] \in Seq(Frames) /\ Len(wire'[Other(s)]) <= WireLen
<1> DEFINE w == wire[Other(s)]
           e == Emitted(s, q)
<1>1. wire \in [Sides -> Seq(Frames)] /\ Len(wire[Other(s)]) <= WireLen
    BY TwoSides DEF TypeOK
<1>2. /\ e \in Seq(Frames) /\ Len(w) <= Len(e) /\ Len(e) <= WireLen
      /\ \A i \in 1..Len(w) : e[i] = w[i]
      /\ \A i \in (Len(w) + 1)..Len(e) : \E j \in 1..Len(q) : e[i] = q[j]
    BY <1>1, EmittedFacts
<1> HIDE DEF e
<1>3. wire'[Other(s)] = e
    BY DEF e
<1>4. \A i \in (Len(w) + 1)..Len(e) : Says(s, e[i])
    BY <1>2
<1> QED
    BY <1>2, <1>3, <1>4 DEF Adds

LEMMA AddsNothing ==
    ASSUME TypeOK, NEW s \in Sides, wire'[Other(s)] = wire[Other(s)]
    PROVE  Adds(s)
BY TwoSides DEF TypeOK, Adds

LEMMA DropsOneOrNone ==
    ASSUME TypeOK, NEW s \in Sides,
           wire'[s] = wire[s] \/ (wire[s] # <<>> /\ wire'[s] = Tail(wire[s]))
    PROVE  Drops(s) /\ wire'[s] \in Seq(Frames) /\ Len(wire'[s]) <= WireLen
<1>1. wire[s] \in Seq(Frames) /\ Len(wire[s]) <= WireLen /\ WireLen \in Nat
    BY Bounds DEF TypeOK
<1>2. CASE wire'[s] = wire[s]
  <2>1. Len(wire'[s]) = Len(wire[s]) - 0 /\ \A i \in 1..Len(wire'[s]) : wire'[s][i] = wire[s][i + 0]
    BY <1>1, <1>2
  <2> QED
    BY <1>1, <1>2, <2>1 DEF Drops
<1>3. CASE wire[s] # <<>> /\ wire'[s] = Tail(wire[s])
  <2>1. Len(wire'[s]) = Len(wire[s]) - 1 /\ \A i \in 1..Len(wire'[s]) : wire'[s][i] = wire[s][i + 1]
    BY <1>1, <1>3
  <2> QED
    BY <1>1, <1>3, <2>1 DEF Drops
<1> QED
    BY <1>2, <1>3

(* llp_link_input(), as far as the link is concerned. *)
Took(s, f, w, r) ==
    /\ Answers(link[s], r)
    /\ link' = [link EXCEPT ![s] = r.l]
    /\ wire' = [wire EXCEPT ![Other(s)] = Emitted(s, r.q), ![s] = w]
    /\ f.op = "hello" => /\ r.l.peer = f.session
                         /\ r.l.state = "up" => \/ f.seen = link[s].session
                                                \/ link[s].state = "up" /\ link[s].peer = f.session
    /\ f.op # "hello" => r.l.peer = link[s].peer /\ r.l.state = link[s].state
    /\ r.l.peer = link[s].peer /\ r.l.rx_next # link[s].rx_next => f.op \in {"probe", "data"}
    /\ evUp' = [evUp EXCEPT ![s] = evUp[s] \/ (f.op = "hello" /\ r.l.state = "up" /\
                               (link[s].state # "up" \/ r.l.peer # link[s].peer))]
    /\ ghost' = [ghost EXCEPT ![s] =
         IF r.l.peer # link[s].peer THEN [sent |-> 0, next |-> 0]
         ELSE IF r.l.rx_next # link[s].rx_next \/ (f.op = "data" /\ Accepts(link[s], f))
         THEN [ghost[s] EXCEPT !.next = IF f.op = "data" THEN f.n + 1 ELSE f.n] ELSE ghost[s]]

LEMMA InputLink ==
    ASSUME TypeOK, NEW s \in Sides, NEW f \in Frames, wire[s] # <<>>, f = Head(wire[s]), NEW w, Input(s, f, w)
    PROVE  \E r : Took(s, f, w, r)
<1> DEFINE l == link[s]
<1>0. l \in Links
    BY DEF TypeOK
<1>1. PICK r : /\ r = CASE f.op = "hello"  -> on_hello(s, l, f)
                        [] f.op = "credit" -> [l |-> on_credit(l, f), q |-> <<>>]
                        [] f.op = "probe"  -> on_probe(s, l, f)
                        [] f.op = "data"   -> [l |-> on_data(l, f), q |-> <<>>]
               /\ link' = [link EXCEPT ![s] = r.l]
               /\ wire' = [wire EXCEPT ![Other(s)] = Emitted(s, r.q), ![s] = w]
               /\ evUp' = [evUp EXCEPT ![s] = evUp[s] \/ (f.op = "hello" /\ r.l.state = "up" /\
                                             (l.state # "up" \/ r.l.peer # l.peer))]
               /\ ghost' = [ghost EXCEPT ![s] =
                     IF r.l.peer # l.peer THEN [sent |-> 0, next |-> 0]
                     ELSE IF r.l.rx_next # l.rx_next \/ (f.op = "data" /\ Accepts(l, f))
                     THEN [ghost[s] EXCEPT !.next = IF f.op = "data" THEN f.n + 1 ELSE f.n] ELSE ghost[s]]
    BY DEF Input, TypeOK
<1> HIDE DEF l
<1> DEFINE Good == /\ Answers(l, r)
                   /\ f.op = "hello" => /\ r.l.peer = f.session
                                        /\ r.l.state = "up" => f.seen = l.session \/ (l.state = "up" /\ l.peer = f.session)
                   /\ f.op # "hello" => r.l.peer = l.peer /\ r.l.state = l.state
                   /\ r.l.peer = l.peer /\ r.l.rx_next # l.rx_next => f.op \in {"probe", "data"}
<1>2. ASSUME f.op = "hello" PROVE Good
  <2>1. r = on_hello(s, l, f)
    BY <1>1, <1>2
  <2> QED
    BY <1>0, <1>2, <2>1, HelloRead
<1>3. ASSUME f.op = "credit" PROVE Good
  <2>1. r = [l |-> on_credit(l, f), q |-> <<>>]
    BY <1>1, <1>3
  <2>2. r.l = on_credit(l, f) /\ r.q = <<>>
    BY <2>1
  <2> QED
    BY <1>0, <1>3, <2>2, CreditRead DEF Answers
<1>4. ASSUME f.op = "probe" PROVE Good
  <2>1. r = on_probe(s, l, f)
    BY <1>1, <1>4
  <2> QED
    BY <1>0, <1>4, <2>1, ProbeRead
<1>5. ASSUME f.op = "data" PROVE Good
  <2>1. r = [l |-> on_data(l, f), q |-> <<>>]
    BY <1>1, <1>5
  <2>2. r.l = on_data(l, f) /\ r.q = <<>>
    BY <2>1
  <2> QED
    BY <1>0, <1>5, <2>2, DataRead DEF Answers
<1>6. f.op \in {"hello", "credit", "probe", "data"}
    BY DEF Frames
<1>7. Good
    BY <1>2, <1>3, <1>4, <1>5, <1>6
<1> QED
    BY <1>1, <1>7 DEF l, Took

-----------------------------------------------------------------------------
(* Reading a frame, or reading it once more. *)
Untouched(t) == link'[t] = link[t] /\ evUp'[t] = evUp[t] /\ txq'[t] = txq[t] /\ p9peer'[t] = p9peer[t]

LEMMA OthersAddress ==
    ASSUME NEW t \in Sides, Untouched(t), Addressed(t)
    PROVE  Addressed(t)'
BY DEF Untouched, Addressed

LEMMA InputStep ==
    ASSUME TypeOK, NEW s \in Sides, wire[s] # <<>>, NEW w, w = wire[s] \/ w = Tail(wire[s]),
           Input(s, Head(wire[s]), w), Addressed(s), faults' \in [line : 0..MaxFaults.line, node : 0..MaxFaults.node]
    PROVE  TypeOK' /\ NodeStep(s) /\ Addressed(s)' /\ Untouched(Other(s))
<1> DEFINE o == Other(s)
           f == Head(wire[s])
<1>1. wire[s] \in Seq(Frames) /\ f \in Frames /\ wire[s][1] = f /\ 1 \in 1..Len(wire[s])
    BY DEF TypeOK
<1>0. Input(s, f, w) /\ f = Head(wire[s])
    OBVIOUS
<1>2. o \in Sides /\ o # s /\ Other(o) = s /\ \A t \in Sides : t = s \/ t = o
    BY TwoSides
<1> HIDE DEF f
<1>19. PICK r : Took(s, f, w, r)
    BY <1>0, <1>1, InputLink
<1>3. /\ Answers(link[s], r)
      /\ link' = [link EXCEPT ![s] = r.l]
      /\ wire' = [wire EXCEPT ![Other(s)] = Emitted(s, r.q), ![s] = w]
      /\ f.op = "hello" => /\ r.l.peer = f.session
                           /\ r.l.state = "up" => \/ f.seen = link[s].session
                                                  \/ link[s].state = "up" /\ link[s].peer = f.session
      /\ f.op # "hello" => r.l.peer = link[s].peer /\ r.l.state = link[s].state
      /\ r.l.peer = link[s].peer /\ r.l.rx_next # link[s].rx_next => f.op \in {"probe", "data"}
      /\ evUp' = [evUp EXCEPT ![s] = evUp[s] \/ (f.op = "hello" /\ r.l.state = "up" /\
                                 (link[s].state # "up" \/ r.l.peer # link[s].peer))]
      /\ ghost' = [ghost EXCEPT ![s] =
           IF r.l.peer # link[s].peer THEN [sent |-> 0, next |-> 0]
           ELSE IF r.l.rx_next # link[s].rx_next \/ (f.op = "data" /\ Accepts(link[s], f))
           THEN [ghost[s] EXCEPT !.next = IF f.op = "data" THEN f.n + 1 ELSE f.n] ELSE ghost[s]]
    BY <1>19 DEF Took
<1>4. /\ link \in [Sides -> Links] /\ wire \in [Sides -> Seq(Frames)] /\ evUp \in [Sides -> BOOLEAN]
      /\ ghost \in [Sides -> [sent : 0..MaxFrames, next : 0..MaxFrames]]
    BY DEF TypeOK
<1>5. r.l \in Links /\ r.l.session = link[s].session /\ r.q \in Seq(Frames)
    BY <1>3 DEF Answers
<1>6. /\ link' \in [Sides -> Links] /\ link'[s] = r.l /\ link'[o] = link[o]
      /\ wire'[o] = Emitted(s, r.q) /\ wire'[s] = w
      /\ DOMAIN wire' = Sides /\ wire' = [t \in Sides |-> wire'[t]]
    BY <1>2, <1>3, <1>4, <1>5
<1>7. \A i \in 1..Len(r.q) : Says(s, r.q[i])
    BY <1>3, <1>6 DEF Answers, Says
<1>8. Adds(s) /\ wire'[o] \in Seq(Frames) /\ Len(wire'[o]) <= WireLen
    BY <1>5, <1>6, <1>7, AddsAll
<1>9. Drops(s) /\ wire'[s] \in Seq(Frames) /\ Len(wire'[s]) <= WireLen
    BY <1>6, DropsOneOrNone
<1>10. Remains(s) \/ Meets(s)
  <2>1. CASE f.op = "hello"
    <3>1. From(f) = f.session /\ Knew(f) = f.seen
        BY <2>1 DEF From, Knew
    <3>2. 1 \in Sent(s)
        BY <1>1, <3>1 DEF Sent
    <3> QED
        BY <1>1, <1>3, <1>5, <1>6, <2>1, <3>1, <3>2 DEF Meets
  <2>2. CASE f.op # "hello"
    BY <1>3, <1>5, <1>6, <2>2 DEF Remains
  <2> QED
    BY <2>1, <2>2
<1>11. NodeStep(s)
    BY <1>6, <1>8, <1>9, <1>10 DEF NodeStep
<1>12. ghost' \in [Sides -> [sent : 0..MaxFrames, next : 0..MaxFrames]]
  <2>1. f.op = "data" => f.n \in 0..(MaxFrames - 1)
    BY <1>1 DEF Frames
  <2>2. f.op = "probe" => f.n \in 0..MaxFrames
    BY <1>1 DEF Frames
  <2>3. ghost'[s] \in [sent : 0..MaxFrames, next : 0..MaxFrames]
    <3>0. ghost[s] \in [sent : 0..MaxFrames, next : 0..MaxFrames] /\ MaxFrames \in Nat
        BY <1>4, Bounds
    <3>1. CASE ghost'[s] = [sent |-> 0, next |-> 0]
        BY <3>0, <3>1
    <3>2. CASE f.op = "data" /\ ghost'[s] = [ghost[s] EXCEPT !.next = f.n + 1]
        BY <3>0, <3>2, <2>1
    <3>3. CASE f.op = "probe" /\ ghost'[s] = [ghost[s] EXCEPT !.next = f.n]
        BY <3>0, <3>3, <2>2
    <3>4. CASE ghost'[s] = ghost[s]
        BY <3>0, <3>4
    <3>5. ghost'[s] = IF r.l.peer # link[s].peer THEN [sent |-> 0, next |-> 0]
                    ELSE IF r.l.rx_next # link[s].rx_next \/ (f.op = "data" /\ Accepts(link[s], f))
                    THEN [ghost[s] EXCEPT !.next = IF f.op = "data" THEN f.n + 1 ELSE f.n] ELSE ghost[s]
        BY <1>3, <1>4
    <3> QED
        BY <1>3, <3>1, <3>2, <3>3, <3>4, <3>5
  <2> QED
    BY <1>3, <1>4, <2>3
<1>13. /\ rxq' = [rxq EXCEPT ![s] = IF f.op = "data" /\ Accepts(link[s], f) /\ Len(rxq[s]) < Slots
                                     THEN Append(rxq[s], f.from) ELSE rxq[s]]
       /\ stale' = stale /\ txq' = txq /\ draft' = draft /\ p9peer' = p9peer
    BY DEF Input, f
<1>14. rxq' \in [Sides -> Seq(Nat)] /\ \A t \in Sides : Len(rxq'[t]) <= Slots /\ stale'[t] <= Len(rxq'[t])
  <2>1. f.op = "data" => f.from \in Nat
    BY <1>1 DEF Frames
  <2>2. rxq \in [Sides -> Seq(Nat)] /\ \A t \in Sides : stale[t] \in Nat /\ Len(rxq[t]) <= Slots /\ stale[t] <= Len(rxq[t])
    BY DEF TypeOK
  <2>3. /\ rxq'[s] \in Seq(Nat) /\ Len(rxq'[s]) <= Slots /\ Len(rxq[s]) <= Len(rxq'[s])
    <3>1. CASE f.op = "data" /\ Accepts(link[s], f) /\ Len(rxq[s]) < Slots
        BY <1>13, <2>1, <2>2, <3>1, Bounds
    <3>2. CASE ~(f.op = "data" /\ Accepts(link[s], f) /\ Len(rxq[s]) < Slots)
        BY <1>13, <2>2, <3>2
    <3> QED
        BY <3>1, <3>2
  <2> QED
    BY <1>2, <1>13, <2>2, <2>3
<1>15. evUp' \in [Sides -> BOOLEAN]
    BY <1>3, <1>4
<1>16. wire' \in [Sides -> Seq(Frames)] /\ \A t \in Sides : Len(wire'[t]) <= WireLen
    BY <1>2, <1>6, <1>8, <1>9
<1>17. TypeOK'
    BY <1>6, <1>12, <1>13, <1>14, <1>15, <1>16 DEF TypeOK
<1>18. Addressed(s)'
  <2>1. ~evUp'[s] /\ link'[s].state = "up" => ~evUp[s] /\ link[s].state = "up" /\ link'[s].peer = link[s].peer
    BY <1>3, <1>4, <1>6
  <2> QED
    BY <1>13, <2>1 DEF Addressed
<1> QED
    BY <1>2, <1>3, <1>4, <1>6, <1>11, <1>13, <1>17, <1>18 DEF Untouched

(* A step that sends q and makes l of the link; nothing is read. *)
LEMMA SendStep ==
    ASSUME TypeOK, NEW s \in Sides, NEW l \in Links, NEW q \in Seq(Frames),
           link' = [link EXCEPT ![s] = l], wire' = [wire EXCEPT ![Other(s)] = Emitted(s, q)],
           \A i \in 1..Len(q) : Says(s, q[i])
    PROVE  /\ Drops(s) /\ Adds(s) /\ link'[Other(s)] = link[Other(s)] /\ link'[s] = l
           /\ link' \in [Sides -> Links] /\ wire' \in [Sides -> Seq(Frames)]
           /\ \A t \in Sides : Len(wire'[t]) <= WireLen
<1>1. /\ Other(s) \in Sides /\ Other(s) # s /\ \A t \in Sides : t = s \/ t = Other(s)
    BY TwoSides
<1>2. link \in [Sides -> Links] /\ wire \in [Sides -> Seq(Frames)]
    BY DEF TypeOK
<1>3. link' \in [Sides -> Links] /\ link'[s] = l /\ link'[Other(s)] = link[Other(s)]
    BY <1>1, <1>2
<1>4. wire'[Other(s)] = Emitted(s, q) /\ wire'[s] = wire[s] /\ wire' = [t \in Sides |-> wire'[t]]
    BY <1>1, <1>2
<1>5. Adds(s) /\ wire'[Other(s)] \in Seq(Frames) /\ Len(wire'[Other(s)]) <= WireLen
    BY <1>4, AddsAll
<1>6. Drops(s) /\ wire'[s] \in Seq(Frames) /\ Len(wire'[s]) <= WireLen
    BY <1>4, DropsOneOrNone
<1> QED
    BY <1>1, <1>3, <1>4, <1>5, <1>6

LEMMA QuietStep ==
    ASSUME TypeOK, NEW s \in Sides, UNCHANGED <<link, wire>>
    PROVE  NodeStep(s)
BY DropsOneOrNone, AddsNothing DEF NodeStep, Remains

LEMMA EventsStep ==
    ASSUME TypeOK, NEW s \in Sides, Events(s), Addressed(s)
    PROVE  TypeOK' /\ NodeStep(s) /\ Addressed(s)' /\ Untouched(Other(s))
<1>1. Other(s) \in Sides /\ Other(s) # s
    BY TwoSides
<1>2. NodeStep(s)
    BY QuietStep DEF Events
<1>3. /\ evUp' = [evUp EXCEPT ![s] = FALSE] /\ p9peer' = [p9peer EXCEPT ![s] = link[s].peer]
      /\ UNCHANGED <<link, wire, rxq, draft, ghost, faults>>
      /\ IF p9peer[s] = link[s].peer THEN UNCHANGED <<stale, txq>>
         ELSE stale' = [stale EXCEPT ![s] = Len(rxq[s])] /\ txq' = [txq EXCEPT ![s] = <<>>]
    BY DEF Events
<1>4. link[s].peer \in Nat
    BY DEF TypeOK, Links
<1>5. /\ stale' \in [Sides -> Nat] /\ txq' \in [Sides -> Seq(Nat)]
      /\ \A t \in Sides : Len(txq'[t]) <= 1 /\ stale'[t] <= Len(rxq[t])
  <2>1. CASE p9peer[s] = link[s].peer
    BY <1>3, <2>1 DEF TypeOK
  <2>2. CASE p9peer[s] # link[s].peer
    <3>1. rxq[s] \in Seq(Nat) /\ Len(rxq[s]) \in Nat /\ <<>> \in Seq(Nat) /\ Len(<<>>) = 0
        BY DEF TypeOK
    <3>2. stale' = [stale EXCEPT ![s] = Len(rxq[s])] /\ txq' = [txq EXCEPT ![s] = <<>>]
        BY <1>3, <2>2
    <3>3. stale' \in [Sides -> Nat] /\ \A t \in Sides : stale'[t] <= Len(rxq[t])
        BY <3>1, <3>2 DEF TypeOK
    <3>4. txq' \in [Sides -> Seq(Nat)] /\ \A t \in Sides : Len(txq'[t]) <= 1
        BY <3>1, <3>2 DEF TypeOK
    <3> QED
        BY <3>3, <3>4
  <2> QED
    BY <2>1, <2>2
<1>6. p9peer' \in [Sides -> Nat] /\ evUp' \in [Sides -> BOOLEAN]
    BY <1>3, <1>4 DEF TypeOK
<1>7. TypeOK'
    BY <1>3, <1>5, <1>6 DEF TypeOK
<1>8. Addressed(s)'
    BY <1>3 DEF Addressed, TypeOK
<1>9. Untouched(Other(s))
    BY <1>1, <1>3 DEF Untouched, TypeOK
<1> QED
    BY <1>2, <1>7, <1>8, <1>9

(* What is sent was queued for the peer: p9_new_peer() has run. *)
LEMMA DrainStep ==
    ASSUME TypeOK, NEW s \in Sides, Drain(s), Addressed(s)
    PROVE  TypeOK' /\ NodeStep(s) /\ Addressed(s)' /\ Untouched(Other(s))
<1> DEFINE l == link[s]
           o == Other(s)
           d == [op |-> "data", seq |-> l.tx_seq, from |-> l.session, to |-> Head(txq[s]), n |-> ghost[s].sent]
<1>1. o \in Sides /\ o # s
    BY TwoSides
<1>2. l \in Links /\ txq[s] \in Seq(Nat) /\ ghost[s] \in [sent : 0..MaxFrames, next : 0..MaxFrames]
    BY DEF TypeOK
<1>3. ~evUp[s] /\ txq[s] # <<>> /\ l.state = "up" /\ UNCHANGED <<rxq, stale, draft, p9peer, evUp, faults>>
    BY DEF Drain
<1>4. CASE UNCHANGED <<wire, txq, ghost>> /\ link' = [link EXCEPT ![s].blocked = TRUE]
  <2>1. link'[s] \in Links /\ link'[s].session = l.session /\ link'[s].peer = l.peer /\ link'[s].state = l.state
    BY <1>2, <1>4 DEF TypeOK, Links
  <2>2. link'[o] = link[o] /\ link' \in [Sides -> Links]
    BY <1>1, <1>4, <2>1 DEF TypeOK
  <2>3. TypeOK'
    BY <1>3, <1>4, <2>2 DEF TypeOK
  <2>4. NodeStep(s)
    BY <1>4, <2>1, <2>2, DropsOneOrNone, AddsNothing DEF NodeStep, Remains
  <2> QED
    BY <1>3, <1>4, <2>1, <2>2, <2>3, <2>4 DEF Addressed, Untouched
<1>5. CASE /\ ghost[s].sent < MaxFrames /\ wire' = [wire EXCEPT ![o] = Emitted(s, <<d>>)]
           /\ txq' = [txq EXCEPT ![s] = Tail(txq[s])]
           /\ IF Len(wire[o]) < WireLen
              THEN /\ link' = [link EXCEPT ![s].tx_seq = (l.tx_seq + 1) % Mod]
                   /\ ghost' = [ghost EXCEPT ![s].sent = ghost[s].sent + 1]
              ELSE UNCHANGED <<link, ghost>>
  <2>1. PICK m : /\ link' = [link EXCEPT ![s] = m] /\ m \in Links
                 /\ m.session = l.session /\ m.peer = l.peer /\ m.state = l.state
    <3>0. l.tx_seq + 1 \in Int
        BY <1>2, Bounds DEF Links
    <3>1. (l.tx_seq + 1) % Mod \in 0..(Mod - 1)
        BY <3>0, ModIn
    <3>2. CASE Len(wire[o]) < WireLen
      <4> DEFINE m == [l EXCEPT !.tx_seq = (l.tx_seq + 1) % Mod]
      <4>1. m \in Links /\ m.session = l.session /\ m.peer = l.peer /\ m.state = l.state
        BY <1>2, <3>1 DEF Links
      <4>2. link' = [link EXCEPT ![s] = m]
        BY <1>5, <3>2
      <4> QED
        BY <4>1, <4>2
    <3>3. CASE ~(Len(wire[o]) < WireLen)
      <4>1. link' = [link EXCEPT ![s] = l]
        BY <1>5, <3>3 DEF TypeOK
      <4> QED
        BY <1>2, <4>1
    <3> QED
        BY <3>2, <3>3
  <2>2. d \in Frames
    <3>1. l.tx_seq \in 0..(Mod - 1) /\ l.session \in Nat
        BY <1>2 DEF Links
    <3>2. Head(txq[s]) \in Nat
        BY <1>2, <1>3
    <3>3. ghost[s].sent \in 0..(MaxFrames - 1)
        BY <1>2, <1>5, Bounds
    <3> QED
        BY <3>1, <3>2, <3>3 DEF Frames
  <2>3. From(d) = l.session /\ Knew(d) = Head(txq[s]) /\ Head(txq[s]) = l.peer
    BY <1>2, <1>3 DEF From, Knew, Addressed
  <2>4. link'[s] = m
    BY <2>1 DEF TypeOK
  <2>5. Says(s, d)
    BY <1>3, <2>1, <2>3, <2>4 DEF Says, Signed
  <2> HIDE DEF d
  <2>6. <<d>> \in Seq(Frames) /\ \A i \in 1..Len(<<d>>) : Says(s, <<d>>[i])
    BY <2>2, <2>5
  <2>7. /\ Drops(s) /\ Adds(s) /\ link'[o] = link[o]
        /\ link' \in [Sides -> Links] /\ wire' \in [Sides -> Seq(Frames)]
        /\ \A t \in Sides : Len(wire'[t]) <= WireLen
    BY <1>5, <2>1, <2>6, SendStep
  <2>8. NodeStep(s)
    BY <2>1, <2>4, <2>7 DEF NodeStep, Remains
  <2>9. ghost' \in [Sides -> [sent : 0..MaxFrames, next : 0..MaxFrames]]
    <3>1. ghost[s].sent + 1 \in 0..MaxFrames
        BY <1>2, <1>5, Bounds
    <3>2. ghost' = ghost \/ ghost' = [ghost EXCEPT ![s].sent = ghost[s].sent + 1]
        BY <1>5
    <3>3. ghost \in [Sides -> [sent : 0..MaxFrames, next : 0..MaxFrames]]
        BY DEF TypeOK
    <3>4. [ghost[s] EXCEPT !.sent = ghost[s].sent + 1] \in [sent : 0..MaxFrames, next : 0..MaxFrames]
        BY <1>2, <3>1
    <3> QED
        BY <3>2, <3>3, <3>4
  <2>10. /\ txq' \in [Sides -> Seq(Nat)] /\ \A t \in Sides : Len(txq'[t]) <= 1
         /\ txq'[o] = txq[o] /\ Len(txq'[s]) = 0
    <3>1. txq \in [Sides -> Seq(Nat)] /\ \A t \in Sides : Len(txq[t]) <= 1
        BY DEF TypeOK
    <3>4. PICK q : q = txq[s]
        OBVIOUS
    <3>5. q \in Seq(Nat) /\ q # <<>> /\ Len(q) <= 1
        BY <1>2, <1>3, <3>1, <3>4
    <3>2. Tail(txq[s]) \in Seq(Nat) /\ Len(Tail(txq[s])) = 0
      <4>1. Tail(q) \in Seq(Nat) /\ Len(Tail(q)) = Len(q) - 1 /\ Len(q) \in Nat /\ Len(q) # 0
        BY ONLY <3>5, HeadTailProperties, EmptySeq
      <4>2. PICK n : n = Len(q)
        OBVIOUS
      <4>3. n - 1 = 0
        BY ONLY <3>5, <4>1, <4>2
      <4>4. Len(Tail(q)) = 0
        BY ONLY <4>1, <4>2, <4>3
      <4>5. Tail(q) \in Seq(Nat)
        BY ONLY <4>1
      <4> QED
        BY ONLY <3>4, <4>4, <4>5, Zenon
    <3>3. txq' = [txq EXCEPT ![s] = Tail(txq[s])]
        BY <1>5
    <3> QED
        BY <1>1, <3>1, <3>2, <3>3
  <2>11. TypeOK'
    BY <1>3, <2>7, <2>9, <2>10 DEF TypeOK
  <2> QED
    BY <1>3, <2>1, <2>4, <2>7, <2>8, <2>10, <2>11 DEF Addressed, Untouched
<1> QED
    BY <1>4, <1>5 DEF Drain

(* A timer that runs out: a HELLO, a credit or a probe; a peer taken for   *)
(* dead is a node that is no longer up.                                    *)
LEMMA OneAfterOther ==
    ASSUME NEW p \in Seq(Frames), NEW q \in Seq(Frames)
    PROVE  /\ p \o q \in Seq(Frames)
           /\ \A i \in 1..Len(p \o q) : \/ \E j \in 1..Len(p) : (p \o q)[i] = p[j]
                                       \/ \E j \in 1..Len(q) : (p \o q)[i] = q[j]
<1>1. /\ p \o q \in Seq(Frames) /\ Len(p \o q) = Len(p) + Len(q)
      /\ \A i \in 1..(Len(p) + Len(q)) : (p \o q)[i] = IF i <= Len(p) THEN p[i] ELSE q[i - Len(p)]
    BY ConcatProperties
<1>2. Len(p) \in Nat /\ Len(q) \in Nat
    OBVIOUS
<1> SUFFICES ASSUME NEW i \in 1..(Len(p) + Len(q))
             PROVE  \/ \E j \in 1..Len(p) : (p \o q)[i] = p[j]
                    \/ \E j \in 1..Len(q) : (p \o q)[i] = q[j]
    BY <1>1
<1>3. CASE i <= Len(p)
  <2>1. i \in 1..Len(p) /\ (p \o q)[i] = p[i]
    BY <1>1, <1>2, <1>3
  <2> QED
    BY <2>1
<1>4. CASE ~(i <= Len(p))
  <2>1. i - Len(p) \in 1..Len(q) /\ (p \o q)[i] = q[i - Len(p)]
    BY <1>1, <1>2, <1>4
  <2> QED
    BY <2>1
<1> QED
    BY <1>3, <1>4

Probed(s, l, b, u, r) ==
    \E c : /\ c = maybe_credit(s, l, ghost[s].next, FALSE)
           /\ r = [l |-> [c.l EXCEPT !.blocked = c.l.blocked /\ b], q |-> c.q \o u]

LEMMA ProbeAdded ==
    ASSUME TypeOK, NEW s \in Sides, NEW l \in Links, l.state = "up", NEW b \in BOOLEAN, NEW r,
           NEW u \in Seq(Frames), \A i \in 1..Len(u) : Signed(l, u[i]),
           Probed(s, l, b, u, r)
    PROVE  Answers(l, r) /\ r.l.peer = l.peer /\ r.l.state = l.state
<1>0. PICK c : /\ c = maybe_credit(s, l, ghost[s].next, FALSE)
               /\ r = [l |-> [c.l EXCEPT !.blocked = c.l.blocked /\ b], q |-> c.q \o u]
    BY DEF Probed
<1> DEFINE m == [c.l EXCEPT !.blocked = c.l.blocked /\ b]
<1>1. Answers(l, c) /\ c.l.state = l.state /\ c.l.peer = l.peer
  <2>1. PICK force \in BOOLEAN : force = FALSE
    OBVIOUS
  <2>2. PICK n \in 0..MaxFrames : n = ghost[s].next
    BY DEF TypeOK
  <2> DEFINE k == maybe_credit(s, l, n, force)
  <2>3. Answers(l, k) /\ k.l.state = l.state /\ k.l.peer = l.peer
    BY CreditAnswers
  <2>4. c = k
    BY <1>0, <2>1, <2>2
  <2> HIDE DEF k
  <2> QED
    BY <2>3, <2>4
<1>2. c.l \in Links /\ c.l.session = l.session /\ c.q \in Seq(Frames) /\ \A i \in 1..Len(c.q) : Signed(c.l, c.q[i])
    BY <1>1 DEF Answers
<1>3. m \in Links /\ m.session = l.session /\ m.peer = l.peer /\ m.state = l.state
    BY <1>1, <1>2 DEF Links
<1>4. r.l = m /\ r.q = c.q \o u
    BY <1>0
<1> HIDE DEF m
<1>5. \A i \in 1..Len(u) : Signed(m, u[i])
    BY <1>3 DEF Signed
<1>6. \A i \in 1..Len(c.q) : Signed(m, c.q[i])
    BY <1>1, <1>2, <1>3 DEF Signed
<1>7. c.q \o u \in Seq(Frames) /\ \A i \in 1..Len(c.q \o u) : Signed(m, (c.q \o u)[i])
    BY <1>2, <1>5, <1>6, OneAfterOther
<1> QED
    BY <1>3, <1>4, <1>7 DEF Answers

LEMMA TickStep ==
    ASSUME TypeOK, NEW s \in Sides, NEW due \in Timers, Tick(s, due), Addressed(s)
    PROVE  TypeOK' /\ NodeStep(s) /\ Addressed(s)' /\ Untouched(Other(s))
<1> DEFINE l == link[s]
           b == ~llp_link_can_send(l)
           probe == [op |-> "probe", next |-> l.tx_seq, from |-> l.session, to |-> l.peer, n |-> ghost[s].sent]
           u == IF due = "probe" THEN <<probe>> ELSE <<>>
<1>1. l \in Links /\ ghost[s].sent \in 0..MaxFrames /\ ghost[s].next \in 0..MaxFrames
    BY DEF TypeOK
<1>2. Other(s) \in Sides /\ Other(s) # s
    BY TwoSides
<1>3. PICK r : /\ r = CASE l.state = "down" -> send_hello(s, l)
                        [] due = "dead"     -> send_hello(s, [l EXCEPT !.state = "down"])
                        [] due = "alive"    -> maybe_credit(s, l, ghost[s].next, TRUE)
                        [] OTHER -> LET c == maybe_credit(s, l, ghost[s].next, FALSE)
                                    IN  [l |-> [c.l EXCEPT !.blocked = c.l.blocked /\ b], q |-> c.q \o u]
               /\ link' = [link EXCEPT ![s] = r.l]
               /\ wire' = [wire EXCEPT ![Other(s)] = Emitted(s, r.q)]
    BY DEF Tick
<1>4. /\ due = "hello" <=> l.state = "down"
      /\ faults' = IF due = "dead" THEN [faults EXCEPT !.node = @ + 1] ELSE faults
      /\ due = "dead" => faults.node < MaxFaults.node
      /\ UNCHANGED <<rxq, stale, txq, draft, p9peer, evUp, ghost>> /\ ~evUp[s] /\ l.state # "mismatch"
    BY DEF Tick
<1> HIDE DEF l, b, u, probe
<1> DEFINE Good == Answers(l, r) /\ r.l.peer = l.peer /\ (r.l.state = "up" => l.state = "up")
<1>5. ASSUME l.state = "down" PROVE Good
  <2>1. r = send_hello(s, l)
    BY <1>3, <1>4, <1>5
  <2> QED
    BY <1>1, <2>1, HelloAnswers
<1>6. ASSUME l.state # "down", due = "dead" PROVE Good
  <2> DEFINE m == [l EXCEPT !.state = "down"]
  <2>1. r = send_hello(s, m)
    BY <1>3, <1>6
  <2>2. m \in Links /\ m.session = l.session /\ m.peer = l.peer /\ m.state = "down"
    BY <1>1 DEF Links
  <2> HIDE DEF m
  <2>3. Answers(m, r) /\ r.l.peer = m.peer /\ r.l.state = m.state
    BY <2>1, <2>2, HelloAnswers
  <2> QED
    BY <2>2, <2>3 DEF Answers
<1>7. ASSUME l.state # "down", due = "alive" PROVE Good
  <2>1. PICK force \in BOOLEAN : force = TRUE
    OBVIOUS
  <2>2. PICK n \in 0..MaxFrames : n = ghost[s].next
    BY <1>1
  <2>3. r = maybe_credit(s, l, n, force)
    BY <1>3, <1>7, <2>1, <2>2
  <2>4. l.state = "up"
    BY <1>1, <1>4, <1>7 DEF Links
  <2> QED
    BY <1>1, <2>3, <2>4, CreditAnswers
<1>8. ASSUME l.state # "down", due # "dead", due # "alive" PROVE Good
  <2>1. Probed(s, l, b, u, r)
    BY <1>3, <1>8 DEF Probed
  <2>5. l.state = "up"
    BY <1>1, <1>4, <1>8 DEF Links
  <2>2. probe \in Frames /\ Signed(l, probe)
    BY <1>1, <2>5 DEF probe, Frames, Links, Signed, From, Knew
  <2>3. u \in Seq(Frames) /\ \A i \in 1..Len(u) : Signed(l, u[i])
    <3>1. CASE u = <<>>
        BY <3>1
    <3>2. CASE u = <<probe>>
        BY <2>2, <3>2
    <3> QED
        BY <3>1, <3>2 DEF u
  <2>4. b \in BOOLEAN
    BY DEF b
  <2> QED
    BY <1>1, <2>1, <2>3, <2>4, <2>5, ProbeAdded
<1>9. Good
    BY <1>5, <1>6, <1>7, <1>8
<1>10. r.l \in Links /\ r.l.session = l.session /\ r.q \in Seq(Frames)
    BY <1>9 DEF Answers
<1>11. link'[s] = r.l
    BY <1>3 DEF TypeOK
<1>12. \A i \in 1..Len(r.q) : Says(s, r.q[i])
    BY <1>9, <1>11 DEF Answers, Says
<1>13. /\ Drops(s) /\ Adds(s) /\ link'[Other(s)] = link[Other(s)] /\ link'[s] = r.l
       /\ link' \in [Sides -> Links] /\ wire' \in [Sides -> Seq(Frames)]
       /\ \A t \in Sides : Len(wire'[t]) <= WireLen
    BY <1>3, <1>10, <1>12, SendStep
<1>14. NodeStep(s)
    BY <1>9, <1>10, <1>13 DEF NodeStep, Remains, l
<1>15. faults' \in [line : 0..MaxFaults.line, node : 0..MaxFaults.node]
  <2>1. faults.line \in 0..MaxFaults.line /\ faults.node \in 0..MaxFaults.node /\ MaxFaults.node \in Nat
    BY LlpAssumption DEF TypeOK
  <2>2. due = "dead" => faults.node + 1 \in 0..MaxFaults.node
    BY <1>4, <2>1
  <2>3. faults \in [line : 0..MaxFaults.line, node : 0..MaxFaults.node]
    BY DEF TypeOK
  <2> QED
    BY <1>4, <2>2, <2>3
<1>16. TypeOK'
    BY <1>4, <1>13, <1>15 DEF TypeOK
<1>17. Addressed(s)'
    BY <1>4, <1>9, <1>13 DEF Addressed, l
<1> QED
    BY <1>4, <1>13, <1>14, <1>16, <1>17 DEF Untouched

(* The tasks that write and read messages. *)
LEMMA WriteTaskStep ==
    ASSUME TypeOK, NEW s \in Sides, p9_write(s) \/ p9_give_up(s), Addressed(s)
    PROVE  TypeOK' /\ NodeStep(s) /\ Addressed(s)' /\ Untouched(Other(s))
<1>1. /\ UNCHANGED <<link, wire, rxq, stale, txq, p9peer, evUp, ghost, faults>>
      /\ draft' = [draft EXCEPT ![s] = TRUE] \/ draft' = [draft EXCEPT ![s] = FALSE]
    BY DEF p9_write, p9_give_up
<1>2. draft' \in [Sides -> BOOLEAN]
    BY <1>1 DEF TypeOK
<1>3. TypeOK'
    BY <1>1, <1>2 DEF TypeOK
<1>4. NodeStep(s)
    BY <1>1, QuietStep
<1> QED
    BY <1>1, <1>3, <1>4 DEF Addressed, Untouched

LEMMA SendTaskStep ==
    ASSUME TypeOK, NEW s \in Sides, p9_send(s), Addressed(s)
    PROVE  TypeOK' /\ NodeStep(s) /\ Addressed(s)' /\ Untouched(Other(s))
<1>1. Other(s) \in Sides /\ Other(s) # s
    BY TwoSides
<1>2. txq' = [txq EXCEPT ![s] = <<p9peer[s]>>] /\ UNCHANGED <<link, wire, rxq, stale, p9peer, evUp, ghost, faults>>
      /\ draft' = [draft EXCEPT ![s] = FALSE]
    BY DEF p9_send
<1>3. NodeStep(s)
    BY <1>2, QuietStep
<1>4. txq \in [Sides -> Seq(Nat)] /\ p9peer[s] \in Nat /\ \A t \in Sides : Len(txq[t]) <= 1
    BY DEF TypeOK
<1>5. <<p9peer[s]>> \in Seq(Nat) /\ Len(<<p9peer[s]>>) = 1 /\ \A i \in 1..Len(<<p9peer[s]>>) : <<p9peer[s]>>[i] = p9peer[s]
    BY <1>4
<1>6. txq' \in [Sides -> Seq(Nat)] /\ \A t \in Sides : Len(txq'[t]) <= 1
    BY <1>2, <1>4, <1>5
<1>7. TypeOK'
  <2>1. draft' \in [Sides -> BOOLEAN]
    BY <1>2 DEF TypeOK
  <2> QED
    BY <1>2, <1>6, <2>1 DEF TypeOK
<1>8. txq'[s] = <<p9peer[s]>> /\ txq'[Other(s)] = txq[Other(s)]
    BY <1>1, <1>2, <1>4
<1>9. Addressed(s)'
    BY <1>2, <1>5, <1>8 DEF Addressed
<1> QED
    BY <1>2, <1>3, <1>7, <1>8, <1>9 DEF Untouched

LEMMA RecvTaskStep ==
    ASSUME TypeOK, NEW s \in Sides, p9_recv(s), Addressed(s)
    PROVE  TypeOK' /\ NodeStep(s) /\ Addressed(s)' /\ Untouched(Other(s))
<1> DEFINE rest == SubSeq(rxq[s], stale[s] + 1, Len(rxq[s]))
<1>1. /\ rxq' = [rxq EXCEPT ![s] = IF rest = <<>> THEN <<>> ELSE Tail(rest)]
      /\ stale' = [stale EXCEPT ![s] = 0] /\ UNCHANGED <<link, wire, txq, draft, p9peer, evUp, ghost, faults>>
    BY DEF p9_recv
<1>2. NodeStep(s)
    BY <1>1, QuietStep
<1>3. /\ rxq \in [Sides -> Seq(Nat)] /\ stale \in [Sides -> Nat]
      /\ \A t \in Sides : Len(rxq[t]) <= Slots /\ stale[t] <= Len(rxq[t])
    BY DEF TypeOK
<1>4. PICK q : q = rxq[s] /\ q \in Seq(Nat)
    BY <1>3
<1>5. PICK k \in Nat : k = stale[s]
    BY <1>3
<1>6. Len(q) \in Nat /\ Len(q) <= Slots /\ k <= Len(q)
    BY <1>3, <1>4, <1>5
<1>7. rest \in Seq(Nat) /\ Len(rest) <= Len(q)
  <2>1. PICK n \in Nat : n = Len(q)
    BY <1>6
  <2>2. k + 1 \in Int /\ n \in Int /\ \A i \in (k + 1)..n : q[i] \in Nat
    BY <1>4, <2>1
  <2>3. /\ SubSeq(q, k + 1, n) \in Seq(Nat)
        /\ Len(SubSeq(q, k + 1, n)) = IF k + 1 <= n THEN n - (k + 1) + 1 ELSE 0
    BY ONLY <2>2, SubSeqProperties
  <2>4. Len(SubSeq(q, k + 1, n)) <= n
    BY <2>3
  <2>5. rest = SubSeq(q, k + 1, n)
    BY <1>4, <1>5, <2>1
  <2> QED
    BY <2>1, <2>3, <2>4, <2>5
<1> HIDE DEF rest
<1> DEFINE p == IF rest = <<>> THEN <<>> ELSE Tail(rest)
<1>8. p \in Seq(Nat) /\ Len(p) <= Slots /\ 0 <= Len(p)
  <2>1. CASE rest = <<>>
    BY <2>1, Bounds
  <2>2. CASE rest # <<>>
    <3>1. Tail(rest) \in Seq(Nat) /\ Len(Tail(rest)) = Len(rest) - 1 /\ Len(Tail(rest)) \in Nat
        BY <1>7, <2>2, HeadTailProperties
    <3>2. Len(Tail(rest)) <= Slots
        BY <1>6, <1>7, <3>1, Bounds
    <3>3. p = Tail(rest)
        BY <2>2
    <3> QED
        BY <3>1, <3>2, <3>3
  <2> QED
    BY <2>1, <2>2
<1>9. rxq' = [rxq EXCEPT ![s] = p]
    BY <1>1
<1> HIDE DEF p
<1>10. rxq' \in [Sides -> Seq(Nat)] /\ stale' \in [Sides -> Nat] /\ \A t \in Sides : Len(rxq'[t]) <= Slots /\ stale'[t] <= Len(rxq'[t])
    BY <1>1, <1>3, <1>8, <1>9
<1>11. TypeOK'
    BY <1>1, <1>10 DEF TypeOK
<1> QED
    BY <1>1, <1>2, <1>11 DEF Addressed, Untouched

(* A lost frame, and a node that starts again. *)
LEMMA LoseStep ==
    ASSUME TypeOK, NEW s \in Sides, Lose(s), Addressed(s),
           faults' \in [line : 0..MaxFaults.line, node : 0..MaxFaults.node]
    PROVE  TypeOK' /\ NodeStep(s) /\ Addressed(s)' /\ Untouched(Other(s))
<1>1. Other(s) \in Sides /\ Other(s) # s
    BY TwoSides
<1>2. /\ wire[s] # <<>> /\ wire' = [wire EXCEPT ![s] = Tail(wire[s])]
      /\ UNCHANGED <<link, rxq, stale, txq, draft, p9peer, evUp, ghost>>
    BY DEF Lose
<1>3. wire'[s] = Tail(wire[s]) /\ wire'[Other(s)] = wire[Other(s)]
    BY <1>1, <1>2 DEF TypeOK
<1>4. Drops(s) /\ wire'[s] \in Seq(Frames) /\ Len(wire'[s]) <= WireLen
    BY <1>2, <1>3, DropsOneOrNone
<1>5. NodeStep(s)
    BY <1>2, <1>3, <1>4, AddsNothing DEF NodeStep, Remains
<1>6. wire' \in [Sides -> Seq(Frames)] /\ \A t \in Sides : Len(wire'[t]) <= WireLen
    BY <1>2, <1>3, <1>4 DEF TypeOK
<1>7. TypeOK'
    BY <1>2, <1>6 DEF TypeOK
<1> QED
    BY <1>2, <1>5, <1>7 DEF Addressed, Untouched

LEMMA StartedFacts ==
    ASSUME NEW n \in Nat \ {0}, NEW major \in Nat
    PROVE  LET l == Started(n, major) IN
           /\ l \in Links /\ l.session = n /\ l.peer = 0 /\ l.state = "down" /\ l.major = major
           /\ FirstHello(l) \in Frames /\ FirstHello(l).op = "hello"
           /\ From(FirstHello(l)) = n /\ Knew(FirstHello(l)) = 0
<1> DEFINE l == Started(n, major)
<1>1. RxWindow % Mod \in 0..(Mod - 1) /\ 0 \in 0..(Mod - 1) /\ 0 \in 0..MaxWindow
    BY Bounds, ModIn
<1>2. l \in Links /\ l.session = n /\ l.peer = 0 /\ l.state = "down" /\ l.major = major
    BY <1>1 DEF Started, Links
<1> HIDE DEF l
<1>3. FirstHello(l) \in Frames
    BY <1>2, Bounds DEF FirstHello, Frames
<1>4. /\ FirstHello(l).op = "hello"
      /\ From(FirstHello(l)) = n /\ Knew(FirstHello(l)) = 0
    BY <1>2 DEF FirstHello, From, Knew
<1> QED
    BY <1>2, <1>3, <1>4 DEF l

LEMMA RestartStep ==
    ASSUME TypeOK, NEW s \in Sides, NEW major \in Majors[s], Restart(s, major),
           faults' \in [line : 0..MaxFaults.line, node : 0..MaxFaults.node]
    PROVE  TypeOK' /\ NodeStep(s) /\ Addressed(s)' /\ Untouched(Other(s))
<1>1. Other(s) \in Sides /\ Other(s) # s
    BY TwoSides
<1>2. link[s].session + 1 \in Nat \ {0} /\ major \in Nat
  <2>1. link[s].session \in Nat
    BY DEF TypeOK, Links
  <2>2. Majors[s] \subseteq Nat
    BY LlpAssumption
  <2> QED
    BY <2>1, <2>2
<1>3. PICK l : l = Started(link[s].session + 1, major)
    OBVIOUS
<1>4. PICK f : f = FirstHello(l)
    OBVIOUS
<1>5. /\ l \in Links /\ l.session = link[s].session + 1 /\ l.peer = 0 /\ l.state = "down"
      /\ f \in Frames /\ f.op = "hello"
      /\ From(f) = link[s].session + 1 /\ Knew(f) = 0
    BY <1>2, <1>3, <1>4, StartedFacts
<1>6. /\ link' = [link EXCEPT ![s] = l]
      /\ wire' = [wire EXCEPT ![Other(s)] = Emitted(s, <<f>>)]
      /\ rxq' = [rxq EXCEPT ![s] = <<>>] /\ stale' = [stale EXCEPT ![s] = 0]
      /\ txq' = [txq EXCEPT ![s] = <<>>] /\ p9peer' = [p9peer EXCEPT ![s] = 0]
      /\ draft' = [draft EXCEPT ![s] = FALSE]
      /\ evUp' = [evUp EXCEPT ![s] = FALSE]
      /\ ghost' = [ghost EXCEPT ![s] = [sent |-> 0, next |-> 0]]
    BY <1>3, <1>4 DEF Restart
<1>7. link'[s] = l
    BY <1>6 DEF TypeOK
<1>8. Says(s, f)
    BY <1>5, <1>7 DEF Says, Signed
<1>9. <<f>> \in Seq(Frames) /\ \A i \in 1..Len(<<f>>) : Says(s, <<f>>[i])
    BY <1>5, <1>8
<1>10. /\ Drops(s) /\ Adds(s) /\ link'[Other(s)] = link[Other(s)]
       /\ link' \in [Sides -> Links] /\ wire' \in [Sides -> Seq(Frames)]
       /\ \A t \in Sides : Len(wire'[t]) <= WireLen
    BY <1>5, <1>6, <1>9, SendStep
<1>11. NodeStep(s)
    BY <1>5, <1>7, <1>10 DEF NodeStep, Restarts
<1>12. <<>> \in Seq(Nat) /\ Len(<<>>) = 0
    OBVIOUS
<1>13. /\ rxq' \in [Sides -> Seq(Nat)] /\ stale' \in [Sides -> Nat]
       /\ \A t \in Sides : Len(rxq'[t]) <= Slots /\ stale'[t] <= Len(rxq'[t])
    BY <1>6, <1>12, Bounds DEF TypeOK
<1>14. txq' \in [Sides -> Seq(Nat)] /\ \A t \in Sides : Len(txq'[t]) <= 1
    BY <1>6, <1>12 DEF TypeOK
<1>15. p9peer' \in [Sides -> Nat] /\ evUp' \in [Sides -> BOOLEAN]
    BY <1>6 DEF TypeOK
<1>16. ghost' \in [Sides -> [sent : 0..MaxFrames, next : 0..MaxFrames]]
    BY <1>6, Bounds DEF TypeOK
<1>17. TypeOK'
  <2>1. draft' \in [Sides -> BOOLEAN]
    BY <1>6 DEF TypeOK
  <2> QED
    BY <1>10, <1>13, <1>14, <1>15, <1>16, <2>1 DEF TypeOK
<1>18. txq'[s] = <<>>
    BY <1>6 DEF TypeOK
<1>19. Addressed(s)'
    BY <1>5, <1>7, <1>12, <1>18 DEF Addressed
<1>20. Untouched(Other(s))
    BY <1>1, <1>6, <1>10 DEF Untouched, TypeOK
<1> QED
    BY <1>11, <1>17, <1>19, <1>20

-----------------------------------------------------------------------------
(* Every step is one of one node's, or of the line to it. *)
LEMMA EveryStep ==
    ASSUME TypeOK, [Next]_vars, \A s \in Sides : Addressed(s)
    PROVE  \/ UNCHANGED vars
           \/ \E s \in Sides : TypeOK' /\ NodeStep(s) /\ Addressed(s)' /\ Untouched(Other(s))
<1>0. faults \in [line : 0..MaxFaults.line, node : 0..MaxFaults.node] /\ MaxFaults \in [line : Nat, node : Nat]
    BY LlpAssumption DEF TypeOK
<1> SUFFICES ASSUME Next
             PROVE  \E s \in Sides : TypeOK' /\ NodeStep(s) /\ Addressed(s)' /\ Untouched(Other(s))
    OBVIOUS
<1>1. PICK s \in Sides : \/ Read(s) \/ Events(s) \/ Drain(s)
                         \/ p9_write(s) \/ p9_send(s) \/ p9_give_up(s) \/ p9_recv(s)
                         \/ \E due \in Timers : Tick(s, due)
                         \/ Fault(s)
    BY DEF Next
<1>2. Addressed(s)
    OBVIOUS
<1> DEFINE Goal == TypeOK' /\ NodeStep(s) /\ Addressed(s)' /\ Untouched(Other(s))
<1>3. ASSUME Read(s) PROVE Goal
  <2>1. wire[s] # <<>> /\ Input(s, Head(wire[s]), Tail(wire[s])) /\ faults' = faults
    BY <1>3 DEF Read
  <2>2. faults' \in [line : 0..MaxFaults.line, node : 0..MaxFaults.node]
    BY <1>0, <2>1
  <2> QED
    BY <1>2, <2>1, <2>2, InputStep
<1>4. ASSUME Events(s) PROVE Goal
    BY <1>2, <1>4, EventsStep
<1>5. ASSUME Drain(s) PROVE Goal
    BY <1>2, <1>5, DrainStep
<1>6. ASSUME p9_send(s) PROVE Goal
    BY <1>2, <1>6, SendTaskStep
<1>t. ASSUME p9_write(s) \/ p9_give_up(s) PROVE Goal
    BY <1>2, <1>t, WriteTaskStep
<1>7. ASSUME p9_recv(s) PROVE Goal
    BY <1>2, <1>7, RecvTaskStep
<1>8. ASSUME NEW due \in Timers, Tick(s, due) PROVE Goal
    BY <1>2, <1>8, TickStep
<1>9. ASSUME Fault(s) PROVE Goal
  <2>1. CASE /\ faults.line < MaxFaults.line /\ faults' = [faults EXCEPT !.line = @ + 1]
             /\ Lose(s) \/ Repeat(s)
    <3>1. faults' \in [line : 0..MaxFaults.line, node : 0..MaxFaults.node]
        BY <1>0, <2>1
    <3>2. CASE Lose(s)
        BY <1>2, <3>1, <3>2, LoseStep
    <3>3. CASE Repeat(s)
      <4>1. wire[s] # <<>> /\ Input(s, Head(wire[s]), wire[s])
        BY <3>3 DEF Repeat
      <4> QED
        BY <1>2, <3>1, <4>1, InputStep
    <3> QED
        BY <2>1, <3>2, <3>3
  <2>2. CASE /\ faults.node < MaxFaults.node /\ faults' = [faults EXCEPT !.node = @ + 1]
             /\ \E major \in Majors[s] : Restart(s, major)
    <3>1. faults' \in [line : 0..MaxFaults.line, node : 0..MaxFaults.node]
        BY <1>0, <2>2
    <3> QED
        BY <1>2, <2>2, <3>1, RestartStep
  <2> QED
    BY <1>9, <2>1, <2>2 DEF Fault
<1> HIDE DEF Goal
<1>10. Goal
    BY <1>1, <1>3, <1>4, <1>5, <1>6, <1>t, <1>7, <1>8, <1>9
<1> QED
    BY <1>10 DEF Goal

(* The nodes start knowing nothing of each other. *)
LEMMA SessionInit == Init => SessionInv
<1> SUFFICES ASSUME Init PROVE SessionInv
    OBVIOUS
<1>1. link \in [Sides -> {Started(1, major) : major \in UNION {Majors[s] : s \in Sides}}]
    BY DEF Init
<1>2. ASSUME NEW s \in Sides
      PROVE  /\ link[s] \in Links /\ link[s].session = 1 /\ link[s].peer = 0 /\ link[s].state = "down"
             /\ FirstHello(link[s]) \in Frames /\ FirstHello(link[s]).op = "hello"
             /\ From(FirstHello(link[s])) = 1 /\ Knew(FirstHello(link[s])) = 0
  <2>1. PICK major \in UNION {Majors[t] : t \in Sides} : link[s] = Started(1, major)
    BY <1>1
  <2>2. major \in Nat
    BY LlpAssumption
  <2> QED
    BY <2>1, <2>2, StartedFacts
<1>3. ASSUME NEW s \in Sides
      PROVE  /\ wire[s] \in Seq(Frames) /\ Len(wire[s]) <= WireLen
             /\ \A i \in Sent(s) : wire[s][i].op = "hello" /\ From(wire[s][i]) = 1 /\ Knew(wire[s][i]) = 0
  <2>1. wire[s] = <<>> \/ wire[s] = <<FirstHello(link[Other(s)])>>
    BY DEF Init
  <2>2. PICK f : f = FirstHello(link[Other(s)])
    OBVIOUS
  <2>3. f \in Frames /\ f.op = "hello" /\ From(f) = 1 /\ Knew(f) = 0
    BY <1>2, <2>2, TwoSides
  <2>4. WireLen \in Nat /\ WireLen >= 1
    BY LlpAssumption
  <2>5. CASE wire[s] = <<>>
    BY <2>4, <2>5 DEF Sent
  <2>6. CASE wire[s] = <<f>>
    BY <2>3, <2>4, <2>6 DEF Sent
  <2> QED
    BY <2>1, <2>2, <2>5, <2>6
<1>4. /\ rxq = [s \in Sides |-> <<>>] /\ stale = [s \in Sides |-> 0]
      /\ txq = [s \in Sides |-> <<>>] /\ p9peer = [s \in Sides |-> 0]
      /\ draft = [s \in Sides |-> FALSE]
      /\ evUp = [s \in Sides |-> FALSE]
      /\ ghost = [s \in Sides |-> [sent |-> 0, next |-> 0]]
      /\ faults = [line |-> 0, node |-> 0]
    BY DEF Init
<1>5. <<>> \in Seq(Nat) /\ Len(<<>>) = 0
    OBVIOUS
<1>6. TypeOK
  <2>1. link \in [Sides -> Links]
    BY <1>1, <1>2
  <2>2. wire \in [Sides -> Seq(Frames)] /\ \A s \in Sides : Len(wire[s]) <= WireLen
    <3>1. DOMAIN wire = Sides /\ wire = [s \in Sides |-> wire[s]]
        BY DEF Init
    <3> QED
        BY <1>3, <3>1
  <2>3. /\ rxq \in [Sides -> Seq(Nat)] /\ stale \in [Sides -> Nat] /\ txq \in [Sides -> Seq(Nat)]
        /\ \A s \in Sides : Len(rxq[s]) <= Slots /\ Len(txq[s]) <= 1 /\ stale[s] <= Len(rxq[s])
    BY <1>4, <1>5, Bounds
  <2>4. /\ p9peer \in [Sides -> Nat] /\ evUp \in [Sides -> BOOLEAN]
        /\ draft \in [Sides -> BOOLEAN]
    BY <1>4
  <2>5. ghost \in [Sides -> [sent : 0..MaxFrames, next : 0..MaxFrames]]
    BY <1>4, Bounds
  <2>6. faults \in [line : 0..MaxFaults.line, node : 0..MaxFaults.node]
    BY <1>4, LlpAssumption
  <2> QED
    BY <2>1, <2>2, <2>3, <2>4, <2>5, <2>6 DEF TypeOK
<1> SUFFICES ASSUME NEW s \in Sides
             PROVE  FromInOrder(s) /\ KnewInOrder(s) /\ ReadUpTo(s) /\ UpKnown(s) /\ HasMet(s) /\ Addressed(s)
    BY <1>6 DEF SessionInv
<1>7. Other(s) \in Sides
    BY TwoSides
<1>8. FromInOrder(s)
    BY <1>2, <1>3, <1>7 DEF FromInOrder
<1>9. KnewInOrder(s)
    BY <1>2, <1>3, <1>7 DEF KnewInOrder
<1>10. ReadUpTo(s)
    BY <1>2, <1>3, <1>7 DEF ReadUpTo
<1>11. UpKnown(s)
    BY <1>2 DEF UpKnown
<1>12. HasMet(s)
    BY <1>2, <1>3, <1>7 DEF HasMet
<1>13. Addressed(s)
    BY <1>2, <1>4, <1>5 DEF Addressed
<1> QED
    BY <1>8, <1>9, <1>10, <1>11, <1>12, <1>13

LEMMA SessionAlways == Spec => []SessionInv
<1>1. SessionInv /\ [Next]_vars => SessionInv'
  <2> SUFFICES ASSUME SessionInv, [Next]_vars PROVE SessionInv'
    OBVIOUS
  <2>1. TypeOK /\ \A t \in Sides : Sessions(t) /\ Addressed(t)
    BY DEF SessionInv, Sessions
  <2>2. CASE UNCHANGED vars
    BY <2>2 DEF vars, SessionInv, TypeOK, FromInOrder, KnewInOrder, ReadUpTo, UpKnown, HasMet, Addressed, Sent
  <2>3. ASSUME NEW s \in Sides, TypeOK', NodeStep(s), Addressed(s)', Untouched(Other(s)) PROVE SessionInv'
    <3>1. Other(s) \in Sides /\ \A t \in Sides : t = s \/ t = Other(s)
        BY TwoSides
    <3>2. Sessions(s)' /\ Sessions(Other(s))'
        BY <2>1, <2>3, <3>1, SessionsKept
    <3>3. Addressed(Other(s))'
        BY <2>1, <2>3, <3>1, OthersAddress
    <3>4. \A t \in Sides : (Sessions(t) /\ Addressed(t))'
        BY <2>3, <3>1, <3>2, <3>3
    <3> QED
        BY <2>3, <3>4 DEF SessionInv, Sessions
  <2> QED
    BY <2>1, <2>2, <2>3, EveryStep
<1> QED
    BY <1>1, SessionInit, PTL DEF Spec

(* Every number stays within its eight bits, every queue within its size: *)
(* what llp.c and llp_node.c keep about the link is what they say it is.   *)
THEOREM LinkTyped == Spec => []TypeOK
<1>1. SessionInv => TypeOK
    BY DEF SessionInv
<1> QED
    BY <1>1, SessionAlways, PTL

(* What llp_link_input() gives to deliver() was sent by the session this   *)
(* node talks to, and had been queued there for the session it is in: over *)
(* any number of restarts, silences, losses and repeats what is queued for *)
(* one session is not handed on in another.  What p9_send() still holds is *)
(* not queued: it is queued for whoever the peer is by then.               *)
THEOREM NeverAcross == Spec => []OwnSession
<1>1. SessionInv => OwnSession
  <2> SUFFICES ASSUME SessionInv, NEW s \in Sides, NEW f \in Arriving(s), Accepts(link[s], f)
               PROVE  f.from = link[s].peer /\ f.to = link[s].session
    BY DEF OwnSession
  <2>1. 1 \in DOMAIN wire[s] /\ f = wire[s][1] /\ f.op = "data"
    BY DEF Arriving
  <2>2. wire[s] \in Seq(Frames) /\ link[s] \in Links
    BY DEF SessionInv, TypeOK
  <2>3. 1 \in Sent(s) /\ From(f) = f.from /\ Knew(f) = f.to
    BY <2>1, <2>2 DEF Sent, From, Knew
  <2>4. link[s].state = "up"
    BY DEF Accepts
  <2>5. f.to # 0 /\ f.to \in {0, link[s].session}
    BY <2>1, <2>3, <2>4 DEF SessionInv, HasMet, UpKnown
  <2>6. f.from <= link[s].peer
    BY <2>1, <2>3, <2>5 DEF SessionInv, HasMet
  <2>7. f.from \in link[s].peer..link[Other(s)].session
    BY <2>1, <2>3 DEF SessionInv, FromInOrder
  <2>8. link[s].peer \in Nat /\ link[Other(s)].session \in Nat
    <3>1. link[Other(s)] \in Links
        BY TwoSides DEF SessionInv, TypeOK
    <3> QED
        BY <2>2, <3>1 DEF Links
  <2> QED
    BY <2>5, <2>6, <2>7, <2>8
<1> QED
    BY <1>1, SessionAlways, PTL

-----------------------------------------------------------------------------
(* The numbers.  What a frame tells when it is sent is the case then.      *)
Steady(s) == link'[s].session = link[s].session /\ link'[s].peer = link[s].peer

Tells(s, f) ==
    /\ Stands(f)
    /\ f.op \in {"hello", "credit"} => f.window <= Slots - Len(rxq'[s])
    /\ f.op = "credit" => f.n = ghost'[s].next
    /\ f.op \in {"probe", "data"} => Reach(f) = ghost'[s].sent
    /\ f.op # "hello" => Steady(s) /\ link[s].state = "up"

(* Within a session the numbers go up: to what the frame read stands for,  *)
(* or by one message sent.                                                 *)
Goes(s) ==
    /\ Steady(s) /\ Room(s)' >= Room(s)
    /\ \/ ghost'[s].next = ghost[s].next
       \/ link[s].state = "up" /\ 1 \in Stream(s) /\ ghost'[s].next = Reach(wire[s][1])
    /\ \/ Acked(s)' = Acked(s) /\ link'[s].tx_window = link[s].tx_window
       \/ /\ link[s].state = "up" /\ 1 \in Credits(s)
          /\ Acked(s)' = wire[s][1].n /\ link'[s].tx_window <= wire[s][1].window
    /\ \/ ghost'[s].sent = ghost[s].sent
       \/ /\ link[s].state = "up" /\ ghost'[s].sent = ghost[s].sent + 1
          /\ Unacked(s)' <= link'[s].tx_window

(* A new session, of the node or of its peer, begins at zero. *)
Renews(s) ==
    /\ ghost'[s].next = 0 /\ ghost'[s].sent = 0 /\ Unacked(s)' = 0
    /\ \/ /\ Meets(s) /\ link'[s].peer # link[s].peer
          /\ link'[s].tx_window <= wire[s][1].window /\ Len(rxq'[s]) <= Len(rxq[s])
       \/ Restarts(s)

CountStep(s) ==
    /\ ghost'[Other(s)] = ghost[Other(s)] /\ rxq'[Other(s)] = rxq[Other(s)]
    /\ \A i \in (Len(wire[Other(s)]) + 1)..Len(wire'[Other(s)]) : Tells(s, wire'[Other(s)][i])
    /\ link'[s].rx_next = ghost'[s].next % Mod /\ link'[s].tx_seq = ghost'[s].sent % Mod
    /\ link'[s].peer # 0 => link'[s].flow
    /\ Goes(s) \/ Renews(s)

Counted(s) == Numbered(s) /\ Near(s) /\ Agree(s) /\ Fresh(s)

(* The wire s reads from, and the one it writes to, after a step of s. *)
LEMMA ReadWire ==
    ASSUME TypeOK, TypeOK', NEW s \in Sides, NodeStep(s)
    PROVE  \E d \in {0, 1} : \A i \in Sent(s)' : i \in Nat /\ i >= 1 /\ i + d \in Sent(s) /\ wire'[s][i] = wire[s][i + d]
<1>1. PICK d \in {0, 1} : /\ Len(wire'[s]) = Len(wire[s]) - d
                          /\ \A i \in 1..Len(wire'[s]) : wire'[s][i] = wire[s][i + d]
    BY DEF NodeStep, Drops
<1>2. wire[s] \in Seq(Frames) /\ wire'[s] \in Seq(Frames)
    BY DEF TypeOK
<1> QED
    BY <1>1, <1>2 DEF Sent

LEMMA WrittenWire ==
    ASSUME TypeOK, TypeOK', NEW s \in Sides, NodeStep(s), CountStep(s), NEW i \in Sent(Other(s))'
    PROVE  \/ i \in Sent(Other(s)) /\ wire'[Other(s)][i] = wire[Other(s)][i]
           \/ i > Len(wire[Other(s)]) /\ Signed(link'[s], wire'[Other(s)][i]) /\ Tells(s, wire'[Other(s)][i])
<1> DEFINE o == Other(s)
<1>1. o \in Sides
    BY TwoSides
<1>2. wire[o] \in Seq(Frames) /\ wire'[o] \in Seq(Frames)
    BY <1>1 DEF TypeOK
<1>3. i \in 1..Len(wire'[o]) /\ Len(wire[o]) \in Nat /\ Len(wire'[o]) \in Nat
    BY <1>2 DEF Sent
<1>4. CASE i <= Len(wire[o])
    BY <1>3, <1>4 DEF NodeStep, Adds, Sent
<1>5. CASE i > Len(wire[o])
    BY <1>3, <1>5 DEF NodeStep, Adds, Says, CountStep
<1> QED
    BY <1>3, <1>4, <1>5

NumberFacts(s) ==
    /\ link[s].session \in Nat /\ link[s].session > 0 /\ link[s].peer \in Nat
    /\ ghost[s].next \in Nat /\ ghost[s].sent \in Nat
    /\ link[s].tx_window \in 0..MaxWindow
    /\ Unacked(s) \in 0..(Mod - 1) /\ Acked(s) \in Int /\ Acked(s) = ghost[s].sent - Unacked(s)
    /\ Room(s) \in Nat /\ Room(s) = ghost[s].next + (Slots - Len(rxq[s])) /\ Len(rxq[s]) \in 0..Slots
    /\ wire[s] \in Seq(Frames)
    /\ \A i \in Sent(s) : /\ i \in Nat /\ i >= 1 /\ wire[s][i] \in Frames
                          /\ From(wire[s][i]) \in Nat /\ Knew(wire[s][i]) \in Nat
    /\ \A i \in Stream(s) : i \in Sent(s) /\ Reach(wire[s][i]) \in Nat
    /\ \A i \in Credits(s) : i \in Sent(s) /\ wire[s][i].n \in Nat /\ wire[s][i].window \in Nat

LEMMA NumberTypes ==
    ASSUME TypeOK, NEW s \in Sides
    PROVE  NumberFacts(s)
<1>1. link[s] \in Links /\ ghost[s] \in [sent : 0..MaxFrames, next : 0..MaxFrames]
    BY DEF TypeOK
<1>2. link[s].session \in Nat /\ link[s].session > 0 /\ link[s].peer \in Nat /\ link[s].tx_window \in 0..MaxWindow
    BY <1>1 DEF Links
<1>3. ghost[s].next \in Nat /\ ghost[s].sent \in Nat
    BY <1>1, Bounds
<1>4. link[s].tx_seq - link[s].tx_ack \in Int
    BY <1>1, Bounds DEF Links
<1>5. Unacked(s) \in 0..(Mod - 1)
    BY <1>4, ModIn DEF Unacked, Minus
<1>6. Acked(s) \in Int /\ Acked(s) = ghost[s].sent - Unacked(s)
    BY <1>3, <1>5, Bounds DEF Acked
<1>7. Len(rxq[s]) \in 0..Slots /\ Slots \in Nat
    BY Bounds DEF TypeOK
<1>8. Room(s) \in Nat /\ Room(s) = ghost[s].next + (Slots - Len(rxq[s]))
    BY <1>3, <1>7 DEF Room
<1>9. wire[s] \in Seq(Frames)
    BY DEF TypeOK
<1>10. \A i \in Sent(s) : i \in Nat /\ i >= 1 /\ wire[s][i] \in Frames
    BY <1>9 DEF Sent
<1>11. \A i \in Sent(s) : From(wire[s][i]) \in Nat /\ Knew(wire[s][i]) \in Nat
    BY <1>10, FrameNumbers
<1>12. \A f \in Frames : f.op # "hello" => Reach(f) \in Nat /\ f.n \in Nat
    BY Bounds DEF Frames, Reach
<1>13. \A f \in Frames : f.op = "credit" => f.window \in Nat
    BY Bounds DEF Frames
<1>14. \A i \in Stream(s) : i \in Sent(s) /\ Reach(wire[s][i]) \in Nat
    BY <1>10, <1>12 DEF Stream, Ours
<1>15. \A i \in Credits(s) : i \in Sent(s) /\ wire[s][i].n \in Nat /\ wire[s][i].window \in Nat
    BY <1>10, <1>12, <1>13 DEF Credits, Ours
<1> QED
    BY <1>2, <1>3, <1>5, <1>6, <1>7, <1>8, <1>9, <1>10, <1>11, <1>14, <1>15 DEF NumberFacts

LEMMA NumberTypesNext ==
    ASSUME TypeOK', NEW s \in Sides
    PROVE  NumberFacts(s)'
BY NumberTypes, PTL


(* Two nodes of which one is up in the other's present session are in the  *)
(* session they have with each other.                                      *)
LEMMA UpTogether ==
    ASSUME TypeOK, NEW s \in Sides, Sessions(s), Sessions(Other(s)), link[s].state = "up",
           link[s].peer = link[Other(s)].session
    PROVE  Together(s)
<1>1. Other(s) \in Sides /\ Other(Other(s)) = s
    BY TwoSides
<1>2. link[s].session <= link[Other(s)].peer
    BY <1>1 DEF Sessions, HasMet
<1>3. link[Other(s)].peer <= link[s].session
    BY <1>1 DEF Sessions, FromInOrder
<1>4. link[s].session \in Nat /\ link[Other(s)].peer \in Nat
    BY <1>1, NumberTypes DEF NumberFacts
<1> QED
    BY <1>2, <1>3, <1>4 DEF Together

(* Within a session the numbers under way stay in order and near. *)
LEMMA GoesKept ==
    ASSUME TypeOK, TypeOK', NEW s \in Sides, NodeStep(s), CountStep(s), Goes(s),
           Sessions(s), Sessions(Other(s)), Counted(s), Counted(Other(s))
    PROVE  Counted(s)' /\ Counted(Other(s))'
<1> DEFINE o == Other(s)
           g == ghost[s]
           h == ghost'[s]
<1>1. o \in Sides /\ Other(o) = s /\ o # s
    BY TwoSides
<1>2. PICK d \in {0, 1} : \A i \in Sent(s)' : i \in Nat /\ i >= 1 /\ i + d \in Sent(s) /\ wire'[s][i] = wire[s][i + d]
    BY ReadWire
<1>3. \A i \in Sent(o)' :
        \/ i \in Sent(o) /\ wire'[o][i] = wire[o][i]
        \/ i > Len(wire[o]) /\ Signed(link'[s], wire'[o][i]) /\ Tells(s, wire'[o][i])
    BY WrittenWire
<1>4. link'[o] = link[o] /\ ghost'[o] = ghost[o] /\ Steady(s)
    BY DEF NodeStep, CountStep, Goes
<1>5. /\ g.next \in Nat /\ g.sent \in Nat /\ h.next \in Nat /\ h.sent \in Nat
      /\ Unacked(s) \in 0..(Mod - 1) /\ Acked(s) \in Int /\ Acked(s) = g.sent - Unacked(s)
      /\ Unacked(s)' \in 0..(Mod - 1) /\ Acked(s)' \in Int /\ Acked(s)' = h.sent - Unacked(s)'
      /\ link'[s].tx_window \in 0..MaxWindow
  <2>1. /\ g.next \in Nat /\ g.sent \in Nat
        /\ Unacked(s) \in 0..(Mod - 1) /\ Acked(s) \in Int /\ Acked(s) = g.sent - Unacked(s)
    BY NumberTypes DEF NumberFacts
  <2>2. /\ h.next \in Nat /\ h.sent \in Nat
        /\ Unacked(s)' \in 0..(Mod - 1) /\ Acked(s)' \in Int /\ Acked(s)' = h.sent - Unacked(s)'
        /\ link'[s].tx_window \in 0..MaxWindow
    BY NumberTypesNext DEF NumberFacts
  <2> QED
    BY <2>1, <2>2
<1>6. Numbered(s) /\ Near(s) /\ Agree(s) /\ Fresh(s) /\ Numbered(o) /\ Near(o) /\ Agree(o) /\ Fresh(o)
    BY DEF Counted
<1>7. NumberFacts(s) /\ NumberFacts(o) /\ NumberFacts(s)' /\ NumberFacts(o)' /\ MaxWindow \in Nat /\ Mod \in Nat
    BY <1>1, NumberTypes, NumberTypesNext, Bounds
<1>8. /\ \A i \in Stream(s)' : i + d \in Stream(s) /\ i \in Nat /\ i >= 1 /\ wire'[s][i] = wire[s][i + d]
      /\ \A i \in Credits(s)' : i + d \in Credits(s) /\ i \in Nat /\ i >= 1 /\ wire'[s][i] = wire[s][i + d]
  <2>1. \A f : Ours(s, f) <=> f.op # "hello" /\ From(f) = link'[s].peer /\ Knew(f) = link'[s].session
    BY <1>4 DEF Ours, Steady
  <2> QED
    BY <1>2, <2>1 DEF Stream, Credits, Ours
(* The numbers of s go up. *)
<1>9. /\ g.next <= h.next /\ g.sent <= h.sent /\ Acked(s) <= Acked(s)' /\ Acked(s)' <= h.sent
      /\ Unacked(s)' <= MaxWindow /\ Unacked(s) <= MaxWindow
  <2>1. g.next <= h.next
    BY <1>5, <1>6 DEF Goes, Near
  <2>2. g.sent <= h.sent
    BY <1>5 DEF Goes
  <2>3. Acked(s) <= Acked(s)'
    BY <1>5, <1>6 DEF Goes, Near
  <2>4. Acked(s)' <= h.sent
    BY <1>5, <1>7
  <2>5. Unacked(s) <= MaxWindow
    BY <1>6 DEF Near
  <2>6. Unacked(s)' <= MaxWindow
    BY <1>5, <1>7, <2>3, <2>5 DEF Goes
  <2> QED
    BY <2>1, <2>2, <2>3, <2>4, <2>5, <2>6
<1>10. /\ \A i \in Stream(s)' : h.next <= Reach(wire'[s][i])
       /\ \A i \in Credits(s)' : Acked(s)' <= wire'[s][i].n
  <2>1. ASSUME NEW i \in Stream(s)' PROVE h.next <= Reach(wire[s][i + d])
    <3>1. i + d \in Stream(s) /\ i + d \in Nat /\ i + d >= 1 /\ Reach(wire[s][i + d]) \in Nat
        BY <1>7, <1>8 DEF NumberFacts
    <3>2. g.next <= Reach(wire[s][i + d])
        BY <1>5, <1>6, <3>1 DEF Near
    <3>3. 1 \in Stream(s) => Reach(wire[s][1]) <= Reach(wire[s][i + d])
        BY <1>6, <3>1 DEF Near
    <3> QED
        BY <3>2, <3>3 DEF Goes
  <2>2. ASSUME NEW i \in Credits(s)' PROVE Acked(s)' <= wire[s][i + d].n
    <3>1. i + d \in Credits(s) /\ i + d \in Nat /\ i + d >= 1 /\ wire[s][i + d].n \in Nat
        BY <1>7, <1>8 DEF NumberFacts
    <3>2. Acked(s) <= wire[s][i + d].n
        BY <1>5, <1>6, <3>1 DEF Near
    <3>3. 1 \in Credits(s) => wire[s][1].n <= wire[s][i + d].n
        BY <1>6, <3>1 DEF Near
    <3> QED
        BY <3>2, <3>3 DEF Goes
  <2> QED
    BY <1>8, <2>1, <2>2
<1>11. Numbered(s)'
  <2>1. \A i \in Sent(s)' : Stands(wire'[s][i])
    BY <1>2, <1>6 DEF Numbered
  <2> QED
    BY <2>1 DEF Numbered, CountStep
<1>12. Numbered(o)'
  <2>1. \A i \in Sent(o)' : Stands(wire'[o][i])
    BY <1>3, <1>6 DEF Numbered, Tells
  <2> QED
    BY <1>4, <1>6, <2>1 DEF Numbered
<1>13. Near(s)'
  <2>1. \A i \in Stream(s)' : Reach(wire'[s][i]) \in h.next..(h.next + MaxWindow)
    <3> SUFFICES ASSUME NEW i \in Stream(s)' PROVE Reach(wire'[s][i]) \in h.next..(h.next + MaxWindow)
        OBVIOUS
    <3>1. Reach(wire'[s][i]) \in Nat /\ Reach(wire'[s][i]) <= g.next + MaxWindow
        BY <1>5, <1>6, <1>7, <1>8 DEF Near, NumberFacts
    <3> QED
        BY <1>5, <1>7, <1>9, <1>10, <3>1
  <2>2. \A i, j \in Stream(s)' : i < j => Reach(wire'[s][i]) <= Reach(wire'[s][j])
    BY <1>6, <1>8 DEF Near
  <2>5. \A i \in Credits(s) : wire[s][i].n \in Nat /\ wire[s][i].n <= g.sent
    <3> SUFFICES ASSUME NEW i \in Credits(s) PROVE wire[s][i].n \in Nat /\ wire[s][i].n <= g.sent
        OBVIOUS
    <3>1. wire[s][i].n \in Nat
        BY <1>7 DEF NumberFacts
    <3>2. wire[s][i].n \in Acked(s)..g.sent
        BY <1>6 DEF Near
    <3> QED
        BY <1>5, <3>1, <3>2
  <2>3. \A i \in Credits(s)' : wire'[s][i].n \in Acked(s)'..h.sent
    <3> SUFFICES ASSUME NEW i \in Credits(s)' PROVE wire'[s][i].n \in Acked(s)'..h.sent
        OBVIOUS
    <3>1. wire'[s][i].n \in Nat /\ wire'[s][i].n <= g.sent
        BY <1>8, <2>5
    <3> QED
        BY <1>5, <1>9, <1>10, <3>1
  <2>4. \A i, j \in Credits(s)' : i < j => wire'[s][i].n <= wire'[s][j].n
    BY <1>6, <1>8 DEF Near
  <2> QED
    BY <1>9, <2>1, <2>2, <2>3, <2>4 DEF Near
(* What they are to each other. *)
<1>21. /\ ghost[o].next \in Nat /\ ghost[o].sent \in Nat
       /\ Unacked(o) \in 0..(Mod - 1) /\ Acked(o) \in Int /\ Acked(o) = ghost[o].sent - Unacked(o)
       /\ \A i \in Stream(s) : Reach(wire[s][i]) \in Nat
       /\ \A i \in Stream(o) : Reach(wire[o][i]) \in Nat
       /\ \A i \in Credits(s) : wire[s][i].n \in Nat
       /\ \A i \in Credits(o) : wire[o][i].n \in Nat
    BY <1>7 DEF NumberFacts
<1>14. /\ (Together(s) <=> Together(o)) /\ (Together(s)' <=> Together(s)) /\ (Together(o)' <=> Together(o))
       /\ Acked(o)' = Acked(o) /\ Unacked(o)' = Unacked(o)
    BY <1>1, <1>4 DEF Together, Steady, Acked, Unacked
<1>15. /\ \A i \in Stream(o)' : \/ i \in Stream(o) /\ wire'[o][i] = wire[o][i]
                                \/ i > Len(wire[o]) /\ Together(o) /\ Reach(wire'[o][i]) = h.sent
       /\ \A i \in Credits(o)' : \/ i \in Credits(o) /\ wire'[o][i] = wire[o][i]
                                 \/ i > Len(wire[o]) /\ Together(o) /\ wire'[o][i].n = h.next
  <2>1. \A f : Ours(o, f) <=> f.op # "hello" /\ From(f) = link'[o].peer /\ Knew(f) = link'[o].session
    BY <1>4 DEF Ours
  <2>2. \A f : Signed(link'[s], f) => From(f) = link[s].session /\ Knew(f) = link[s].peer
    BY <1>4 DEF Signed, Steady
  <2>3. \A f : Signed(link'[s], f) /\ Ours(o, f) => Together(o)
    BY <1>1, <2>2 DEF Ours, Together
  <2>4. ASSUME NEW i \in Stream(o)'
        PROVE  \/ i \in Stream(o) /\ wire'[o][i] = wire[o][i]
               \/ i > Len(wire[o]) /\ Together(o) /\ Reach(wire'[o][i]) = h.sent
    <3>1. i \in Sent(o)' /\ Ours(o, wire'[o][i]) /\ wire'[o][i].op # "credit"
        BY <2>1 DEF Stream, Ours
    <3>2. wire'[o][i] \in Frames
        BY <1>7, <3>1 DEF NumberFacts
    <3>3. wire'[o][i].op \in {"probe", "data"}
        BY <3>1, <3>2 DEF Frames, Ours
    <3> QED
        BY <1>3, <2>3, <3>1, <3>3 DEF Stream, Tells
  <2>5. ASSUME NEW i \in Credits(o)'
        PROVE  \/ i \in Credits(o) /\ wire'[o][i] = wire[o][i]
               \/ i > Len(wire[o]) /\ Together(o) /\ wire'[o][i].n = h.next
    <3>1. i \in Sent(o)' /\ Ours(o, wire'[o][i]) /\ wire'[o][i].op = "credit"
        BY <2>1 DEF Credits, Ours
    <3> QED
        BY <1>3, <2>3, <3>1 DEF Credits, Tells
  <2> QED
    BY <2>4, <2>5
<1>16. Agree(s)'
  <2> SUFFICES ASSUME Together(s)
               PROVE  /\ h.next \in Acked(o)..ghost[o].sent
                      /\ \A i \in Stream(s)' : Reach(wire'[s][i]) <= ghost[o].sent
                      /\ \A i \in Credits(s)' : wire'[s][i].n <= ghost[o].next
    BY <1>4, <1>14 DEF Agree
  <2>1. /\ g.next \in Acked(o)..ghost[o].sent
        /\ \A i \in Stream(s) : Reach(wire[s][i]) <= ghost[o].sent
        /\ \A i \in Credits(s) : wire[s][i].n <= ghost[o].next
    BY <1>6 DEF Agree
  <2>2. h.next <= ghost[o].sent
    BY <1>5, <1>21, <2>1 DEF Goes
  <2>3. Acked(o) <= h.next
    BY <1>5, <1>9, <1>21, <2>1
  <2> QED
    BY <1>5, <1>8, <1>21, <2>1, <2>2, <2>3
<1>17. Agree(o)'
  <2> SUFFICES ASSUME Together(o)
               PROVE  /\ ghost[o].next \in Acked(s)'..h.sent
                      /\ \A i \in Stream(o)' : Reach(wire'[o][i]) <= h.sent
                      /\ \A i \in Credits(o)' : wire'[o][i].n <= h.next
    BY <1>1, <1>4, <1>14 DEF Agree
  <2>1. /\ ghost[o].next \in Acked(s)..g.sent
        /\ \A i \in Stream(o) : Reach(wire[o][i]) <= g.sent
        /\ \A i \in Credits(o) : wire[o][i].n <= g.next
    BY <1>1, <1>6 DEF Agree
  <2>2. \A i \in Credits(s) : wire[s][i].n <= ghost[o].next
    BY <1>6, <1>14 DEF Agree
  <2>3. Acked(s)' <= ghost[o].next /\ ghost[o].next <= h.sent /\ ghost[o].next \in Nat
    BY <1>5, <1>9, <1>21, <2>1, <2>2 DEF Goes
  <2>4. \A i \in Stream(o)' : Reach(wire'[o][i]) <= h.sent
    <3> SUFFICES ASSUME NEW i \in Stream(o)' PROVE Reach(wire'[o][i]) <= h.sent
        OBVIOUS
    <3>1. CASE i \in Stream(o) /\ wire'[o][i] = wire[o][i]
      <4>1. Reach(wire[o][i]) <= g.sent /\ Reach(wire[o][i]) \in Nat
        BY <1>21, <2>1, <3>1
      <4> QED
        BY <1>5, <1>9, <3>1, <4>1
    <3>2. CASE Reach(wire'[o][i]) = h.sent
        BY <1>5, <3>2
    <3> QED
        BY <1>15, <3>1, <3>2
  <2>5. \A i \in Credits(o)' : wire'[o][i].n <= h.next
    <3> SUFFICES ASSUME NEW i \in Credits(o)' PROVE wire'[o][i].n <= h.next
        OBVIOUS
    <3>1. CASE i \in Credits(o) /\ wire'[o][i] = wire[o][i]
      <4>1. wire[o][i].n <= g.next /\ wire[o][i].n \in Nat
        BY <1>21, <2>1, <3>1
      <4>2. wire'[o][i].n = wire[o][i].n
        BY <3>1
      <4> QED
        BY <1>5, <1>9, <4>1, <4>2
    <3>2. CASE wire'[o][i].n = h.next
        BY <1>5, <3>2
    <3> QED
        BY <1>15, <3>1, <3>2
  <2> QED
    BY <1>5, <2>3, <2>4, <2>5
<1>18. Near(o)'
  <2>1. Together(o) => /\ ghost[o].next \in Acked(s)'..h.sent
                       /\ \A i \in Stream(o)' : Reach(wire'[o][i]) <= h.sent
                       /\ \A i \in Credits(o)' : wire'[o][i].n <= h.next
    BY <1>1, <1>4, <1>14, <1>17 DEF Agree
  <2>2. Together(o) => h.next \in Acked(o)..ghost[o].sent
    BY <1>4, <1>14, <1>16 DEF Agree
  <2>4. Together(o) => h.sent \in ghost[o].next..(ghost[o].next + MaxWindow)
    BY <1>5, <1>7, <1>9, <1>21, <2>1
  <2>5. \A i \in Stream(o)' : Reach(wire'[o][i]) \in ghost[o].next..(ghost[o].next + MaxWindow)
    BY <1>6, <1>15, <2>4 DEF Near
  <2>6. \A i, j \in Stream(o)' : i < j => Reach(wire'[o][i]) <= Reach(wire'[o][j])
    <3> SUFFICES ASSUME NEW i \in Stream(o)', NEW j \in Stream(o)', i < j
                 PROVE  Reach(wire'[o][i]) <= Reach(wire'[o][j])
        OBVIOUS
    <3>1. CASE j \in Stream(o) /\ wire'[o][j] = wire[o][j]
      <4>1. j <= Len(wire[o]) /\ i \in Nat /\ j \in Nat /\ Len(wire[o]) \in Nat
        BY <1>7, <3>1 DEF NumberFacts, Stream, Sent
      <4>2. i \in Stream(o) /\ wire'[o][i] = wire[o][i]
        BY <1>15, <4>1
      <4> QED
        BY <1>6, <3>1, <4>2 DEF Near
    <3>2. CASE Together(o) /\ Reach(wire'[o][j]) = h.sent
        BY <2>1, <3>2
    <3> QED
        BY <1>15, <3>1, <3>2
  <2>7. \A i \in Credits(o)' : wire'[o][i].n \in Acked(o)..ghost[o].sent
    BY <1>6, <1>15, <2>2 DEF Near
  <2>8. \A i, j \in Credits(o)' : i < j => wire'[o][i].n <= wire'[o][j].n
    <3> SUFFICES ASSUME NEW i \in Credits(o)', NEW j \in Credits(o)', i < j
                 PROVE  wire'[o][i].n <= wire'[o][j].n
        OBVIOUS
    <3>1. CASE j \in Credits(o) /\ wire'[o][j] = wire[o][j]
      <4>1. j <= Len(wire[o]) /\ i \in Nat /\ j \in Nat /\ Len(wire[o]) \in Nat
        BY <1>7, <3>1 DEF NumberFacts, Credits, Sent
      <4>2. i \in Credits(o) /\ wire'[o][i] = wire[o][i]
        BY <1>15, <4>1
      <4> QED
        BY <1>6, <3>1, <4>2 DEF Near
    <3>2. CASE Together(o) /\ wire'[o][j].n = h.next
        BY <2>1, <3>2
    <3> QED
        BY <1>15, <3>1, <3>2
  <2>9. Unacked(o) <= MaxWindow
    BY <1>6 DEF Near
  <2> QED
    BY <1>4, <1>14, <2>5, <2>6, <2>7, <2>8, <2>9 DEF Near
(* Nothing counts before the two know of each other. *)
<1>19. Fresh(s)'
  <2> SUFFICES ASSUME \/ link[s].peer = 0
                      \/ link[s].peer = link[o].session /\ link[o].peer # link[s].session
               PROVE  h.next = 0 /\ h.sent = 0 /\ Unacked(s)' = 0
    BY <1>4 DEF Fresh, Steady
  <2>1. g.next = 0 /\ g.sent = 0 /\ Unacked(s) = 0
    BY <1>6 DEF Fresh
  <2>2. link[s].state # "up"
    BY UpTogether DEF Sessions, UpKnown, Together
  <2>3. h.next = 0 /\ h.sent = 0 /\ Acked(s)' = Acked(s)
    BY <2>1, <2>2 DEF Goes
  <2> QED
    BY <1>5, <2>1, <2>3
<1>20. Fresh(o)'
    BY <1>1, <1>4, <1>6, <1>14 DEF Fresh, Steady
<1> QED
    BY <1>11, <1>12, <1>13, <1>16, <1>17, <1>18, <1>19, <1>20 DEF Counted


(* A new session finds nothing of its own under way, and a peer that has   *)
(* counted nothing in it either.                                           *)
LEMMA RenewsKept ==
    ASSUME TypeOK, TypeOK', NEW s \in Sides, NodeStep(s), CountStep(s), Renews(s),
           Sessions(s), Sessions(Other(s)), Counted(s), Counted(Other(s))
    PROVE  Counted(s)' /\ Counted(Other(s))'
<1> DEFINE o == Other(s)
           h == ghost'[s]
<1>1. o \in Sides /\ Other(o) = s /\ o # s
    BY TwoSides
<1>2. PICK d \in {0, 1} : \A i \in Sent(s)' : i \in Nat /\ i >= 1 /\ i + d \in Sent(s) /\ wire'[s][i] = wire[s][i + d]
    BY ReadWire
<1>3. \A i \in Sent(o)' :
        \/ i \in Sent(o) /\ wire'[o][i] = wire[o][i]
        \/ i > Len(wire[o]) /\ Signed(link'[s], wire'[o][i]) /\ Tells(s, wire'[o][i])
    BY WrittenWire
<1>4. /\ link'[o] = link[o] /\ ghost'[o] = ghost[o]
      /\ h.next = 0 /\ h.sent = 0 /\ Unacked(s)' = 0
    BY DEF NodeStep, CountStep, Renews
<1>5. NumberFacts(s) /\ NumberFacts(o) /\ NumberFacts(s)' /\ MaxWindow \in Nat
    BY <1>1, NumberTypes, NumberTypesNext, Bounds
<1>6. /\ link[s].session \in Nat /\ link[s].session > 0 /\ link[s].peer \in Nat /\ link'[s].peer \in Nat
      /\ link[o].session \in Nat /\ link[o].session > 0 /\ link[o].peer \in Nat
      /\ \A i \in Sent(s) : From(wire[s][i]) \in Nat /\ Knew(wire[s][i]) \in Nat
      /\ \A i \in Sent(o) : From(wire[o][i]) \in Nat /\ Knew(wire[o][i]) \in Nat
      /\ Acked(s)' = 0
  <2>1. Acked(s)' = h.sent - Unacked(s)' /\ link'[s].peer \in Nat
    BY <1>5 DEF NumberFacts
  <2>2. Acked(s)' = 0
    BY <1>4, <2>1
  <2>3. /\ link[s].session \in Nat /\ link[s].session > 0 /\ link[s].peer \in Nat
        /\ \A i \in Sent(s) : From(wire[s][i]) \in Nat /\ Knew(wire[s][i]) \in Nat
    BY <1>5 DEF NumberFacts
  <2>4. /\ link[o].session \in Nat /\ link[o].session > 0 /\ link[o].peer \in Nat
        /\ \A i \in Sent(o) : From(wire[o][i]) \in Nat /\ Knew(wire[o][i]) \in Nat
    BY <1>5 DEF NumberFacts
  <2> QED
    BY <2>1, <2>2, <2>3, <2>4
<1>7. Numbered(s) /\ Numbered(o) /\ Near(o) /\ Fresh(o)
    BY DEF Counted
<1>8. /\ FromInOrder(s) /\ KnewInOrder(s) /\ HasMet(s) /\ FromInOrder(o)
    BY DEF Sessions
<1>9. \/ /\ link'[s].session = link[s].session /\ link'[s].peer > link[s].peer
         /\ link'[s].peer <= link[o].session
      \/ link'[s].session = link[s].session + 1 /\ link'[s].peer = 0
  <2>1. CASE Meets(s) /\ link'[s].peer # link[s].peer
    <3>1. 1 \in Sent(s) /\ link'[s].session = link[s].session /\ link'[s].peer = From(wire[s][1])
        BY <2>1 DEF Meets
    <3>2. From(wire[s][1]) \in link[s].peer..link[o].session
        BY <1>8, <3>1 DEF FromInOrder
    <3> QED
        BY <1>6, <2>1, <3>1, <3>2
  <2> QED
    BY <2>1 DEF Renews, Restarts
<1>10. ~Steady(s)
    BY <1>6, <1>9 DEF Steady
<1>11. \A i \in Sent(s)' : ~(wire'[s][i].op # "hello" /\ From(wire'[s][i]) = link'[s].peer /\ Knew(wire'[s][i]) = link'[s].session)
  <2> SUFFICES ASSUME NEW i \in Sent(s)', wire'[s][i].op # "hello",
                      From(wire'[s][i]) = link'[s].peer, Knew(wire'[s][i]) = link'[s].session
               PROVE  FALSE
    OBVIOUS
  <2>1. i + d \in Sent(s) /\ wire'[s][i] = wire[s][i + d]
    BY <1>2
  <2>2. Knew(wire[s][i + d]) \in 0..link[s].session
    BY <1>8, <2>1 DEF KnewInOrder
  <2>3. Knew(wire[s][i + d]) = link[s].session => From(wire[s][i + d]) <= link[s].peer
    BY <1>8, <2>1 DEF HasMet
  <2> QED
    BY <1>6, <1>9, <2>1, <2>2, <2>3
<1>12. Stream(s)' = {} /\ Credits(s)' = {}
    BY <1>11 DEF Stream, Credits, Ours
<1>13. \A i \in Sent(o)' : wire'[o][i].op # "hello" => i \in Sent(o) /\ wire'[o][i] = wire[o][i]
    BY <1>3, <1>10 DEF Tells
<1>14. /\ \A i \in Stream(o)' : i \in Stream(o) /\ wire'[o][i] = wire[o][i]
       /\ \A i \in Credits(o)' : i \in Credits(o) /\ wire'[o][i] = wire[o][i]
  <2>1. \A f : Ours(o, f) <=> f.op # "hello" /\ From(f) = link'[o].peer /\ Knew(f) = link'[o].session
    BY <1>4 DEF Ours
  <2> QED
    BY <1>13, <2>1 DEF Stream, Credits, Ours
<1>15. Acked(o)' = Acked(o) /\ Unacked(o)' = Unacked(o) /\ (Together(o)' <=> Together(s)')
    BY <1>1, <1>4 DEF Acked, Unacked, Together
<1>16. ASSUME Together(s)'
       PROVE  /\ ghost[o].next = 0 /\ ghost[o].sent = 0 /\ Acked(o) = 0
              /\ Stream(o)' = {} /\ Credits(o)' = {}
  <2>1. link'[s].peer = link[o].session /\ link[o].peer = link'[s].session
    BY <1>4, <1>16 DEF Together
  <2>2. link'[s].session = link[s].session /\ link'[s].peer > link[s].peer
    BY <1>6, <1>9, <2>1
  <2>3. ghost[o].next = 0 /\ ghost[o].sent = 0 /\ Unacked(o) = 0
    BY <1>1, <1>6, <1>7, <2>1, <2>2 DEF Fresh
  <2>4. Acked(o) = 0
    BY <1>5, <2>3 DEF NumberFacts
  <2>5. ASSUME NEW i \in Sent(o) PROVE ~Ours(o, wire[o][i])
    <3>1. From(wire[o][i]) = link[s].session => Knew(wire[o][i]) <= link[s].peer
        BY <1>1, <1>8, <2>5 DEF HasMet
    <3> QED
        BY <1>6, <2>1, <2>2, <3>1 DEF Ours
  <2>6. Stream(o) = {} /\ Credits(o) = {}
    BY <2>5 DEF Stream, Credits
  <2> QED
    BY <1>14, <2>3, <2>4, <2>6
<1>17. Numbered(s)' /\ Numbered(o)'
  <2>1. \A i \in Sent(s)' : Stands(wire'[s][i])
    BY <1>2, <1>7 DEF Numbered
  <2>2. \A i \in Sent(o)' : Stands(wire'[o][i])
    BY <1>3, <1>7 DEF Numbered, Tells
  <2>3. Numbered(s)'
    BY <2>1 DEF Numbered, CountStep
  <2> QED
    BY <1>4, <1>7, <2>2, <2>3 DEF Numbered
<1>18. Near(s)'
    BY <1>4, <1>5, <1>12 DEF Near
<1>19. Near(o)'
    BY <1>4, <1>7, <1>14, <1>15 DEF Near
<1>20. Agree(s)'
    BY <1>4, <1>12, <1>15, <1>16 DEF Agree
<1>21. Agree(o)'
    BY <1>1, <1>4, <1>6, <1>15, <1>16 DEF Agree
<1>22. Fresh(s)'
    BY <1>4 DEF Fresh
<1>23. Fresh(o)'
  <2> SUFFICES ASSUME \/ link[o].peer = 0
                      \/ link[o].peer = link'[s].session /\ link'[s].peer # link[o].session
               PROVE  ghost[o].next = 0 /\ ghost[o].sent = 0 /\ Unacked(o) = 0
    BY <1>1, <1>4, <1>15 DEF Fresh
  <2>1. link[o].peer <= link[s].session
    BY <1>1, <1>8 DEF FromInOrder
  <2>2. link[o].peer = 0 \/ (link[o].peer = link[s].session /\ link[s].peer # link[o].session)
    BY <1>6, <1>9, <2>1
  <2> QED
    BY <1>1, <1>7, <2>2 DEF Fresh
<1> QED
    BY <1>17, <1>18, <1>19, <1>20, <1>21, <1>22, <1>23 DEF Counted

LEMMA CountsKept ==
    ASSUME TypeOK, TypeOK', NEW s \in Sides, NodeStep(s), CountStep(s),
           Sessions(s), Sessions(Other(s)), Counted(s), Counted(Other(s))
    PROVE  Counted(s)' /\ Counted(Other(s))'
BY GoesKept, RenewsKept DEF CountStep


(* While neither node restarts, what s promises there is room for, and     *)
(* what it does fits in what it has been promised.                         *)
LEMMA PromisesKept ==
    ASSUME TypeOK, TypeOK', NEW s \in Sides, NodeStep(s), CountStep(s),
           link'[s].session = 1, link'[Other(s)].session = 1,
           Sessions(s), Sessions(Other(s)), Counted(s), Counted(Other(s)),
           link[s].session = 1 /\ link[Other(s)].session = 1 => Promised(s) /\ Promised(Other(s))
    PROVE  Promised(s)' /\ Promised(Other(s))'
<1> DEFINE o == Other(s)
           g == ghost[s]
           h == ghost'[s]
<1>1. o \in Sides /\ Other(o) = s /\ o # s
    BY TwoSides
<1>2. PICK d \in {0, 1} : \A i \in Sent(s)' : i + d \in Sent(s) /\ wire'[s][i] = wire[s][i + d]
    BY ReadWire
<1>3. \A i \in Sent(o)' : \/ i \in Sent(o) /\ wire'[o][i] = wire[o][i]
                          \/ Tells(s, wire'[o][i])
    BY WrittenWire
<1>4. link'[o] = link[o] /\ ghost'[o] = ghost[o] /\ rxq'[o] = rxq[o]
    BY DEF NodeStep, CountStep
<1>5. /\ link[s].session \in Nat /\ link[s].session > 0 /\ link[s].peer \in Nat
      /\ Len(rxq[s]) \in 0..Slots /\ Room(s) \in Nat /\ Room(s) = g.next + (Slots - Len(rxq[s]))
      /\ g.next \in Nat /\ g.sent \in Nat /\ Acked(s) \in Int
    BY NumberTypes DEF NumberFacts
<1>6. /\ Len(rxq'[s]) \in 0..Slots /\ Room(s)' \in Nat /\ Room(s)' = h.next + (Slots - Len(rxq'[s]))
      /\ h.next \in Nat /\ h.sent \in Nat /\ Acked(s)' \in Int /\ Acked(s)' = h.sent - Unacked(s)'
      /\ Unacked(s)' \in 0..(Mod - 1) /\ link'[s].tx_window \in 0..MaxWindow /\ link'[s].peer \in Nat
    BY NumberTypesNext DEF NumberFacts
<1>7. /\ Room(o) \in Nat /\ ghost[o].sent \in Nat /\ Acked(o) \in Int /\ link[o].tx_window \in 0..MaxWindow
    BY <1>1, NumberTypes DEF NumberFacts
<1>8. Slots \in Nat /\ MaxWindow \in Nat /\ Mod \in Nat
    BY Bounds
<1>9. ~Restarts(s) /\ link[s].session = 1 /\ link[o].session = 1
  <2>1. link'[s].session = link[s].session \/ link'[s].session = link[s].session + 1
    BY DEF NodeStep, Remains, Meets, Restarts
  <2>2. link[s].session = 1
    BY <1>5, <2>1
  <2> QED
    BY <1>4, <2>2 DEF Restarts
<1>10. Promised(s) /\ Promised(o)
    BY <1>9
<1>11. \A f \in Frames : /\ f.op = "hello" => f.window \in Nat
                         /\ f.op = "credit" => f.window \in Nat /\ f.n \in Nat
    BY <1>8, Bounds DEF Frames
<1>12. /\ \A j \in Sent(o) : wire[o][j] \in Frames
       /\ \A j \in Sent(o)' : wire'[o][j] \in Frames
       /\ \A j \in Sent(s) : wire[s][j] \in Frames
  <2>1. NumberFacts(s) /\ NumberFacts(o) /\ NumberFacts(o)'
    BY <1>1, NumberTypes, NumberTypesNext
  <2> QED
    BY <2>1 DEF NumberFacts
<1>13. Room(s) <= Room(s)'
  <2>1. CASE Goes(s)
    BY <1>5, <1>6, <2>1 DEF Goes
  <2>2. CASE Renews(s)
    <3>1. Meets(s) /\ link'[s].peer # link[s].peer /\ Len(rxq'[s]) <= Len(rxq[s])
        BY <1>9, <2>2 DEF Renews
    <3>2. 1 \in Sent(s) /\ link'[s].peer = From(wire[s][1])
        BY <3>1 DEF Meets
    <3>3. From(wire[s][1]) \in link[s].peer..1
        BY <1>9, <3>2 DEF Sessions, FromInOrder
    <3>4. link[s].peer = 0
        BY <1>5, <1>6, <3>1, <3>2, <3>3
    <3>5. g.next = 0
        BY <3>4 DEF Counted, Fresh
    <3>6. PICK a \in 0..Slots : a = Len(rxq[s])
        BY <1>5
    <3>7. PICK b \in 0..Slots : b = Len(rxq'[s])
        BY <1>6
    <3>8. PICK n \in Nat : n = h.next
        BY <1>6
    <3>9. Room(s) = 0 + (Slots - a) /\ Room(s)' = n + (Slots - b) /\ b <= a
        BY <1>5, <1>6, <3>1, <3>5, <3>6, <3>7, <3>8
    <3> QED
        BY <1>8, <3>9
  <2> QED
    BY <2>1, <2>2 DEF CountStep
<1>14. Promised(s)'
  <2>1. /\ ghost[o].sent <= Room(s) /\ Acked(o) + link[o].tx_window <= Room(s)
        /\ \A j \in Sent(o) : /\ wire[o][j].op = "hello" => wire[o][j].window <= Room(s)
                              /\ wire[o][j].op = "credit" => wire[o][j].n + wire[o][j].window <= Room(s)
    BY <1>10 DEF Promised
  <2>5. PICK k \in Int : k = Acked(o) + link[o].tx_window
    BY <1>7, <1>8
  <2>2. ghost[o].sent <= Room(s)' /\ Acked(o) + link[o].tx_window <= Room(s)'
    <3>3. PICK n \in Nat : n = ghost[o].sent
        BY <1>7
    <3>4. PICK r \in Nat : r = Room(s)
        BY <1>5
    <3>5. PICK q \in Nat : q = Room(s)'
        BY <1>6
    <3>6. r <= q
        BY <1>13, <3>4, <3>5
    <3>7. n <= r /\ k <= r
        BY <2>1, <2>5, <3>3, <3>4
    <3>1. n <= Room(s)'
        BY <3>5, <3>6, <3>7
    <3>2. k <= Room(s)'
        BY <3>5, <3>6, <3>7
    <3> QED
        BY <2>5, <3>1, <3>2, <3>3
  <2>3. Acked(o)' = Acked(o)
    BY <1>4 DEF Acked, Unacked
  <2>4. ASSUME NEW j \in Sent(o)'
        PROVE  /\ wire'[o][j].op = "hello" => wire'[o][j].window <= Room(s)'
               /\ wire'[o][j].op = "credit" => wire'[o][j].n + wire'[o][j].window <= Room(s)'
    <3>1. PICK f \in Frames : f = wire'[o][j]
        BY <1>12
    <3>2. CASE j \in Sent(o) /\ wire'[o][j] = wire[o][j]
      <4>1. /\ f.op = "hello" => f.window <= Room(s)
            /\ f.op = "credit" => f.n + f.window <= Room(s)
        BY <2>1, <3>1, <3>2
      <4>2. /\ f.op = "hello" => f.window <= Room(s)'
            /\ f.op = "credit" => f.n + f.window <= Room(s)'
        <5>1. PICK r \in Nat : r = Room(s)
            BY <1>5
        <5>2. PICK q \in Nat : q = Room(s)'
            BY <1>6
        <5>3. r <= q
            BY <1>13, <5>1, <5>2
        <5>4. f.op = "hello" => f.window <= q
            BY <1>11, <4>1, <5>1, <5>3
        <5>5. ASSUME f.op = "credit" PROVE f.n + f.window <= q
          <6>1. PICK w \in Nat : w = f.n + f.window
            BY <1>11, <5>5
          <6>2. w <= r
            BY <4>1, <5>1, <5>5, <6>1
          <6> QED
            BY <5>3, <6>1, <6>2
        <5> QED
            BY <5>2, <5>4, <5>5
      <4> QED
        BY <3>1, <4>2
    <3>3. CASE Tells(s, f)
      <4>1. /\ f.op \in {"hello", "credit"} => f.window <= Slots - Len(rxq'[s])
            /\ f.op = "credit" => f.n = h.next
        BY <3>3 DEF Tells
      <4>2. /\ f.op = "hello" => f.window <= Room(s)'
            /\ f.op = "credit" => f.n + f.window <= Room(s)'
        <5>1. PICK a \in 0..Slots : a = Len(rxq'[s])
            BY <1>6
        <5>2. PICK n \in Nat : n = h.next
            BY <1>6
        <5>3. Room(s)' = n + (Slots - a)
            BY <1>6, <5>1, <5>2
        <5>4. \A w \in Nat : w <= Slots - a => w <= n + (Slots - a) /\ n + w <= n + (Slots - a)
            BY <1>8, <5>1, <5>2
        <5>5. f.op = "hello" => f.window \in Nat /\ f.window <= Slots - a
            BY <1>11, <4>1, <5>1
        <5>6. f.op = "credit" => f.window \in Nat /\ f.window <= Slots - a /\ f.n = n
            BY <1>11, <4>1, <5>1, <5>2
        <5> QED
            BY <5>3, <5>4, <5>5, <5>6
      <4> QED
        BY <3>1, <4>2
    <3> QED
        BY <1>3, <3>1, <3>2, <3>3
  <2> QED
    BY <1>4, <2>2, <2>3, <2>4 DEF Promised
<1>15. Promised(o)'
  <2>1. /\ g.sent <= Room(o) /\ Acked(s) + link[s].tx_window <= Room(o)
        /\ \A j \in Sent(s) : /\ wire[s][j].op = "hello" => wire[s][j].window <= Room(o)
                              /\ wire[s][j].op = "credit" => wire[s][j].n + wire[s][j].window <= Room(o)
    BY <1>1, <1>10 DEF Promised
  <2>2. Room(o)' = Room(o)
    BY <1>4 DEF Room
  <2>3. Acked(s)' + link'[s].tx_window <= Room(o) /\ h.sent <= Room(o)
    <3>1. CASE Goes(s)
      <4>1. Acked(s)' + link'[s].tx_window <= Room(o)
        <5>1. CASE Acked(s)' = Acked(s) /\ link'[s].tx_window = link[s].tx_window
            BY <2>1, <5>1
        <5>2. CASE 1 \in Credits(s) /\ Acked(s)' = wire[s][1].n /\ link'[s].tx_window <= wire[s][1].window
          <6>1. 1 \in Sent(s) /\ wire[s][1].op = "credit"
            BY <5>2 DEF Credits
          <6>2. PICK f \in Frames : f = wire[s][1]
            BY <1>12, <6>1
          <6>3. f.n + f.window <= Room(o) /\ f.n \in Nat /\ f.window \in Nat
            BY <1>11, <2>1, <6>1, <6>2
          <6>4. Acked(s)' = f.n /\ link'[s].tx_window <= f.window
            BY <5>2, <6>2
          <6>5. link'[s].tx_window \in Int
            BY <1>6, <1>8
          <6> QED
            BY <1>7, <6>3, <6>4, <6>5
        <5> QED
            BY <3>1, <5>1, <5>2 DEF Goes
      <4>2. h.sent <= Room(o)
        <5>1. CASE h.sent = g.sent
            BY <2>1, <5>1
        <5>2. CASE Unacked(s)' <= link'[s].tx_window
          <6>1. PICK u \in Nat : u = Unacked(s)'
            BY <1>6, <1>8
          <6>2. PICK w \in Nat : w = link'[s].tx_window
            BY <1>6, <1>8
          <6>3. PICK n \in Nat : n = h.sent
            BY <1>6
          <6>4. PICK r \in Nat : r = Room(o)
            BY <1>7
          <6>5. n - u + w <= r /\ u <= w
            BY <1>6, <4>1, <5>2, <6>1, <6>2, <6>3, <6>4
          <6>6. n <= r
            BY <6>5
          <6> QED
            BY <6>3, <6>4, <6>6
        <5> QED
            BY <3>1, <5>1, <5>2 DEF Goes
      <4> QED
        BY <4>1, <4>2
    <3>2. CASE Renews(s)
      <4>1. /\ h.sent = 0 /\ Unacked(s)' = 0
            /\ Meets(s) /\ link'[s].tx_window <= wire[s][1].window
        BY <1>9, <3>2 DEF Renews
      <4>2. 1 \in Sent(s) /\ wire[s][1].op = "hello"
        BY <4>1 DEF Meets
      <4>3. PICK f \in Frames : f = wire[s][1]
        BY <1>12, <4>2
      <4>4. f.window <= Room(o) /\ f.window \in Nat
        BY <1>11, <2>1, <4>2, <4>3
      <4>5. Acked(s)' = 0
        BY <1>6, <4>1
      <4> QED
        BY <1>6, <1>7, <1>8, <4>1, <4>3, <4>4, <4>5
    <3> QED
        BY <3>1, <3>2 DEF CountStep
  <2>4. ASSUME NEW j \in Sent(s)'
        PROVE  /\ wire'[s][j].op = "hello" => wire'[s][j].window <= Room(o)
               /\ wire'[s][j].op = "credit" => wire'[s][j].n + wire'[s][j].window <= Room(o)
    BY <1>2, <2>1
  <2> QED
    BY <1>1, <2>2, <2>3, <2>4 DEF Promised
<1> QED
    BY <1>14, <1>15


-----------------------------------------------------------------------------
(* The functions of llp.c again, for what they make of the numbers.        *)
Alike(l, m) ==
    /\ m.session = l.session /\ m.peer = l.peer /\ m.flow = l.flow
    /\ m.tx_seq = l.tx_seq /\ m.tx_ack = l.tx_ack /\ m.tx_window = l.tx_window /\ m.rx_next = l.rx_next

Heralds(s, q) ==
    \A i \in 1..Len(q) : q[i].op = "hello" /\ q[i].flow = (RxWindow > 0) /\ q[i].window = rx_window_now(s)

Reports(s, l, n, q) ==
    \A i \in 1..Len(q) : q[i].op = "credit" /\ q[i].ack = l.rx_next /\ q[i].n = n /\ q[i].window = rx_window_now(s)

LEMMA WindowFits ==
    ASSUME TypeOK, NEW s \in Sides PROVE rx_window_now(s) \in Nat /\ rx_window_now(s) <= Slots - Len(rxq[s])
<1>1. Len(rxq[s]) \in 0..Slots
    BY Bounds DEF TypeOK
<1>2. PICK n \in 0..Slots : n = Len(rxq[s])
    BY <1>1
<1>3. rx_window_now(s) = IF Slots - n < RxWindow THEN Slots - n ELSE RxWindow
    BY <1>2 DEF rx_window_now, Sooner
<1>4. rx_window_now(s) \in Nat /\ rx_window_now(s) <= Slots - n
    BY <1>3, Bounds
<1> QED
    BY <1>2, <1>4

LEMMA HelloCounts ==
    ASSUME TypeOK, NEW s \in Sides, NEW l \in Links
    PROVE  Alike(l, send_hello(s, l).l) /\ Heralds(s, send_hello(s, l).q)
<1> DEFINE m == [l EXCEPT !.adv = (l.rx_next + rx_window_now(s)) % Mod]
           h == Hello(s, l)
<1>1. send_hello(s, l) = [l |-> m, q |-> <<h>>]
    BY DEF send_hello
<1>2. Alike(l, m)
    BY DEF Alike, Links
<1>3. h.op = "hello" /\ h.flow = (RxWindow > 0) /\ h.window = rx_window_now(s)
    BY DEF Hello
<1> HIDE DEF m, h
<1>4. Heralds(s, <<h>>)
    BY <1>3 DEF Heralds
<1> QED
    BY <1>1, <1>2, <1>4

LEMMA CreditCounts ==
    ASSUME TypeOK, NEW s \in Sides, NEW l \in Links, NEW n \in 0..MaxFrames, NEW force \in BOOLEAN
    PROVE  LET r == maybe_credit(s, l, n, force) IN Alike(l, r.l) /\ Reports(s, l, n, r.q)
<1> DEFINE m == [l EXCEPT !.adv = (l.rx_next + rx_window_now(s)) % Mod]
           c == [op |-> "credit", ack |-> l.rx_next, window |-> rx_window_now(s),
                 from |-> l.session, to |-> l.peer, n |-> n]
           r == maybe_credit(s, l, n, force)
<1>1. r = [l |-> m, q |-> <<c>>] \/ r = [l |-> l, q |-> <<>>]
    BY DEF maybe_credit, send_credit
<1>2. Alike(l, m) /\ Alike(l, l)
    BY DEF Alike, Links
<1>3. c.op = "credit" /\ c.ack = l.rx_next /\ c.n = n /\ c.window = rx_window_now(s)
    OBVIOUS
<1> HIDE DEF m, c, r
<1>4. Reports(s, l, n, <<c>>) /\ Reports(s, l, n, <<>>)
    BY <1>3 DEF Reports
<1> QED
    BY <1>1, <1>2, <1>4 DEF r

LEMMA HelloReadCounts ==
    ASSUME TypeOK, NEW s \in Sides, NEW l \in Links, NEW f \in Frames, f.op = "hello"
    PROVE  LET r == on_hello(s, l, f) IN
           /\ Heralds(s, r.q)
           /\ f.session = l.peer =>
                /\ r.l.tx_seq = l.tx_seq /\ r.l.tx_ack = l.tx_ack /\ r.l.tx_window = l.tx_window
                /\ r.l.rx_next = l.rx_next /\ r.l.flow \in {l.flow, f.flow}
           /\ f.session # l.peer =>
                /\ r.l.tx_seq = 0 /\ r.l.tx_ack = 0 /\ r.l.rx_next = 0 /\ r.l.flow = f.flow
                /\ r.l.tx_window = Sooner(f.window, MaxWindow)
<1> DEFINE new == f.session # l.peer
           m   == IF new THEN Met(l, f) ELSE [l EXCEPT !.flow = f.flow]
           up  == [m EXCEPT !.state = "up"]
           Good(k) == IF new THEN /\ k.tx_seq = 0 /\ k.tx_ack = 0 /\ k.rx_next = 0 /\ k.flow = f.flow
                                  /\ k.tx_window = Sooner(f.window, MaxWindow)
                      ELSE /\ k.tx_seq = l.tx_seq /\ k.tx_ack = l.tx_ack /\ k.tx_window = l.tx_window
                           /\ k.rx_next = l.rx_next /\ k.flow \in {l.flow, f.flow}
           r == on_hello(s, l, f)
<1>1. Good(m)
    BY DEF Met, Links
<1>2. m \in Links
  <2>1. f.session \in Nat \ {0} /\ f.flow \in BOOLEAN /\ f.window \in 0..Slots
    BY DEF Frames
  <2>2. Sooner(f.window, MaxWindow) \in 0..MaxWindow /\ 0 \in 0..(Mod - 1)
    BY <2>1, Bounds DEF Sooner
  <2> QED
    BY <2>1, <2>2 DEF Met, Links
<1>3. r = IF ~new /\ l.state = "mismatch" THEN [l |-> l, q |-> <<>>]
          ELSE IF m.state = "mismatch" THEN send_hello(s, m)
          ELSE IF f.seen # l.session THEN send_hello(s, m)
          ELSE IF f.up THEN [l |-> up, q |-> <<>>]
          ELSE send_hello(s, up)
    BY DEF on_hello
<1> HIDE DEF m
<1>4. up \in Links /\ Good(up)
    BY <1>1, <1>2 DEF Links
<1> HIDE DEF up
<1>5. ASSUME NEW k \in Links, Good(k)
      PROVE  Good(send_hello(s, k).l) /\ Heralds(s, send_hello(s, k).q)
    BY <1>5, HelloCounts DEF Alike
<1>6. Heralds(s, <<>>)
    BY DEF Heralds
<1>7. ~new => Good(l)
    OBVIOUS
<1> HIDE DEF r
<1>8. Good(r.l) /\ Heralds(s, r.q)
  <2>1. CASE r = [l |-> l, q |-> <<>>] /\ ~new
    BY <1>6, <1>7, <2>1
  <2>2. CASE r = send_hello(s, m)
    BY <1>1, <1>2, <1>5, <2>2
  <2>3. CASE r = [l |-> up, q |-> <<>>]
    BY <1>4, <1>6, <2>3
  <2>4. CASE r = send_hello(s, up)
    BY <1>4, <1>5, <2>4
  <2> QED
    BY <1>3, <2>1, <2>2, <2>3, <2>4
<1> QED
    BY <1>8 DEF r


LEMMA AckIs ==
    ASSUME NEW a \in Int, NEW x \in 0..(Mod - 1)
    PROVE  (a - Minus(a % Mod, x)) % Mod = x
<1>1. PICK m \in Nat : m = Mod /\ m > 0
    BY Bounds
<1>2. a % Mod \in Int /\ (a % Mod) - x \in Int
    BY <1>1, Divides
<1>3. PICK r \in Int : r = Minus(a % Mod, x)
    BY <1>2, Divides DEF Minus
<1>4. PICK p \in Int : a = Mod * p + (a % Mod)
    BY Divides
<1>5. PICK t \in Int : (a % Mod) - x = Mod * t + r
    BY <1>2, <1>3, Divides DEF Minus
<1>6. a - r \in Int
    BY <1>3
<1>7. PICK z \in 0..(Mod - 1) : z = (a - r) % Mod
    BY <1>6, Divides
<1>8. PICK q \in Int : a - r = Mod * q + z
    BY <1>6, <1>7, Divides
<1>9. PICK u \in Int : u = p + t
    OBVIOUS
<1>10. Mod * q + z = Mod * u + x
  <2>1. Mod * p + Mod * t = Mod * u
    BY <1>1, <1>9
  <2>2. a - r = Mod * p + Mod * t + x
    BY <1>1, <1>2, <1>4, <1>5
  <2> QED
    BY <1>1, <1>8, <2>1, <2>2
<1> QED
    BY <1>3, <1>7, <1>10, OneRemainder

LEMMA SentTell ==
    ASSUME TypeOK, NEW s \in Sides, NEW q \in Seq(Frames), wire'[Other(s)] = Emitted(s, q),
           \A i \in 1..Len(q) : Tells(s, q[i])
    PROVE  \A i \in (Len(wire[Other(s)]) + 1)..Len(wire'[Other(s)]) : Tells(s, wire'[Other(s)][i])
<1> DEFINE w == wire[Other(s)]
           e == Emitted(s, q)
<1>1. wire \in [Sides -> Seq(Frames)] /\ Len(wire[Other(s)]) <= WireLen
    BY TwoSides DEF TypeOK
<1>2. \A i \in (Len(w) + 1)..Len(e) : \E j \in 1..Len(q) : e[i] = q[j]
    BY <1>1, EmittedFacts
<1> HIDE DEF e
<1>3. wire'[Other(s)] = e
    BY DEF e
<1>4. \A i \in (Len(w) + 1)..Len(e) : Tells(s, e[i])
    BY <1>2
<1> QED
    BY <1>3, <1>4

LEMMA HeraldsTell ==
    ASSUME RxWindow > 0, TypeOK, NEW s \in Sides, NEW q, Heralds(s, q), rxq'[s] = rxq[s]
    PROVE  \A i \in 1..Len(q) : Tells(s, q[i])
<1> SUFFICES ASSUME NEW i \in 1..Len(q) PROVE Tells(s, q[i])
    OBVIOUS
<1>1. q[i].op = "hello" /\ q[i].flow = TRUE /\ q[i].window <= Slots - Len(rxq'[s])
    BY WindowFits DEF Heralds
<1> QED
    BY <1>1 DEF Tells, Stands

LEMMA ReportsTell ==
    ASSUME TypeOK, NEW s \in Sides, NEW q, NEW l, Reports(s, l, ghost'[s].next, q), rxq'[s] = rxq[s],
           l.rx_next = ghost'[s].next % Mod, Steady(s), link[s].state = "up"
    PROVE  \A i \in 1..Len(q) : Tells(s, q[i])
<1> SUFFICES ASSUME NEW i \in 1..Len(q) PROVE Tells(s, q[i])
    OBVIOUS
<1>1. /\ q[i].op = "credit" /\ q[i].n = ghost'[s].next /\ q[i].ack = q[i].n % Mod
      /\ q[i].window <= Slots - Len(rxq'[s])
    BY WindowFits DEF Reports
<1> QED
    BY <1>1 DEF Tells, Stands

(* The numbers of s are as they were. *)
LEMMA AlikeCounts ==
    ASSUME TypeOK, TypeOK', NEW s \in Sides, Numbered(s), Alike(link[s], link'[s]),
           ghost'[s] = ghost[s], ghost'[Other(s)] = ghost[Other(s)],
           Len(rxq'[s]) <= Len(rxq[s]), rxq'[Other(s)] = rxq[Other(s)],
           \A i \in (Len(wire[Other(s)]) + 1)..Len(wire'[Other(s)]) : Tells(s, wire'[Other(s)][i])
    PROVE  CountStep(s)
<1>1. Steady(s) /\ Acked(s)' = Acked(s) /\ link'[s].tx_window = link[s].tx_window
    BY DEF Alike, Steady, Acked, Unacked
<1>2. PICK a \in 0..Slots : a = Len(rxq[s])
    BY NumberTypes DEF NumberFacts
<1>3. PICK b \in 0..Slots : b = Len(rxq'[s])
    BY NumberTypesNext DEF NumberFacts
<1>4. PICK n \in Nat : n = ghost[s].next
    BY NumberTypes DEF NumberFacts
<1>5. Room(s) = n + (Slots - a) /\ Room(s)' = n + (Slots - b)
    BY <1>2, <1>3, <1>4 DEF Room
<1>6. Room(s)' >= Room(s)
    BY <1>2, <1>3, <1>5, Bounds
<1>7. Goes(s)
    BY <1>1, <1>6 DEF Goes
<1> QED
    BY <1>7 DEF CountStep, Numbered, Alike

LEMMA QuietCounts ==
    ASSUME TypeOK, TypeOK', NEW s \in Sides, Numbered(s), UNCHANGED <<link, ghost>>,
           wire'[Other(s)] = wire[Other(s)], Len(rxq'[s]) <= Len(rxq[s]), rxq'[Other(s)] = rxq[Other(s)]
    PROVE  CountStep(s)
<1>1. Alike(link[s], link'[s])
    BY DEF Alike
<1>2. Len(wire[Other(s)]) \in Nat
    BY TwoSides DEF TypeOK
<1>3. \A i \in (Len(wire[Other(s)]) + 1)..Len(wire'[Other(s)]) : Tells(s, wire'[Other(s)][i])
    BY <1>2
<1> QED
    BY <1>1, <1>3, AlikeCounts


LEMMA TickCounts ==
    ASSUME RxWindow > 0, TypeOK, TypeOK', NEW s \in Sides, NEW due \in Timers, Tick(s, due), Numbered(s)
    PROVE  CountStep(s)
<1> DEFINE l == link[s]
           b == ~llp_link_can_send(l)
           probe == [op |-> "probe", next |-> l.tx_seq, from |-> l.session, to |-> l.peer, n |-> ghost[s].sent]
           u == IF due = "probe" THEN <<probe>> ELSE <<>>
<1>1. l \in Links /\ ghost[s].sent \in 0..MaxFrames /\ ghost[s].next \in 0..MaxFrames
    BY DEF TypeOK
<1>2. Other(s) \in Sides /\ Other(s) # s
    BY TwoSides
<1>3. PICK r : /\ r = CASE l.state = "down" -> send_hello(s, l)
                        [] due = "dead"     -> send_hello(s, [l EXCEPT !.state = "down"])
                        [] due = "alive"    -> maybe_credit(s, l, ghost[s].next, TRUE)
                        [] OTHER -> LET c == maybe_credit(s, l, ghost[s].next, FALSE)
                                    IN  [l |-> [c.l EXCEPT !.blocked = c.l.blocked /\ b], q |-> c.q \o u]
               /\ link' = [link EXCEPT ![s] = r.l]
               /\ wire' = [wire EXCEPT ![Other(s)] = Emitted(s, r.q)]
    BY DEF Tick
<1>4. /\ due = "hello" <=> l.state = "down"
      /\ UNCHANGED <<rxq, ghost>> /\ l.state # "mismatch"
    BY DEF Tick
<1>5. link'[s] = r.l /\ wire'[Other(s)] = Emitted(s, r.q)
    BY <1>2, <1>3 DEF TypeOK
<1>6. l.rx_next = ghost[s].next % Mod /\ l.tx_seq = ghost[s].sent % Mod
    BY DEF Numbered
<1>7. PICK n \in 0..MaxFrames : n = ghost[s].next
    BY <1>1
<1> HIDE DEF l, b, u, probe
<1> DEFINE Good == Alike(l, r.l) /\ r.q \in Seq(Frames) /\ \A i \in 1..Len(r.q) : Tells(s, r.q[i])
<1>8. ASSUME NEW m \in Links, Alike(l, m), r = send_hello(s, m) PROVE Good
  <2>1. Alike(m, r.l) /\ Heralds(s, r.q) /\ r.q \in Seq(Frames)
    BY <1>8, HelloCounts, HelloAnswers DEF Answers
  <2>2. Alike(l, r.l)
    BY <1>8, <2>1 DEF Alike
  <2> QED
    BY <1>4, <2>1, <2>2, HeraldsTell
<1>9. ASSUME NEW force \in BOOLEAN, NEW c, c = maybe_credit(s, l, n, force), l.state = "up",
             Alike(l, r.l), link'[s] = r.l
      PROVE  c.q \in Seq(Frames) /\ \A i \in 1..Len(c.q) : Tells(s, c.q[i])
  <2>1. Reports(s, l, n, c.q) /\ c.q \in Seq(Frames)
    BY <1>1, <1>9, CreditCounts, CreditAnswers DEF Answers
  <2>2. Steady(s) /\ link[s].state = "up" /\ l.rx_next = ghost'[s].next % Mod /\ n = ghost'[s].next /\ rxq'[s] = rxq[s]
    BY <1>4, <1>6, <1>7, <1>9 DEF Alike, Steady, l
  <2> QED
    BY <2>1, <2>2, ReportsTell
<1>10. ASSUME l.state = "down" PROVE Good
  <2>1. r = send_hello(s, l) /\ Alike(l, l)
    BY <1>3, <1>4, <1>10 DEF Alike
  <2> QED
    BY <1>1, <1>8, <2>1
<1>11. ASSUME l.state # "down", due = "dead" PROVE Good
  <2> DEFINE m == [l EXCEPT !.state = "down"]
  <2>1. r = send_hello(s, m)
    BY <1>3, <1>11
  <2>2. m \in Links /\ Alike(l, m)
    BY <1>1 DEF Links, Alike
  <2> HIDE DEF m
  <2> QED
    BY <1>8, <2>1, <2>2
<1>12. ASSUME l.state # "down", due = "alive" PROVE Good
  <2>1. PICK force \in BOOLEAN : force = TRUE
    OBVIOUS
  <2>2. r = maybe_credit(s, l, n, force)
    BY <1>3, <1>7, <1>12, <2>1
  <2>3. l.state = "up"
    BY <1>1, <1>4, <1>12 DEF Links
  <2>4. Alike(l, r.l)
    BY <1>1, <2>2, CreditCounts
  <2> QED
    BY <1>5, <1>9, <2>2, <2>3, <2>4
<1>13. ASSUME l.state # "down", due # "dead", due # "alive" PROVE Good
  <2>1. PICK force \in BOOLEAN : force = FALSE
    OBVIOUS
  <2>2. PICK c : /\ c = maybe_credit(s, l, n, force)
                 /\ r = [l |-> [c.l EXCEPT !.blocked = c.l.blocked /\ b], q |-> c.q \o u]
    BY <1>3, <1>7, <1>13, <2>1
  <2>3. l.state = "up"
    BY <1>1, <1>4, <1>13 DEF Links
  <2>4. Alike(l, c.l) /\ c.l \in Links
    BY <1>1, <2>2, <2>3, CreditCounts, CreditAnswers DEF Answers
  <2>5. r.l = [c.l EXCEPT !.blocked = c.l.blocked /\ b] /\ r.q = c.q \o u
    BY <2>2
  <2>6. Alike(l, r.l)
    BY <2>4, <2>5 DEF Alike, Links
  <2>7. c.q \in Seq(Frames) /\ \A i \in 1..Len(c.q) : Tells(s, c.q[i])
    BY <1>5, <1>9, <2>2, <2>3, <2>6
  <2>8. probe \in Frames /\ Tells(s, probe)
    <3>1. probe \in Frames
        BY <1>1 DEF probe, Frames, Links
    <3>2. probe.op = "probe" /\ probe.next = probe.n % Mod /\ Reach(probe) = ghost'[s].sent
        BY <1>4, <1>6 DEF probe, Reach
    <3>3. Steady(s) /\ link[s].state = "up"
        BY <1>5, <2>3, <2>6 DEF Steady, Alike, l
    <3> QED
        BY <3>1, <3>2, <3>3 DEF Tells, Stands
  <2>9. u \in Seq(Frames) /\ \A i \in 1..Len(u) : Tells(s, u[i])
    <3>1. CASE u = <<>>
        BY <3>1
    <3>2. CASE u = <<probe>>
        BY <2>8, <3>2
    <3> QED
        BY <3>1, <3>2 DEF u
  <2>10. /\ c.q \o u \in Seq(Frames)
         /\ \A i \in 1..Len(c.q \o u) : \/ \E j \in 1..Len(c.q) : (c.q \o u)[i] = c.q[j]
                                       \/ \E j \in 1..Len(u) : (c.q \o u)[i] = u[j]
    BY <2>7, <2>9, OneAfterOther
  <2>11. PICK e : e = c.q \o u
    OBVIOUS
  <2>12. e \in Seq(Frames) /\ \A i \in 1..Len(e) : Tells(s, e[i])
    BY <2>7, <2>9, <2>10, <2>11
  <2> QED
    BY <2>5, <2>6, <2>11, <2>12
<1>14. Good
    BY <1>10, <1>11, <1>12, <1>13
<1>15. \A i \in (Len(wire[Other(s)]) + 1)..Len(wire'[Other(s)]) : Tells(s, wire'[Other(s)][i])
    BY <1>5, <1>14, SentTell
<1>16. Len(rxq'[s]) <= Len(rxq[s])
  <2>1. PICK a \in 0..Slots : a = Len(rxq[s])
    BY NumberTypes DEF NumberFacts
  <2> QED
    BY <1>4, <2>1, Bounds
<1> QED
    BY <1>4, <1>5, <1>14, <1>15, <1>16, AlikeCounts DEF l

LEMMA RestartCounts ==
    ASSUME RxWindow > 0, TypeOK, TypeOK', NEW s \in Sides, NEW major, Restart(s, major)
    PROVE  CountStep(s)
<1>1. Other(s) \in Sides /\ Other(s) # s
    BY TwoSides
<1>2. PICK l : l = Started(link[s].session + 1, major)
    OBVIOUS
<1>3. /\ l.session = link[s].session + 1 /\ l.peer = 0 /\ l.state = "down"
      /\ l.tx_seq = 0 /\ l.tx_ack = 0 /\ l.rx_next = 0
    BY <1>2 DEF Started
<1>4. PICK f : f = FirstHello(l)
    OBVIOUS
<1>5. f.op = "hello" /\ f.flow = TRUE /\ f.window = RxWindow /\ RxWindow <= Slots
  <2>1. f.op = "hello" /\ f.flow = (RxWindow > 0) /\ f.window = RxWindow
    BY <1>4 DEF FirstHello
  <2>2. (RxWindow > 0) = TRUE
    OBVIOUS
  <2>3. f.flow = TRUE
    BY <2>1, <2>2
  <2>4. RxWindow <= Slots
    BY Bounds
  <2> QED
    BY <2>1, <2>3, <2>4
<1>6. /\ link' = [link EXCEPT ![s] = l]
      /\ wire' = [wire EXCEPT ![Other(s)] = Emitted(s, <<f>>)]
      /\ rxq' = [rxq EXCEPT ![s] = <<>>]
      /\ ghost' = [ghost EXCEPT ![s] = [sent |-> 0, next |-> 0]]
    BY <1>2, <1>4 DEF Restart
<1>7. /\ link'[s] = l /\ wire'[Other(s)] = Emitted(s, <<f>>) /\ rxq'[s] = <<>> /\ rxq'[Other(s)] = rxq[Other(s)]
      /\ ghost'[s] = [sent |-> 0, next |-> 0] /\ ghost'[Other(s)] = ghost[Other(s)]
    BY <1>1, <1>6 DEF TypeOK
<1>8. f \in Frames
  <2>1. link'[s] \in Links
    BY DEF TypeOK
  <2> QED
    BY <1>4, <1>7, <2>1, Bounds DEF FirstHello, Frames, Links
<1>9. Tells(s, f)
  <2>1. Len(rxq'[s]) = 0
    BY <1>7
  <2> QED
    BY <1>5, <2>1, Bounds DEF Tells, Stands
<1>10. \A i \in (Len(wire[Other(s)]) + 1)..Len(wire'[Other(s)]) : Tells(s, wire'[Other(s)][i])
  <2>1. <<f>> \in Seq(Frames) /\ \A i \in 1..Len(<<f>>) : Tells(s, <<f>>[i])
    BY <1>8, <1>9
  <2> QED
    BY <1>7, <2>1, SentTell
<1>11. Minus(0, 0) = 0 /\ 0 % Mod = 0
  <2>1. PICK m \in Nat : m = Mod /\ m > 0
    BY Bounds
  <2>2. 0 % m = 0
    BY <2>1
  <2> QED
    BY <2>1, <2>2 DEF Minus
<1>12. Unacked(s)' = 0
    BY <1>3, <1>7, <1>11 DEF Unacked
<1>13. Renews(s)
    BY <1>3, <1>7, <1>12 DEF Renews, Restarts
<1> QED
    BY <1>3, <1>7, <1>10, <1>11, <1>13 DEF CountStep

LEMMA DrainCounts ==
    ASSUME TypeOK, TypeOK', NEW s \in Sides, Drain(s), Numbered(s), Near(s), UpKnown(s)
    PROVE  CountStep(s)
<1> DEFINE l == link[s]
           o == Other(s)
           d == [op |-> "data", seq |-> l.tx_seq, from |-> l.session, to |-> Head(txq[s]), n |-> ghost[s].sent]
<1>1. o \in Sides /\ o # s
    BY TwoSides
<1>2. l \in Links /\ ghost[s] \in [sent : 0..MaxFrames, next : 0..MaxFrames] /\ txq[s] \in Seq(Nat)
    BY DEF TypeOK
<1>3. l.state = "up" /\ rxq' = rxq /\ txq[s] # <<>>
    BY DEF Drain
<1>4. PICK a \in 0..Slots : a = Len(rxq[s])
    BY NumberTypes DEF NumberFacts
<1>5. Len(rxq'[s]) <= Len(rxq[s])
    BY <1>3, <1>4, Bounds
<1>6. Len(wire[o]) \in Nat /\ Len(wire'[o]) \in Nat /\ Len(wire'[o]) <= WireLen /\ WireLen \in Nat
  <2>1. wire[o] \in Seq(Frames) /\ wire'[o] \in Seq(Frames) /\ Len(wire'[o]) <= WireLen
    BY <1>1 DEF TypeOK
  <2> QED
    BY <2>1, Bounds
<1>7. CASE UNCHANGED <<wire, ghost>> /\ link' = [link EXCEPT ![s].blocked = TRUE]
  <2>1. link'[s] = [l EXCEPT !.blocked = TRUE]
    BY <1>7 DEF TypeOK
  <2>2. Alike(l, link'[s])
    BY <1>2, <2>1 DEF Alike, Links
  <2>3. \A i \in (Len(wire[o]) + 1)..Len(wire'[o]) : Tells(s, wire'[o][i])
    BY <1>6, <1>7
  <2> QED
    BY <1>3, <1>5, <1>7, <2>2, <2>3, AlikeCounts
<1>8. CASE UNCHANGED <<link, ghost>> /\ ~(Len(wire[o]) < WireLen)
  <2>1. Alike(l, link'[s])
    BY <1>8 DEF Alike
  <2>2. \A i \in (Len(wire[o]) + 1)..Len(wire'[o]) : Tells(s, wire'[o][i])
    BY <1>6, <1>8
  <2> QED
    BY <1>3, <1>5, <1>8, <2>1, <2>2, AlikeCounts
<1>9. CASE /\ llp_link_can_send(l) /\ ghost[s].sent < MaxFrames
           /\ wire' = [wire EXCEPT ![o] = Emitted(s, <<d>>)]
           /\ link' = [link EXCEPT ![s].tx_seq = (l.tx_seq + 1) % Mod]
           /\ ghost' = [ghost EXCEPT ![s].sent = ghost[s].sent + 1]
  <2>1. link'[s] = [l EXCEPT !.tx_seq = (l.tx_seq + 1) % Mod] /\ wire'[o] = Emitted(s, <<d>>)
    BY <1>1, <1>9 DEF TypeOK
  <2>2. /\ link'[s].session = l.session /\ link'[s].peer = l.peer /\ link'[s].flow = l.flow
        /\ link'[s].tx_ack = l.tx_ack /\ link'[s].tx_window = l.tx_window /\ link'[s].rx_next = l.rx_next
        /\ link'[s].tx_seq = (l.tx_seq + 1) % Mod
    BY <1>2, <2>1 DEF Links
  <2>3. /\ ghost'[o] = ghost[o] /\ ghost'[s] = [ghost[s] EXCEPT !.sent = ghost[s].sent + 1]
    BY <1>1, <1>9 DEF TypeOK
  <2>4. ghost'[s].sent = ghost[s].sent + 1 /\ ghost'[s].next = ghost[s].next
    BY <1>2, <2>3
  <2>5. PICK n \in Nat : n = ghost[s].sent
    BY <1>2, Bounds
  <2>6. l.tx_seq = n % Mod /\ l.rx_next = ghost[s].next % Mod /\ l.flow
    BY <1>3, <2>5 DEF Numbered, UpKnown
  <2>7. link'[s].tx_seq = (n + 1) % Mod
    BY <2>2, <2>5, <2>6, OneMore
(* One more is not acknowledged, and there is credit for it. *)
  <2>8. PICK x \in 0..(Mod - 1) : x = l.tx_ack
    BY <1>2 DEF Links
  <2>9. PICK k \in 0..(Mod - 1) : k = Unacked(s)
    BY NumberTypes DEF NumberFacts
  <2>10. k < l.tx_window /\ l.tx_window \in 0..MaxWindow
    BY <1>2, <1>9, <2>6, <2>9 DEF llp_link_can_send, Unacked, Links
  <2>11. k + 1 \in 0..(Mod - 1)
    BY <2>9, <2>10, LlpAssumption DEF Half
  <2>12. k = Minus(n % Mod, x)
    BY <2>6, <2>8, <2>9 DEF Unacked
  <2>13. (n - k) % Mod = x
    BY <2>5, <2>8, <2>12, AckIs
  <2>14. PICK c \in Int : c = n - k
    BY <2>5, <2>9
  <2>15. PICK e \in Int : e = n + 1
    BY <2>5
  <2>16. Minus(e % Mod, c % Mod) = k + 1
    <3>1. e - c = k + 1
        BY <2>5, <2>9, <2>14, <2>15
    <3> QED
        BY <2>11, <3>1, Apart
  <2>17. Unacked(s)' = k + 1
    BY <2>2, <2>7, <2>8, <2>13, <2>14, <2>15, <2>16 DEF Unacked
  <2>18. Acked(s)' = Acked(s)
    <3>1. Acked(s) = n - k /\ Acked(s)' = (n + 1) - (k + 1)
        BY <2>4, <2>5, <2>9, <2>17 DEF Acked
    <3> QED
        BY <2>5, <2>9, <3>1
  <2>19. Unacked(s)' <= link'[s].tx_window
    BY <2>2, <2>9, <2>10, <2>17, Bounds
  <2>20. Steady(s)
    BY <2>2 DEF Steady
  <2>21. Room(s)' >= Room(s)
    <3>1. Room(s) \in Nat
        BY NumberTypes DEF NumberFacts
    <3>2. Room(s)' = Room(s)
        BY <1>3, <2>4 DEF Room
    <3> QED
        BY <3>1, <3>2
  <2>22. Goes(s)
    BY <1>3, <2>2, <2>4, <2>18, <2>19, <2>20, <2>21 DEF Goes
  <2>23. Tells(s, d)
    <3>1. d.op = "data" /\ d.seq = d.n % Mod /\ Reach(d) = ghost'[s].sent
        BY <2>4, <2>5, <2>6 DEF Reach
    <3> QED
        BY <1>3, <2>20, <3>1 DEF Tells, Stands
  <2>24. d \in Frames
    <3>1. l.tx_seq \in 0..(Mod - 1) /\ l.session \in Nat
        BY <1>2 DEF Links
    <3>2. Head(txq[s]) \in Nat
        BY <1>2, <1>3
    <3>3. ghost[s].sent \in 0..(MaxFrames - 1)
        BY <1>2, <1>9, Bounds
    <3> QED
        BY <3>1, <3>2, <3>3 DEF Frames
  <2> HIDE DEF d
  <2>25. <<d>> \in Seq(Frames) /\ \A i \in 1..Len(<<d>>) : Tells(s, <<d>>[i])
    BY <2>23, <2>24
  <2>26. \A i \in (Len(wire[o]) + 1)..Len(wire'[o]) : Tells(s, wire'[o][i])
    BY <2>1, <2>25, SentTell
  <2> QED
    BY <1>3, <2>2, <2>3, <2>4, <2>5, <2>6, <2>7, <2>22, <2>26 DEF CountStep
<1> QED
    BY <1>7, <1>8, <1>9 DEF Drain


(* What a node that is up reads, a HELLO apart, is from its peer in the    *)
(* session they are in.                                                    *)
LEMMA UpReads ==
    ASSUME TypeOK, NEW s \in Sides, Sessions(s), link[s].state = "up", 1 \in Sent(s), wire[s][1].op # "hello"
    PROVE  Ours(s, wire[s][1])
<1>1. From(wire[s][1]) \in Nat /\ link[s].peer \in Nat /\ link[Other(s)].session \in Nat
    BY TwoSides, NumberTypes DEF NumberFacts
<1>2. From(wire[s][1]) \in link[s].peer..link[Other(s)].session
    BY DEF Sessions, FromInOrder
<1>3. Knew(wire[s][1]) = link[s].session
    BY DEF Sessions, UpKnown, HasMet
<1>4. From(wire[s][1]) <= link[s].peer
    BY <1>3 DEF Sessions, HasMet
<1> QED
    BY <1>1, <1>2, <1>3, <1>4 DEF Ours

(* Of what is under way, the eight bits tell what is ahead.                *)
LEMMA AheadExact ==
    ASSUME NEW l, NEW a \in Nat, NEW b \in Nat, a + 1 \in b..(b + MaxWindow), l.rx_next = b % Mod
    PROVE  Ahead(l, a % Mod) <=> a >= b
<1>1. Half \in Nat /\ Mod = 2 * Half /\ MaxWindow \in 1..(Half - 1)
    BY LlpAssumption DEF Half
<1>2. CASE a >= b
  <2>1. PICK k \in 0..(Mod - 1) : k = a - b /\ k < Half
    BY <1>1, <1>2
  <2>2. Minus(a % Mod, b % Mod) = k
    BY <2>1, Apart
  <2> QED
    BY <1>2, <2>1, <2>2 DEF Ahead
<1>3. CASE ~(a >= b)
  <2>1. PICK k \in 0..(Mod - 1) : k = Mod - 1 /\ ~(k < Half)
    BY <1>1
  <2>2. a - b = k - Mod
    BY <1>1, <1>3, <2>1
  <2>3. Minus(a % Mod, b % Mod) = k
    BY <2>2, Apart
  <2> QED
    BY <1>3, <2>1, <2>3 DEF Ahead
<1> QED
    BY <1>2, <1>3

Result(s, f, r) ==
    /\ f.op = "hello"  => r = on_hello(s, link[s], f)
    /\ f.op = "credit" => r.l = on_credit(link[s], f) /\ r.q = <<>>
    /\ f.op = "probe"  => r = on_probe(s, link[s], f)
    /\ f.op = "data"   => r.l = on_data(link[s], f) /\ r.q = <<>>
    /\ link'[s] = r.l /\ wire'[Other(s)] = Emitted(s, r.q)
    /\ rxq'[Other(s)] = rxq[Other(s)] /\ ghost'[Other(s)] = ghost[Other(s)]
    /\ rxq'[s] = IF f.op = "data" /\ Accepts(link[s], f) /\ Len(rxq[s]) < Slots
                 THEN Append(rxq[s], f.from) ELSE rxq[s]
    /\ ghost'[s] = IF r.l.peer # link[s].peer THEN [sent |-> 0, next |-> 0]
                   ELSE IF r.l.rx_next # link[s].rx_next \/ (f.op = "data" /\ Accepts(link[s], f))
                   THEN [ghost[s] EXCEPT !.next = IF f.op = "data" THEN f.n + 1 ELSE f.n] ELSE ghost[s]

LEMMA InputResult ==
    ASSUME TypeOK, NEW s \in Sides, NEW f, NEW w, Input(s, f, w)
    PROVE  \E r : Result(s, f, r)
<1> DEFINE l == link[s]
<1>1. Other(s) \in Sides /\ Other(s) # s
    BY TwoSides
<1>2. PICK r : /\ r = CASE f.op = "hello"  -> on_hello(s, l, f)
                        [] f.op = "credit" -> [l |-> on_credit(l, f), q |-> <<>>]
                        [] f.op = "probe"  -> on_probe(s, l, f)
                        [] f.op = "data"   -> [l |-> on_data(l, f), q |-> <<>>]
               /\ link' = [link EXCEPT ![s] = r.l]
               /\ wire' = [wire EXCEPT ![Other(s)] = Emitted(s, r.q), ![s] = w]
               /\ rxq' = [rxq EXCEPT ![s] = IF f.op = "data" /\ Accepts(l, f) /\ Len(rxq[s]) < Slots
                                            THEN Append(rxq[s], f.from) ELSE rxq[s]]
               /\ ghost' = [ghost EXCEPT ![s] =
                     IF r.l.peer # l.peer THEN [sent |-> 0, next |-> 0]
                     ELSE IF r.l.rx_next # l.rx_next \/ (f.op = "data" /\ Accepts(l, f))
                     THEN [ghost[s] EXCEPT !.next = IF f.op = "data" THEN f.n + 1 ELSE f.n] ELSE ghost[s]]
    BY DEF Input, TypeOK
<1> HIDE DEF l
<1>3. /\ f.op = "hello"  => r = on_hello(s, l, f)
      /\ f.op = "credit" => r = [l |-> on_credit(l, f), q |-> <<>>]
      /\ f.op = "probe"  => r = on_probe(s, l, f)
      /\ f.op = "data"   => r = [l |-> on_data(l, f), q |-> <<>>]
    BY <1>2
<1>4. /\ f.op = "credit" => r.l = on_credit(l, f) /\ r.q = <<>>
      /\ f.op = "data"   => r.l = on_data(l, f) /\ r.q = <<>>
    BY <1>3
<1>5. /\ link'[s] = r.l /\ wire'[Other(s)] = Emitted(s, r.q)
      /\ rxq'[Other(s)] = rxq[Other(s)] /\ ghost'[Other(s)] = ghost[Other(s)]
    BY <1>1, <1>2 DEF TypeOK
<1>6. /\ rxq'[s] = IF f.op = "data" /\ Accepts(l, f) /\ Len(rxq[s]) < Slots
                   THEN Append(rxq[s], f.from) ELSE rxq[s]
      /\ ghost'[s] = IF r.l.peer # l.peer THEN [sent |-> 0, next |-> 0]
                     ELSE IF r.l.rx_next # l.rx_next \/ (f.op = "data" /\ Accepts(l, f))
                     THEN [ghost[s] EXCEPT !.next = IF f.op = "data" THEN f.n + 1 ELSE f.n] ELSE ghost[s]
    BY <1>2 DEF TypeOK
<1> QED
    BY <1>3, <1>4, <1>5, <1>6 DEF Result, l


(* What is read off the line, as it is counted. *)
LEMMA HelloCountStep ==
    ASSUME RxWindow > 0, TypeOK, TypeOK', NEW s \in Sides, NodeStep(s), Numbered(s),
           1 \in Sent(s), NEW f \in Frames, f = wire[s][1], f.op = "hello", NEW r, Result(s, f, r)
    PROVE  CountStep(s)
<1> DEFINE l == link[s]
<1>1. l \in Links /\ f.session \in Nat \ {0} /\ f.window \in 0..Slots
    BY DEF TypeOK, Frames
<1>2. /\ link'[s] = r.l /\ wire'[Other(s)] = Emitted(s, r.q) /\ r = on_hello(s, l, f)
      /\ rxq'[s] = rxq[s] /\ rxq'[Other(s)] = rxq[Other(s)] /\ ghost'[Other(s)] = ghost[Other(s)]
      /\ ghost'[s] = IF r.l.peer # l.peer THEN [sent |-> 0, next |-> 0]
                     ELSE IF r.l.rx_next # l.rx_next THEN [ghost[s] EXCEPT !.next = f.n] ELSE ghost[s]
    BY DEF Result
<1> HIDE DEF l
<1>3. /\ r.q \in Seq(Frames) /\ r.l.session = l.session /\ r.l.peer = f.session /\ Heralds(s, r.q)
      /\ f.session = l.peer =>
           /\ r.l.tx_seq = l.tx_seq /\ r.l.tx_ack = l.tx_ack /\ r.l.tx_window = l.tx_window
           /\ r.l.rx_next = l.rx_next /\ r.l.flow \in {l.flow, f.flow}
      /\ f.session # l.peer =>
           /\ r.l.tx_seq = 0 /\ r.l.tx_ack = 0 /\ r.l.rx_next = 0 /\ r.l.flow = f.flow
           /\ r.l.tx_window = Sooner(f.window, MaxWindow)
    BY <1>1, <1>2, HelloRead, HelloReadCounts DEF Answers
<1>4. f.flow = TRUE /\ (l.peer # 0 => l.flow)
    BY DEF Numbered, Stands, l
<1>5. \A i \in (Len(wire[Other(s)]) + 1)..Len(wire'[Other(s)]) : Tells(s, wire'[Other(s)][i])
    BY <1>2, <1>3, HeraldsTell, SentTell
<1>6. PICK a \in 0..Slots : a = Len(rxq[s])
    BY NumberTypes DEF NumberFacts
<1>7. Len(rxq'[s]) <= Len(rxq[s])
    BY <1>2, <1>6, Bounds
<1>8. CASE f.session = l.peer
  <2>1. r.l.flow = l.flow
    <3>1. l.flow = TRUE
        BY <1>1, <1>4, <1>8 DEF Links
    <3> QED
        BY <1>3, <1>4, <1>8, <3>1
  <2>2. Alike(l, link'[s]) /\ ghost'[s] = ghost[s]
    BY <1>2, <1>3, <1>8, <2>1 DEF Alike
  <2> QED
    BY <1>2, <1>5, <1>7, <2>2, AlikeCounts DEF l
<1>9. CASE f.session # l.peer
  <2>1. ghost'[s] = [sent |-> 0, next |-> 0]
    BY <1>2, <1>3, <1>9
  <2>2. Minus(0, 0) = 0 /\ 0 % Mod = 0
    <3>1. PICK m \in Nat : m = Mod /\ m > 0
        BY Bounds
    <3>2. 0 % m = 0
        BY <3>1
    <3> QED
        BY <3>1, <3>2 DEF Minus
  <2>3. Unacked(s)' = 0
    BY <1>2, <1>3, <1>9, <2>2 DEF Unacked
  <2>4. Sooner(f.window, MaxWindow) <= f.window
    BY <1>1, Bounds DEF Sooner
  <2>5. Meets(s)
    <3>1. ~Remains(s)
        BY <1>2, <1>3, <1>9 DEF Remains, l
    <3>2. ~Restarts(s)
        BY <1>1, <1>2, <1>3 DEF Restarts
    <3> QED
        BY <3>1, <3>2 DEF NodeStep
  <2>6. Renews(s)
    BY <1>2, <1>3, <1>7, <1>9, <2>1, <2>3, <2>4, <2>5 DEF Renews, l
  <2>7. link'[s].rx_next = 0 /\ link'[s].tx_seq = 0 /\ link'[s].flow
    BY <1>2, <1>3, <1>4, <1>9
  <2>8. ghost'[s].next = 0 /\ ghost'[s].sent = 0
    BY <2>1
  <2> QED
    BY <1>2, <1>5, <2>2, <2>6, <2>7, <2>8 DEF CountStep
<1> QED
    BY <1>8, <1>9

LEMMA CreditCountStep ==
    ASSUME TypeOK, TypeOK', NEW s \in Sides, Sessions(s), Numbered(s), Near(s),
           1 \in Sent(s), NEW f \in Frames, f = wire[s][1], f.op = "credit", NEW r, Result(s, f, r)
    PROVE  CountStep(s)
<1> DEFINE l == link[s]
           m == [l EXCEPT !.tx_ack = f.ack, !.tx_window = Sooner(f.window, MaxWindow)]
<1>1. l \in Links /\ f.ack \in 0..(Mod - 1) /\ f.window \in 0..Slots
    BY DEF TypeOK, Frames
<1>2. /\ link'[s] = r.l /\ r.l = on_credit(l, f) /\ r.q = <<>> /\ wire'[Other(s)] = Emitted(s, r.q)
      /\ rxq'[s] = rxq[s] /\ rxq'[Other(s)] = rxq[Other(s)] /\ ghost'[Other(s)] = ghost[Other(s)]
      /\ ghost'[s] = IF r.l.peer # l.peer THEN [sent |-> 0, next |-> 0]
                     ELSE IF r.l.rx_next # l.rx_next THEN [ghost[s] EXCEPT !.next = f.n] ELSE ghost[s]
    BY DEF Result
<1> HIDE DEF l
<1>3. r.l.session = l.session /\ r.l.peer = l.peer /\ r.l.rx_next = l.rx_next /\ ghost'[s] = ghost[s]
    BY <1>1, <1>2, CreditRead
<1>4. \A i \in (Len(wire[Other(s)]) + 1)..Len(wire'[Other(s)]) : Tells(s, wire'[Other(s)][i])
  <2>1. <<>> \in Seq(Frames) /\ \A i \in 1..Len(<<>>) : Tells(s, <<>>[i])
    OBVIOUS
  <2> QED
    BY <1>2, <2>1, SentTell
<1>5. PICK a \in 0..Slots : a = Len(rxq[s])
    BY NumberTypes DEF NumberFacts
<1>6. Len(rxq'[s]) <= Len(rxq[s])
    BY <1>2, <1>5, Bounds
<1>7. CASE r.l = l
  <2>1. Alike(l, link'[s])
    BY <1>2, <1>7 DEF Alike
  <2> QED
    BY <1>2, <1>3, <1>4, <1>6, <2>1, AlikeCounts DEF l
<1>8. CASE l.state = "up" /\ r.l \in {m, [m EXCEPT !.blocked = FALSE]}
  <2>1. /\ m.session = l.session /\ m.peer = l.peer /\ m.flow = l.flow /\ m.tx_seq = l.tx_seq
        /\ m.rx_next = l.rx_next /\ m.tx_ack = f.ack /\ m.tx_window = Sooner(f.window, MaxWindow)
        /\ DOMAIN m = DOMAIN l
    BY <1>1 DEF Links
  <2> HIDE DEF m
  <2>2. /\ r.l.flow = l.flow /\ r.l.tx_seq = l.tx_seq
        /\ r.l.tx_ack = f.ack /\ r.l.tx_window = Sooner(f.window, MaxWindow)
    BY <1>1, <1>8, <2>1 DEF Links
  <2>3. 1 \in Credits(s) /\ f.ack = f.n % Mod
    BY <1>8, UpReads DEF l, Credits, Numbered, Stands
  <2>4. PICK n \in Nat : n = f.n
    BY <2>3, NumberTypes DEF NumberFacts
  <2>5. PICK k \in Nat : k = ghost[s].sent
    BY NumberTypes DEF NumberFacts
  <2>6. PICK x \in 0..(Mod - 1) : x = k - n
    <3>1. n \in Acked(s)..k
        BY <2>3, <2>4, <2>5 DEF Near
    <3>2. Acked(s) = k - Unacked(s) /\ Unacked(s) \in 0..(Mod - 1)
        BY <2>5, NumberTypes DEF NumberFacts
    <3> QED
        BY <2>4, <2>5, <3>1, <3>2, Bounds
  <2>7. Unacked(s)' = x
    <3>1. Minus(k % Mod, n % Mod) = x
        BY <2>4, <2>5, <2>6, Apart
    <3>2. l.tx_seq = k % Mod
        BY <2>5 DEF Numbered, l
    <3> QED
        BY <1>2, <2>2, <2>3, <2>4, <3>1, <3>2 DEF Unacked
  <2>8. Acked(s)' = n
    BY <1>3, <2>4, <2>5, <2>6, <2>7 DEF Acked
  <2>9. Sooner(f.window, MaxWindow) <= f.window
    BY <1>1, Bounds DEF Sooner
  <2>10. Steady(s) /\ Room(s)' >= Room(s)
    <3>1. Room(s) \in Nat
        BY NumberTypes DEF NumberFacts
    <3>2. Room(s)' = Room(s)
        BY <1>2, <1>3 DEF Room
    <3> QED
        BY <1>2, <1>3, <3>1, <3>2 DEF Steady, l
  <2>11. Goes(s)
    BY <1>2, <1>3, <1>8, <2>2, <2>3, <2>4, <2>8, <2>9, <2>10 DEF Goes, l
  <2> QED
    BY <1>2, <1>3, <1>4, <2>2, <2>11 DEF CountStep, Numbered, l
<1> QED
    BY <1>2, <1>7, <1>8 DEF on_credit


LEMMA ProbeCountStep ==
    ASSUME TypeOK, TypeOK', NEW s \in Sides, Sessions(s), Numbered(s), Near(s),
           1 \in Sent(s), NEW f \in Frames, f = wire[s][1], f.op = "probe", NEW r, Result(s, f, r)
    PROVE  CountStep(s)
<1> DEFINE l == link[s]
           m == [l EXCEPT !.rx_next = f.next]
<1>1. l \in Links /\ f.next \in 0..(Mod - 1) /\ f.n \in 0..MaxFrames /\ ghost[s].next \in 0..MaxFrames
    BY DEF TypeOK, Frames
<1>2. /\ link'[s] = r.l /\ r = on_probe(s, l, f) /\ wire'[Other(s)] = Emitted(s, r.q)
      /\ rxq'[s] = rxq[s] /\ rxq'[Other(s)] = rxq[Other(s)] /\ ghost'[Other(s)] = ghost[Other(s)]
      /\ ghost'[s] = IF r.l.peer # l.peer THEN [sent |-> 0, next |-> 0]
                     ELSE IF r.l.rx_next # l.rx_next THEN [ghost[s] EXCEPT !.next = f.n] ELSE ghost[s]
    BY DEF Result
<1> HIDE DEF l
<1>3. r.q \in Seq(Frames) /\ r.l.peer = l.peer
    BY <1>1, <1>2, ProbeRead DEF Answers
<1>4. PICK force \in BOOLEAN : force = TRUE
    OBVIOUS
<1>5. PICK a \in 0..Slots : a = Len(rxq[s])
    BY NumberTypes DEF NumberFacts
<1>6. Len(rxq'[s]) <= Len(rxq[s])
    BY <1>2, <1>5, Bounds
<1>7. CASE l.state # "up"
  <2>1. r = [l |-> l, q |-> <<>>]
    BY <1>2, <1>7 DEF on_probe
  <2>2. r.l = l /\ r.q = <<>>
    BY <2>1
  <2>3. <<>> \in Seq(Frames) /\ \A i \in 1..Len(<<>>) : Tells(s, <<>>[i])
    OBVIOUS
  <2>4. \A i \in (Len(wire[Other(s)]) + 1)..Len(wire'[Other(s)]) : Tells(s, wire'[Other(s)][i])
    BY <1>2, <2>2, <2>3, SentTell
  <2>5. Alike(l, link'[s]) /\ ghost'[s] = ghost[s]
    BY <1>2, <2>2 DEF Alike
  <2> QED
    BY <1>2, <1>6, <2>4, <2>5, AlikeCounts DEF l
<1>8. CASE l.state = "up" /\ ~Ahead(l, f.next)
  <2>1. PICK n \in 0..MaxFrames : n = ghost[s].next
    BY <1>1
  <2>2. r = maybe_credit(s, l, n, force)
    BY <1>2, <1>4, <1>8, <2>1 DEF on_probe
  <2>3. Alike(l, r.l) /\ Reports(s, l, n, r.q)
    BY <1>1, <2>2, CreditCounts
  <2>4. ghost'[s] = ghost[s] /\ Steady(s)
    BY <1>2, <2>3 DEF Alike, Steady, l
  <2>5. \A i \in 1..Len(r.q) : Tells(s, r.q[i])
    <3>1. l.rx_next = ghost'[s].next % Mod /\ n = ghost'[s].next /\ link[s].state = "up"
        BY <1>8, <2>1, <2>4 DEF Numbered, l
    <3> QED
        BY <1>2, <2>3, <2>4, <3>1, ReportsTell
  <2>6. \A i \in (Len(wire[Other(s)]) + 1)..Len(wire'[Other(s)]) : Tells(s, wire'[Other(s)][i])
    BY <1>2, <1>3, <2>5, SentTell
  <2> QED
    BY <1>2, <1>6, <2>3, <2>4, <2>6, AlikeCounts DEF l
<1>9. CASE l.state = "up" /\ Ahead(l, f.next)
  <2>1. PICK n \in 0..MaxFrames : n = f.n
    BY <1>1
  <2>2. r = maybe_credit(s, m, n, force)
    BY <1>2, <1>4, <1>9, <2>1 DEF on_probe
  <2>3. /\ m \in Links /\ m.session = l.session /\ m.peer = l.peer /\ m.flow = l.flow /\ m.tx_seq = l.tx_seq
        /\ m.tx_ack = l.tx_ack /\ m.tx_window = l.tx_window /\ m.rx_next = f.next
    BY <1>1 DEF Links
  <2> HIDE DEF m
  <2>4. Alike(m, r.l) /\ Reports(s, m, n, r.q)
    BY <2>2, <2>3, CreditCounts
  <2>5. 1 \in Stream(s) /\ f.next = n % Mod /\ Reach(f) = n
    BY <1>9, <2>1, UpReads DEF l, Stream, Numbered, Stands, Reach
  <2>6. PICK b \in Nat : b = ghost[s].next
    BY <1>1, Bounds
  <2>7. n - b \in 0..(Mod - 1) /\ n \in Nat /\ n >= b
    <3>1. n \in b..(b + MaxWindow)
        BY <2>5, <2>6 DEF Near
    <3> QED
        BY <2>6, <3>1, LlpAssumption DEF Half
  <2>8. ghost'[s].next = n /\ ghost'[s].sent = ghost[s].sent
    <3>1. ghost[s] \in [sent : 0..MaxFrames, next : 0..MaxFrames]
        BY DEF TypeOK
    <3>2. CASE r.l.rx_next # l.rx_next
        BY <1>2, <1>3, <2>1, <3>1, <3>2
    <3>3. CASE r.l.rx_next = l.rx_next
      <4>1. n % Mod = b % Mod
        BY <2>3, <2>4, <2>5, <2>6, <3>3 DEF Alike, Numbered, l
      <4>2. n = b
        BY <2>6, <2>7, <4>1, SameEight
      <4> QED
        BY <1>2, <1>3, <2>6, <3>3, <4>2
    <3> QED
        BY <3>2, <3>3
  <2>9. /\ Steady(s) /\ link'[s].tx_seq = l.tx_seq /\ link'[s].tx_ack = l.tx_ack /\ link'[s].flow = l.flow
        /\ link'[s].tx_window = l.tx_window /\ link'[s].rx_next = n % Mod
    BY <1>2, <2>3, <2>4, <2>5 DEF Alike, Steady, l
  <2>10. Acked(s)' = Acked(s)
    BY <2>8, <2>9 DEF Acked, Unacked, l
  <2>11. Room(s)' >= Room(s)
    <3>1. PICK e \in Int : e = Slots - a
      <4>1. a \in Int /\ Slots \in Int
        BY <1>5, Bounds
      <4> QED
        BY <4>1
    <3>2. Room(s) = b + e /\ Room(s)' = n + e
        BY <1>2, <1>5, <2>6, <2>8, <3>1 DEF Room
    <3>3. b + e <= n + e
        BY <2>6, <2>7, <3>1
    <3>4. b + e \in Int /\ n + e \in Int
        BY <2>6, <2>7, <3>1
    <3> QED
        BY <3>2, <3>3, <3>4
  <2>12. Goes(s)
    BY <1>9, <2>5, <2>8, <2>9, <2>10, <2>11 DEF Goes, l
  <2>13. \A i \in 1..Len(r.q) : Tells(s, r.q[i])
    <3>1. m.rx_next = ghost'[s].next % Mod /\ n = ghost'[s].next /\ link[s].state = "up"
        BY <1>9, <2>3, <2>5, <2>8 DEF l
    <3> QED
        BY <1>2, <2>4, <2>9, <3>1, ReportsTell
  <2>14. \A i \in (Len(wire[Other(s)]) + 1)..Len(wire'[Other(s)]) : Tells(s, wire'[Other(s)][i])
    BY <1>2, <1>3, <2>13, SentTell
  <2> QED
    BY <1>2, <2>8, <2>9, <2>12, <2>14 DEF CountStep, Numbered, Steady, l
<1> QED
    BY <1>7, <1>8, <1>9

LEMMA DataCountStep ==
    ASSUME TypeOK, TypeOK', NEW s \in Sides, Sessions(s), Numbered(s), Near(s),
           1 \in Sent(s), NEW f \in Frames, f = wire[s][1], f.op = "data", NEW r, Result(s, f, r)
    PROVE  CountStep(s)
<1> DEFINE l == link[s]
<1>1. l \in Links /\ f.seq \in 0..(Mod - 1) /\ f.n \in Nat /\ f.from \in Nat
  <2>1. l \in Links
    BY DEF TypeOK
  <2>2. f.seq \in 0..(Mod - 1) /\ f.n \in 0..(MaxFrames - 1) /\ f.from \in Nat
    BY DEF Frames
  <2>3. f.n \in Nat
    BY <2>2, Bounds
  <2> QED
    BY <2>1, <2>2, <2>3
<1>2. /\ link'[s] = r.l /\ r.l = on_data(l, f) /\ r.q = <<>> /\ wire'[Other(s)] = Emitted(s, r.q)
      /\ rxq'[Other(s)] = rxq[Other(s)] /\ ghost'[Other(s)] = ghost[Other(s)]
      /\ rxq'[s] = IF Accepts(l, f) /\ Len(rxq[s]) < Slots THEN Append(rxq[s], f.from) ELSE rxq[s]
      /\ ghost'[s] = IF r.l.peer # l.peer THEN [sent |-> 0, next |-> 0]
                     ELSE IF r.l.rx_next # l.rx_next \/ Accepts(l, f)
                     THEN [ghost[s] EXCEPT !.next = f.n + 1] ELSE ghost[s]
    BY DEF Result
<1> HIDE DEF l
<1>3. \A i \in (Len(wire[Other(s)]) + 1)..Len(wire'[Other(s)]) : Tells(s, wire'[Other(s)][i])
  <2>1. <<>> \in Seq(Frames) /\ \A i \in 1..Len(<<>>) : Tells(s, <<>>[i])
    OBVIOUS
  <2> QED
    BY <1>2, <2>1, SentTell
<1>4. PICK a \in 0..Slots : a = Len(rxq[s])
    BY NumberTypes DEF NumberFacts
<1>5. CASE ~Accepts(l, f)
  <2>1. r.l = l
    BY <1>2, <1>5 DEF on_data
  <2>2. Alike(l, link'[s]) /\ ghost'[s] = ghost[s] /\ rxq'[s] = rxq[s]
    BY <1>2, <1>5, <2>1 DEF Alike
  <2>3. Len(rxq'[s]) <= Len(rxq[s])
    BY <1>4, <2>2, Bounds
  <2> QED
    BY <1>2, <1>3, <2>2, <2>3, AlikeCounts DEF l
<1>6. CASE Accepts(l, f)
  <2>1. PICK n \in Nat : n = f.n
    BY <1>1
  <2>2. PICK b \in Nat : b = ghost[s].next
    BY NumberTypes DEF NumberFacts
  <2>3. l.state = "up" /\ Ahead(l, f.seq)
    BY <1>6 DEF Accepts
  <2>4. 1 \in Stream(s) /\ f.seq = n % Mod /\ Reach(f) = n + 1
    BY <2>1, <2>3, UpReads DEF l, Stream, Numbered, Stands, Reach
  <2>5. n >= b
    <3>1. n + 1 \in b..(b + MaxWindow) /\ l.rx_next = b % Mod
        BY <2>2, <2>4 DEF Near, Numbered, l
    <3>2. Ahead(l, n % Mod)
        BY <2>3, <2>4
    <3> QED
        BY <2>1, <2>2, <3>1, <3>2, AheadExact
  <2>6. r.l = [l EXCEPT !.rx_next = (f.seq + 1) % Mod]
    BY <1>2, <1>6 DEF on_data
  <2>7. /\ r.l.session = l.session /\ r.l.peer = l.peer /\ r.l.flow = l.flow /\ r.l.tx_seq = l.tx_seq
        /\ r.l.tx_ack = l.tx_ack /\ r.l.tx_window = l.tx_window /\ r.l.rx_next = (f.seq + 1) % Mod
    BY <1>1, <2>6 DEF Links
  <2>8. r.l.rx_next = (n + 1) % Mod
    BY <2>1, <2>4, <2>7, OneMore
  <2>9. ghost'[s].next = n + 1 /\ ghost'[s].sent = ghost[s].sent
    <3>1. ghost[s] \in [sent : 0..MaxFrames, next : 0..MaxFrames]
        BY DEF TypeOK
    <3> QED
        BY <1>2, <1>6, <2>1, <2>7, <3>1
  <2>10. Steady(s) /\ Acked(s)' = Acked(s)
    BY <1>2, <2>7, <2>9 DEF Steady, Acked, Unacked, l
  <2>11. Room(s)' >= Room(s)
    <3>1. PICK c \in 0..Slots : c = Len(rxq'[s])
        BY NumberTypesNext DEF NumberFacts
    <3>2. c <= a + 1
      <4>1. PICK q \in Seq(Nat) : q = rxq[s]
        BY DEF TypeOK
      <4>2. Len(Append(q, f.from)) = Len(q) + 1
        BY <1>1, <4>1
      <4>3. Len(rxq'[s]) \in {Len(q), Len(q) + 1}
        BY <1>2, <4>1, <4>2
      <4> QED
        BY <1>4, <3>1, <4>1, <4>3, Bounds
    <3>3. Room(s) = b + (Slots - a) /\ Room(s)' = (n + 1) + (Slots - c)
        BY <1>4, <2>2, <2>9, <3>1 DEF Room
    <3>4. Slots \in Nat
        BY Bounds
    <3>5. b + (Slots - a) <= (n + 1) + (Slots - c)
      <4>1. a \in Int /\ c \in Int /\ n \in Int /\ b \in Int /\ Slots \in Int
        BY <1>4, <2>1, <2>2, <3>1, <3>4
      <4>2. c <= a + 1 /\ b <= n
        BY <2>1, <2>2, <2>5, <3>2
      <4> QED
        BY <4>1, <4>2
    <3>6. b + (Slots - a) \in Int /\ (n + 1) + (Slots - c) \in Int
      <4>1. a \in Int /\ c \in Int /\ n \in Int /\ b \in Int /\ Slots \in Int
        BY <1>4, <2>1, <2>2, <3>1, <3>4
      <4> QED
        BY <4>1
    <3> QED
        BY <3>3, <3>5, <3>6
  <2>12. Goes(s)
    BY <1>2, <2>3, <2>4, <2>7, <2>9, <2>10, <2>11 DEF Goes, l
  <2> QED
    BY <1>2, <1>3, <2>7, <2>8, <2>9, <2>12 DEF CountStep, Numbered, l
<1> QED
    BY <1>5, <1>6

LEMMA InputCounts ==
    ASSUME RxWindow > 0, TypeOK, TypeOK', NEW s \in Sides, NodeStep(s), Sessions(s), Numbered(s), Near(s),
           wire[s] # <<>>, NEW w, Input(s, Head(wire[s]), w)
    PROVE  CountStep(s)
<1>1. PICK f : f = Head(wire[s])
    OBVIOUS
<1>2. f \in Frames /\ f = wire[s][1] /\ 1 \in Sent(s)
  <2>1. wire[s] \in Seq(Frames)
    BY DEF TypeOK
  <2>2. PICK q \in Seq(Frames) : q = wire[s] /\ q # <<>>
    BY <2>1
  <2>3. Head(q) \in Frames /\ Head(q) = q[1] /\ 1 \in 1..Len(q)
    BY <2>2
  <2> QED
    BY <1>1, <2>2, <2>3 DEF Sent
<1>3. PICK r : Result(s, f, r)
    BY <1>1, InputResult
<1>4. f.op \in {"hello", "credit", "probe", "data"}
    BY <1>2 DEF Frames
<1>5. CASE f.op = "hello"
    BY <1>2, <1>3, <1>5, HelloCountStep
<1>6. CASE f.op = "credit"
    BY <1>2, <1>3, <1>6, CreditCountStep
<1>7. CASE f.op = "probe"
    BY <1>2, <1>3, <1>7, ProbeCountStep
<1>8. CASE f.op = "data"
    BY <1>2, <1>3, <1>8, DataCountStep
<1> QED
    BY <1>4, <1>5, <1>6, <1>7, <1>8

(* Tasks, the handshake's event and a lost frame count nothing. *)
LEMMA TaskCounts ==
    ASSUME TypeOK, TypeOK', NEW s \in Sides, Numbered(s),
           Events(s) \/ p9_write(s) \/ p9_send(s) \/ p9_give_up(s) \/ Lose(s)
    PROVE  CountStep(s)
<1>1. Other(s) \in Sides /\ Other(s) # s
    BY TwoSides
<1>2. UNCHANGED <<link, rxq, ghost>>
    BY DEF Events, p9_write, p9_send, p9_give_up, Lose
<1>3. wire'[Other(s)] = wire[Other(s)]
    BY <1>1 DEF Events, p9_write, p9_send, p9_give_up, Lose, TypeOK
<1>4. Len(rxq'[s]) <= Len(rxq[s])
  <2>1. Len(rxq[s]) \in Nat
    BY NumberTypes, Bounds DEF NumberFacts
  <2> QED
    BY <1>2, <2>1
<1> QED
    BY <1>2, <1>3, <1>4, QuietCounts

LEMMA RecvCounts ==
    ASSUME TypeOK, TypeOK', NEW s \in Sides, p9_recv(s), Numbered(s)
    PROVE  CountStep(s)
<1> DEFINE rest == SubSeq(rxq[s], stale[s] + 1, Len(rxq[s]))
<1>1. /\ rxq' = [rxq EXCEPT ![s] = IF rest = <<>> THEN <<>> ELSE Tail(rest)]
      /\ UNCHANGED <<link, wire, ghost>>
    BY DEF p9_recv
<1>2. Other(s) \in Sides /\ Other(s) # s
    BY TwoSides
<1>3. PICK q \in Seq(Nat) : q = rxq[s]
    BY DEF TypeOK
<1>4. PICK k \in Nat : k = stale[s]
    BY DEF TypeOK
<1>5. PICK n \in Nat : n = Len(q)
    BY <1>3
<1>6. SubSeq(q, k + 1, n) \in Seq(Nat) /\ Len(SubSeq(q, k + 1, n)) <= n
  <2>1. k + 1 \in Int /\ n \in Int /\ \A i \in (k + 1)..n : q[i] \in Nat
    BY <1>3, <1>5
  <2>2. /\ SubSeq(q, k + 1, n) \in Seq(Nat)
        /\ Len(SubSeq(q, k + 1, n)) = IF k + 1 <= n THEN n - (k + 1) + 1 ELSE 0
    BY ONLY <2>1, SubSeqProperties
  <2> QED
    BY <2>2
<1>7. rest \in Seq(Nat) /\ Len(rest) <= n
  <2>1. rest = SubSeq(q, k + 1, n)
    BY <1>3, <1>4, <1>5
  <2> QED
    BY <1>6, <2>1
<1> HIDE DEF rest
<1>8. rxq'[s] = (IF rest = <<>> THEN <<>> ELSE Tail(rest)) /\ rxq'[Other(s)] = rxq[Other(s)]
    BY <1>1, <1>2 DEF TypeOK
<1>9. Len(rxq'[s]) <= n
  <2>1. CASE rest = <<>>
    BY <1>5, <1>8, <2>1
  <2>2. CASE rest # <<>>
    <3>1. Len(Tail(rest)) = Len(rest) - 1 /\ Len(rest) \in Nat
        BY <1>7, <2>2, HeadTailProperties
    <3>2. rxq'[s] = Tail(rest)
        BY <1>8, <2>2
    <3> QED
        BY <1>7, <3>1, <3>2
  <2> QED
    BY <2>1, <2>2
<1> QED
    BY <1>1, <1>3, <1>5, <1>8, <1>9, QuietCounts

(* Every step, as it is counted. *)
LEMMA EveryCount ==
    ASSUME RxWindow > 0, TypeOK, [Next]_vars,
           \A s \in Sides : Addressed(s) /\ Sessions(s) /\ Numbered(s) /\ Near(s)
    PROVE  \/ UNCHANGED vars
           \/ \E s \in Sides : TypeOK' /\ NodeStep(s) /\ CountStep(s)
<1>0. faults \in [line : 0..MaxFaults.line, node : 0..MaxFaults.node] /\ MaxFaults \in [line : Nat, node : Nat]
    BY LlpAssumption DEF TypeOK
<1> SUFFICES ASSUME Next
             PROVE  \E s \in Sides : TypeOK' /\ NodeStep(s) /\ CountStep(s)
    OBVIOUS
<1>1. PICK s \in Sides : \/ Read(s) \/ Events(s) \/ Drain(s)
                         \/ p9_write(s) \/ p9_send(s) \/ p9_give_up(s) \/ p9_recv(s)
                         \/ \E due \in Timers : Tick(s, due)
                         \/ Fault(s)
    BY DEF Next
<1>2. Addressed(s) /\ Sessions(s) /\ Numbered(s) /\ Near(s) /\ UpKnown(s)
    BY DEF Sessions
<1> DEFINE Goal == TypeOK' /\ NodeStep(s) /\ CountStep(s)
<1>3. ASSUME NEW w, w = wire[s] \/ w = Tail(wire[s]), wire[s] # <<>>, Input(s, Head(wire[s]), w),
             faults' \in [line : 0..MaxFaults.line, node : 0..MaxFaults.node]
      PROVE  Goal
  <2>1. TypeOK' /\ NodeStep(s)
    BY <1>2, <1>3, InputStep
  <2>2. CountStep(s)
    BY <1>2, <1>3, <2>1, InputCounts
  <2> QED
    BY <2>1, <2>2
<1>4. ASSUME Read(s) PROVE Goal
  <2>1. wire[s] # <<>> /\ Input(s, Head(wire[s]), Tail(wire[s])) /\ faults' = faults
    BY <1>4 DEF Read
  <2>2. faults' \in [line : 0..MaxFaults.line, node : 0..MaxFaults.node]
    BY <1>0, <2>1
  <2> QED
    BY <1>3, <2>1, <2>2
<1>5. ASSUME Events(s) PROVE Goal
  <2>1. TypeOK' /\ NodeStep(s)
    BY <1>2, <1>5, EventsStep
  <2> QED
    BY <1>2, <1>5, <2>1, TaskCounts
<1>6. ASSUME Drain(s) PROVE Goal
  <2>1. TypeOK' /\ NodeStep(s)
    BY <1>2, <1>6, DrainStep
  <2> QED
    BY <1>2, <1>6, <2>1, DrainCounts
<1>7. ASSUME p9_send(s) PROVE Goal
  <2>1. TypeOK' /\ NodeStep(s)
    BY <1>2, <1>7, SendTaskStep
  <2> QED
    BY <1>2, <1>7, <2>1, TaskCounts
<1>t. ASSUME p9_write(s) \/ p9_give_up(s) PROVE Goal
  <2>1. TypeOK' /\ NodeStep(s)
    BY <1>2, <1>t, WriteTaskStep
  <2> QED
    BY <1>2, <1>t, <2>1, TaskCounts
<1>8. ASSUME p9_recv(s) PROVE Goal
  <2>1. TypeOK' /\ NodeStep(s)
    BY <1>2, <1>8, RecvTaskStep
  <2> QED
    BY <1>2, <1>8, <2>1, RecvCounts
<1>9. ASSUME NEW due \in Timers, Tick(s, due) PROVE Goal
  <2>1. TypeOK' /\ NodeStep(s)
    BY <1>2, <1>9, TickStep
  <2> QED
    BY <1>2, <1>9, <2>1, TickCounts
<1>10. ASSUME Fault(s) PROVE Goal
  <2>1. CASE /\ faults.line < MaxFaults.line /\ faults' = [faults EXCEPT !.line = @ + 1]
             /\ Lose(s) \/ Repeat(s)
    <3>1. faults' \in [line : 0..MaxFaults.line, node : 0..MaxFaults.node]
        BY <1>0, <2>1
    <3>2. CASE Lose(s)
      <4>1. TypeOK' /\ NodeStep(s)
        BY <1>2, <3>1, <3>2, LoseStep
      <4> QED
        BY <1>2, <3>2, <4>1, TaskCounts
    <3>3. CASE Repeat(s)
      <4>1. wire[s] # <<>> /\ Input(s, Head(wire[s]), wire[s])
        BY <3>3 DEF Repeat
      <4> QED
        BY <1>3, <3>1, <4>1
    <3> QED
        BY <2>1, <3>2, <3>3
  <2>2. CASE /\ faults.node < MaxFaults.node /\ faults' = [faults EXCEPT !.node = @ + 1]
             /\ \E major \in Majors[s] : Restart(s, major)
    <3>1. faults' \in [line : 0..MaxFaults.line, node : 0..MaxFaults.node]
        BY <1>0, <2>2
    <3>2. PICK major \in Majors[s] : Restart(s, major)
        BY <2>2
    <3>3. TypeOK' /\ NodeStep(s)
        BY <1>2, <3>1, <3>2, RestartStep
    <3> QED
        BY <3>2, <3>3, RestartCounts
  <2> QED
    BY <1>10, <2>1, <2>2 DEF Fault
<1> HIDE DEF Goal
<1>11. Goal
    BY <1>1, <1>4, <1>5, <1>6, <1>7, <1>t, <1>8, <1>9, <1>10
<1> QED
    BY <1>11 DEF Goal

(* Before anything is said nothing is counted, and a first HELLO promises  *)
(* no more than the whole queue.                                           *)
LEMMA CountInit ==
    ASSUME RxWindow > 0, Init
    PROVE  CountInv /\ RoomInv
<1>1. ASSUME NEW s \in Sides
      PROVE  /\ link[s].session = 1 /\ link[s].peer = 0 /\ link[s].rx_next = 0
             /\ link[s].tx_seq = 0 /\ link[s].tx_ack = 0 /\ link[s].tx_window = 0
             /\ ghost[s].sent = 0 /\ ghost[s].next = 0 /\ rxq[s] = <<>>
  <2>1. PICK major : link[s] = Started(1, major)
    BY DEF Init
  <2> QED
    BY <2>1 DEF Started, Init
<1>2. ASSUME NEW s \in Sides
      PROVE  \A i \in Sent(s) : /\ wire[s][i].op = "hello" /\ wire[s][i].flow = TRUE
                                /\ wire[s][i].window = RxWindow
  <2>1. PICK f : f = FirstHello(link[Other(s)])
    OBVIOUS
  <2>2. (RxWindow > 0) = TRUE
    OBVIOUS
  <2>3. f.op = "hello" /\ f.flow = (RxWindow > 0) /\ f.window = RxWindow
    BY <2>1 DEF FirstHello
  <2>4. f.op = "hello" /\ f.flow = TRUE /\ f.window = RxWindow
    BY <2>2, <2>3
  <2>5. wire[s] = <<>> \/ wire[s] = <<f>>
    BY <2>1 DEF Init
  <2> QED
    BY <2>4, <2>5 DEF Sent
<1>3. ASSUME NEW s \in Sides
      PROVE  Other(s) \in Sides /\ Other(Other(s)) = s
    BY <1>3, TwoSides
<1>4. 0 % Mod = 0 /\ 0 \in 0..(Mod - 1)
    BY Bounds
<1>5. ASSUME NEW s \in Sides
      PROVE  Unacked(s) = 0 /\ Acked(s) = 0
  <2>1. Unacked(s) = 0
    BY <1>1, <1>4 DEF Unacked, Minus
  <2> QED
    BY <1>1, <2>1 DEF Acked
<1>6. ASSUME NEW s \in Sides
      PROVE  Stream(s) = {} /\ Credits(s) = {}
    BY <1>2 DEF Stream, Credits, Ours
<1>7. CountInv
  <2> SUFFICES ASSUME NEW s \in Sides
               PROVE  Numbered(s) /\ Near(s) /\ Agree(s) /\ Fresh(s)
    BY DEF CountInv
  <2>1. Numbered(s)
    <3>1. \A i \in Sent(s) : Stands(wire[s][i])
        BY <1>2 DEF Stands
    <3> QED
        BY <1>1, <1>4, <3>1 DEF Numbered
  <2>2. Near(s)
    BY <1>5, <1>6, Bounds DEF Near
  <2>3. Agree(s)
    BY <1>1, <1>3 DEF Agree, Together
  <2>4. Fresh(s)
    BY <1>1, <1>5 DEF Fresh
  <2> QED
    BY <2>1, <2>2, <2>3, <2>4
<1>8. ASSUME NEW s \in Sides PROVE Promised(s)
  <2>1. Room(s) = Slots
    BY <1>1, Bounds DEF Room
  <2>2. ghost[Other(s)].sent = 0 /\ Acked(Other(s)) = 0 /\ link[Other(s)].tx_window = 0
    BY <1>1, <1>3, <1>5
  <2>3. \A j \in Sent(Other(s)) : wire[Other(s)][j].op = "hello" /\ wire[Other(s)][j].window = RxWindow
    BY <1>2, <1>3
  <2> QED
    BY <2>1, <2>2, <2>3, Bounds DEF Promised
<1> QED
    BY <1>7, <1>8 DEF RoomInv

LEMMA CountAlways ==
    ASSUME RxWindow > 0
    PROVE  Spec => [](CountInv /\ RoomInv)
<1>1. Init => CountInv /\ RoomInv
    BY CountInit
<1>2. SessionInv /\ CountInv /\ RoomInv /\ [Next]_vars => (CountInv /\ RoomInv)'
  <2> SUFFICES ASSUME SessionInv, CountInv, RoomInv, [Next]_vars
               PROVE  (CountInv /\ RoomInv)'
    OBVIOUS
  <2>1. TypeOK /\ \A t \in Sides : Addressed(t) /\ Sessions(t) /\ Counted(t) /\ Numbered(t) /\ Near(t)
    BY DEF SessionInv, Sessions, CountInv, Counted
  <2>2. CASE UNCHANGED vars
    <3>1. link' = link /\ wire' = wire /\ rxq' = rxq /\ ghost' = ghost
        BY <2>2 DEF vars
    <3>2. CountInv'
        BY <3>1 DEF CountInv, Numbered, Near, Agree, Fresh, Together, Acked, Unacked, Stream, Credits, Ours, Sent
    <3>3. RoomInv'
        BY <3>1 DEF RoomInv, Promised, Room, Acked, Unacked, Sent
    <3> QED
        BY <3>2, <3>3
  <2>3. ASSUME NEW s \in Sides, TypeOK', NodeStep(s), CountStep(s)
        PROVE  (CountInv /\ RoomInv)'
    <3>1. Other(s) \in Sides /\ \A t \in Sides : t = s \/ t = Other(s)
        BY TwoSides
    <3>2. Counted(s)' /\ Counted(Other(s))'
        BY <2>1, <2>3, <3>1, CountsKept
    <3>3. \A t \in Sides : Counted(t)'
        BY <3>1, <3>2
    <3>4. CountInv'
        BY <3>3 DEF CountInv, Counted
    <3>5. RoomInv'
      <4> SUFFICES ASSUME \A t \in Sides : link'[t].session = 1
                   PROVE  \A t \in Sides : Promised(t)'
        BY DEF RoomInv
      <4>1. link[s].session = 1 /\ link[Other(s)].session = 1 => Promised(s) /\ Promised(Other(s))
        BY <3>1 DEF RoomInv
      <4>2. Promised(s)' /\ Promised(Other(s))'
        BY <2>1, <2>3, <3>1, <4>1, PromisesKept
      <4> QED
        BY <3>1, <4>2
    <3> QED
        BY <3>4, <3>5
  <2> QED
    BY <2>1, <2>2, <2>3, EveryCount
<1> QED
    BY <1>1, <1>2, SessionAlways, PTL DEF Spec

(* On a channel without flow control of its own, the comparison of eight   *)
(* bits in llp_link_input() tells exactly whether a frame is older than    *)
(* the one expected, through losses, repeats, probes and restarts.         *)
THEOREM SequenceNeverWrong ==
    ASSUME RxWindow > 0
    PROVE  Spec => []SequenceExact
<1>1. SessionInv /\ CountInv => SequenceExact
  <2> SUFFICES ASSUME SessionInv, CountInv, NEW s \in Sides, NEW f \in Arriving(s),
                      f.from = link[s].peer, link[s].state = "up"
               PROVE  Accepts(link[s], f) <=> f.n >= ghost[s].next
    BY DEF SequenceExact
  <2>1. TypeOK /\ Sessions(s) /\ Numbered(s) /\ Near(s)
    BY DEF SessionInv, Sessions, CountInv
  <2>2. 1 \in Sent(s) /\ f = wire[s][1] /\ f.op = "data" /\ f \in Frames
    BY <2>1 DEF Arriving, TypeOK, Sent
  <2>3. 1 \in Stream(s) /\ Reach(f) = f.n + 1 /\ f.seq = f.n % Mod
    BY <2>1, <2>2, UpReads DEF Stream, Numbered, Stands, Reach
  <2>4. PICK a \in Nat : a = f.n
    BY <2>2, Bounds DEF Frames
  <2>5. PICK b \in Nat : b = ghost[s].next
    BY <2>1, NumberTypes DEF NumberFacts
  <2>6. a + 1 \in b..(b + MaxWindow) /\ link[s].rx_next = b % Mod
    BY <2>1, <2>2, <2>3, <2>4, <2>5 DEF Near, Numbered
  <2>7. Ahead(link[s], a % Mod) <=> a >= b
    BY <2>6, AheadExact
  <2> QED
    BY <2>3, <2>4, <2>5, <2>7 DEF Accepts
<1> QED
    BY <1>1, SessionAlways, CountAlways, PTL

(* On such a channel, while neither node restarts, fq_put() finds a place  *)
(* for every message llp_link_input() accepts: whatever is lost or         *)
(* repeated, credit is never spent beyond what the receive queue can hold. *)
THEOREM CreditNeverOverspent ==
    ASSUME RxWindow > 0
    PROVE  Spec => []NoOverrun
<1>1. SessionInv /\ CountInv /\ RoomInv => NoOverrun
  <2> SUFFICES ASSUME SessionInv, CountInv, RoomInv, \A t \in Sides : link[t].session = 1,
                      NEW s \in Sides, NEW f \in Arriving(s), Accepts(link[s], f)
               PROVE  Len(rxq[s]) < Slots
    BY DEF NoOverrun
  <2>0. Other(s) \in Sides
    BY TwoSides
  <2>1. TypeOK /\ Sessions(s) /\ Sessions(Other(s)) /\ Numbered(s) /\ Near(s) /\ Agree(s) /\ Promised(s)
    BY <2>0 DEF SessionInv, Sessions, CountInv, RoomInv
  <2>2. 1 \in Sent(s) /\ f = wire[s][1] /\ f.op = "data" /\ f \in Frames /\ link[s].state = "up"
    BY <2>1 DEF Arriving, TypeOK, Sent, Accepts
  <2>3. 1 \in Stream(s) /\ Reach(f) = f.n + 1 /\ f.seq = f.n % Mod
    BY <2>1, <2>2, UpReads DEF Stream, Numbered, Stands, Reach
  <2>4. PICK a \in Nat : a = f.n
    BY <2>2, Bounds DEF Frames
  <2>5. PICK b \in Nat : b = ghost[s].next
    BY <2>1, NumberTypes DEF NumberFacts
  <2>6. a >= b
    <3>1. a + 1 \in b..(b + MaxWindow) /\ link[s].rx_next = b % Mod
        BY <2>1, <2>2, <2>3, <2>4, <2>5 DEF Near, Numbered
    <3>2. Ahead(link[s], a % Mod)
        BY <2>3, <2>4 DEF Accepts
    <3> QED
        BY <3>1, <3>2, AheadExact
  <2>7. Together(s)
    <3>1. link[s].peer # 0 /\ link[s].peer \in Nat /\ link[s].peer <= link[Other(s)].session
        BY <2>1, <2>2, NumberTypes DEF NumberFacts, Sessions, FromInOrder, UpKnown
    <3>2. link[s].peer = link[Other(s)].session
        BY <2>0, <3>1
    <3> QED
        BY <2>1, <2>2, <3>2, UpTogether
  <2>8. PICK m \in Nat : m = ghost[Other(s)].sent
    BY <2>0, <2>1, NumberTypes DEF NumberFacts
  <2>9. a + 1 <= m
    BY <2>1, <2>2, <2>3, <2>4, <2>7, <2>8 DEF Agree
  <2>10. PICK c \in 0..Slots : c = Len(rxq[s])
    BY <2>1, NumberTypes DEF NumberFacts
  <2>11. m <= b + (Slots - c)
    BY <2>1, <2>5, <2>8, <2>10 DEF Promised, Room
  <2>12. c < Slots
    BY <2>6, <2>9, <2>11, Bounds
  <2> QED
    BY <2>10, <2>12
<1> QED
    BY <1>1, SessionAlways, CountAlways, PTL
=============================================================================
