----------------------------- MODULE OtaProofs -----------------------------
(***************************************************************************)
(* An update of kernel/ota.c, proved for any images, any number of power   *)
(* cuts and sequence numbers of any width from two bits: the next boot     *)
(* always finds a complete image, an image nobody has vouched for is tried *)
(* first, and the watchdog is armed only under a trial.                    *)
(***************************************************************************)
EXTENDS OtaInv, SequenceTheorems, TLAPS

(* Sequence numbers that wrap around. *)
LEMMA ModSmall ==
    ASSUME NEW m \in Nat, m >= 4, NEW x \in 0..(m - 1)
    PROVE  x % m = x /\ (x + 1) % m = IF x + 1 = m THEN 0 ELSE x + 1
<1>1. ASSUME NEW y \in 0..(m - 1) PROVE y % m = y
    OBVIOUS
<1>2. m % m = 0
    OBVIOUS
<1> QED
    BY <1>1, <1>2

LEMMA ModBelow ==
    ASSUME NEW m \in Nat, m >= 4
    PROVE  (1 - m) % m = 1 /\ (-1) % m = m - 1 /\ m \div 2 >= 2 /\ m \div 2 < m
<1>1. (1 - m) % m = 1
    OBVIOUS
<1>2. (-1) % m = m - 1
    OBVIOUS
<1>3. m \div 2 >= 2 /\ m \div 2 < m
    OBVIOUS
<1> QED
    BY <1>1, <1>2, <1>3

(* The steps of a command, put together. *)
LEMMA Concat ==
    ASSUME NEW S, NEW p \in Seq(S), NEW q \in Seq(S), NEW r \in Seq(S), Len(r) = Len(p) + Len(q),
           \A i \in 1..Len(p) : r[i] = p[i], \A i \in 1..Len(q) : r[Len(p) + i] = q[i]
    PROVE  p \o q = r
<1>1. /\ p \o q \in Seq(S) /\ Len(p \o q) = Len(p) + Len(q)
      /\ \A i \in 1..(Len(p) + Len(q)) : (p \o q)[i] = IF i <= Len(p) THEN p[i] ELSE q[i - Len(p)]
    BY ConcatProperties
<1>2. ASSUME NEW i \in 1..Len(r) PROVE r[i] = (p \o q)[i]
  <2>1. CASE i <= Len(p)
    BY <1>1, <2>1
  <2>2. CASE ~(i <= Len(p))
    <3>1. i - Len(p) \in 1..Len(q) /\ Len(p) + (i - Len(p)) = i
        BY <2>2
    <3>2. r[Len(p) + (i - Len(p))] = q[i - Len(p)]
        BY <3>1
    <3> QED
        BY <1>1, <2>2, <3>1, <3>2
  <2> QED
    BY <2>1, <2>2
<1> QED
    BY <1>1, <1>2, SeqEqual

LEMMA Concats ==
    ASSUME NEW S, NEW a \in S, NEW b \in S, NEW c \in S
    PROVE  /\ <<a, b>> \o <<c>> = <<a, b, c>> /\ <<a>> \o <<b>> = <<a, b>> /\ <<>> \o <<a>> = <<a>>
<1>1. <<a, b>> \o <<c>> = <<a, b, c>>
  <2> DEFINE p == <<a, b>>
             q == <<c>>
             r == <<a, b, c>>
  <2>1. /\ p \in Seq(S) /\ q \in Seq(S) /\ r \in Seq(S) /\ Len(p) = 2 /\ Len(q) = 1 /\ Len(r) = 3
        /\ p[1] = r[1] /\ p[2] = r[2] /\ q[1] = r[3]
    OBVIOUS
  <2> HIDE DEF p, q, r
  <2>2. Len(r) = Len(p) + Len(q) /\ (\A i \in 1..Len(p) : r[i] = p[i]) /\ \A i \in 1..Len(q) : r[Len(p) + i] = q[i]
    BY <2>1
  <2>3. p \o q = r
    BY <2>1, <2>2, Concat, Zenon
  <2> QED
    BY <2>3 DEF p, q, r
<1>2. <<a>> \o <<b>> = <<a, b>>
  <2> DEFINE p == <<a>>
             q == <<b>>
             r == <<a, b>>
  <2>1. /\ p \in Seq(S) /\ q \in Seq(S) /\ r \in Seq(S) /\ Len(p) = 1 /\ Len(q) = 1 /\ Len(r) = 2
        /\ p[1] = r[1] /\ q[1] = r[2]
    OBVIOUS
  <2> HIDE DEF p, q, r
  <2>2. Len(r) = Len(p) + Len(q) /\ (\A i \in 1..Len(p) : r[i] = p[i]) /\ \A i \in 1..Len(q) : r[Len(p) + i] = q[i]
    BY <2>1
  <2>3. p \o q = r
    BY <2>1, <2>2, Concat, Zenon
  <2> QED
    BY <2>3 DEF p, q, r
<1>3. <<>> \o <<a>> = <<a>>
    OBVIOUS
<1> QED
    BY <1>1, <1>2, <1>3

LEMMA FourSteps ==
    ASSUME NEW S, NEW a \in S, NEW b \in S, NEW c \in S, NEW d \in S
    PROVE  <<a>> \o <<b, c>> \o <<d>> = <<a, b, c, d>>
<1>1. <<a>> \o <<b, c>> = <<a, b, c>>
  <2> DEFINE p == <<a>>
             q == <<b, c>>
             r == <<a, b, c>>
  <2>1. /\ p \in Seq(S) /\ q \in Seq(S) /\ r \in Seq(S) /\ Len(p) = 1 /\ Len(q) = 2 /\ Len(r) = 3
        /\ p[1] = r[1] /\ q[1] = r[2] /\ q[2] = r[3]
    OBVIOUS
  <2> HIDE DEF p, q, r
  <2>2. Len(r) = Len(p) + Len(q) /\ (\A i \in 1..Len(p) : r[i] = p[i]) /\ \A i \in 1..Len(q) : r[Len(p) + i] = q[i]
    BY <2>1
  <2>3. p \o q = r
    BY <2>1, <2>2, Concat, Zenon
  <2> QED
    BY <2>3 DEF p, q, r
<1>2. <<a, b, c>> \o <<d>> = <<a, b, c, d>>
  <2> DEFINE p == <<a, b, c>>
             q == <<d>>
             r == <<a, b, c, d>>
  <2>1. /\ p \in Seq(S) /\ q \in Seq(S) /\ r \in Seq(S) /\ Len(p) = 3 /\ Len(q) = 1 /\ Len(r) = 4
        /\ p[1] = r[1] /\ p[2] = r[2] /\ p[3] = r[3] /\ q[1] = r[4]
    OBVIOUS
  <2> HIDE DEF p, q, r
  <2>2. Len(r) = Len(p) + Len(q) /\ (\A i \in 1..Len(p) : r[i] = p[i]) /\ \A i \in 1..Len(q) : r[Len(p) + i] = q[i]
    BY <2>1
  <2>3. p \o q = r
    BY <2>1, <2>2, Concat, Zenon
  <2> QED
    BY <2>3 DEF p, q, r
<1> QED
    BY <1>1, <1>2

-----------------------------------------------------------------------------
(* Boot records.                                                           *)
LEMMA CurFacts ==
    ASSUME NEW r \in [0..1 -> Records]
    PROVE  /\ ota_bootrec_current(r) \in -1..1
           /\ ota_bootrec_current(r) >= 0 => r[ota_bootrec_current(r)].valid
           /\ ota_bootrec_current(r) < 0 => ~r[0].valid /\ ~r[1].valid
           /\ ota_bootrec_current(r) = 0 => r[0].valid
           /\ ota_bootrec_current(r) = 1 => r[1].valid
BY DEF ota_bootrec_current, Records

(* write_record() erases the sector that is not current, which changes     *)
(* nothing ...                                                             *)
LEMMA EraseKeeps ==
    \A r \in [0..1 -> Records] : \A t, q : \A n \in Records :
        t = (IF ota_bootrec_current(r) = 0 THEN 1 ELSE 0) /\ n.valid = FALSE /\ q = [r EXCEPT ![t] = n]
            => ota_bootrec_current(q) = ota_bootrec_current(r)
<1> SUFFICES ASSUME NEW r \in [0..1 -> Records], NEW t, NEW q, NEW n \in Records,
                    t = (IF ota_bootrec_current(r) = 0 THEN 1 ELSE 0), n.valid = FALSE, q = [r EXCEPT ![t] = n]
             PROVE  ota_bootrec_current(q) = ota_bootrec_current(r)
    OBVIOUS
<1>1. r[0].valid \in BOOLEAN /\ r[1].valid \in BOOLEAN
    BY DEF Records
<1>2. CASE ota_bootrec_current(r) = 0
  <2>1. r[0].valid /\ q[0] = r[0] /\ ~q[1].valid
    BY <1>2, CurFacts
  <2> QED
    BY <1>2, <2>1 DEF ota_bootrec_current
<1>3. CASE ota_bootrec_current(r) = 1
  <2>1. r[1].valid /\ q[1] = r[1] /\ ~q[0].valid
    BY <1>3, CurFacts
  <2> QED
    BY <1>3, <2>1 DEF ota_bootrec_current
<1>4. CASE ota_bootrec_current(r) < 0
  <2>1. ~r[0].valid /\ ~r[1].valid
    BY <1>4, CurFacts
  <2>2. ~q[0].valid /\ ~q[1].valid
    BY <1>4, <2>1
  <2> QED
    BY <2>1, <2>2 DEF ota_bootrec_current
<1> QED
    BY <1>2, <1>3, <1>4, CurFacts

(* ... and then writes there the one that succeeds the current one. *)
LEMMA WriteSucceeds ==
    ASSUME NEW r \in [0..1 -> Records], NEW t, t = (IF ota_bootrec_current(r) = 0 THEN 1 ELSE 0),
           NEW n \in Records, n.valid,
           n.seq = IF ota_bootrec_current(r) >= 0 THEN (r[ota_bootrec_current(r)].seq + 1) % SeqMod ELSE 1
    PROVE  ota_bootrec_current([r EXCEPT ![t] = n]) = t
<1> DEFINE q == [r EXCEPT ![t] = n]
<1>0. SeqMod \in Nat /\ SeqMod >= 4
    BY OtaAssumption
<1>1. CASE ota_bootrec_current(r) = 0
  <2>1. t = 1 /\ r[0].valid /\ q[0] = r[0] /\ q[1] = n /\ r[0].seq \in 0..(SeqMod - 1) /\ n.seq = (r[0].seq + 1) % SeqMod
    BY <1>1, CurFacts DEF Records
  <2>2. n.seq = IF r[0].seq + 1 = SeqMod THEN 0 ELSE r[0].seq + 1
    BY <1>0, <2>1, ModSmall
  <2>3. (n.seq - r[0].seq) % SeqMod = 1
    <3>1. CASE r[0].seq + 1 = SeqMod
      <4>1. n.seq - r[0].seq = 1 - SeqMod
        BY <1>0, <2>1, <2>2, <3>1
      <4> QED
        BY <1>0, <4>1, ModBelow
    <3>2. CASE r[0].seq + 1 # SeqMod
      <4>1. n.seq - r[0].seq = 1 /\ 1 \in 0..(SeqMod - 1)
        BY <1>0, <2>1, <2>2, <3>2
      <4> QED
        BY <1>0, <4>1, ModSmall
    <3> QED
        BY <3>1, <3>2
  <2>4. 1 \in 1..(SeqMod \div 2 - 1)
    BY <1>0, ModBelow
  <2> QED
    BY <2>1, <2>3, <2>4 DEF ota_bootrec_current
<1>2. CASE ota_bootrec_current(r) = 1
  <2>1. t = 0 /\ r[1].valid /\ q[1] = r[1] /\ q[0] = n /\ r[1].seq \in 0..(SeqMod - 1) /\ n.seq = (r[1].seq + 1) % SeqMod
    BY <1>2, CurFacts DEF Records
  <2>2. n.seq = IF r[1].seq + 1 = SeqMod THEN 0 ELSE r[1].seq + 1
    BY <1>0, <2>1, ModSmall
  <2>3. (r[1].seq - n.seq) % SeqMod = SeqMod - 1
    <3>1. CASE r[1].seq + 1 = SeqMod
      <4>1. r[1].seq - n.seq = SeqMod - 1 /\ SeqMod - 1 \in 0..(SeqMod - 1)
        BY <1>0, <2>1, <2>2, <3>1
      <4> QED
        BY <1>0, <4>1, ModSmall
    <3>2. CASE r[1].seq + 1 # SeqMod
      <4>1. r[1].seq - n.seq = -1
        BY <1>0, <2>1, <2>2, <3>2
      <4> QED
        BY <1>0, <4>1, ModBelow
    <3> QED
        BY <3>1, <3>2
  <2>4. ~(SeqMod - 1 \in 1..(SeqMod \div 2 - 1))
    BY <1>0, ModBelow
  <2> QED
    BY <2>1, <2>3, <2>4 DEF ota_bootrec_current
<1>3. CASE ota_bootrec_current(r) < 0
  <2>1. t = 0 /\ q[0] = n /\ q[1] = r[1] /\ ~r[1].valid
    BY <1>3, CurFacts
  <2> QED
    BY <2>1 DEF ota_bootrec_current
<1> QED
    BY <1>1, <1>2, <1>3, CurFacts

(* The loader's mark changes neither which record is current nor what it   *)
(* calls active.                                                           *)
LEMMA MarkKeeps ==
    ASSUME NEW r \in [0..1 -> Records], NEW c, c.trial => c.current \in 0..1
    PROVE  /\ Marked(r, c) \in [0..1 -> Records] /\ ota_bootrec_current(Marked(r, c)) = ota_bootrec_current(r)
           /\ \A i \in 0..1 : Marked(r, c)[i].active = r[i].active
<1>1. CASE ~c.trial
    BY <1>1 DEF Marked
<1>2. CASE c.trial
  <2>1. PICK q, k : q = Marked(r, c) /\ k \in 0..1 /\ k = c.current /\ q = [r EXCEPT ![k].tried = TRUE]
    BY <1>2 DEF Marked
  <2>2. /\ q \in [0..1 -> Records]
        /\ \A i \in 0..1 : q[i].active = r[i].active /\ q[i].seq = r[i].seq /\ q[i].valid = r[i].valid
    <3>1. r[k] \in Records /\ q = [r EXCEPT ![k].tried = TRUE]
        BY <2>1
    <3>2. PICK n : n = [r[k] EXCEPT !.tried = TRUE]
        OBVIOUS
    <3>3. n \in Records /\ n.active = r[k].active /\ n.seq = r[k].seq /\ n.valid = r[k].valid
        BY <3>1, <3>2 DEF Records
    <3>4. q = [r EXCEPT ![k] = n]
        BY <3>1, <3>2
    <3> QED
        BY <2>1, <3>3, <3>4
  <2>3. ota_bootrec_current(q) = ota_bootrec_current(r)
    BY <2>2 DEF ota_bootrec_current
  <2> QED
    BY <2>1, <2>2, <2>3
<1> QED
    BY <1>1, <1>2

-----------------------------------------------------------------------------
LEMMA StepTyped ==
    ASSUME NEW s \in FlashSteps
    PROVE  /\ s.do \in {"hdr", "body", "record", "set", "confirmed"}
           /\ s.do \in {"hdr", "body"} => s.img \in AnyImage
           /\ s.do = "record" => s.i \in 0..1 /\ s.r \in Records
           /\ s.do = "set" => s.st \in {"received", "error", "committed"}
BY DEF FlashSteps

(* The other slot is the one that does not run. *)
LEMMA OtherSlot ==
    ASSUME TypeOK
    PROVE  /\ run.slot \in Slots /\ Other \in Slots /\ Other # run.slot
           /\ \A s \in Slots : s = Other \/ s = run.slot
           /\ Slots = {0, 1} /\ 0 \in Slots /\ 1 \in Slots
<1>1. Slots = {0, 1}
    BY DEF Slots
<1>2. run.slot \in Slots
    BY DEF TypeOK
<1> QED
    BY <1>1, <1>2 DEF Other

LEMMA CurTyped ==
    ASSUME TypeOK
    PROVE  Cur \in -1..1 /\ (Cur >= 0 => Cur \in 0..1 /\ rec[Cur] \in Records /\ rec[Cur].active \in Slots)
<1>1. rec \in [0..1 -> Records]
    BY DEF TypeOK
<1>2. Cur \in -1..1
    BY <1>1, CurFacts DEF Cur
<1> QED
    BY <1>1, <1>2 DEF Records

LEMMA NoneTyped == None \in Records /\ ~None.valid
BY OtaAssumption DEF None, Records, NoSlot, Slots

(* A reading of the sectors shows in each the record that is there, or     *)
(* none; and the current one, unless it misses it.                         *)
LEMMA ReadFacts ==
    ASSUME TypeOK, NEW r \in AsRead
    PROVE  /\ r \in [0..1 -> Records]
           /\ ~Misses(r) => ota_bootrec_current(r) = Cur /\ (Cur >= 0 => r[Cur] = rec[Cur])
<1>1. rec \in [0..1 -> Records]
    BY DEF TypeOK
<1>2. PICK read \in SUBSET (0..1) : r = [i \in 0..1 |-> IF i \in read THEN rec[i] ELSE None]
    BY DEF AsRead
<1>3. r \in [0..1 -> Records] /\ \A i \in 0..1 : r[i] = rec[i] \/ r[i] = None
    BY <1>1, <1>2, NoneTyped
<1>4. ASSUME ~Misses(r), Cur >= 0 PROVE r[Cur] = rec[Cur]
  <2>1. ota_bootrec_current(r) = Cur /\ Cur \in 0..1
    BY <1>4, CurTyped DEF Misses, Cur
  <2>2. r[Cur].valid
    BY <1>3, <1>4, <2>1, CurFacts
  <2> QED
    BY <1>3, <2>1, <2>2, NoneTyped
<1> QED
    BY <1>3, <1>4 DEF Misses, Cur

LEMMA OtaInit == Init => OtaInv
<1> SUFFICES ASSUME Init PROVE OtaInv
    OBVIOUS
<1> USE OtaAssumption
<1>1. TypeOK
  <2>1. hdr \in [Slots -> Images \cup {NoImage}] /\ body \in [Slots -> Images \cup {NoImage}]
    BY DEF Init
  <2>2. rec \in [0..1 -> Records]
    BY NoneTyped DEF Init
  <2>3. /\ choice \in [slot : Slots, trial : BOOLEAN, current : -1..1]
        /\ run \in [slot : Slots, trial : BOOLEAN, confirmed : BOOLEAN]
        /\ g \in [st : {"idle", "receiving", "received", "committed", "error"}, img : Images \cup {NoImage}]
    BY DEF Init, NoRec, NoRun, Idle, Slots
  <2>4. vouched \subseteq Slots
    BY DEF Init, Slots
  <2> QED
    BY <2>1, <2>2, <2>3, <2>4 DEF Init, TypeOK
<1>2. Cur = -1
    BY DEF Init, Cur, ota_bootrec_current, None
<1>3. SlotsWhole /\ WatchdogScoped /\ ChoiceStands /\ RunStands
    BY DEF Init, SlotsWhole, WatchdogScoped, ChoiceStands, RunStands, Slots
<1>4. RecordStands
    BY <1>2 DEF Init, RecordStands
<1>5. Plan /\ Confirming
    BY DEF Init, Plan, Confirming
<1>6. Updating
    BY DEF Init, Updating, Receiving, Idle
<1> QED
    BY <1>1, <1>3, <1>4, <1>5, <1>6 DEF OtaInv

(* A reset forgets the command and keeps what the flash says. *)
LEMMA ResetStep ==
    ASSUME OtaInv, Reset, wdt' \in BOOLEAN, cuts' \in 0..MaxCuts
    PROVE  OtaInv'
<1>0. /\ power' = "loader" /\ choice' = NoRec /\ run' = NoRun /\ g' = Idle /\ todo' = <<>>
      /\ hdr' = hdr /\ body' = body /\ rec' = rec /\ vouched' = vouched /\ overActive' = overActive /\ misled' = misled
    BY DEF Reset, history
<1>1. TypeOK'
    BY <1>0 DEF OtaInv, TypeOK, NoRec, NoRun, Idle, Slots
<1>2. Cur' = Cur
    BY <1>0 DEF Cur
<1>3. SlotsWhole' /\ WatchdogScoped' /\ ChoiceStands' /\ RunStands'
    BY <1>0 DEF OtaInv, SlotsWhole, WatchdogScoped, ChoiceStands, RunStands
<1>4. RecordStands'
    BY <1>0, <1>2 DEF OtaInv, RecordStands, Excused
<1>5. Plan' /\ Confirming' /\ Updating'
    BY <1>0 DEF Plan, Confirming, Updating, Receiving, Idle
<1> QED
    BY <1>1, <1>3, <1>4, <1>5 DEF OtaInv

(* What the loader chooses by a reading: the slot its record calls active, *)
(* or the other one on trial.                                              *)
LEMMA ChoiceFacts ==
    ASSUME NEW r \in [0..1 -> Records], NEW c, c = ota_boot_choose(r), NEW cur, cur = ota_bootrec_current(r)
    PROVE  /\ c \in [slot : Slots, trial : BOOLEAN, current : -1..1]
           /\ c.current = cur
           /\ cur < 0 => c.slot = 0 /\ ~c.trial
           /\ cur >= 0 => IF c.trial THEN c.slot # r[cur].active ELSE c.slot = r[cur].active
<1>1. /\ cur \in -1..1 /\ (cur >= 0 => cur \in 0..1 /\ r[cur] \in Records)
    BY CurFacts
<1>2. CASE cur < 0
    BY <1>1, <1>2 DEF ota_boot_choose, NoRec, Slots
<1>3. CASE cur >= 0 /\ r[cur].pending \notin {NoSlot, r[cur].active} /\ ~r[cur].tried
  <2>1. c = [slot |-> r[cur].pending, trial |-> TRUE, current |-> cur]
    BY <1>1, <1>3 DEF ota_boot_choose
  <2> QED
    BY <1>1, <1>3, <2>1 DEF Records
<1>4. CASE cur >= 0 /\ ~(r[cur].pending \notin {NoSlot, r[cur].active} /\ ~r[cur].tried)
  <2>1. c = [slot |-> r[cur].active, trial |-> FALSE, current |-> cur]
    BY <1>1, <1>4 DEF ota_boot_choose
  <2> QED
    BY <1>1, <1>4, <2>1 DEF Records
<1> QED
    BY <1>1, <1>2, <1>3, <1>4

(* The loader chooses, and marks the record of its choice or does not.     *)
LEMMA ChooseStep ==
    ASSUME OtaInv, LoaderChoose
    PROVE  OtaInv'
<1>0. PICK r \in AsRead :
      /\ power = "loader" /\ power' = "chosen" /\ choice' = ota_boot_choose(r)
      /\ rec' = rec \/ rec' = Marked(rec, choice')
      /\ misled' = (misled \/ Misses(r) \/ rec' # Marked(rec, choice'))
      /\ hdr' = hdr /\ body' = body /\ run' = run /\ g' = g /\ todo' = todo /\ wdt' = wdt /\ vouched' = vouched
      /\ overActive' = overActive /\ cuts' = cuts
    BY DEF LoaderChoose
<1>1. TypeOK /\ rec \in [0..1 -> Records] /\ misled \in BOOLEAN
    BY DEF OtaInv, TypeOK
<1>2. /\ Cur \in -1..1 /\ (Cur >= 0 => Cur \in 0..1 /\ rec[Cur] \in Records)
      /\ r \in [0..1 -> Records]
      /\ ~Misses(r) => ota_bootrec_current(r) = Cur /\ (Cur >= 0 => r[Cur] = rec[Cur])
    BY <1>1, CurTyped, ReadFacts
<1>3. PICK c, cur : c = ota_boot_choose(r) /\ cur = ota_bootrec_current(r)
    OBVIOUS
<1>4. /\ c \in [slot : Slots, trial : BOOLEAN, current : -1..1]
      /\ c.current = cur
      /\ cur < 0 => c.slot = 0 /\ ~c.trial
      /\ cur >= 0 => IF c.trial THEN c.slot # r[cur].active ELSE c.slot = r[cur].active
    BY <1>2, <1>3, ChoiceFacts
<1>5. /\ choice' = c /\ (rec' = rec \/ rec' = Marked(rec, c)) /\ misled' \in BOOLEAN /\ (misled => misled')
      /\ ~misled' => ~misled /\ ~Misses(r)
    BY <1>0, <1>1, <1>3
<1>6. rec' \in [0..1 -> Records] /\ Cur' = Cur /\ (\A i \in 0..1 : rec'[i].active = rec[i].active)
  <2>1. CASE rec' = rec
    BY <1>1, <2>1 DEF Cur
  <2>2. CASE rec' = Marked(rec, c)
    <3>1. c.trial => c.current \in 0..1
        BY <1>4
    <3> QED
        BY <1>1, <2>2, <3>1, MarkKeeps DEF Cur
  <2> QED
    BY <1>5, <2>1, <2>2
<1>7. TypeOK'
    BY <1>0, <1>4, <1>5, <1>6 DEF OtaInv, TypeOK
<1>8. SlotsWhole' /\ WatchdogScoped' /\ RunStands'
    BY <1>0 DEF OtaInv, SlotsWhole, WatchdogScoped, RunStands
<1>9. RecordStands'
    BY <1>0, <1>2, <1>5, <1>6 DEF OtaInv, RecordStands, Excused
<1>10. ChoiceStands'
  <2>1. c.trial => c.current >= 0
    BY <1>4
  <2>2. ASSUME ~misled'
        PROVE  /\ c.current = Cur
               /\ Cur < 0 => c.slot = 0 /\ ~c.trial
               /\ Cur >= 0 => IF c.trial THEN c.slot # rec'[Cur].active ELSE c.slot = rec'[Cur].active
    <3>1. cur = Cur /\ (Cur >= 0 => r[Cur] = rec[Cur])
        BY <1>2, <1>3, <1>5, <2>2
    <3> QED
        BY <1>2, <1>4, <1>6, <3>1
  <2> QED
    BY <1>5, <1>6, <2>1, <2>2 DEF ChoiceStands
<1>11. Plan' /\ Confirming' /\ Updating'
  <2>1. todo = <<>> /\ g.st \notin {"receiving", "received"}
    BY <1>0 DEF OtaInv, Plan, Updating
  <2> QED
    BY <1>0, <2>1 DEF Plan, Confirming, Updating, Receiving
<1> QED
    BY <1>7, <1>8, <1>9, <1>10, <1>11 DEF OtaInv

(* The slot the loader boots is one it found an image in; with every       *)
(* header read there is one: the chosen slot, or else the other.           *)
LEMMA BootFacts ==
    ASSUME TypeOK, SlotsWhole, NEW r \in [0..1 -> Records], NEW c, c.slot \in Slots, c.current \in -1..1
    PROVE  /\ \A found \in SUBSET Headed : BootSlot(r, c, found) >= 0 =>
                BootSlot(r, c, found) \in Slots /\ hdr[BootSlot(r, c, found)] # NoImage
           /\ BootSlot(r, c, Headed) \in Slots /\ hdr[BootSlot(r, c, Headed)] # NoImage
           /\ hdr[c.slot] # NoImage => BootSlot(r, c, Headed) = c.slot
           /\ hdr[c.slot] = NoImage => BootSlot(r, c, Headed) = 1 - c.slot /\ BootSlot(r, c, Headed) # c.slot
<1> DEFINE act == IF c.current >= 0 THEN r[c.current].active ELSE 0
           nxt == IF act = c.slot THEN 1 - act ELSE act
<1>1. Slots = {0, 1}
    BY DEF Slots
<1>2. act \in {0, 1}
    BY <1>1 DEF Records
<1>3. nxt = 1 - c.slot /\ nxt \in {0, 1} /\ nxt # c.slot
    BY <1>1, <1>2
<1>4. \A found : BootSlot(r, c, found) = IF c.slot \in found THEN c.slot ELSE IF nxt \in found THEN nxt ELSE -1
    BY DEF BootSlot
<1> HIDE DEF act, nxt
<1>5. \A s \in Slots : s \in Headed <=> hdr[s] # NoImage
    BY DEF Headed
<1>6. hdr[c.slot] = NoImage => hdr[nxt] # NoImage
    BY <1>1, <1>3 DEF SlotsWhole
<1>7. ASSUME NEW found \in SUBSET Headed, BootSlot(r, c, found) >= 0
      PROVE  BootSlot(r, c, found) \in Slots /\ hdr[BootSlot(r, c, found)] # NoImage
    BY <1>1, <1>3, <1>4, <1>5, <1>7
<1> QED
    BY <1>1, <1>3, <1>4, <1>5, <1>6, <1>7

(* The loader starts what it has chosen, or what there is, or halts.       *)
LEMMA StartStep ==
    ASSUME OtaInv, LoaderStart
    PROVE  OtaInv'
<1>0. /\ power = "chosen" /\ TypeOK /\ SlotsWhole /\ rec \in [0..1 -> Records]
      /\ choice \in [slot : Slots, trial : BOOLEAN, current : -1..1]
    BY DEF OtaInv, TypeOK, LoaderStart
<1>start. PICK found \in SUBSET Headed, loads \in BOOLEAN :
        LET s     == BootSlot(rec, choice, found)
            trial == choice.trial /\ s = choice.slot
            told  == s = BootSlot(rec, choice, Headed) /\ loads
        IN  /\ IF s >= 0 /\ loads /\ body[s] = hdr[s]
               THEN /\ power' = "run" /\ wdt' = trial
                    /\ run' = [slot |-> s, trial |-> trial, confirmed |-> FALSE]
               ELSE power' = (IF told THEN "stuck" ELSE "halted") /\ UNCHANGED <<wdt, run>>
            /\ misled' = (misled \/ ~told)
    BY DEF LoaderStart
<1>1. PICK s, trial, told :
        /\ s = BootSlot(rec, choice, found)
        /\ trial = (choice.trial /\ s = choice.slot)
        /\ told = (s = BootSlot(rec, choice, Headed) /\ loads)
        /\ IF s >= 0 /\ loads /\ body[s] = hdr[s]
           THEN /\ power' = "run" /\ wdt' = trial
                /\ run' = [slot |-> s, trial |-> trial, confirmed |-> FALSE]
           ELSE power' = (IF told THEN "stuck" ELSE "halted") /\ UNCHANGED <<wdt, run>>
        /\ misled' = (misled \/ ~told)
    BY <1>start
<1>2. /\ choice' = NoRec /\ hdr' = hdr /\ body' = body /\ rec' = rec /\ g' = g /\ todo' = todo /\ vouched' = vouched
      /\ overActive' = overActive /\ cuts' = cuts
    BY DEF LoaderStart, flash
<1>3. PICK h : h = BootSlot(rec, choice, Headed)
    OBVIOUS
<1>4. /\ s >= 0 => s \in Slots /\ hdr[s] # NoImage /\ body[s] = hdr[s]
      /\ h \in Slots /\ hdr[h] # NoImage
      /\ hdr[choice.slot] # NoImage => h = choice.slot
      /\ hdr[choice.slot] = NoImage => h = 1 - choice.slot /\ h # choice.slot
    BY <1>0, <1>1, <1>3, BootFacts DEF SlotsWhole
<1>5. /\ Cur \in -1..1 /\ (Cur >= 0 => Cur \in 0..1 /\ rec[Cur] \in Records /\ rec[Cur].active \in Slots) /\ Cur' = Cur
    BY <1>0, <1>2, CurTyped DEF Cur
<1>6. trial \in BOOLEAN /\ told \in BOOLEAN /\ misled \in BOOLEAN
    BY <1>0, <1>1 DEF TypeOK
<1>7. misled' \in BOOLEAN /\ (misled => misled') /\ (~misled' => ~misled /\ told /\ s = h /\ s \in Slots)
    BY <1>1, <1>3, <1>4, <1>6
<1>8. \/ /\ s \in Slots /\ power' = "run" /\ wdt' = trial /\ run' = [slot |-> s, trial |-> trial, confirmed |-> FALSE]
         /\ hdr[s] # NoImage
      \/ power' = "halted" /\ wdt' = wdt /\ run' = run
  <2>1. ASSUME told PROVE s >= 0 /\ loads
    <3>1. s = h /\ loads
        BY <1>1, <1>3, <2>1
    <3> QED
        BY <1>4, <3>1 DEF Slots
  <2> QED
    BY <1>1, <1>4, <2>1
<1>9. TypeOK'
  <2>1. run' \in [slot : Slots, trial : BOOLEAN, confirmed : BOOLEAN] /\ wdt' \in BOOLEAN
    <3>1. CASE run' = run /\ wdt' = wdt
        BY <1>0, <3>1 DEF TypeOK
    <3>2. CASE s \in Slots /\ wdt' = trial /\ run' = [slot |-> s, trial |-> trial, confirmed |-> FALSE]
        BY <1>6, <3>2
    <3> QED
        BY <1>8, <3>1, <3>2
  <2> QED
    BY <1>0, <1>2, <1>7, <1>8, <2>1 DEF TypeOK, NoRec, Slots
<1>10. SlotsWhole' /\ WatchdogScoped' /\ ChoiceStands'
    BY <1>0, <1>2, <1>8 DEF SlotsWhole, WatchdogScoped, ChoiceStands
<1>11. ASSUME ~misled' PROVE (Cur < 0 => s = 0 /\ 0 \in vouched) /\ (trial \/ overActive \/ s \in vouched)
  <2>1. ~misled /\ s = h /\ (\A x \in vouched : hdr[x] # NoImage)
    BY <1>0, <1>7, <1>11 DEF SlotsWhole
  <2>2. /\ choice.current = Cur
        /\ Cur < 0 => choice.slot = 0 /\ ~choice.trial
        /\ Cur >= 0 => IF choice.trial THEN choice.slot # rec[Cur].active ELSE choice.slot = rec[Cur].active
    BY <1>0, <2>1 DEF OtaInv, ChoiceStands
  <2>3. CASE Cur < 0
    BY <1>4, <2>1, <2>2, <2>3 DEF OtaInv, RecordStands
  <2>4. CASE Cur >= 0
    <3> SUFFICES ASSUME ~trial, ~overActive PROVE s \in vouched
        BY <2>4, <1>5
    <3>1. rec[Cur].active \in vouched /\ hdr[rec[Cur].active] # NoImage
        BY <2>1, <2>4 DEF OtaInv, RecordStands, Excused
    <3>2. s = rec[Cur].active
        BY <1>0, <1>1, <1>4, <1>5, <2>1, <2>2, <2>4, <3>1 DEF Slots
    <3> QED
        BY <3>1, <3>2
  <2> QED
    BY <1>5, <2>3, <2>4
<1>12. RunStands'
    BY <1>2, <1>7, <1>8, <1>11 DEF RunStands, Excused
<1>13. RecordStands'
    BY <1>0, <1>2, <1>5, <1>7, <1>8, <1>11 DEF OtaInv, RecordStands, Excused
<1>14. Plan' /\ Confirming' /\ Updating'
  <2>1. todo = <<>> /\ g.st \notin {"receiving", "received"}
    BY <1>0 DEF OtaInv, Plan, Updating
  <2> QED
    BY <1>2, <2>1 DEF Plan, Confirming, Updating, Receiving
<1> QED
    BY <1>9, <1>10, <1>12, <1>13, <1>14 DEF OtaInv

-----------------------------------------------------------------------------
(* The commands: what each has planned.                                    *)
Still == /\ hdr' = hdr /\ body' = body /\ rec' = rec /\ power' = power /\ choice' = choice /\ run' = run
         /\ wdt' = wdt /\ vouched' = vouched /\ cuts' = cuts

LEMMA StillSame ==
    ASSUME Still
    PROVE  Cur' = Cur /\ Other' = Other /\ OnTrial' = OnTrial
BY DEF Still, Cur, Other, OnTrial

LEMMA CommandFrame ==
    ASSUME OtaInv, Running, Still, overActive' \in BOOLEAN, overActive => overActive',
           misled' \in BOOLEAN, misled => misled',
           g' \in [st : {"idle", "receiving", "received", "committed", "error"}, img : Images \cup {NoImage}],
           Plan', Confirming', Updating'
    PROVE  OtaInv'
<1>1. TypeOK'
    BY DEF OtaInv, TypeOK, Still
<1>2. SlotsWhole' /\ WatchdogScoped' /\ ChoiceStands'
    BY DEF OtaInv, SlotsWhole, WatchdogScoped, ChoiceStands, Still, Running
<1>3. RunStands'
    BY DEF OtaInv, RunStands, Excused, Still
<1>4. RecordStands'
    BY StillSame DEF OtaInv, RecordStands, Excused, Still
<1> QED
    BY <1>1, <1>2, <1>3, <1>4 DEF OtaInv

(* A command without flash steps. *)
LEMMA EmptyPlan == ASSUME todo' = <<>> PROVE Plan' /\ Confirming'
BY DEF Plan, Confirming

LEMMA PlainStep ==
    ASSUME OtaInv, Running, Still, todo' = <<>>, overActive' = overActive, misled' = misled,
           g' \in [st : {"idle", "receiving", "received", "committed", "error"}, img : Images \cup {NoImage}],
           g'.st \notin {"receiving", "received"} \/ (~OnTrial /\ g'.st = "receiving" /\ g'.img = NoImage)
    PROVE  OtaInv'
<1>1. Updating'
    BY StillSame DEF Updating, Receiving, Running, Still
<1>2. Plan' /\ Confirming'
    BY EmptyPlan
<1>3. overActive' \in BOOLEAN /\ misled' \in BOOLEAN
    BY DEF OtaInv, TypeOK
<1> QED
    BY <1>1, <1>2, <1>3, CommandFrame

(* write_record(): a sector erased, and the new record; the sector is the  *)
(* other one, and the record the next, unless the reading r misleads it.   *)
Writes(e, w, r, a, p) ==
    /\ e.do = "record" /\ w.do = "record"
    /\ ~Misses(r) => /\ e.i = w.i /\ w.i = (IF Cur = 0 THEN 1 ELSE 0)
                     /\ w.r.seq = (IF Cur >= 0 THEN (rec[Cur].seq + 1) % SeqMod ELSE 1)
    /\ ~e.r.valid /\ w.r.valid /\ w.r.active = a /\ w.r.pending = p

LEMMA RecordPlan ==
    ASSUME TypeOK, NEW x \in AsRead, NEW a \in Slots, NEW p \in Slots \cup {NoSlot}
    PROVE  \E e, w \in FlashSteps : write_record(x, a, p) = <<e, w>> /\ Writes(e, w, x, a, p)
<1> DEFINE cur == ota_bootrec_current(x)
           t == IF cur = 0 THEN 1 ELSE 0
           q == IF cur >= 0 THEN (x[cur].seq + 1) % SeqMod ELSE 1
           n == [valid |-> TRUE, seq |-> q, active |-> a, pending |-> p, tried |-> FALSE]
           e == [do |-> "record", i |-> t, r |-> None]
           w == [do |-> "record", i |-> t, r |-> n]
<1>0. x \in [0..1 -> Records] /\ (~Misses(x) => cur = Cur /\ (Cur >= 0 => x[Cur] = rec[Cur]))
    BY ReadFacts
<1>1. SeqMod \in Nat /\ SeqMod >= 4 /\ cur \in -1..1 /\ (cur >= 0 => x[cur] \in Records)
    BY <1>0, OtaAssumption, CurFacts
<1>2. q \in 0..(SeqMod - 1)
  <2>1. CASE cur >= 0
    <3>1. x[cur].seq \in 0..(SeqMod - 1)
        BY <1>1, <2>1 DEF Records
    <3> QED
        BY <1>1, <2>1, <3>1, ModSmall
  <2>2. CASE ~(cur >= 0)
    BY <1>1, <2>2
  <2> QED
    BY <2>1, <2>2
<1>3. t \in 0..1 /\ (~Misses(x) => t = (IF Cur = 0 THEN 1 ELSE 0))
    BY <1>0
<1>4. ~Misses(x) => q = (IF Cur >= 0 THEN (rec[Cur].seq + 1) % SeqMod ELSE 1)
    BY <1>0
<1>5. write_record(x, a, p) = <<e, w>>
    BY DEF write_record
<1> HIDE DEF q, t
<1>6. n \in Records /\ n.valid /\ n.seq = q /\ n.active = a /\ n.pending = p
  <2>1. n = [valid |-> TRUE, seq |-> q, active |-> a, pending |-> p, tried |-> FALSE]
    OBVIOUS
  <2> HIDE DEF n
  <2> QED
    BY <1>2, <2>1 DEF Records
<1> HIDE DEF n
<1>7. e \in FlashSteps /\ w \in FlashSteps
    BY <1>3, <1>6, NoneTyped DEF FlashSteps
<1>8. /\ e.do = "record" /\ w.do = "record" /\ e.i = t /\ w.i = t /\ e.r = None /\ w.r = n
    OBVIOUS
<1> HIDE DEF e, w
<1>9. Writes(e, w, x, a, p)
    BY <1>3, <1>4, <1>6, <1>8, NoneTyped DEF Writes
<1> QED
    BY <1>5, <1>7, <1>9

(* `begin`, `abort` and what is refused. *)
LEMMA BeginStep == ASSUME OtaInv, Begin \/ Abort PROVE OtaInv'
<1>1. /\ Running /\ Still /\ todo' = <<>> /\ overActive' = overActive /\ misled' = misled
    BY DEF Begin, Abort, Command, Still, history
<1>2. /\ g' \in [st : {"idle", "receiving", "received", "committed", "error"}, img : Images \cup {NoImage}]
      /\ g'.st \notin {"receiving", "received"} \/ (~OnTrial /\ g'.st = "receiving" /\ g'.img = NoImage)
  <2>1. CASE g' = [g EXCEPT !.st = "error"]
    BY <2>1 DEF OtaInv, TypeOK
  <2>2. CASE ~OnTrial /\ g' = [st |-> "receiving", img |-> NoImage]
    BY <2>2
  <2>3. CASE g' = Idle
    BY <2>3 DEF Idle
  <2> QED
    BY <2>1, <2>2, <2>3 DEF Begin, Abort
<1> QED
    BY <1>1, <1>2, PlainStep

(* A command is refused or fails before its first flash step. *)
LEMMA ErrorStep ==
    ASSUME OtaInv, Running, Command(<<>>), g' = [g EXCEPT !.st = "error"], UNCHANGED history
    PROVE  OtaInv'
<1>1. /\ Still /\ todo' = <<>> /\ overActive' = overActive /\ misled' = misled
    BY DEF Command, Still, history
<1>2. /\ g' \in [st : {"idle", "receiving", "received", "committed", "error"}, img : Images \cup {NoImage}]
      /\ g'.st = "error"
    BY DEF OtaInv, TypeOK
<1> QED
    BY <1>1, <1>2, PlainStep

(* The header of an update is accepted. *)
LEMMA HeaderStep == ASSUME OtaInv, NEW img \in Images, Header(img) PROVE OtaInv'
<1>1. Running /\ g.st = "receiving" /\ g.img = NoImage
    BY DEF Header
<1>2. CASE g' = [g EXCEPT !.st = "error"] /\ Command(<<>>) /\ UNCHANGED history
    BY <1>1, <1>2, ErrorStep
<1>3. ASSUME NEW q \in AsRead, NEW withdraws \in BOOLEAN,
             g' = [g EXCEPT !.img = img],
             Command((IF withdraws THEN write_record(q, run.slot, NoSlot) ELSE <<>>)
                     \o <<[do |-> "hdr", img |-> NoImage]>>),
             overActive' = (overActive \/ (Cur >= 0 /\ rec[Cur].active = Other)),
             misled' = (misled \/ (withdraws /\ Misses(q)))
      PROVE  OtaInv'
  <2>0. TypeOK /\ SlotsWhole /\ power = "run" /\ todo = <<>> /\ ~OnTrial /\ misled \in BOOLEAN
    BY <1>1 DEF OtaInv, Running, Updating, TypeOK
  <2>1. Still /\ Cur' = Cur /\ Other' = Other /\ OnTrial' = OnTrial
    BY <1>3, StillSame DEF Command, Still
  <2>2. PICK h : h = [do |-> "hdr", img |-> NoImage]
    OBVIOUS
  <2>3. h \in FlashSteps /\ h.do = "hdr" /\ h.img = NoImage
    BY <2>2 DEF FlashSteps, AnyImage
  <2>4. ActiveHere'
    BY <1>3, <2>0, <2>1, OtherSlot, CurTyped DEF ActiveHere, Excused, Still
  <2>5. Ending(h)' /\ (h.do = "hdr" => HdrStep(h)')
    BY <2>3, <2>4 DEF Ending, HdrStep
  <2>6. PICK e, w \in FlashSteps :
          write_record(q, run.slot, NoSlot) = <<e, w>> /\ Writes(e, w, q, run.slot, NoSlot)
    BY <2>0, OtherSlot, RecordPlan
  <2>7. \/ withdraws /\ todo' = <<e, w, h>>
        \/ todo' = <<h>>
    <3>1. <<>> \o <<h>> = <<h>> /\ <<e, w>> \o <<h>> = <<e, w, h>>
        BY <2>3, <2>6, Concats
    <3> QED
        BY <1>3, <2>2, <2>6, <3>1 DEF Command
  <2>8. Updating'
    <3>1. g'.st = "receiving" /\ g'.img = img
        BY <1>1, <1>3 DEF OtaInv, TypeOK
    <3>2. todo' # <<>>
        BY <2>7
    <3> QED
        BY <2>0, <2>1, <3>1, <3>2 DEF Updating, Still
  <2>9. Plan' /\ Confirming'
    <3>1. CASE todo' = <<h>>
      <4>1. todo' \in Seq(FlashSteps) /\ Len(todo') = 1 /\ todo'[1] = h /\ todo' # <<>>
        BY <2>3, <3>1
      <4>2. Plan'
        BY <2>0, <2>1, <2>3, <2>4, <4>1 DEF Plan, Still, Ending, HdrStep
      <4> QED
        BY <2>3, <4>1, <4>2 DEF Confirming
    <3>2. CASE withdraws /\ todo' = <<e, w, h>>
      <4>1. /\ todo' \in Seq(FlashSteps) /\ Len(todo') = 3 /\ todo'[1] = e /\ todo'[2] = w /\ todo'[3] = h /\ todo' # <<>>
        BY <2>3, <2>6, <3>2
      <4>2. hdr'[run.slot] # NoImage /\ rec' = rec /\ run' = run /\ power' = "run"
        BY <2>0, <2>1 DEF SlotsWhole, Still
      <4>3. ~misled' => ~Misses(q)
        BY <1>3, <2>0, <3>2
      <4>4. RecordStep(e)' /\ RecordStep(w)' /\ e.do = "record" /\ w.do = "record" /\ ~e.r.valid /\ w.r.active = run.slot
        BY <2>1, <2>6, <4>2, <4>3 DEF RecordStep, Writes
      <4>5. Plan'
        BY <2>1, <2>3, <2>4, <4>1, <4>2, <4>4 DEF Plan, Ending, HdrStep, RecordStep
      <4> QED
        BY <2>3, <4>1, <4>4, <4>5 DEF Confirming
    <3> QED
        BY <2>7, <3>1, <3>2
  <2>10. /\ overActive' \in BOOLEAN /\ (overActive => overActive') /\ misled' \in BOOLEAN /\ (misled => misled')
         /\ g' \in [st : {"idle", "receiving", "received", "committed", "error"}, img : Images \cup {NoImage}]
    BY <1>3 DEF OtaInv, TypeOK
  <2> QED
    BY <1>1, <2>1, <2>8, <2>9, <2>10, CommandFrame
<1>4. CASE \E r \in AsRead, q \in AsRead :
            LET cur       == ota_bootrec_current(rec)
                seen      == ota_bootrec_current(r)
                withdraws == seen >= 0 /\ r[seen].pending = Other
            IN  /\ g' = [g EXCEPT !.img = img]
                /\ Command((IF withdraws THEN write_record(q, run.slot, NoSlot) ELSE <<>>)
                           \o <<[do |-> "hdr", img |-> NoImage]>>)
                /\ overActive' = (overActive \/ (cur >= 0 /\ rec[cur].active = Other))
                /\ misled' = (misled \/ (withdraws /\ Misses(q)))
  <2>1. PICK q \in AsRead, withdraws \in BOOLEAN :
          /\ g' = [g EXCEPT !.img = img]
          /\ Command((IF withdraws THEN write_record(q, run.slot, NoSlot) ELSE <<>>)
                     \o <<[do |-> "hdr", img |-> NoImage]>>)
          /\ overActive' = (overActive \/ (Cur >= 0 /\ rec[Cur].active = Other))
          /\ misled' = (misled \/ (withdraws /\ Misses(q)))
    BY <1>4 DEF Cur
  <2> QED
    BY <2>1, <1>3
<1> QED
    BY <1>2, <1>4 DEF Header

(* The parts of an update go into a slot whose header is erased. *)
LEMMA PartsStep == ASSUME OtaInv, Parts PROVE OtaInv'
<1>0. /\ Running /\ g.st = "receiving" /\ g.img # NoImage /\ g' = g /\ overActive' = overActive /\ misled' = misled
      /\ TypeOK /\ SlotsWhole /\ power = "run" /\ todo = <<>> /\ ~OnTrial
    BY DEF Parts, OtaInv, Running, Updating, history
<1>1. hdr[Other] = NoImage /\ ActiveHere /\ g.img \in AnyImage
    BY <1>0 DEF OtaInv, Updating, Receiving, TypeOK, AnyImage
<1>2. Still /\ Cur' = Cur /\ Other' = Other /\ OnTrial' = OnTrial
    BY StillSame DEF Parts, Command, Still
<1>3. ActiveHere' /\ hdr'[Other'] = NoImage /\ power' = "run"
    BY <1>0, <1>1, <1>2 DEF ActiveHere, Excused, Still
<1>4. PICK b, c, r, x :
        /\ b = [do |-> "body", img |-> NoImage] /\ c = [do |-> "body", img |-> g.img]
        /\ r = [do |-> "set", st |-> "received"] /\ x = [do |-> "set", st |-> "error"]
    OBVIOUS
<1>5. /\ b \in FlashSteps /\ c \in FlashSteps /\ r \in FlashSteps /\ x \in FlashSteps
      /\ b.do = "body" /\ c.do = "body" /\ r.do = "set" /\ x.do = "set"
    BY <1>1, <1>4 DEF FlashSteps, AnyImage
<1>6. todo' = <<b, c, r>> \/ todo' = <<b, x>>
  <2>1. <<b, c>> \o <<r>> = <<b, c, r>> /\ <<b>> \o <<x>> = <<b, x>>
    BY <1>5, Concats
  <2>2. todo' = <<b, c>> \o <<r>> \/ todo' = <<b>> \o <<x>>
    BY <1>4 DEF Parts, Command, Set
  <2> QED
    BY <2>1, <2>2
<1>7. CASE todo' = <<b, c, r>>
  <2>1. todo' \in Seq(FlashSteps) /\ Len(todo') = 3 /\ todo'[1] = b /\ todo'[2] = c /\ todo'[3] = r /\ todo' # <<>>
    BY <1>5, <1>7
  <2>2. Plan' /\ Confirming'
    BY <1>0, <1>2, <1>3, <1>5, <2>1 DEF Plan, Confirming, Ending, BodyStep, Receiving
  <2>3. Updating'
    BY <1>0, <1>2, <1>3, <2>1 DEF OtaInv, Updating
  <2> QED
    BY <1>0, <1>2, <2>2, <2>3, CommandFrame DEF TypeOK
<1>8. CASE todo' = <<b, x>>
  <2>1. todo' \in Seq(FlashSteps) /\ Len(todo') = 2 /\ todo'[1] = b /\ todo'[2] = x /\ todo' # <<>>
    BY <1>5, <1>8
  <2>2. Plan' /\ Confirming'
    BY <1>0, <1>2, <1>3, <1>5, <2>1 DEF Plan, Confirming, Ending, BodyStep, Receiving
  <2>3. Updating'
    BY <1>0, <1>2, <1>3, <2>1 DEF OtaInv, Updating
  <2> QED
    BY <1>0, <1>2, <2>2, <2>3, CommandFrame DEF TypeOK
<1> QED
    BY <1>6, <1>7, <1>8

(* `commit`: the header, then the record that asks for a trial beside an   *)
(* image that was vouched for.                                             *)
LEMMA CommitStep == ASSUME OtaInv, Commit PROVE OtaInv'
<1>0. /\ Running /\ g.st = "received" /\ g.img # NoImage /\ overActive' = overActive
      /\ TypeOK /\ SlotsWhole /\ power = "run" /\ todo = <<>> /\ ~OnTrial
    BY DEF Commit, OtaInv, Running, Updating
<1>1. CASE g' = [g EXCEPT !.st = "error"] /\ Command(<<>>) /\ UNCHANGED misled
    BY <1>0, <1>1, ErrorStep DEF history
<1>2. ASSUME NEW x \in AsRead, body[Other] = g.img, UNCHANGED g,
             Command(<<[do |-> "hdr", img |-> g.img]>> \o write_record(x, run.slot, Other) \o Set("committed")),
             misled' = (misled \/ Misses(x))
      PROVE  OtaInv'
  <2>0. Still /\ Cur' = Cur /\ Other' = Other /\ OnTrial' = OnTrial /\ g' = g
    BY <1>2, StillSame DEF Command, Still
  <2>1. ActiveHere /\ g.img \in AnyImage /\ (Excused \/ run.slot \in vouched)
    BY <1>0 DEF OtaInv, Updating, Receiving, TypeOK, AnyImage, RunStands, OnTrial
  <2>2. /\ misled' \in BOOLEAN /\ (misled => misled') /\ (Excused => Excused') /\ (~misled' => ~Misses(x))
        /\ overActive' \in BOOLEAN
    BY <1>0, <1>2 DEF Excused, TypeOK
  <2>3. ActiveHere' /\ power' = "run"
    BY <1>0, <2>0, <2>1, <2>2 DEF ActiveHere, Still
  <2>4. PICK h, c : h = [do |-> "hdr", img |-> g.img] /\ c = [do |-> "set", st |-> "committed"]
    OBVIOUS
  <2>5. h \in FlashSteps /\ c \in FlashSteps /\ h.do = "hdr" /\ h.img = g.img /\ c.do = "set" /\ c.st = "committed"
    BY <2>1, <2>4 DEF FlashSteps
  <2>6. PICK e, w \in FlashSteps : write_record(x, run.slot, Other) = <<e, w>> /\ Writes(e, w, x, run.slot, Other)
    BY <1>0, OtherSlot, RecordPlan
  <2>7. todo' = <<h, e, w, c>>
    <3>1. todo' = <<h>> \o <<e, w>> \o <<c>>
        BY <1>2, <2>4, <2>6 DEF Command, Set
    <3>2. h \in FlashSteps /\ e \in FlashSteps /\ w \in FlashSteps /\ c \in FlashSteps
        BY <2>5, <2>6
    <3>3. <<h>> \o <<e, w>> \o <<c>> = <<h, e, w, c>>
        BY ONLY <3>2, FourSteps
    <3> QED
        BY <3>1, <3>3
  <2>8. /\ todo' \in Seq(FlashSteps) /\ Len(todo') = 4 /\ todo'[1] = h /\ todo'[2] = e /\ todo'[3] = w /\ todo'[4] = c
        /\ todo' # <<>>
    BY <2>5, <2>7
  <2>9. /\ hdr'[run.slot] # NoImage /\ rec' = rec /\ run' = run /\ body' = body
        /\ (Excused' \/ run.slot \in vouched')
    BY <1>0, <2>0, <2>1, <2>2 DEF SlotsWhole, Still
  <2>10. /\ RecordStep(e)' /\ RecordStep(w)' /\ e.do = "record" /\ w.do = "record"
         /\ ~e.r.valid /\ w.r.active = run.slot /\ w.r.pending # NoSlot
    BY <1>0, <2>0, <2>2, <2>6, <2>9, OtherSlot DEF RecordStep, Writes, NoSlot
  <2>11. Plan'
    <3>1. \A i \in 1..Len(todo') : i = 1 \/ i = 2 \/ i = 3 \/ i = 4
        BY <2>8
    <3>2. HdrStep(h)'
        BY <1>2, <2>0, <2>3, <2>5, <2>9 DEF HdrStep
    <3>3. Ending(c)'
        BY <1>0, <2>0, <2>5 DEF Ending, Receiving
    <3> QED
        BY <1>0, <2>0, <2>3, <2>5, <2>8, <2>9, <2>10, <3>1, <3>2, <3>3 DEF Plan, Ending, HdrStep, RecordStep
  <2>12. Confirming'
    BY <2>5, <2>8, <2>10 DEF Confirming
  <2>13. Updating'
    BY <1>0, <2>0, <2>3, <2>8 DEF OtaInv, Updating
  <2> QED
    BY <1>0, <2>0, <2>2, <2>11, <2>12, <2>13, CommandFrame DEF TypeOK
<1> QED
    BY <1>1, <1>2 DEF Commit

(* `switch`: the record stands for the image in the other slot. *)
LEMMA SwitchStep == ASSUME OtaInv, Switch PROVE OtaInv'
<1>0. /\ Running /\ overActive' = overActive /\ TypeOK /\ SlotsWhole /\ power = "run" /\ todo = <<>>
    BY DEF Switch, OtaInv, Running
<1>1. CASE g' = [g EXCEPT !.st = "error"] /\ Command(<<>>) /\ UNCHANGED misled
    BY <1>0, <1>1, ErrorStep DEF history
<1>2. ASSUME NEW x \in AsRead, ~OnTrial, Other \in Headed, UNCHANGED g,
             Command(write_record(x, Other, NoSlot)), misled' = (misled \/ Misses(x))
      PROVE  OtaInv'
  <2>0. Still /\ Cur' = Cur /\ Other' = Other /\ OnTrial' = OnTrial /\ g' = g
    BY <1>2, StillSame DEF Command, Still
  <2>1. ~Receiving' /\ hdr[Other] # NoImage
    BY <1>0, <1>2, <2>0 DEF OtaInv, Updating, Receiving, Headed
  <2>2. /\ misled' \in BOOLEAN /\ (misled => misled') /\ (~misled' => ~Misses(x)) /\ overActive' \in BOOLEAN
    BY <1>0, <1>2 DEF TypeOK
  <2>3. PICK e, w \in FlashSteps : write_record(x, Other, NoSlot) = <<e, w>> /\ Writes(e, w, x, Other, NoSlot)
    BY <1>0, OtherSlot, RecordPlan
  <2>4. todo' \in Seq(FlashSteps) /\ Len(todo') = 2 /\ todo'[1] = e /\ todo'[2] = w /\ todo' # <<>>
    <3>1. todo' = <<e, w>>
        BY <1>2, <2>3 DEF Command
    <3> QED
        BY <3>1
  <2>5. hdr'[Other] # NoImage /\ rec' = rec /\ run' = run /\ power' = "run"
    BY <1>0, <2>0, <2>1 DEF Still
  <2>6. RecordStep(e)' /\ RecordStep(w)' /\ e.do = "record" /\ w.do = "record" /\ ~e.r.valid
    BY <2>0, <2>2, <2>3, <2>5 DEF RecordStep, Writes
  <2>7. Plan'
    BY <2>0, <2>1, <2>4, <2>5, <2>6 DEF Plan, Ending, RecordStep
  <2>8. Confirming' /\ Updating'
    BY <1>0, <2>0, <2>4, <2>5, <2>6 DEF OtaInv, Confirming, Updating
  <2> QED
    BY <1>0, <2>0, <2>2, <2>7, <2>8, CommandFrame DEF TypeOK
<1> QED
    BY <1>1, <1>2 DEF Switch

(* `confirm`: the record stands for the image on trial. *)
LEMMA ConfirmStep == ASSUME OtaInv, Confirm PROVE OtaInv'
<1>0. PICK x \in AsRead :
      /\ Running /\ overActive' = overActive /\ TypeOK /\ SlotsWhole /\ power = "run" /\ todo = <<>> /\ g' = g
      /\ Command(write_record(x, run.slot, NoSlot) \o <<[do |-> "confirmed"]>>)
      /\ misled' = (misled \/ Misses(x))
    BY DEF Confirm, OtaInv, Running
<1>1. Still /\ Cur' = Cur /\ Other' = Other /\ OnTrial' = OnTrial
    BY <1>0, StillSame DEF Command, Still
<1>2. ~Receiving'
    BY <1>0 DEF Confirm, OtaInv, Updating, Receiving
<1>3. /\ misled' \in BOOLEAN /\ (misled => misled') /\ (~misled' => ~Misses(x)) /\ overActive' \in BOOLEAN
    BY <1>0 DEF TypeOK
<1>4. PICK c : c = [do |-> "confirmed"]
    OBVIOUS
<1>5. c \in FlashSteps /\ c.do = "confirmed"
    BY <1>4 DEF FlashSteps
<1>6. PICK e, w \in FlashSteps : write_record(x, run.slot, NoSlot) = <<e, w>> /\ Writes(e, w, x, run.slot, NoSlot)
    BY <1>0, OtherSlot, RecordPlan
<1>7. /\ todo' \in Seq(FlashSteps) /\ Len(todo') = 3 /\ todo'[1] = e /\ todo'[2] = w /\ todo'[3] = c /\ todo' # <<>>
  <2>1. todo' = <<e, w>> \o <<c>>
    BY <1>0, <1>4, <1>6 DEF Command
  <2>2. todo' = <<e, w, c>>
    BY <1>5, <1>6, <2>1, Concats
  <2> QED
    BY <1>5, <1>6, <2>2
<1>8. hdr'[run.slot] # NoImage /\ rec' = rec /\ run' = run /\ power' = "run"
    BY <1>0, <1>1 DEF SlotsWhole, Still
<1>9. /\ RecordStep(e)' /\ RecordStep(w)' /\ e.do = "record" /\ w.do = "record"
      /\ ~e.r.valid /\ w.r.valid /\ w.r.active = run.slot /\ w.r.pending = NoSlot
    BY <1>1, <1>3, <1>6, <1>8 DEF RecordStep, Writes
<1>10. Plan'
    BY <1>1, <1>2, <1>5, <1>7, <1>8, <1>9 DEF Plan, Ending, RecordStep
<1>11. Confirming'
  <2>1. ASSUME NEW i \in 1..Len(todo'), todo'[i].do = "confirmed"
        PROVE  i = 3 /\ 2 \in 1..(i - 1)
    BY <1>5, <1>7, <1>9, <2>1
  <2> QED
    BY <1>7, <1>8, <1>9, <2>1 DEF Confirming
<1>12. Updating'
    BY <1>0, <1>1, <1>7, <1>8 DEF OtaInv, Updating
<1> QED
    BY <1>0, <1>1, <1>3, <1>10, <1>11, <1>12, CommandFrame DEF TypeOK

-----------------------------------------------------------------------------
(* A command's flash steps.  What is left of it after the first.           *)
LEMMA Rest ==
    ASSUME Plan, todo # <<>>
    PROVE  /\ Len(todo) \in Nat \ {0} /\ Head(todo) = todo[1] /\ todo[1] \in FlashSteps
           /\ Tail(todo) \in Seq(FlashSteps) /\ Len(Tail(todo)) = Len(todo) - 1
           /\ \A i \in 1..Len(Tail(todo)) : Tail(todo)[i] = todo[i + 1] /\ i + 1 \in 1..Len(todo)
           /\ Tail(todo) # <<>> => /\ Len(Tail(todo)) \in 1..Len(Tail(todo))
                                   /\ Tail(todo)[Len(Tail(todo))] = todo[Len(todo)]
           /\ Tail(todo) = <<>> => Len(todo) = 1
<1>1. todo \in Seq(FlashSteps)
    BY DEF Plan
<1>2. Len(todo) \in Nat \ {0} /\ Head(todo) = todo[1] /\ todo[1] \in FlashSteps
    BY <1>1
<1>3. /\ Tail(todo) \in Seq(FlashSteps) /\ Len(Tail(todo)) = Len(todo) - 1
      /\ \A i \in 1..Len(Tail(todo)) : Tail(todo)[i] = todo[i + 1]
    BY <1>1, HeadTailProperties
<1>4. \A i \in 1..Len(Tail(todo)) : i + 1 \in 1..Len(todo)
    BY <1>2, <1>3
<1>5. Tail(todo) # <<>> => Len(Tail(todo)) \in 1..Len(Tail(todo))
    BY <1>3, EmptySeq
<1>6. Tail(todo) = <<>> => Len(Tail(todo)) = 0
    BY EmptySeq
<1> QED
    BY <1>2, <1>3, <1>4, <1>5, <1>6

(* What a flash step leaves as it was, and what the flash must still be.   *)
Flashing == /\ power = "run" /\ todo # <<>>
            /\ power' = power /\ choice' = choice /\ overActive' = overActive /\ misled' = misled
            /\ cuts' = cuts

Whole == TypeOK /\ WatchdogScoped /\ SlotsWhole /\ RecordStands /\ ChoiceStands /\ RunStands

(* The plan's first step, by its kind. *)
LEMMA FirstStep ==
    ASSUME OtaInv, Flashing, NEW step, step = Head(todo)
    PROVE  /\ TypeOK /\ step = todo[1] /\ step \in FlashSteps /\ 1 \in 1..Len(todo) /\ Len(todo) \in 1..Len(todo)
           /\ Ending(todo[Len(todo)])
           /\ step.do = "hdr"    => HdrStep(step) /\ \A j \in 1..Len(todo) : todo[j].do # "body"
           /\ step.do = "body"   => BodyStep(step) /\ \A j \in 1..Len(todo) : todo[j].do # "hdr"
           /\ step.do = "record" => RecordStep(step)
           /\ step.do = "set"    => 1 = Len(todo) /\ ~OnTrial /\ g.img # NoImage
           /\ step.do = "confirmed" => 1 = Len(todo)
<1>1. Plan /\ todo # <<>> /\ TypeOK
    BY DEF OtaInv, Flashing
<1>2. Len(todo) \in Nat \ {0} /\ step = todo[1] /\ step \in FlashSteps
    BY <1>1, Rest
<1>3. 1 \in 1..Len(todo) /\ Len(todo) \in 1..Len(todo)
    BY <1>2
<1>4. ASSUME step.do = "body", NEW j \in 1..Len(todo), todo[j].do = "hdr" PROVE FALSE
    BY <1>1, <1>2, <1>3, <1>4 DEF Plan
<1> QED
    BY <1>1, <1>2, <1>3, <1>4 DEF Plan

(* The header of the slot that does not run: erased, or written over the   *)
(* body it describes.                                                      *)
LEMMA HdrWrite ==
    ASSUME OtaInv, Flashing, NEW step, step = Head(todo), step.do = "hdr", NEW x \in {NoImage, step.img},
           \/ hdr' = hdr /\ vouched' = vouched
           \/ hdr' = [hdr EXCEPT ![Other] = x] /\ vouched' = vouched \ {Other},
           body' = body, rec' = rec, run' = run, wdt' = wdt,
           g' \in [st : {"idle", "receiving", "received", "committed", "error"}, img : Images \cup {NoImage}]
    PROVE  /\ Whole' /\ Cur' = Cur /\ Other' = Other /\ OnTrial' = OnTrial /\ ActiveHere /\ ActiveHere'
           /\ hdr'[run.slot] = hdr[run.slot] /\ hdr[run.slot] # NoImage /\ (run.slot \in vouched => run.slot \in vouched')
<1>1. /\ TypeOK /\ step \in FlashSteps /\ HdrStep(step)
    BY FirstStep
<1>2. /\ run.slot \in Slots /\ Other \in Slots /\ Other # run.slot /\ (\A s \in Slots : s = Other \/ s = run.slot)
      /\ Slots = {0, 1}
    BY <1>1, OtherSlot
<1>3. x \in Images \cup {NoImage}
    BY <1>1, StepTyped DEF AnyImage
<1>4. /\ hdr' \in [Slots -> Images \cup {NoImage}] /\ hdr'[run.slot] = hdr[run.slot]
      /\ hdr'[Other] = hdr[Other] \/ hdr'[Other] = x
      /\ vouched' \subseteq vouched /\ (run.slot \in vouched => run.slot \in vouched')
      /\ Other \in vouched' => hdr' = hdr
    BY <1>1, <1>2, <1>3 DEF TypeOK
<1>5. TypeOK'
    BY <1>1, <1>4 DEF TypeOK, Flashing
<1>6. /\ Cur' = Cur /\ Other' = Other /\ OnTrial' = OnTrial /\ power = "run" /\ power' = "run" /\ overActive' = overActive
      /\ misled' = misled
    BY DEF Cur, Other, OnTrial, Flashing
<1>7. ActiveHere /\ ActiveHere'
    BY <1>1, <1>6 DEF HdrStep, ActiveHere, Excused
<1>8. SlotsWhole'
  <2>1. \A s \in Slots : hdr'[s] # NoImage => body[s] = hdr'[s]
    BY <1>1, <1>2, <1>4 DEF OtaInv, SlotsWhole, HdrStep
  <2>2. hdr[run.slot] # NoImage
    BY <1>6 DEF OtaInv, SlotsWhole
  <2>3. ASSUME NEW s \in vouched' PROVE hdr'[s] # NoImage
    <3>1. s \in vouched /\ s \in Slots /\ hdr[s] # NoImage
        BY <1>1, <1>4 DEF OtaInv, SlotsWhole, TypeOK
    <3>2. CASE s = Other
        BY <1>4, <3>1, <3>2
    <3>3. CASE s = run.slot
        BY <1>4, <2>2, <3>3
    <3> QED
        BY <1>2, <3>1, <3>2, <3>3
  <2> QED
    BY <1>2, <1>4, <1>6, <2>1, <2>2, <2>3 DEF SlotsWhole
<1>9. RecordStands'
    BY <1>4, <1>6, <1>7 DEF OtaInv, RecordStands, ActiveHere, Excused
<1>10. RunStands' /\ WatchdogScoped' /\ ChoiceStands'
    BY <1>4, <1>6 DEF OtaInv, RunStands, WatchdogScoped, ChoiceStands, Excused
<1>11. hdr[run.slot] # NoImage
    BY <1>6 DEF OtaInv, SlotsWhole
<1> QED
    BY <1>4, <1>5, <1>6, <1>7, <1>8, <1>9, <1>10, <1>11 DEF Whole

(* The parts of the slot that does not run, while its header is erased. *)
LEMMA BodyWrite ==
    ASSUME OtaInv, Flashing, NEW step, step = Head(todo), step.do = "body",
           NEW x \in {NoImage, step.img}, body' = body \/ body' = [body EXCEPT ![Other] = x],
           hdr' = hdr, rec' = rec, run' = run, wdt' = wdt, vouched' = vouched,
           g' \in [st : {"idle", "receiving", "received", "committed", "error"}, img : Images \cup {NoImage}]
    PROVE  Whole' /\ Cur' = Cur /\ Other' = Other /\ OnTrial' = OnTrial /\ ActiveHere' = ActiveHere
<1>1. /\ TypeOK /\ step \in FlashSteps /\ BodyStep(step)
    BY FirstStep
<1>2. /\ run.slot \in Slots /\ Other \in Slots /\ Other # run.slot /\ (\A s \in Slots : s = Other \/ s = run.slot)
      /\ Slots = {0, 1}
    BY <1>1, OtherSlot
<1>3. x \in Images \cup {NoImage}
    BY <1>1, StepTyped DEF AnyImage
<1>4. body' \in [Slots -> Images \cup {NoImage}] /\ body'[run.slot] = body[run.slot]
    BY <1>1, <1>2, <1>3 DEF TypeOK
<1>5. TypeOK'
    BY <1>1, <1>4 DEF TypeOK, Flashing
<1>6. Cur' = Cur /\ Other' = Other /\ OnTrial' = OnTrial /\ power = "run" /\ power' = "run" /\ overActive' = overActive /\ misled' = misled
    BY DEF Cur, Other, OnTrial, Flashing
<1>7. ActiveHere' = ActiveHere
    BY <1>6 DEF ActiveHere, Excused
<1>8. SlotsWhole'
    BY <1>1, <1>2, <1>4, <1>6 DEF OtaInv, SlotsWhole, BodyStep
<1>9. RecordStands' /\ RunStands' /\ WatchdogScoped' /\ ChoiceStands'
    BY <1>6 DEF OtaInv, RecordStands, RunStands, WatchdogScoped, ChoiceStands, Excused
<1> QED
    BY <1>5, <1>6, <1>7, <1>8, <1>9 DEF Whole

(* A record sector: erased, or with the record that succeeds the current   *)
(* one.                                                                    *)
LEMMA RecordWrite ==
    ASSUME OtaInv, Flashing, NEW step, step = Head(todo), step.do = "record",
           \/ rec' = rec /\ vouched' = vouched
           \/ rec' = [rec EXCEPT ![step.i] = None] /\ vouched' = Vouched(step)
           \/ rec' = [rec EXCEPT ![step.i] = step.r] /\ vouched' = Vouched(step),
           hdr' = hdr, body' = body, run' = run, wdt' = wdt,
           g' \in [st : {"idle", "receiving", "received", "committed", "error"}, img : Images \cup {NoImage}]
    PROVE  /\ Whole' /\ Other' = Other /\ OnTrial' = OnTrial /\ vouched \subseteq vouched' /\ misled' = misled
           /\ \/ misled
              \/ Cur' = Cur /\ (Cur >= 0 => rec'[Cur] = rec[Cur]) /\ (rec' = [rec EXCEPT ![step.i] = step.r] => ~step.r.valid \/ rec' = rec)
              \/ step.r.valid /\ Cur' = step.i /\ step.i \in 0..1 /\ rec'[Cur'] = step.r
<1>1. /\ TypeOK /\ step \in FlashSteps /\ RecordStep(step) /\ rec \in [0..1 -> Records]
    BY FirstStep DEF TypeOK
<1>2. step.i \in 0..1 /\ step.r \in Records /\ step.r.active \in Slots
    BY <1>1, StepTyped DEF Records
<1>3. None \in Records /\ ~None.valid
    BY NoneTyped
<1>4. /\ Other' = Other /\ OnTrial' = OnTrial /\ power = "run" /\ power' = "run" /\ overActive' = overActive
      /\ misled' = misled /\ misled \in BOOLEAN
    BY <1>1 DEF Other, OnTrial, Flashing, TypeOK
<1>5. vouched \subseteq vouched' /\ vouched' \subseteq Slots /\ \A s \in vouched' : hdr[s] # NoImage
  <2>1. step.r.valid => hdr[step.r.active] # NoImage
    BY <1>1 DEF RecordStep
  <2>2. vouched \subseteq Slots /\ \A s \in vouched : hdr[s] # NoImage
    BY <1>1 DEF OtaInv, TypeOK, SlotsWhole
  <2> QED
    BY <1>2, <2>1, <2>2 DEF Vouched
<1>6. rec' \in [0..1 -> Records]
    BY <1>1, <1>2, <1>3
<1>7. TypeOK'
    BY <1>1, <1>5, <1>6 DEF TypeOK, Flashing
<1>8. SlotsWhole' /\ RunStands' /\ WatchdogScoped' /\ ChoiceStands'
    BY <1>4, <1>5 DEF OtaInv, SlotsWhole, RunStands, WatchdogScoped, ChoiceStands, Excused
<1>9. CASE misled
  <2>1. RecordStands'
    BY <1>4, <1>9 DEF RecordStands, Excused
  <2> QED
    BY <1>4, <1>5, <1>7, <1>8, <1>9, <2>1 DEF Whole
<1>10. ASSUME ~misled PROVE Cur \in -1..1 /\ step.i = (IF Cur = 0 THEN 1 ELSE 0)
    BY <1>1, <1>10, CurTyped DEF RecordStep
<1>11. CASE ~misled /\ (rec' = rec \/ \E n \in Records : ~n.valid /\ rec' = [rec EXCEPT ![step.i] = n])
  <2>1. Cur' = Cur
    <3>1. CASE rec' = rec
        BY <3>1 DEF Cur
    <3>2. ASSUME NEW n \in Records, ~n.valid, rec' = [rec EXCEPT ![step.i] = n] PROVE Cur' = Cur
      <4>1. PICK t, r, q : t = step.i /\ r = rec /\ q = rec'
        OBVIOUS
      <4>2. t = (IF ota_bootrec_current(r) = 0 THEN 1 ELSE 0) /\ r \in [0..1 -> Records]
        BY <1>1, <1>10, <1>11, <4>1 DEF Cur
      <4>3. q = [r EXCEPT ![t] = n] /\ n.valid = FALSE
        BY <3>2, <4>1 DEF Records
      <4>4. ota_bootrec_current(q) = ota_bootrec_current(r)
        BY ONLY <4>2, <4>3, EraseKeeps, n \in Records
      <4> QED
        BY <4>1, <4>4 DEF Cur
    <3> QED
        BY <1>11, <3>1, <3>2
  <2>2. Cur >= 0 => rec'[Cur] = rec[Cur]
    BY <1>1, <1>10, <1>11
  <2>3. RecordStands'
    BY <1>4, <1>5, <2>1, <2>2 DEF OtaInv, RecordStands, Excused
  <2>4. rec' = [rec EXCEPT ![step.i] = step.r] => ~step.r.valid \/ rec' = rec
    BY <1>1, <1>2, <1>11
  <2> QED
    BY <1>4, <1>5, <1>7, <1>8, <2>1, <2>2, <2>3, <2>4 DEF Whole
<1>12. CASE ~misled /\ step.r.valid /\ rec' = [rec EXCEPT ![step.i] = step.r] /\ vouched' = Vouched(step)
  <2>0. Cur \in -1..1 /\ step.i = (IF Cur = 0 THEN 1 ELSE 0)
    BY <1>10, <1>12
  <2>1. Cur' = step.i
    BY ZenonT(60), <1>1, <1>2, <2>0, <1>12, WriteSucceeds DEF Cur, RecordStep
  <2>2. rec'[Cur'] = step.r
    BY <1>1, <1>2, <1>12, <2>1
  <2>3. Excused \/ step.r.active \in vouched'
    BY <1>1, <1>2, <1>5, <1>12 DEF RecordStep, Vouched
  <2>4. RecordStands'
    BY <1>2, <1>4, <2>1, <2>2, <2>3 DEF RecordStands, Excused
  <2> QED
    BY <1>2, <1>4, <1>5, <1>7, <1>8, <1>12, <2>1, <2>2, <2>4 DEF Whole
<1> QED
    BY <1>2, <1>3, <1>9, <1>11, <1>12

(* The rest of a command is a plan if each of its steps is still due. *)
LEMMA PlanRest ==
    ASSUME OtaInv, Flashing, todo' = Tail(todo), run' = run, g' = g, NEW f, f = todo,
           Len(f) # 1 => Ending(f[Len(f)])',
           \A i \in 2..Len(f) :
                /\ f[i].do = "hdr"    => HdrStep(f[i])'
                /\ f[i].do = "body"   => BodyStep(f[i])'
                /\ f[i].do = "record" => RecordStep(f[i])'
    PROVE  Plan'
<1>1. /\ todo' \in Seq(FlashSteps) /\ Len(f) \in Nat \ {0} /\ Len(todo') = Len(f) - 1
      /\ \A i \in 1..Len(todo') : todo'[i] = f[i + 1] /\ i + 1 \in 1..Len(f)
      /\ todo' # <<>> => Len(todo') \in 1..Len(todo') /\ todo'[Len(todo')] = f[Len(f)]
      /\ todo' = <<>> => Len(f) = 1
    BY Rest DEF OtaInv, Flashing
<1>2. power' = "run" /\ OnTrial' = OnTrial
    BY DEF Flashing, OnTrial
<1>3. todo' # <<>> => Ending(todo[Len(todo)])'
  <2> SUFFICES ASSUME todo' # <<>> PROVE Ending(todo[Len(todo)])'
    OBVIOUS
  <2>1. Len(f) # 1 /\ todo'[Len(todo')] = f[Len(f)]
    BY <1>1
  <2>2. PICK s : s = f[Len(f)] /\ Ending(s)'
    BY <2>1
  <2> QED
    BY <2>1, <2>2 DEF Ending
<1>4. ASSUME NEW i \in 1..Len(todo')
      PROVE  /\ todo'[i].do = "hdr"    => HdrStep(todo[i])' /\ \A j \in 1..Len(todo') : todo'[j].do # "body"
             /\ todo'[i].do = "body"   => BodyStep(todo[i])'
             /\ todo'[i].do = "record" => RecordStep(todo[i])'
             /\ todo'[i].do = "set"    => i = Len(todo') /\ ~OnTrial' /\ g'.img # NoImage
             /\ todo'[i].do = "confirmed" => i = Len(todo')
  <2>0. i \in Nat /\ Len(f) \in Nat /\ Len(todo') = Len(f) - 1 /\ i >= 1
    BY <1>1
  <2>1. PICK s : s = f[i + 1] /\ todo'[i] = s /\ i + 1 \in 1..Len(f) /\ i + 1 \in 2..Len(f)
    BY <1>1, <2>0
  <2>2. /\ s.do = "hdr" => \A j \in 1..Len(f) : f[j].do # "body"
        /\ s.do = "set" => i + 1 = Len(f) /\ ~OnTrial /\ g.img # NoImage
        /\ s.do = "confirmed" => i + 1 = Len(f)
    BY <2>1 DEF OtaInv, Plan
  <2>3. s.do = "hdr" => \A j \in 1..Len(todo') : todo'[j].do # "body"
    BY <1>1, <2>2
  <2>4. /\ s.do = "hdr" => HdrStep(s)'
        /\ s.do = "body" => BodyStep(s)'
        /\ s.do = "record" => RecordStep(s)'
    BY <2>1
  <2>5. (s.do = "set" => i = Len(todo')) /\ (s.do = "confirmed" => i = Len(todo'))
    BY <2>0, <2>2
  <2> QED
    BY <1>2, <2>1, <2>2, <2>3, <2>4, <2>5 DEF HdrStep, BodyStep, RecordStep
<1>5. ASSUME NEW i \in 1..Len(todo'), NEW j \in 1..Len(todo')
      PROVE  /\ todo'[i].do = "record" /\ todo'[i].r.valid /\ j > i => todo'[j].do # "record"
             /\ todo'[i].do = "record" /\ todo'[i].r.valid /\ todo'[i].r.active # run'.slot
                    => todo'[j].do = "record"
             /\ todo'[i].do = "confirmed" \/ (todo'[i].do = "set" /\ todo'[i].st # "committed") => todo'[j].do # "hdr"
  <2>1. /\ i + 1 \in 1..Len(todo) /\ todo'[i] = todo[i + 1] /\ j + 1 \in 1..Len(todo) /\ todo'[j] = todo[j + 1]
        /\ j > i => j + 1 > i + 1
    BY <1>1
  <2> QED
    BY <2>1 DEF OtaInv, Plan
<1> QED
    BY <1>1, <1>2, <1>3, <1>4, <1>5 DEF Plan

LEMMA ConfirmingRest ==
    ASSUME OtaInv, Flashing, todo' = Tail(todo), run' = run, run.slot \in vouched => run.slot \in vouched',
           (/\ todo[1].do = "record" /\ todo[1].r.valid /\ todo[1].r.active = run.slot /\ todo[1].r.pending = NoSlot)
                => run.slot \in vouched'
    PROVE  Confirming'
<1>1. /\ Len(todo) \in Nat \ {0} /\ Len(todo') = Len(todo) - 1
      /\ \A i \in 1..Len(todo') : todo'[i] = todo[i + 1] /\ i + 1 \in 1..Len(todo)
    BY Rest DEF OtaInv, Flashing
<1> SUFFICES ASSUME NEW i \in 1..Len(todo'), todo'[i].do = "confirmed", run.slot \notin vouched'
             PROVE  \E j \in 1..(i - 1) : /\ todo'[j].do = "record" /\ todo'[j].r.valid
                                          /\ todo'[j].r.active = run.slot /\ todo'[j].r.pending = NoSlot
    BY DEF Confirming
<1>2. i + 1 \in 1..Len(todo) /\ todo[i + 1].do = "confirmed" /\ run.slot \notin vouched /\ i \in Nat
    BY <1>1
<1>3. PICK j \in 1..(i + 1 - 1) : /\ todo[j].do = "record" /\ todo[j].r.valid
                                  /\ todo[j].r.active = run.slot /\ todo[j].r.pending = NoSlot
    BY <1>2 DEF OtaInv, Confirming
<1>4. j # 1
    BY <1>3
<1>5. PICK k : k = j - 1
    OBVIOUS
<1>6. k \in 1..(i - 1) /\ k \in 1..Len(todo') /\ k + 1 = j
    BY <1>1, <1>2, <1>3, <1>4, <1>5
<1>7. todo'[k] = todo[j]
    BY <1>1, <1>6
<1> QED
    BY <1>3, <1>6, <1>7

(* After a header. *)
LEMMA HdrPlan ==
    ASSUME OtaInv, Flashing, NEW step, step = Head(todo), step.do = "hdr",
           hdr' = [hdr EXCEPT ![Other] = step.img],
           body' = body, rec' = rec, run' = run, wdt' = wdt, vouched' = vouched \ {Other}, g' = g, todo' = Tail(todo)
    PROVE  OtaInv'
<1>1. /\ Whole' /\ Cur' = Cur /\ Other' = Other /\ OnTrial' = OnTrial /\ ActiveHere /\ ActiveHere'
      /\ hdr'[run.slot] = hdr[run.slot] /\ hdr[run.slot] # NoImage /\ (run.slot \in vouched => run.slot \in vouched')
  <2>1. g' \in [st : {"idle", "receiving", "received", "committed", "error"}, img : Images \cup {NoImage}]
    BY DEF OtaInv, TypeOK
  <2>2. \E x \in {NoImage, step.img} : hdr' = [hdr EXCEPT ![Other] = x]
    OBVIOUS
  <2> QED
    BY <2>1, <2>2, HdrWrite
<1>2. PICK f : f = todo
    OBVIOUS
<1>3. /\ TypeOK /\ step = f[1] /\ step \in FlashSteps /\ 1 \in 1..Len(f) /\ Len(f) \in 1..Len(f)
      /\ Ending(f[Len(f)]) /\ (\A j \in 1..Len(f) : f[j].do # "body")
    BY <1>2, FirstStep
<1>4. \A i \in 1..Len(f) :
            /\ f[i].do = "hdr" => HdrStep(f[i])
            /\ f[i].do = "record" => RecordStep(f[i]) /\ (f[i].r.valid => f[i].r.active = run.slot)
            /\ f[i].do # "confirmed" /\ (f[i].do = "set" => f[i].st = "committed")
    BY <1>2, <1>3 DEF OtaInv, Plan
<1>5. Receiving' = Receiving
    BY DEF Receiving
<1>6. Ending(f[Len(f)])'
    BY <1>3, <1>4, <1>5 DEF Ending
<1>7. ASSUME NEW i \in 2..Len(f)
      PROVE  /\ f[i].do = "hdr"    => HdrStep(f[i])'
             /\ f[i].do = "body"   => BodyStep(f[i])'
             /\ f[i].do = "record" => RecordStep(f[i])'
  <2>1. i \in 1..Len(f)
    BY <1>3
  <2>2. PICK s : s = f[i]
    OBVIOUS
  <2>3. s.do = "hdr" => HdrStep(s)'
    BY <1>1, <1>4, <2>1, <2>2 DEF HdrStep
  <2>4. s.do = "record" => RecordStep(s)'
    <3>1. /\ s.do = "record" => RecordStep(s) /\ (s.r.valid => s.r.active = run.slot)
          /\ rec' = rec /\ misled' = misled /\ Excused' = Excused
        BY <1>4, <2>1, <2>2 DEF Flashing, Excused
    <3> QED
        BY <1>1, <3>1 DEF RecordStep
  <2> QED
    BY <1>3, <2>1, <2>2, <2>3, <2>4
<1>8. Plan'
    BY <1>2, <1>6, <1>7, PlanRest
<1>9. Confirming'
    BY <1>1, <1>2, <1>3, ConfirmingRest
<1>10. Updating'
  <2>1. todo' = <<>> => hdr'[Other'] = NoImage
    <3> SUFFICES ASSUME todo' = <<>> PROVE hdr'[Other'] = NoImage
        OBVIOUS
    <3>1. Len(f) = 1
        BY <1>2, Rest DEF OtaInv, Flashing
    <3>2. step.img = NoImage
        BY <1>3, <3>1 DEF Ending
    <3> QED
        BY <1>1, <1>3, <3>2, OtherSlot DEF TypeOK
  <2> QED
    BY <1>1, <1>5, <2>1 DEF OtaInv, Updating, Flashing
<1> QED
    BY <1>1, <1>8, <1>9, <1>10 DEF OtaInv, Whole

(* After parts of the body. *)
LEMMA BodyPlan ==
    ASSUME OtaInv, Flashing, NEW step, step = Head(todo), step.do = "body",
           body' = [body EXCEPT ![Other] = step.img],
           hdr' = hdr, rec' = rec, run' = run, wdt' = wdt, vouched' = vouched, g' = g, todo' = Tail(todo)
    PROVE  OtaInv'
<1>1. Whole' /\ Cur' = Cur /\ Other' = Other /\ OnTrial' = OnTrial /\ ActiveHere' = ActiveHere
  <2>1. g' \in [st : {"idle", "receiving", "received", "committed", "error"}, img : Images \cup {NoImage}]
    BY DEF OtaInv, TypeOK
  <2>2. \E x \in {NoImage, step.img} : body' = [body EXCEPT ![Other] = x]
    OBVIOUS
  <2> QED
    BY <2>1, <2>2, BodyWrite
<1>2. PICK f : f = todo
    OBVIOUS
<1>3. /\ TypeOK /\ step = f[1] /\ step \in FlashSteps /\ 1 \in 1..Len(f) /\ Len(f) \in 1..Len(f)
      /\ Ending(f[Len(f)]) /\ (\A j \in 1..Len(f) : f[j].do # "hdr")
    BY <1>2, FirstStep
<1>4. \A i \in 1..Len(f) : /\ f[i].do = "body"   => BodyStep(f[i])
                           /\ f[i].do = "record" => RecordStep(f[i])
    BY <1>2, <1>3 DEF OtaInv, Plan
<1>5. Receiving' = Receiving
    BY DEF Receiving
<1>6. Ending(f[Len(f)])'
    BY <1>1, <1>3, <1>5 DEF Ending
<1>7. ASSUME NEW i \in 2..Len(f)
      PROVE  /\ f[i].do = "hdr"    => HdrStep(f[i])'
             /\ f[i].do = "body"   => BodyStep(f[i])'
             /\ f[i].do = "record" => RecordStep(f[i])'
  <2>1. i \in 1..Len(f)
    BY <1>3
  <2> QED
    BY <1>1, <1>3, <1>4, <2>1 DEF BodyStep, RecordStep, Flashing, Excused
<1>8. Plan'
    BY <1>2, <1>6, <1>7, PlanRest
<1>9. Confirming'
    BY <1>2, <1>3, ConfirmingRest
<1>10. todo' # <<>>
    BY <1>2, <1>3, Rest DEF OtaInv, Flashing, Ending
<1>11. Updating'
    BY <1>1, <1>5, <1>10 DEF OtaInv, Updating, Flashing
<1> QED
    BY <1>1, <1>8, <1>9, <1>11 DEF OtaInv, Whole

(* After a record sector. *)
LEMMA RecordPlanned ==
    ASSUME OtaInv, Flashing, NEW step, step = Head(todo), step.do = "record",
           rec' = [rec EXCEPT ![step.i] = step.r], vouched' = Vouched(step),
           hdr' = hdr, body' = body, run' = run, wdt' = wdt, g' = g, todo' = Tail(todo)
    PROVE  OtaInv'
<1>1. /\ Whole' /\ Other' = Other /\ OnTrial' = OnTrial /\ vouched \subseteq vouched' /\ misled' = misled
      /\ \/ misled
         \/ Cur' = Cur /\ (Cur >= 0 => rec'[Cur] = rec[Cur])
                /\ (rec' = [rec EXCEPT ![step.i] = step.r] => ~step.r.valid \/ rec' = rec)
         \/ step.r.valid /\ Cur' = step.i /\ step.i \in 0..1 /\ rec'[Cur'] = step.r
  <2>1. g' \in [st : {"idle", "receiving", "received", "committed", "error"}, img : Images \cup {NoImage}]
    BY DEF OtaInv, TypeOK
  <2> QED
    BY <2>1, RecordWrite
<1>2. PICK f : f = todo
    OBVIOUS
<1>3. /\ TypeOK /\ step = f[1] /\ step \in FlashSteps /\ 1 \in 1..Len(f) /\ Len(f) \in 1..Len(f)
      /\ Ending(f[Len(f)])
    BY <1>2, FirstStep
<1>4. \A i \in 1..Len(f) : /\ f[i].do = "hdr"    => HdrStep(f[i])
                           /\ f[i].do = "body"   => BodyStep(f[i])
                           /\ f[i].do = "record" => RecordStep(f[i])
    BY <1>2, <1>3 DEF OtaInv, Plan
<1>5. Receiving' = Receiving /\ Excused' = Excused
    BY DEF Receiving, Flashing, Excused
<1>6. \A i \in 2..Len(f) : i \in 1..Len(f) /\ (step.r.valid => f[i].do # "record" /\ step.r.active = run.slot)
    BY <1>2, <1>3 DEF OtaInv, Plan
<1>7. (\E i \in 2..Len(f) : TRUE) /\ ActiveHere => ActiveHere'
    BY <1>1, <1>5, <1>6 DEF ActiveHere, Excused
<1>8. Len(f) # 1 => Ending(f[Len(f)])'
  <2> SUFFICES ASSUME Len(f) # 1 PROVE Ending(f[Len(f)])'
    OBVIOUS
  <2>0. PICK k \in Nat : k = Len(f) /\ k # 0 /\ k # 1
    BY <1>2, Rest DEF OtaInv, Flashing
  <2>1. k \in 2..k
    BY <2>0
  <2>2. ActiveHere => ActiveHere'
    BY <1>7, <2>0, <2>1
  <2> QED
    BY <1>1, <1>3, <1>5, <2>2 DEF Ending
<1>9. ASSUME NEW i \in 2..Len(f)
      PROVE  /\ f[i].do = "hdr"    => HdrStep(f[i])'
             /\ f[i].do = "body"   => BodyStep(f[i])'
             /\ f[i].do = "record" => RecordStep(f[i])'
  <2>1. i \in 1..Len(f) /\ (ActiveHere => ActiveHere')
    BY <1>6, <1>7
  <2>2. (f[i].do = "hdr" => HdrStep(f[i])') /\ (f[i].do = "body" => BodyStep(f[i])')
    BY <1>1, <1>4, <2>1 DEF HdrStep, BodyStep
  <2>3. ASSUME f[i].do = "record" PROVE RecordStep(f[i])'
    <3>1. ~step.r.valid
        BY <1>6, <2>3
    <3>2. misled \/ (Cur' = Cur /\ (Cur >= 0 => rec'[Cur] = rec[Cur]))
        BY <1>1, <3>1
    <3>3. RecordStep(f[i])
        BY <1>4, <2>1, <2>3
    <3> QED
        BY <1>1, <1>5, <3>2, <3>3 DEF RecordStep, Excused
  <2> QED
    BY <2>2, <2>3
<1>10. Plan'
    BY <1>2, <1>8, <1>9, PlanRest
<1>11. Confirming'
  <2>1. step.r.valid /\ step.r.pending = NoSlot => step.r.active \in vouched'
    BY DEF Vouched
  <2> QED
    BY <1>1, <1>2, <1>3, <2>1, ConfirmingRest
<1>12. todo' = <<>> => ~Receiving
    BY <1>2, <1>3, Rest DEF OtaInv, Flashing, Ending
<1>13. Updating'
    BY <1>1, <1>5, <1>12 DEF OtaInv, Updating, Flashing
<1> QED
    BY <1>1, <1>10, <1>11, <1>13 DEF OtaInv, Whole

(* The assignment that ends a command. *)
LEMMA SetPlanned ==
    ASSUME OtaInv, Flashing, NEW step, step = Head(todo), step.do = "set",
           g' = [st |-> step.st, img |-> IF step.st = "committed" THEN NoImage ELSE g.img],
           hdr' = hdr, body' = body, rec' = rec, run' = run, wdt' = wdt, vouched' = vouched, todo' = Tail(todo)
    PROVE  OtaInv'
<1>1. /\ TypeOK /\ step \in FlashSteps /\ Len(todo) = 1 /\ step = todo[1] /\ Ending(todo[Len(todo)])
      /\ ~OnTrial /\ g.img # NoImage
    BY FirstStep
<1>2. step.st \in {"received", "error", "committed"}
    BY <1>1, StepTyped
<1>3. todo' = <<>>
    BY <1>1, Rest, EmptySeq DEF OtaInv, Flashing
<1>4. /\ g' \in [st : {"idle", "receiving", "received", "committed", "error"}, img : Images \cup {NoImage}]
      /\ g'.st = step.st /\ (g'.st = "received" => g'.img = g.img)
    BY <1>1, <1>2 DEF TypeOK
<1>5. Cur' = Cur /\ Other' = Other /\ OnTrial' = OnTrial /\ overActive' = overActive /\ misled' = misled /\ power' = "run" /\ power = "run"
    BY DEF Cur, Other, OnTrial, Flashing
<1>6. TypeOK'
    BY <1>1, <1>4 DEF TypeOK, Flashing
<1>7. SlotsWhole' /\ RunStands' /\ WatchdogScoped' /\ ChoiceStands' /\ RecordStands'
    BY <1>5 DEF OtaInv, SlotsWhole, RunStands, WatchdogScoped, ChoiceStands, RecordStands, Excused
<1>8. Plan' /\ Confirming'
    BY <1>3, EmptyPlan
<1>9. step.st # "committed" => hdr[Other] = NoImage /\ ActiveHere
    BY <1>1 DEF Ending
<1>10. Updating'
    BY <1>1, <1>2, <1>4, <1>5, <1>9 DEF Updating, Receiving, ActiveHere, Excused
<1> QED
    BY <1>6, <1>7, <1>8, <1>10 DEF OtaInv

(* The trial's end: its record is there. *)
LEMMA ConfirmedPlanned ==
    ASSUME OtaInv, Flashing, NEW step, step = Head(todo), step.do = "confirmed",
           run' = [run EXCEPT !.confirmed = TRUE], wdt' = FALSE,
           hdr' = hdr, body' = body, rec' = rec, g' = g, vouched' = vouched, todo' = Tail(todo)
    PROVE  OtaInv'
<1>1. /\ TypeOK /\ step \in FlashSteps /\ Len(todo) = 1 /\ step = todo[1] /\ Ending(todo[Len(todo)]) /\ 1 \in 1..Len(todo)
    BY FirstStep
<1>2. todo' = <<>>
    BY <1>1, Rest, EmptySeq DEF OtaInv, Flashing
<1>3. /\ run' \in [slot : Slots, trial : BOOLEAN, confirmed : BOOLEAN]
      /\ run'.slot = run.slot /\ run'.trial = run.trial /\ run'.confirmed = TRUE
    BY <1>1 DEF TypeOK
<1>4. Cur' = Cur /\ Other' = Other /\ ~OnTrial' /\ overActive' = overActive /\ misled' = misled /\ power' = "run" /\ power = "run"
    BY <1>3 DEF Cur, Other, OnTrial, Flashing
<1>5. run.slot \in vouched
    BY <1>1 DEF OtaInv, Confirming
<1>6. TypeOK'
    BY <1>1, <1>3 DEF TypeOK, Flashing
<1>7. SlotsWhole' /\ RunStands' /\ WatchdogScoped' /\ ChoiceStands'
    BY <1>3, <1>4, <1>5 DEF OtaInv, SlotsWhole, RunStands, WatchdogScoped, ChoiceStands, Excused
<1>8. RecordStands'
    BY <1>3, <1>4 DEF OtaInv, RecordStands, Excused
<1>9. Plan' /\ Confirming'
    BY <1>2, EmptyPlan
<1>10. Receiving => hdr[Other] = NoImage /\ ActiveHere
    BY <1>1 DEF Ending
<1>11. Updating'
    BY <1>3, <1>4, <1>10 DEF OtaInv, Updating, Receiving, ActiveHere, Excused
<1> QED
    BY <1>6, <1>7, <1>8, <1>9, <1>11 DEF OtaInv

LEMMA FlashStepHolds == ASSUME OtaInv, FlashStep PROVE OtaInv'
<1>1. PICK step : step = Head(todo)
    OBVIOUS
<1>2. /\ Flashing /\ todo' = Tail(todo)
      /\ hdr'  = IF step.do = "hdr"  THEN [hdr EXCEPT ![Other] = step.img] ELSE hdr
      /\ body' = IF step.do = "body" THEN [body EXCEPT ![Other] = step.img] ELSE body
      /\ rec'  = IF step.do = "record" THEN [rec EXCEPT ![step.i] = step.r] ELSE rec
      /\ g'    = IF step.do = "set" THEN [st |-> step.st, img |-> IF step.st = "committed" THEN NoImage ELSE g.img] ELSE g
      /\ run'  = IF step.do = "confirmed" THEN [run EXCEPT !.confirmed = TRUE] ELSE run
      /\ wdt'  = (wdt /\ step.do # "confirmed")
      /\ vouched' = Vouched(step)
    BY <1>1 DEF FlashStep, Flashing, history
<1>3. step.do \in {"hdr", "body", "record", "set", "confirmed"} /\ wdt \in BOOLEAN
    BY <1>1, <1>2, FirstStep, StepTyped DEF TypeOK
<1>4. /\ step.do \notin {"record", "hdr"} => vouched' = vouched
      /\ step.do = "hdr" => vouched' = vouched \ {Other}
    BY <1>2 DEF Vouched
<1>5. step.do # "confirmed" => wdt' = wdt
    BY <1>2, <1>3
<1>6. CASE step.do = "hdr"
    BY <1>1, <1>2, <1>4, <1>5, <1>6, HdrPlan
<1>7. CASE step.do = "body"
    BY <1>1, <1>2, <1>4, <1>5, <1>7, BodyPlan
<1>8. CASE step.do = "record"
    BY <1>1, <1>2, <1>5, <1>8, RecordPlanned
<1>9. CASE step.do = "set"
    BY <1>1, <1>2, <1>4, <1>5, <1>9, SetPlanned
<1>10. CASE step.do = "confirmed"
    BY <1>1, <1>2, <1>4, <1>10, ConfirmedPlanned
<1> QED
    BY <1>3, <1>6, <1>7, <1>8, <1>9, <1>10

(* A flash operation that fails ends the command where it is. *)
LEMMA FlashFailsHolds == ASSUME OtaInv, FlashFails PROVE OtaInv'
<1>1. PICK step : step = Head(todo)
    OBVIOUS
<1>2. /\ Flashing /\ step.do \in {"hdr", "body", "record"} /\ todo' = <<>> /\ run' = run /\ wdt' = wdt
      /\ g' = IF todo[Len(todo)].do = "confirmed" THEN g ELSE [g EXCEPT !.st = "error"]
      /\ vouched' = IF <<hdr', rec'>> # <<hdr, rec>> THEN Vouched(step) ELSE vouched
    BY <1>1 DEF FlashFails, Flashing, history
<1>3. /\ hdr'  \in IF step.do = "hdr"  THEN {hdr} \cup {[hdr EXCEPT ![Other] = i] : i \in {NoImage, step.img}} ELSE {hdr}
      /\ body' \in IF step.do = "body" THEN {body} \cup {[body EXCEPT ![Other] = i] : i \in {NoImage, step.img}} ELSE {body}
      /\ rec'  \in IF step.do = "record" THEN {rec} \cup {[rec EXCEPT ![step.i] = r] : r \in {None, step.r}} ELSE {rec}
    BY <1>1 DEF FlashFails
<1>4. /\ TypeOK /\ step = todo[1] /\ 1 \in 1..Len(todo) /\ Len(todo) \in 1..Len(todo) /\ Ending(todo[Len(todo)])
    BY <1>1, <1>2, FirstStep
<1>5. /\ g' \in [st : {"idle", "receiving", "received", "committed", "error"}, img : Images \cup {NoImage}]
      /\ g'.st # "error" => g' = g /\ todo[Len(todo)].do = "confirmed"
    BY <1>2, <1>4 DEF TypeOK
<1>6. Plan' /\ Confirming'
    BY <1>2, EmptyPlan
<1>7. g'.st # "error" => (Receiving => hdr[Other] = NoImage /\ ActiveHere)
    BY <1>4, <1>5 DEF Ending
<1>8. ASSUME OnTrial' = OnTrial, g'.st # "error" => hdr'[Other'] = hdr[Other] /\ (ActiveHere => ActiveHere')
      PROVE  Updating'
    BY <1>2, <1>5, <1>7, <1>8 DEF OtaInv, Updating, Receiving, Flashing
<1>9. CASE step.do = "hdr"
  <2>1. body' = body /\ rec' = rec
    BY <1>3, <1>9
  <2>2. \E x \in {NoImage, step.img} : \/ hdr' = hdr /\ vouched' = vouched
                                       \/ hdr' = [hdr EXCEPT ![Other] = x] /\ vouched' = vouched \ {Other}
    BY <1>2, <1>3, <1>9, <2>1 DEF Vouched
  <2>3. Whole' /\ OnTrial' = OnTrial
    BY <1>1, <1>2, <1>5, <1>9, <2>1, <2>2, HdrWrite
  <2>4. g'.st = "error"
    BY <1>4, <1>5, <1>9 DEF OtaInv, Plan
  <2> QED
    BY <1>6, <1>8, <2>3, <2>4 DEF OtaInv, Whole
<1>10. CASE step.do = "body"
  <2>1. hdr' = hdr /\ rec' = rec /\ vouched' = vouched
    BY <1>2, <1>3, <1>10 DEF Vouched
  <2>2. \E x \in {NoImage, step.img} : body' = body \/ body' = [body EXCEPT ![Other] = x]
    BY <1>3, <1>10
  <2>3. Whole' /\ Other' = Other /\ OnTrial' = OnTrial /\ ActiveHere' = ActiveHere
    BY <1>1, <1>2, <1>5, <1>10, <2>1, <2>2, BodyWrite
  <2> QED
    BY <1>6, <1>8, <2>1, <2>3 DEF OtaInv, Whole
<1>11. CASE step.do = "record"
  <2>1. hdr' = hdr /\ body' = body
    BY <1>3, <1>11
  <2>2. \/ rec' = rec /\ vouched' = vouched
        \/ rec' = [rec EXCEPT ![step.i] = None] /\ vouched' = Vouched(step)
        \/ rec' = [rec EXCEPT ![step.i] = step.r] /\ vouched' = Vouched(step)
    BY <1>2, <1>3, <1>11, <2>1
  <2>3. /\ Whole' /\ Other' = Other /\ OnTrial' = OnTrial
        /\ \/ misled
           \/ Cur' = Cur /\ (Cur >= 0 => rec'[Cur] = rec[Cur])
           \/ step.r.valid /\ Cur' = step.i /\ step.i \in 0..1 /\ rec'[Cur'] = step.r
    BY <1>1, <1>2, <1>5, <1>11, <2>1, <2>2, RecordWrite
  <2>4. g'.st # "error" /\ step.r.valid => step.r.active = run.slot
    BY <1>4, <1>5, <1>11 DEF OtaInv, Plan
  <2>5. g'.st # "error" /\ ActiveHere => ActiveHere'
    BY <1>2, <2>3, <2>4 DEF ActiveHere, Excused, Flashing
  <2> QED
    BY <1>6, <1>8, <2>1, <2>3, <2>5 DEF OtaInv, Whole
<1> QED
    BY <1>2, <1>9, <1>10, <1>11

-----------------------------------------------------------------------------
LEMMA OtaStep == ASSUME OtaInv, [Next]_vars PROVE OtaInv'
<1>1. CASE LoaderChoose
    BY <1>1, ChooseStep
<1>2. CASE LoaderStart
    BY <1>2, StartStep
<1>3. CASE Begin \/ Abort
    BY <1>3, BeginStep
<1>4. ASSUME NEW img \in Images, Header(img) PROVE OtaInv'
    BY <1>4, HeaderStep
<1>5. CASE Parts
    BY <1>5, PartsStep
<1>6. CASE Commit
    BY <1>6, CommitStep
<1>7. CASE Switch
    BY <1>7, SwitchStep
<1>8. CASE Confirm
    BY <1>8, ConfirmStep
<1>9. CASE FlashStep
    BY <1>9, FlashStepHolds
<1>10. CASE FlashFails
    BY <1>10, FlashFailsHolds
<1>11. CASE Reboot \/ Watchdog \/ RomWatchdog \/ PowerCut
  <2>1. wdt \in BOOLEAN /\ cuts \in 0..MaxCuts /\ MaxCuts \in Nat
    BY OtaAssumption DEF OtaInv, TypeOK
  <2>2. Reset /\ (wdt' = wdt \/ wdt' = FALSE) /\ (cuts' = cuts \/ (cuts < MaxCuts /\ cuts' = cuts + 1))
    BY <1>11 DEF Reboot, Watchdog, RomWatchdog, PowerCut
  <2>3. wdt' \in BOOLEAN
    BY <2>1, <2>2
  <2>4. cuts' \in 0..MaxCuts
    BY ONLY <2>1, <2>2
  <2> QED
    BY <2>2, <2>3, <2>4, ResetStep
<1>12. CASE UNCHANGED vars
  <2>1. /\ hdr' = hdr /\ body' = body /\ rec' = rec /\ power' = power /\ choice' = choice /\ run' = run /\ g' = g
        /\ todo' = todo /\ wdt' = wdt /\ vouched' = vouched /\ overActive' = overActive /\ misled' = misled /\ cuts' = cuts
    BY <1>12 DEF vars
  <2>2. Cur' = Cur /\ Other' = Other /\ OnTrial' = OnTrial /\ Receiving' = Receiving /\ ActiveHere' = ActiveHere /\ Excused' = Excused
    BY <2>1 DEF Cur, Other, OnTrial, Receiving, ActiveHere, Excused
  <2>3. TypeOK' /\ WatchdogScoped' /\ SlotsWhole' /\ RecordStands' /\ ChoiceStands' /\ RunStands'
    BY <2>1, <2>2 DEF OtaInv, TypeOK, WatchdogScoped, SlotsWhole, RecordStands, ChoiceStands, RunStands
  <2>4. Plan'
    BY <2>1, <2>2 DEF OtaInv, Plan, Ending, HdrStep, BodyStep, RecordStep
  <2>5. Confirming' /\ Updating'
    BY <2>1, <2>2 DEF OtaInv, Confirming, Updating
  <2> QED
    BY <2>3, <2>4, <2>5 DEF OtaInv
<1> QED
    BY <1>1, <1>2, <1>3, <1>4, <1>5, <1>6, <1>7, <1>8, <1>9, <1>10, <1>11, <1>12 DEF Next

LEMMA OtaHolds == Spec => []OtaInv
<1>1. Init => OtaInv
    BY OtaInit
<1>2. OtaInv /\ [Next]_vars => OtaInv'
    BY OtaStep
<1> QED
    BY <1>1, <1>2, PTL DEF Spec

(* The loader finds a complete image wherever the power goes: BootSlot is  *)
(* the slot its code falls through to, and a header is there only over the *)
(* body it describes.  A read that fails cannot change that: the slot that *)
(* runs is touched by no command.                                          *)
THEOREM AlwaysBootable == Spec => []Bootable
<1>1. OtaInv => Bootable
  <2> SUFFICES ASSUME OtaInv PROVE Bootable
    OBVIOUS
  <2>1. TypeOK /\ SlotsWhole /\ rec \in [0..1 -> Records] /\ power # "stuck"
    BY DEF OtaInv, TypeOK, SlotsWhole
  <2>2. PICK c : c = ota_boot_choose(rec)
    OBVIOUS
  <2>3. c.slot \in Slots /\ c.current \in -1..1
    BY <2>1, <2>2, ChoiceFacts
  <2>4. BootSlot(rec, c, Headed) \in Slots /\ hdr[BootSlot(rec, c, Headed)] # NoImage
    BY <2>1, <2>3, BootFacts
  <2> QED
    BY <2>1, <2>2, <2>4 DEF Bootable, NextSlot, NextChoice, SlotsWhole
<1> QED
    BY <1>1, OtaHolds, PTL

(* An image that nobody has confirmed or switched to is booted on trial or *)
(* not at all, wherever in write_record() or in the loader's own marks the *)
(* power goes, until an update goes over the record's active slot or a     *)
(* read or a mark that failed misleads a command or the loader.            *)
THEOREM UnprovenTried == Spec => []TriedFirst
<1>1. OtaInv => TriedFirst
  <2> SUFFICES ASSUME OtaInv, ~overActive, ~misled PROVE TriedFirst
    BY DEF TriedFirst
  <2>1. TypeOK /\ SlotsWhole /\ rec \in [0..1 -> Records] /\ (\A x \in vouched : hdr[x] # NoImage) /\ Slots = {0, 1}
    BY OtherSlot DEF OtaInv, TypeOK, SlotsWhole
  <2>2. PICK c : c = ota_boot_choose(rec)
    OBVIOUS
  <2>3. /\ c.slot \in Slots /\ c.current \in -1..1 /\ Cur \in -1..1 /\ (Cur >= 0 => rec[Cur].active \in Slots)
        /\ Cur < 0 => c.slot = 0
        /\ Cur >= 0 => IF c.trial THEN c.slot # rec[Cur].active ELSE c.slot = rec[Cur].active
    BY <2>1, <2>2, ChoiceFacts, CurTyped DEF Cur
  <2>4. PICK s : s = BootSlot(rec, c, Headed)
    OBVIOUS
  <2>5. /\ hdr[c.slot] # NoImage => s = c.slot
        /\ hdr[c.slot] = NoImage => s = 1 - c.slot /\ s # c.slot
    BY <2>1, <2>3, <2>4, BootFacts
  <2>6. (c.trial /\ s = c.slot) \/ s \in vouched
    <3>1. CASE Cur < 0
        BY <2>1, <2>3, <2>5, <3>1 DEF OtaInv, RecordStands
    <3>2. CASE Cur >= 0
      <4>1. rec[Cur].active \in vouched
        BY <3>2 DEF OtaInv, RecordStands, Excused
      <4> QED
        BY <2>1, <2>3, <2>5, <3>2, <4>1
    <3> QED
        BY <2>3, <3>1, <3>2
  <2> QED
    BY <2>2, <2>4, <2>6 DEF TriedFirst, NextSlot, NextChoice
<1> QED
    BY <1>1, OtaHolds, PTL

(* The watchdog that ends a trial is never armed under an image that is    *)
(* not, or no longer, on trial.                                            *)
THEOREM WatchdogSafety == Spec => []WatchdogScoped
<1>1. OtaInv => WatchdogScoped
    BY DEF OtaInv
<1> QED
    BY <1>1, OtaHolds, PTL
=============================================================================
