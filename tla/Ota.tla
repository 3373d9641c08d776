--------------------------------- MODULE Ota ---------------------------------
(***************************************************************************)
(* Updating a node's own image: the commands of kernel/ota.c, the boot     *)
(* records of kernel/ota_image.c, and the ESP32-P4's flash backend and     *)
(* loader (drivers/ota_esp32p4.c, arch/riscv/esp32p4/loader.c).            *)
(*                                                                         *)
(* The flash holds two slots, each a header and a body, and two sectors    *)
(* for boot records.  A command runs under g_lock as a list of flash       *)
(* steps, any of which may fail, and the power may go between any two of   *)
(* them: a sector cut off while it is erased or programmed does not read   *)
(* back as valid, which is also how an erased one reads.  A read may fail  *)
(* as well, in a command and in the loader.  An image is a model value;    *)
(* whether it is healthy shows in whether it is confirmed.                 *)
(***************************************************************************)
EXTENDS Integers, Sequences, FiniteSets

CONSTANTS
    Images,    \* update images
    First,     \* the image a new board has in slot 0
    NoImage,   \* what an invalid header, or a body not completely written, reads as
    SeqMod,    \* sequence numbers of records: 2^32 in the code
    MaxCuts    \* bound: times the power goes

ASSUME OtaAssumption ==
    /\ First \in Images /\ NoImage \notin Images
    /\ SeqMod \in Nat /\ SeqMod >= 4 /\ MaxCuts \in Nat

Slots  == 0..1
NoSlot == -1
Idle   == [st |-> "idle", img |-> NoImage]
NoRun  == [slot |-> 0, trial |-> FALSE, confirmed |-> FALSE]
NoRec  == [slot |-> 0, trial |-> FALSE, current |-> -1]   \* the choice without a record
None   == [valid |-> FALSE, seq |-> 0, active |-> 0, pending |-> NoSlot, tried |-> FALSE]

VARIABLES
    hdr,       \* hdr[s]: the image the header of slot s describes, NoImage unless valid
    body,      \* body[s]: the image whose parts are completely in slot s
    rec,       \* the two boot records
    power,     \* "loader", "chosen", "run"; the loader's last loops: "halted" after a failed read, or "stuck"
    choice,    \* what ota_boot_choose() returned
    run,       \* the boot's slot, whether it is on trial, whether the trial was confirmed
    g,         \* ota.c's update: its state, its header's image
    todo,      \* the flash steps the present command still has to do
    wdt,       \* the trial watchdog is armed
    vouched,   \* history: images that were confirmed, or that somebody switched to
    overActive,\* history: an update has gone over the slot its record calls active
    misled,    \* history: a failed read, or a mark that failed, has made a command or the loader
               \* do something else than what the flash says
    cuts

flash   == <<hdr, body, rec>>
history == <<overActive, misled>>
vars    == <<hdr, body, rec, power, choice, run, g, todo, wdt, vouched, overActive, misled, cuts>>

Records == [valid : BOOLEAN, seq : 0..(SeqMod - 1), active : Slots, pending : Slots \cup {NoSlot},
            tried : BOOLEAN]

TypeOK ==
    /\ hdr \in [Slots -> Images \cup {NoImage}] /\ body \in [Slots -> Images \cup {NoImage}]
    /\ rec \in [0..1 -> Records]
    /\ power \in {"loader", "chosen", "run", "halted", "stuck"}
    /\ choice \in [slot : Slots, trial : BOOLEAN, current : -1..1]
    /\ run \in [slot : Slots, trial : BOOLEAN, confirmed : BOOLEAN]
    /\ g \in [st : {"idle", "receiving", "received", "committed", "error"}, img : Images \cup {NoImage}]
    /\ wdt \in BOOLEAN /\ vouched \subseteq Slots /\ overActive \in BOOLEAN /\ misled \in BOOLEAN /\ cuts \in 0..MaxCuts

-----------------------------------------------------------------------------
(* Boot records (kernel/ota_image.c).                                      *)

(* The sector of the current record, or -1. *)
ota_bootrec_current(r) ==
    CASE r[0].valid /\ r[1].valid -> IF (r[1].seq - r[0].seq) % SeqMod \in 1..(SeqMod \div 2 - 1) THEN 1 ELSE 0
      [] r[0].valid /\ ~r[1].valid -> 0
      [] r[1].valid /\ ~r[0].valid -> 1
      [] OTHER -> -1

(* read_records(), and its like in the loader: a sector whose read fails    *)
(* counts as one without a record.                                         *)
AsRead == {[i \in 0..1 |-> IF i \in read THEN rec[i] ELSE None] : read \in SUBSET (0..1)}

(* A reading that misses the current record: whoever goes by it acts on    *)
(* the one before, or on none.                                             *)
Misses(r) == ota_bootrec_current(r) # ota_bootrec_current(rec)

(* Mutant: a trial that did not confirm is booted once more. *)
choose_pending(r) ==
    LET cur == ota_bootrec_current(r)
    IN  IF cur < 0 THEN NoRec
        ELSE [slot |-> IF r[cur].pending = NoSlot THEN r[cur].active ELSE r[cur].pending,
              trial |-> r[cur].pending # NoSlot /\ ~r[cur].tried, current |-> cur]

(* That the last trial did not confirm is only reported, and the mark that *)
(* says so left out.                                                       *)
ota_boot_choose(r) ==
    LET cur == ota_bootrec_current(r)
    IN  IF cur < 0 THEN NoRec
        ELSE IF r[cur].pending \notin {NoSlot, r[cur].active} /\ ~r[cur].tried
        THEN [slot |-> r[cur].pending, trial |-> TRUE, current |-> cur]
        ELSE [slot |-> r[cur].active, trial |-> FALSE, current |-> cur]

(* Mutant: a trial is not marked as tried. *)
MarkedNone(r, c) == r

(* The word the loader clears, in place, before it boots. *)
Marked(r, c) == IF c.trial THEN [r EXCEPT ![c.current].tried = TRUE] ELSE r

-----------------------------------------------------------------------------
(* The loader.                                                             *)

(* The slots whose header is there, which slot_ok() finds unless its read  *)
(* fails.                                                                  *)
Headed == {s \in Slots : hdr[s] # NoImage}

(* The slot it boots in the end, of those it found an image in: the chosen *)
(* one, or else the record's active one, or else the other; or -1.         *)
BootSlot(r, c, found) ==
    LET act  == IF c.current >= 0 THEN r[c.current].active ELSE 0
        next == IF act = c.slot THEN 1 - act ELSE act
    IN  IF c.slot \in found THEN c.slot ELSE IF next \in found THEN next ELSE -1

(* The records are read, and a mark cleared, which may fail unnoticed. *)
LoaderChoose ==
    /\ power = "loader" /\ power' = "chosen"
    /\ \E r \in AsRead :
        /\ choice' = ota_boot_choose(r)
        /\ rec' \in {rec, Marked(rec, choice')}
        /\ misled' = (misled \/ Misses(r) \/ rec' # Marked(rec, choice'))
    /\ UNCHANGED <<hdr, body, run, g, todo, wdt, vouched, overActive, cuts>>

(* Mutant: the watchdog is armed for a trial and never disarmed. *)
LoaderStartArmed ==
    LET s     == BootSlot(rec, choice, Headed)
        trial == choice.trial /\ s = choice.slot
    IN  /\ power = "chosen" /\ s >= 0 /\ power' = "run" /\ wdt' = (wdt \/ trial)
        /\ run' = [slot |-> s, trial |-> trial, confirmed |-> FALSE]
        /\ choice' = NoRec
        /\ UNCHANGED <<hdr, body, rec, g, todo, vouched, history, cuts>>

(* The loader ends in a loop when it finds no image, or the RAM half of    *)
(* the one it found does not load: for want of a read, or with everything  *)
(* read.                                                                   *)
LoaderStart ==
    /\ power = "chosen"
    /\ \E found \in SUBSET Headed, loads \in BOOLEAN :
        LET s     == BootSlot(rec, choice, found)
            trial == choice.trial /\ s = choice.slot
            told  == s = BootSlot(rec, choice, Headed) /\ loads
        IN  /\ IF s >= 0 /\ loads /\ body[s] = hdr[s]
               THEN /\ power' = "run" /\ wdt' = trial
                    /\ run' = [slot |-> s, trial |-> trial, confirmed |-> FALSE]
               ELSE power' = (IF told THEN "stuck" ELSE "halted") /\ UNCHANGED <<wdt, run>>
            /\ misled' = (misled \/ ~told)
    /\ choice' = NoRec
    /\ UNCHANGED <<flash, g, todo, vouched, overActive, cuts>>

-----------------------------------------------------------------------------
(* The commands.  The flash steps of a command: a header or a body erased  *)
(* or written, a record sector erased or written, and at the end what the  *)
(* command sets.                                                           *)

Running == power = "run" /\ todo = <<>>
Other   == 1 - run.slot
OnTrial == run.trial /\ ~run.confirmed

(* r is what read_records() made of the sectors. *)
write_record(r, active, pending) ==
    LET cur    == ota_bootrec_current(r)
        target == IF cur = 0 THEN 1 ELSE 0
        seq    == IF cur >= 0 THEN (r[cur].seq + 1) % SeqMod ELSE 1
    IN  <<[do |-> "record", i |-> target, r |-> None],
          [do |-> "record", i |-> target,
           r |-> [valid |-> TRUE, seq |-> seq, active |-> active, pending |-> pending, tried |-> FALSE]]>>

Set(st) == <<[do |-> "set", st |-> st]>>

Command(steps) == todo' = steps /\ UNCHANGED <<hdr, body, rec, power, choice, run, wdt, vouched, cuts>>

(* `begin`: nothing is erased until the header has arrived. *)
Begin ==
    /\ Running
    /\ g' \in IF OnTrial THEN {[g EXCEPT !.st = "error"]}
              ELSE {[g EXCEPT !.st = "error"], [st |-> "receiving", img |-> NoImage]}
    /\ Command(<<>>) /\ UNCHANGED history

(* Mutant: the old header stays until the new one is written. *)
HeaderKeeps(img) ==
    /\ Running /\ g.st = "receiving" /\ g.img = NoImage
    /\ g' = [g EXCEPT !.img = img] /\ Command(<<>>) /\ UNCHANGED history

(* The header is complete.  It may be refused.  If not: a pending image in *)
(* the slot is withdrawn, if the record r says so, and the slot's header   *)
(* erased.                                                                 *)
Header(img) ==
    /\ Running /\ g.st = "receiving" /\ g.img = NoImage
    /\ \/ g' = [g EXCEPT !.st = "error"] /\ Command(<<>>) /\ UNCHANGED history
       \/ \E r \in AsRead, q \in AsRead :
            LET cur       == ota_bootrec_current(rec)
                seen      == ota_bootrec_current(r)
                withdraws == seen >= 0 /\ r[seen].pending = Other
            IN  /\ g' = [g EXCEPT !.img = img]
                /\ Command((IF withdraws THEN write_record(q, run.slot, NoSlot) ELSE <<>>)
                           \o <<[do |-> "hdr", img |-> NoImage]>>)
                /\ overActive' = (overActive \/ (cur >= 0 /\ rec[cur].active = Other))
                /\ misled' = (misled \/ (withdraws /\ Misses(q)))

(* The parts, and ota_board_finish(); or a write out of order. *)
Parts ==
    /\ Running /\ g.st = "receiving" /\ g.img # NoImage
    /\ \/ UNCHANGED g /\ Command(<<[do |-> "body", img |-> NoImage], [do |-> "body", img |-> g.img]>> \o Set("received"))
       \/ UNCHANGED g /\ Command(<<[do |-> "body", img |-> NoImage]>> \o Set("error"))
    /\ UNCHANGED history

(* `commit`: the slot's parts are read back and hashed, the header         *)
(* written, and the next boot asked to try the slot.                       *)
Commit ==
    /\ Running /\ g.st = "received"
    /\ \/ \E r \in AsRead :
            /\ body[Other] = g.img /\ UNCHANGED g
            /\ Command(<<[do |-> "hdr", img |-> g.img]>> \o write_record(r, run.slot, Other) \o Set("committed"))
            /\ misled' = (misled \/ Misses(r))
       \/ g' = [g EXCEPT !.st = "error"] /\ Command(<<>>) /\ UNCHANGED misled
    /\ UNCHANGED overActive

(* `switch`: whoever asks for it stands for the image that is there. *)
Switch ==
    /\ Running
    /\ \/ \E r \in AsRead :
            /\ ~OnTrial /\ Other \in Headed /\ UNCHANGED g
            /\ Command(write_record(r, Other, NoSlot))
            /\ misled' = (misled \/ Misses(r))
       \/ g' = [g EXCEPT !.st = "error"] /\ Command(<<>>) /\ UNCHANGED misled
    /\ UNCHANGED overActive

(* `confirm`, or the trial task finding a healthy board. *)
Confirm ==
    /\ Running /\ OnTrial
    /\ \E r \in AsRead :
        /\ Command(write_record(r, run.slot, NoSlot) \o <<[do |-> "confirmed"]>>)
        /\ misled' = (misled \/ Misses(r))
    /\ UNCHANGED <<g, overActive>>

Abort ==
    /\ Running /\ g' = Idle /\ Command(<<>>) /\ UNCHANGED history

-----------------------------------------------------------------------------
(* A header is a new image's, or nobody's; a record without a pending slot *)
(* stands for the image in its active one.                                 *)
Vouched(step) ==
    CASE step.do = "hdr" -> vouched \ {Other}
      [] step.do = "record" /\ step.r.valid /\ step.r.pending = NoSlot -> vouched \cup {step.r.active}
      [] OTHER -> vouched

(* One flash step.  `set` and its like are the assignments that follow.    *)
FlashStep ==
    LET step == Head(todo) IN
    /\ power = "run" /\ todo # <<>> /\ todo' = Tail(todo)
    /\ hdr'  = IF step.do = "hdr"  THEN [hdr EXCEPT ![Other] = step.img] ELSE hdr
    /\ body' = IF step.do = "body" THEN [body EXCEPT ![Other] = step.img] ELSE body
    /\ rec'  = IF step.do = "record" THEN [rec EXCEPT ![step.i] = step.r] ELSE rec
    /\ g'    = IF step.do = "set" THEN [st |-> step.st, img |-> IF step.st = "committed" THEN NoImage ELSE g.img] ELSE g
    /\ run'  = IF step.do = "confirmed" THEN [run EXCEPT !.confirmed = TRUE] ELSE run
    /\ wdt'  = (wdt /\ step.do # "confirmed")
    /\ vouched' = Vouched(step)
    /\ UNCHANGED <<power, choice, history, cuts>>

(* A flash operation fails: fail(), or for `confirm` just the answer -1.   *)
(* What it was on is then as before, or invalid, or, when it is only the   *)
(* answer or the read-back that failed, as it should be.                   *)
FlashFails ==
    LET step == Head(todo) IN
    /\ power = "run" /\ todo # <<>> /\ step.do \in {"hdr", "body", "record"}
    /\ hdr'  \in IF step.do = "hdr"  THEN {hdr} \cup {[hdr EXCEPT ![Other] = i] : i \in {NoImage, step.img}} ELSE {hdr}
    /\ body' \in IF step.do = "body" THEN {body} \cup {[body EXCEPT ![Other] = i] : i \in {NoImage, step.img}} ELSE {body}
    /\ rec'  \in IF step.do = "record" THEN {rec} \cup {[rec EXCEPT ![step.i] = r] : r \in {None, step.r}} ELSE {rec}
    /\ vouched' = IF <<hdr', rec'>> # <<hdr, rec>> THEN Vouched(step) ELSE vouched
    /\ g' = IF todo[Len(todo)].do = "confirmed" THEN g ELSE [g EXCEPT !.st = "error"]
    /\ todo' = <<>>
    /\ UNCHANGED <<power, choice, run, wdt, history, cuts>>

-----------------------------------------------------------------------------
(* A reset: `reboot` or the trial task giving up, carried out 300 ms after *)
(* it is asked for whatever command is under way by then; the trial's      *)
(* watchdog; and the ROM's, armed before the loader starts and disarmed    *)
(* early in the kernel, which ends the loader's last loops.  A power cut   *)
(* takes the trial watchdog's settings too.                                *)
Reset ==
    /\ power' = "loader" /\ choice' = NoRec /\ run' = NoRun /\ g' = Idle /\ todo' = <<>>
    /\ UNCHANGED <<hdr, body, rec, vouched, history>>

Reboot == power = "run" /\ Reset /\ UNCHANGED <<wdt, cuts>>

Watchdog == power \in {"run", "halted", "stuck"} /\ wdt /\ Reset /\ UNCHANGED <<wdt, cuts>>

RomWatchdog == power \in {"halted", "stuck"} /\ Reset /\ UNCHANGED <<wdt, cuts>>

PowerCut == cuts < MaxCuts /\ cuts' = cuts + 1 /\ wdt' = FALSE /\ Reset

Init ==
    /\ hdr = [s \in Slots |-> IF s = 0 THEN First ELSE NoImage]
    /\ body = hdr
    /\ rec = [i \in 0..1 |-> None]
    /\ power = "loader" /\ choice = NoRec /\ run = NoRun /\ g = Idle /\ todo = <<>>
    /\ wdt = FALSE /\ vouched = {0} /\ overActive = FALSE /\ misled = FALSE /\ cuts = 0

Next ==
    \/ LoaderChoose \/ LoaderStart
    \/ Begin \/ (\E img \in Images : Header(img)) \/ Parts \/ Commit \/ Switch \/ Confirm \/ Abort
    \/ FlashStep \/ FlashFails
    \/ Reboot \/ Watchdog \/ RomWatchdog \/ PowerCut

Spec == Init /\ [][Next]_vars

(* The loader and a command under way go on, and an armed watchdog ends.   *)
FairSpec ==
    /\ Spec /\ WF_vars(LoaderChoose) /\ WF_vars(LoaderStart) /\ WF_vars(FlashStep)
    /\ WF_vars(Watchdog) /\ WF_vars(RomWatchdog)

-----------------------------------------------------------------------------
(* What the next boot would do if the power went now. *)
NextChoice == ota_boot_choose(rec)
NextSlot   == BootSlot(rec, NextChoice, Headed)

(* Whenever the power goes, between any two flash steps of any command or  *)
(* of the loader, the next boot finds a slot that holds a complete image.  *)
Bootable ==
    /\ power # "stuck"
    /\ NextSlot \in Slots /\ body[NextSlot] = hdr[NextSlot]

(* An image that was neither confirmed nor switched to is booted on trial, *)
(* with the watchdog to end it, wherever the power goes: unless an update  *)
(* went over the slot that the record calls active, which prepare_slot()   *)
(* does not withdraw, or a read that failed has misled a command or the    *)
(* loader.  updates.md promises it without exceptions ("until the new one  *)
(* has proven itself").                                                    *)
TriedFirst ==
    \/ overActive \/ misled
    \/ NextChoice.trial /\ NextSlot = NextChoice.slot
    \/ NextSlot \in vouched

(* The trial's watchdog, whose settings survive the reset it causes, is    *)
(* never armed under an image that is not, or no longer, on trial.         *)
WatchdogScoped ==
    power = "run" /\ wdt => run.trial /\ ~run.confirmed

(* A node that runs an image on trial comes to run one that is vouched     *)
(* for: the trial is confirmed, or the watchdog ends it and the loader     *)
(* goes back; but for the same two exceptions.                             *)
ComesBack ==
    (power = "run" /\ run.slot \notin vouched)
        ~> (power = "run" /\ run.slot \in vouched) \/ overActive \/ misled
=============================================================================
