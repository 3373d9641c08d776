------------------------------- MODULE OtaInv -------------------------------
(***************************************************************************)
(* The inductive invariant behind an update that never leaves a board      *)
(* without an image: what the flash holds between any two of its steps,    *)
(* whom the boot record stands for, and what the steps that a command has  *)
(* still to do will make of both.                                          *)
(***************************************************************************)
EXTENDS Ota

AnyImage == Images \cup {NoImage}

(* The steps of a flash command. *)
FlashSteps ==
    [do : {"hdr", "body"}, img : AnyImage] \cup [do : {"record"}, i : 0..1, r : Records]
    \cup [do : {"set"}, st : {"received", "error", "committed"}] \cup [do : {"confirmed"}]

Cur == ota_bootrec_current(rec)

(* The two ways in which the records may come to stand for an image that   *)
(* nobody has vouched for.                                                 *)
Excused == overActive \/ misled

(* A header that is there describes a body that is there, one slot has an  *)
(* image, and the slot that runs is never touched.                         *)
SlotsWhole ==
    /\ \A s \in Slots : hdr[s] # NoImage => body[s] = hdr[s]
    /\ \E s \in Slots : hdr[s] # NoImage
    /\ power = "run" => hdr[run.slot] # NoImage
    /\ power # "stuck"
    /\ \A s \in vouched : hdr[s] # NoImage

(* The image in the slot that the record calls active has been vouched     *)
(* for; without a record that is slot 0, and it runs.                      *)
RecordStands ==
    /\ Cur < 0  => misled \/ (0 \in vouched /\ (power = "run" => run.slot = 0))
    /\ Cur >= 0 => Excused \/ rec[Cur].active \in vouched

(* The loader's choice is still that of the record it has just marked. *)
ChoiceStands ==
    power = "chosen" =>
        /\ choice.trial => choice.current >= 0
        /\ ~misled =>
            /\ choice.current = Cur
            /\ Cur < 0 => choice.slot = 0 /\ ~choice.trial
            /\ Cur >= 0 => IF choice.trial THEN choice.slot # rec[Cur].active ELSE choice.slot = rec[Cur].active

(* What runs and is not, or no longer, on trial has been vouched for. *)
RunStands ==
    power = "run" =>
        /\ run.confirmed => run.slot \in vouched
        /\ ~run.trial => Excused \/ run.slot \in vouched

(* The record calls the running slot active, as far as anything in the     *)
(* other slot is concerned.                                                *)
ActiveHere == Excused \/ (Cur >= 0 => rec[Cur].active = run.slot)

(* An update is on its way into the other slot. *)
Receiving == g.st \in {"receiving", "received"} /\ g.img # NoImage

(* A step to come, by its kind.  A header is written over a body that is   *)
(* complete, a body under a header that is erased.                         *)
HdrStep(s)  == /\ s.img # NoImage => body[Other] = s.img
               /\ ActiveHere
BodyStep(s) == hdr[Other] = NoImage

(* A record goes to the sector that is not current and succeeds the        *)
(* current one.  It stands for a slot that has an image, and offers a slot *)
(* for trial only beside an image that was vouched for.                    *)
RecordStep(s) ==
    /\ ~misled => s.i = IF Cur = 0 THEN 1 ELSE 0
    /\ s.r.valid =>
        /\ ~misled => s.r.seq = IF Cur >= 0 THEN (rec[Cur].seq + 1) % SeqMod ELSE 1
        /\ hdr[s.r.active] # NoImage
        /\ s.r.pending # NoSlot => Excused \/ s.r.active \in vouched

(* What a command leaves behind, by its last step. *)
Ending(s) ==
    /\ s.do # "body"
    /\ s.do = "hdr" => s.img = NoImage
    /\ s.do = "record" => ~Receiving
    /\ s.do = "set" => Receiving
    /\ s.do = "confirmed" \/ (s.do = "set" /\ s.st # "committed")
        => (Receiving => hdr[Other] = NoImage /\ ActiveHere)

(* The rest of the command under way. *)
Plan ==
    /\ todo \in Seq(FlashSteps)
    /\ todo # <<>> => power = "run" /\ Ending(todo[Len(todo)])
    /\ \A i \in 1..Len(todo) :
        LET s == todo[i] IN
        /\ s.do = "hdr"    => HdrStep(s) /\ \A j \in 1..Len(todo) : todo[j].do # "body"
        /\ s.do = "body"   => BodyStep(s)
        /\ s.do = "record" => RecordStep(s)
        /\ s.do = "set"    => i = Len(todo) /\ ~OnTrial /\ g.img # NoImage
        /\ s.do = "confirmed" => i = Len(todo)
    /\ \A i, j \in 1..Len(todo) :
        /\ todo[i].do = "record" /\ todo[i].r.valid /\ j > i => todo[j].do # "record"
        /\ todo[i].do = "record" /\ todo[i].r.valid /\ todo[i].r.active # run.slot
            => todo[j].do = "record"
        /\ todo[i].do = "confirmed" \/ (todo[i].do = "set" /\ todo[i].st # "committed") => todo[j].do # "hdr"

(* A trial is confirmed once its record is there. *)
Confirming ==
    \A i \in 1..Len(todo) : todo[i].do = "confirmed" =>
        \/ run.slot \in vouched
        \/ \E j \in 1..(i - 1) : /\ todo[j].do = "record" /\ todo[j].r.valid
                                 /\ todo[j].r.active = run.slot /\ todo[j].r.pending = NoSlot

(* Between commands, an update under way has the other slot to itself. *)
Updating ==
    /\ g.st \in {"receiving", "received"} => power = "run" /\ ~OnTrial
    /\ g.st = "received" => g.img # NoImage
    /\ Receiving /\ todo = <<>> => hdr[Other] = NoImage /\ ActiveHere

OtaInv ==
    /\ TypeOK /\ WatchdogScoped
    /\ SlotsWhole /\ RecordStands /\ ChoiceStands /\ RunStands
    /\ Plan /\ Confirming /\ Updating
=============================================================================
