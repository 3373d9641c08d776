-------------------------------- MODULE Park --------------------------------
(***************************************************************************)
(* The park handshake of kernel/smp.c around a flash operation: tasks on   *)
(* core 0 ask core 1 to leave the flash, turn execute-in-place off with    *)
(* their own interrupts masked, and release it (drivers/flash_rp2350.c,    *)
(* kernel/setup_button.c).  Core 1 looks at the request in sched_yield()   *)
(* and spins on it in RAM.                                                 *)
(*                                                                         *)
(* The tasks of core 0 preempt each other at any step as long as           *)
(* interrupts are on; every load and store of the two words is a step.     *)
(***************************************************************************)
EXTENDS Naturals

CONSTANT Users    \* tasks of core 0 that use the flash: an update, the setup button

VARIABLES
    g_flash_park_req, g_flash_park_ack,
    xip,      \* the flash answers fetches
    pc,       \* of each user
    pc1       \* of core 1

vars == <<g_flash_park_req, g_flash_park_ack, xip, pc, pc1>>

TypeOK ==
    /\ g_flash_park_req \in BOOLEAN /\ g_flash_park_ack \in BOOLEAN /\ xip \in BOOLEAN
    /\ pc \in [Users -> {"out", "poll", "last", "parked", "masked", "off", "release"}]
    /\ pc1 \in {"flash", "check", "spin", "leave"}

(* Core 1 schedules, and nobody is at the flash. *)
Init ==
    /\ g_flash_park_req = FALSE /\ g_flash_park_ack = FALSE /\ xip = TRUE
    /\ pc = [u \in Users |-> "out"]
    /\ pc1 = "flash"

(* Core 0 runs u: nobody else there has the interrupts masked. *)
At(u, p)   == pc[u] = p /\ \A v \in Users \ {u} : pc[v] \notin {"masked", "off"}
Goto(u, p) == pc' = [pc EXCEPT ![u] = p]

-----------------------------------------------------------------------------
(* smp_flash_park_request(): asks, polls until its deadline, and looks a   *)
(* last time before it gives up.                                           *)
Request(u) ==
    /\ At(u, "out")
    /\ g_flash_park_req' = TRUE
    /\ Goto(u, "poll")
    /\ UNCHANGED <<g_flash_park_ack, xip, pc1>>

Poll(u) ==
    /\ At(u, "poll")
    /\ \/ Goto(u, "last")
       \/ g_flash_park_ack /\ Goto(u, "parked")
    /\ UNCHANGED <<g_flash_park_req, g_flash_park_ack, xip, pc1>>

LastLook(u) ==
    /\ At(u, "last")
    /\ Goto(u, IF g_flash_park_ack THEN "parked" ELSE "out")
    /\ g_flash_park_req' = (g_flash_park_req /\ g_flash_park_ack)
    /\ UNCHANGED <<g_flash_park_ack, xip, pc1>>

(* flash_rom_op(): interrupts off, then the flash, then all of it back. *)
Mask(u) ==
    /\ At(u, "parked")
    /\ Goto(u, "masked")
    /\ UNCHANGED <<g_flash_park_req, g_flash_park_ack, xip, pc1>>

XipOff(u) ==
    /\ At(u, "masked")
    /\ xip' = FALSE
    /\ Goto(u, "off")
    /\ UNCHANGED <<g_flash_park_req, g_flash_park_ack, pc1>>

XipOn(u) ==
    /\ At(u, "off")
    /\ xip' = TRUE
    /\ Goto(u, "release")
    /\ UNCHANGED <<g_flash_park_req, g_flash_park_ack, pc1>>

(* smp_flash_park_release() *)
Release(u) ==
    /\ At(u, "release")
    /\ g_flash_park_req' = FALSE
    /\ Goto(u, "out")
    /\ UNCHANGED <<g_flash_park_ack, xip, pc1>>

-----------------------------------------------------------------------------
(* smp_flash_park_check() on core 1 sees the request ... *)
Check ==
    /\ pc1 = "flash" /\ g_flash_park_req
    /\ pc1' = "check"
    /\ UNCHANGED <<g_flash_park_req, g_flash_park_ack, xip, pc>>

(* ... core1_park_spin() is in RAM and says so ... *)
Parked ==
    /\ pc1 = "check"
    /\ g_flash_park_ack' = TRUE
    /\ pc1' = "spin"
    /\ UNCHANGED <<g_flash_park_req, xip, pc>>

(* ... spins until the request is gone ... *)
Unspin ==
    /\ pc1 = "spin" /\ ~g_flash_park_req
    /\ pc1' = "leave"
    /\ UNCHANGED <<g_flash_park_req, g_flash_park_ack, xip, pc>>

(* ... and returns to the flash. *)
Unpark ==
    /\ pc1 = "leave"
    /\ g_flash_park_ack' = FALSE
    /\ pc1' = "flash"
    /\ UNCHANGED <<g_flash_park_req, xip, pc>>

-----------------------------------------------------------------------------
Next ==
    \/ \E u \in Users : Request(u) \/ Poll(u) \/ LastLook(u) \/ Mask(u) \/ XipOff(u) \/ XipOn(u) \/ Release(u)
    \/ Check \/ Parked \/ Unspin \/ Unpark

Spec == Init /\ [][Next]_vars

(* "core 0 asks, and waits for an acknowledgement from code that is        *)
(* demonstrably no longer in flash": while the flash does not answer, core *)
(* 1 does not run from it.                                                 *)
ParkedInRam == ~xip => pc1 \in {"spin", "leave"}
=============================================================================
