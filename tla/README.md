# TLA+ models of the LugalOS kernel

LugalOS is a small RISC-V operating system (RP2350, ESP32-C6, ESP32-P4, QEMU
rv32/rv64): a preemptive multi-hart scheduler, synchronous message channels
between tasks and drivers, kernel objects on top of both, and above them 9P file
systems, a network stack, a shell and user programs. This directory models the
parts of it where tasks, harts, nodes or boots meet: the scheduler, channels, locks
and kernel objects that everything else waits with, the flash park handshake
between the cores, the link protocol between two nodes, and the update of a node's
own image. `PROJECT.json` maps each definition to the source
lines it stands for; the paths here are relative to the repository.

## Inventory

| Component | State it keeps | Operations | Talks to |
|---|---|---|---|
| Scheduler (`kernel/sched.c`, `switch.S`) | `g_tasks[]` (state, affinity, priority, deadline, wake token, stack, saved sp), `g_current[]`, `g_reap_stack[]`, `g_sched_lock` | `sched_switch`, `ctx_switch`, `sched_yield`, `task_block(_until_ms)`, `task_prepare_block`, `task_wait_done`, `task_unblock`, `task_sleep_ms`, `task_create_full`, `task_exit`, `task_set_priority/affinity`, `sched_secondary_init` | everyone; `palloc` for stacks; `chan_owner_exited()` on exit |
| Timer tick (`kernel/ticker.c`, `trap.c`) | next tick | `sched_yield()` from the interrupt | scheduler |
| Channels (`kernel/chan.c`) | per endpoint: claim (`busy`, `holder`), wait queue, `handed_to`, one request and one response buffer, `caller_pid`, `request_pending` | `chan_call(_wait)`, `chan_serve_wait`, `chan_serve_reply`, `chan_owner_exited` | wakes tasks by pid; drivers, file systems and 9P are its owners |
| Kernel objects (`kernel/kobj*.c`) | a table per type with generations: semaphores, mutexes, queues, event groups; timers by domain and key | create, delete, take/lock/receive/wait, give/unlock/send/set, cancel; arm, disarm, wait for timers; release of a domain | wait pattern of the scheduler |
| Locks (`kernel/lock.c`) | spinlocks with holder, ylocks (word, owner, depth), one wait-for edge per task | acquire, try, release, enter and leave the graph, report | scheduler; channels enter the graph too |
| Multi-hart (`kernel/smp.c`, `hart.c`) | hart states, flash park request and acknowledgement, holds | start, park for a flash write, release | scheduler's yield; flash driver, setup button |
| Page allocator (`kernel/palloc.c`) | page bitmap or buddy lists | alloc, free | stacks, domains, heaps |
| Kernel log (`kernel/klog.c`, `klogd.c`) | ring with sequence numbers | append from any context, drain | console, channels |
| Link protocol (`kernel/llp.c`, `llp_node.c`) | per link: state, sessions, 8-bit sequence numbers, credit window, timers; receive and send queues | HELLO, CREDIT, PROBE, data; the pump: read, events, drain, tick | UART or SDIO peer; 9P links, network interface |
| OTA update (`kernel/ota*.c`, board backends, loader) | two slots, two boot records, trial watchdog, the update under way | begin, write, commit, switch, confirm, abort, reboot; loader: choose, mark, start | flash, watchdog, boot |
| Identity store (`kernel/idstore.c`) | records in flash | read, write | flash park |
| Device interrupts, service host (`kernel/devirq.c`, `svchost.c`) | handlers, pending bits | attach, deliver, acknowledge | channels |
| Memory domains, traps, ELF | page tables or PMP regions per task | switch on `ctx_switch`, fault | scheduler |
| 9P, FAT32, VFS server | fids, FATs, caches | T/R messages, file operations | channels |
| Network (`net/`) | TCP connections, TLS, MQTT, HTTP | segments, timers | drivers |
| Time discipline, entropy | clock offset and rate, pool | adjust, mix | everyone |
| Console, shell, editor, displays; drivers; user programs, host tools | own | own | all of the above |

### What is hard here

- Two harts share one task table. The outgoing task is made READY or BLOCKED
  *before* its registers are saved, so between those two steps only
  `g_sched_lock`, taken on one stack and released on another, keeps the second
  hart from resuming it from a stale frame.
- A tick may preempt any task at any instruction outside a locked section, also in
  the middle of its own `task_block()`, and itself runs `sched_switch()` on top.
- A wake may come between a waiter's test and its block, after its deadline,
  twice, or after the waiter has exited and its slot was reused: pids are plain
  slot numbers.
- `task_exit()` cannot free the stack it runs on; the next task to run on the hart
  does, through a slot that holds one stack only.
- A claim on a channel is held across a block, handed over directly to a
  waiter, and must survive a waiter that gives up, a full queue, and a caller or
  owner that dies.

- A kernel object's waiter lives on the stack of the task that waits. A grant, a
  deletion, a timeout and the cancel after it may come in any order, and each has to
  find the waiter where it is.
- A ylock's word, owner and depth change in several stores that another hart sees
  one by one, and a waiter's edge in the graph outlives the holder it names.
- Two nodes restart, fall silent and lose frames independently; what was written for
  one session must not reach the next, and sequence numbers wrap at 256.
- The power may go between any two flash steps of an update, any of which, and any
  read, may fail, and the watchdog that guards a trial survives the reset it causes.

The complete list, each entry at its line and with the properties aimed at it, is
"hazards" in `PROJECT.json`.

## Modules

| Module | Models | Source |
|---|---|---|
| `Sched` | the scheduler with its tick, on any number of harts | `kernel/sched.c`, `arch/riscv/common/switch.S` |
| `SchedInv` | the inductive invariants of the stack discipline, the wake token, the reap slots and the pages | - |
| `WakeToken` | abstract: what the scheduler promises a waiting task | `kernel/include/kernel/sched.h`, `kernel/sched.c` |
| `Chan` | one endpoint, its callers and its owner, waiting with `WakeToken` | `kernel/chan.c` |
| `Kobj` | one kernel object of any type and the tasks that use it, waiting with `WakeToken` | `kernel/kobj.c`, `kernel/kobj_sched.c` |
| `Ktimer` | the timers, extending `Kobj` | the same |
| `WaitFor` | ylocks, the wait-for graph, the calls it refuses | `kernel/lock.c`, `kernel/chan.c` |
| `Park` | the flash park handshake and its requesters | `kernel/smp.c`, `drivers/flash_rp2350.c`, `kernel/setup_button.c` |
| `Llp` | two nodes and the link between them | `kernel/llp.c`, `kernel/llp_node.c` |
| `Ota` | the update commands, the flash, the loader | `kernel/ota.c`, `kernel/ota_image.c`, `drivers/ota_esp32p4.c`, `arch/riscv/esp32p4/loader.c` |
| `MCSched`, `MCChan`, `MCKobj`, `MCWaitFor`, `MCPark`, `MCLlp`, `MCOta` | constants of the runs | - |
| `SchedProofs` | type correctness and the hand-off of the lock | - |
| `StackProofs` | the stack discipline | - |
| `WakeProofs` | no wake lost, the reap slot, the pages, `Sched` implements `WakeToken` | - |
| `WaitForProofs` | mutual exclusion of ylocks, no circle of calls | - |
| `ChanInv`, `ChanProofs` | the inductive invariant of an endpoint, and all of `Chan`'s safety properties | - |
| `KobjInv`, `KobjProofs` | the inductive invariants of semaphores, mutexes and queues and of the timers, and their safety properties | - |
| `LlpInv`, `LlpProofs` | the inductive invariants of a link's sessions, numbers and credit, and all of `Llp`'s safety properties | - |
| `OtaInv`, `OtaProofs` | the inductive invariant of an update, and all of `Ota`'s safety properties | - |

`Sched` implements `WakeToken` (run `wait`, property `ImplementsWakeToken`), and
`Chan`, `Kobj` and `Ktimer` are written on `WakeToken` instead of on `Sched`: that is
how the components compose without the product of their state spaces.

### Sched

The columns of `task_t` are functions on `Tasks`, the per-hart words functions on
`Harts`. A section under `g_sched_lock` that neither blocks nor switches is one
step with guard `lock = Free`. The switch is the exception and the point: it takes
the lock in `PickSwitch` (or `Exit`), saves the outgoing frame in `Park`, and
releases the lock on the incoming stack in `Resume`, three steps between which the
other harts run whatever does not need the lock. `exec[h]` is the stack hart `h`
executes on and `sp[t]` the stack holding the frame task `t` would resume from,
NULL once it is consumed, so that resuming a task twice or from a frame not yet
saved is visible.

| Code | Actions |
|---|---|
| `sched_switch()` | `Reap`, `PickWoken` (SWITCH_WOKEN), `PickIdle` (SWITCH_IDLE), `PickSelf`, `PickSwitch`; `next_runnable()` is `NextRunnable`, with the deadline scan it makes on the way |
| `ctx_switch()`, `task_start()` | `Park`, `Resume` |
| the tick, `sched_yield()` | `Tick` (on top of whatever the task is at), `Yield` |
| `task_prepare_block()`, `task_block_until_ms()`, `task_wait_done()` and the prepare-test-block loop `sched.h` prescribes | `PrepareBlock`, `TestWait`, `SetDeadline`, `SpinEnd`, `ClearDeadline`, `WaitDone` |
| `task_sleep_ms()` | `BeginSleep`, `SleepAgain`, `EndSleep` |
| `task_unblock()` and what its callers do before it | `Signal`, `Unblock` |
| `task_create_full()` | `CreateReserve`, `CreateFail`, `CreateInit`, `CreatePublish` |
| `task_exit()` | `BeginExit`, `ExitPark`, `Exit` |
| `sched_secondary_init()` | `SecondaryInit` |
| `task_set_priority()`, `task_set_affinity()` | `SetPriority`, `SetAffinity` |
| `time_get_ms()` | `Clock`: a deadline is ahead, past, or absent |

What a task's body does is a choice among the calls `Calls[t]` allows it, so one
module serves every run. Left out of `Sched`: memory domains and FPU state, the
statistics and diagnostics, the hart holds (`sched.c:298-317`) and the flash park
check in the idle loop, and the memory model (a step sees all earlier ones). The
affinity check in the shell and the store that follows it are one step.

### Chan

One endpoint, owned by a task or with an inline handler, as `ep` says. A section
under `ep->lock` is one step; the plain stores of the call protocol are steps of
their own. A message is named by the caller whose call it belongs to. `TaskBlock`
is `task_block()`: it sleeps, returns on a token, or, where the hart had nothing else to
run, comes back unprepared at once or prepared when the spin has found other work. `chan_owner_exited()` is `OwnerExited` and
`CallerExits`, each before the `Die` that marks the task DEAD, as in `task_exit()`.
Left out: endpoint registration, the zero-copy variant, and message contents and
lengths; the wait-for graph is in `WaitFor`. A caller exits only where the code lets
it: outside a call, or in an inline handler that faults.

### Kobj and Ktimer

`kobj.c` never blocks: each of its functions is an operator from the tables (`core`)
to the new tables, a result and the tasks to wake. `kobj_sched.c` applies one at a
time under `g_kobj_lock` (`Get`, `Put`, `Clear`, `Create`, `DeleteCall`,
`ReleaseOwner`), wakes one task per step (`WakeOne`), and waits in `wait_for()`
(`Prep`, `Test`, `Block`, `Woken`), at the end of which the object's own
cancel settles the outcome (`Cancel`). A deadline that passes (`Expire`) is seen by the
waiter's own look at the clock before it blocks, or by another task's scan once it is off its hart
(`Scan`). A waiter that found nothing else to run is in neither case: it spins in `task_block()` until a token
(`SpinEnd`) or other work (`SpinWork`) comes, and nobody reads its deadline. Objects share only the lock and the waiting, so a
behaviour follows one slot of one of the tables, chosen by `type`; calls may come
through the handle of any object the slot has held. `inc` counts the slot's
deletions, of which slot and handle keep `SlotGens` and `HandleGens`. `told` records
what results told the callers, and the invariants compare that with the tables.
`Ktimer` adds the timer table, the microsecond clock, `kos_timer_wait()` and
`timer_poke()`, whose read of `g_timer_waiter` and wake are two steps; its thread may spin in the same
way (`TimerSpinEnd`, `TimerSpinWork`).

### WaitFor

Taking a ylock is `Reenter`, or `Gate` (the word), `Own` (owner, depth), `Leave` (the
edge), or `Busy` (the holder is read) and `Enter` (the edge, or a turn counted
towards the report); releasing it is `Release` and `Open`. What a task's code holds is
`held`, which the kernel does not see. Calls of `chan_call_task()` enter the same
graph. A ylock's owner and depth, two stores in the code, are one in `Own` and one in `Release`. `waitfor_reaches` is stated by closed sets, which is what a proof can use;
`MCWaitFor` has the bounded walk of the code and an assumption, evaluated by TLC,
that the two agree on every graph of the instance.

### Park

Two words, every load and store a step, tasks of core 0 that preempt each other
while interrupts are on, and core 1.

### Llp

A link's state is a record as in `llp_link_t`; the functions of `llp.c` are operators
from it to the new state and the frames handed to the channel, under their names in
the code. The pump's turn is split into `Read` (one frame), `Events`, `Drain` and
`Tick`, so that the other node and the tasks at the queues run between. A client of the link writes its
request (`p9_write`), waits in `p9_send()` for room (`p9_send`, `p9_give_up`), and the peer may be
another by the time there is some: the message is tagged with the peer it is queued for, which need not be the one it
was written for. The replies of the node's own server take the same path and are not told apart. `Tick` is given which timer has run
out. Timers are long against the time a frame is on the line: a timer that sends finds room
in the channel, and only a pump that has read everything takes its peer for dead.
Faults, bounded in number: a frame lost or repeated, a restart (perhaps of another
major version), a silence long enough to be taken for death. Data, credit and probe frames carry
ghosts: the unbounded number their eight bits stand for and the two sessions they belong to.

### Ota

A command is a list of flash steps done one by one (`FlashStep`), any of which may
fail leaving the old contents, none, or the new ones (`FlashFails`); `Reboot`, `Watchdog` and `PowerCut`
may come between any two. The loader is `LoaderChoose` (records read, the mark
cleared in place) and `LoaderStart`. Reads may fail as well: a record sector that is not read counts as one
without a record (`AsRead`), in the loader and in every command that writes or withdraws a record; a
header that is not read sends the loader to the other slot, and a RAM half that is not ends
it in a loop (`halted`), which the ROM's watchdog, armed before the loader starts, resets (`RomWatchdog`). The loader's mark may fail unnoticed. An image is a model value; a header that is
valid names one, a body is one completely written image or none. A complete image is taken to load unless a read fails:
the loop at `loader.c:207-210` comes before `arm_trial_watchdog()`, so a RAM half that never loads would be tried and reset for ever.
Three histories serve the properties: `vouched` has the slots whose image was confirmed or switched
to, `overActive` says that an update went over the slot its record calls active, `misled` that a failed read or
mark made a command or the loader do something else than what the flash says.

## Runs

| Run | Instance | Shows |
|---|---|---|
| `wait` | 3 slots, 2 harts, 1 stack; timed and untimed waits, sleeps, wakes, exits, priority and pinning changed meanwhile | no stack shared, no task on two harts, no wake lost, no token left over, `WakeToken` implemented |
| `life` | 4 slots, 2 harts, 2 stacks; tasks created and exiting on both harts | stacks and slots reused safely, the reap slot empty at every exit, no stack leaked, nothing READY before it is published |
| `live` | 3 slots, 1 hart: two tasks that always run, one that waits (with a deadline or without) or sleeps; fair | a wait whose condition holds is left, `task_block_until_ms()` and `task_sleep_ms()` end at their deadline where something else always runs, no READY task starves |
| `calls` | task-owned with 2 callers, an owner that may exit and whose slot is reused, or inline with 3 callers of which 2 may die in the handler; queue of 1; fair | every claim has someone to release it, nobody is overtaken, replies go to their own request, no message or turn is lost, calls come back |
| `kobj` | 3 tasks: one with timeouts, one that waits for ever, one that polls, creates and deletes; limits of 2; fair | units, ownership and order as the callers were told, nobody stranded, no grant or timer lost, stale handles refused, waits end, those at their deadline unless left spinning for ever |
| `waitfor` | 3 tasks, 2 of them servers, 2 ylocks, one nested; fair | ylocks exclusive, calls never circular, circles through a ylock reported |
| `llp` | 2 nodes, one with a client, 1 line fault, 1 restart or silence; fair | nothing queued for one session handed on in another, sequence exact, credit never overspent, the link recovers |
| `ota` | 2 images, 1 power cut, any number of resets and of failing reads, writes and erases; fair | always bootable, new images on trial, watchdog scoped to the trial, the board comes back |
| `quiet`, `reuse`, `full`, `park` | see Findings | disagreements between code and comments |

Why the bounds are enough. Three slots on two harts are the least for a task to be
taken over by the other hart while the first is still leaving it; the hand-off
involves a hart, the task it leaves, the one it enters and a rival hart, and every
one of them is there. `life` has two stacks for three creatable slots, so that
creation meets an empty pool and a slot and a stack come back in different
pairings. `live` has one hart since with two every task there would have one
to itself. A queue of one place makes the full queue and the poller that joins late happen
with three callers; a fourth adds a longer queue and no new position in it. Slot
numbers, harts and callers are distinguished (scan order, lowest free slot, boot
task), so no symmetry is used. `Calls` names per slot what a run is about; the
union in one run would only be larger, not different. In `kobj` two waiters and one
that gives make every order of grant, timeout, deletion and cancel; a ring of two
places wraps with two items; two generations in the handle and four in the slot
make the handle's number repeat while the slot's does not, as 12 and 16 bits do; once
`HandleGens` objects were deleted no new handle resolves, so `MaxInc` of two is the
most the slot can reach. A millisecond of two microseconds is the least that rounding shows in. `waitfor`
has the cycles of two and three tasks through calls, locks and both, and a turn count
of two, so that one sighting is not yet a report. `llp` has numbers modulo 4, so that they wrap
within the four messages of a session, with a window below half of that as 64 is below half of 256;
one fault on the line and one at a node already meet in every order. In `ota` two images tell
an update from what it replaces, over and over, and sequence numbers wrap at four; resets are unbounded, and a
power cut differs from one only in that the watchdog is off after it, for which one is enough. Deadlock is
checked in the `Sched` and `Ota` runs and in `waitfor`; in `Chan`, `Kobj` and `Llp` tasks may be done, or all wait for
somebody outside.

Fairness. In `Sched`: each hart keeps executing and gets the lock if it keeps
being free (`SF` of `HartStep`), the timer keeps firing (`SF` of `HartTick`), and
one tick period lets the interrupted code get on by a step (`SF` of `OwnStep`; a tick that
came faster than an instruction would starve any system); time passes. Elsewhere
tasks that can run do (weak fairness per task), which is what `Sched`'s
`NoStarvation` gives in the one tier drivers and callers share. What a task need not do stays unfair:
a caller need not begin a call, an owner need not exit, a holder need not release, a
server need not reply, nobody need give or arm anything. In `Llp` the pump's loop and the reader
of the queue are fair, and a timer that repeats runs out again; in `Ota` the loader, a
command under way, and an armed watchdog, the trial's or the ROM's.

Deadlines need a word of their own, because no timer wakes a task: the scan of another task's switch or of a
tick reads the deadline of a task that is off its hart, and every switch and every tick scans. That is the
weak fairness of `Scan` and `TimerExpire`, which apply to a task that is BLOCKED and to no other. Not so for
a waiter that prepared (as `wait_for()` and `kos_timer_wait()` do) and found its hart with nothing else to run:
it is RUNNING, spins on its token and on other work, and its deadline is read by nobody (run `quiet`). So
`SpinWork` and `TimerSpinWork` are not fair, `SpinEnd` is only where a token has come, and
`WaitEnds` (of deadlines) and `DueFires` are stated for a task that is not left spinning for ever; that a wait which is
granted, or whose object is deleted, comes back is claimed without that condition. `TimedWaitEnds` is checked
with tasks beside the waiter that always run (`live`), and fails without (`quiet`).

`NoStarvation` is
about one tier: the scan is strict priority between tiers, so a low tier may
starve by design and is not claimed otherwise.

## Proofs

For every number of tasks, harts and stacks and every choice of `Calls`, from
`SchedAssumption` (counts positive, arguments in range, the boot task does not exit):

- `TypeCorrect`: `Spec => []TypeOK`. Needs `SwitchesTasks`: a hart inside
  `ctx_switch()` has a task to land in and one to park.
- `LockHandedOver`: `Spec => []HandOff`, the property `handoff_check()` asserts: a
  hart is inside `ctx_switch()` exactly when it holds `g_sched_lock`.

and, assuming further `StableTargets` (a task that is waited on by pid does not
exit):

- `StackSafety`: `Spec => []StacksExclusive`
- `RunningSafety`: `Spec => []RunningOnce`
- `PublishSafety`: `Spec => []ReadyIsPublished`

`StacksExclusive` is far from inductive. `StackInv` (module `SchedInv`) says what
it rests on: every page of stack is with one task, one reap slot or the allocator
(`PagesApart`); a task off every hart has its frame on its own stack, except while
the hart leaving it, which holds the lock, has still to save it (`FramesParked`); a hart executes
on its task's stack, or inside `ctx_switch()` on that of the task it leaves or, if that one exited, on
the stack in its own reap slot, and the frame it is about to enter is there
(`OnOwnStack`); boot stacks belong to tasks pinned to their hart (`BootTasks`); a
slot being filled in is nobody else's (`SlotsReserved`, `SlotStates`), no
pending wake can reach it (`WakesLive`), and no deadline can either (`Deadlines`).
There is a lemma per action, or per group of actions that move the same state, and
`StackStep` combines them.

`StableTargets` is needed: run `reuse` drops it and finds `ReadyIsPublished`
violated. Under the same assumption `WakeProofs` proves what the scheduler promises to those who
wait:

- `NoWakeLost`: `Spec => []NoLostWake`, and `NoTokenEscapes`: `Spec => []TokenScoped`. `TokenInv`
  says that a task off every hart in a wait went through the whole of `task_block()`, its token
  looked for and taken down (`BlockedWaits`); that a waiter is armed from its prepare to
  the lock section of its block (`StaysArmed`); and that a condition that has come true
  since left the token or has its `task_unblock()` still to come (`WakeKept`).
- `TokenImplemented`: `Spec => ImplementsWakeToken`. The initial state maps to the initial state, and there is a
  lemma for each kind of step: prepare, block, wake, timeout, the end of a wait, or none
  of them. So what is proved of `Chan` and `Kobj`, which are written on `WakeToken`, holds of
  tasks as this scheduler runs them as long as nobody who is woken by pid exits. That is less than
  `Chan` allows: there an owner may exit and its slot be used again, and a late wake for the old owner goes to
  the new task's token. What such a wake does to a slot still being filled in is outside `Chan`, and is what
  run `reuse` shows.
- `ReapSlotSafety`: `Spec => []ReapSlotDrained`. `ReapDue` says that a stack in a reap slot belongs to a hart
  that is in the switch away from it or has its `sched_reap()` next.
- `NoStackLost`: `Spec => []StacksAccounted`, from `PagesKept` and the `PagesApart` of `StackInv`.

For every set of tasks, servers and locks and every nesting, from
`TasksAssumption`, `NestsAssumption` and `TurnsAssumption`:

- `TypeCorrect` of `WaitForProofs`: `Spec => []TypeOK`.
- `LockExclusive`: `Spec => []OwnerExact`. The inductive `LockInv` says of each ylock
  that it is in one of three conditions: free with nobody inside; passing, its gate shut,
  owner cleared, with exactly one task taking or releasing it; or held, with the owner
  and depth of the one task inside. The three lemmas `HeldFacts`, `HandingFacts`
  and `FreeFacts` read it off for a step, `HeldGood`, `HandedGood` and `FreeGood` rebuild it.
- `CallsNeverCircular`: `Spec => []NoCallCycle`. `Acyclic` (no set of tasks has all its
  edges inside) with `CallEdge` (a caller's edge is up as long as it is in the call) is
  inductive: `EnterAcyclic` is the heart of it, an edge that `waitfor_enter()` admits
  closes nothing, because a set it would close is a set the target's walk stays in. That
  the code's bounded walk computes this reachability needs induction over the walk and is
  left to TLC (`WalkExact`).

For every set of callers, every queue length and every choice of who may die, from
`ChanAssumption` (finitely many callers, `Owner` not one of them), `ChanProofs` proves
`EndpointTyped`, `ClaimSafety`, `QueueRespected`, `RepliesMatched`, `NoMessageLost` and `NoTurnLost`:
every safety property the run `calls` checks. None of them holds on its own. `EndpointInv` adds who may be at which point
(`Roles`), that the wait queue and `handed_to` name waiters, each once (`QueueOrder`), that a
pending request is that of the caller in the endpoint and that the buffers are its
(`OneMessage`), and where the wake of a request or a reply is: a token, or a task that is about to
send it (`MessageKept`). `NoTurnLost` needs the same of a turn handed over (`TurnsKept`), which is inductive
where the queue has a place for every caller; run `full` shows what happens where it has not.

For every set of images, any number of power cuts and resets and every flash step
or read that fails, from `OtaAssumption` (sequence numbers modulo at least four), `OtaProofs` proves `AlwaysBootable`, `UnprovenTried` and
`WatchdogSafety`: every safety property the run `ota` checks. `OtaInv` is about the flash between any two of its steps:
one slot has an image, a header is only over the body it describes and the running slot is not
touched (`SlotsWhole`); the slot the record calls active was vouched for (`RecordStands`), and so the
choice of a loader that has just marked the record (`ChoiceStands`) and what runs without a trial
(`RunStands`). What makes it inductive is `Plan`: what the steps still to do of the command under way
have in common, in whatever order they are interrupted. A header comes only over a complete body, a record only to
the sector that is not current and with the next number, and nothing follows the step that
changes what the program believes. `AlwaysBootable` and `WatchdogSafety` hold whatever reads fail, since no command
touches the running slot; `UnprovenTried` up to the first time a failed read or mark misleads somebody,
or an update goes over the record's active slot. Both happen in this code, against what two documents say (Findings).

For every number of tasks, places, units, timeouts and deletions, from
`KobjAssumption`, `KobjProofs` proves for semaphores, mutexes and queues `MutexHeld`, `NoUnitLost`,
`QueueInOrder`, `WaitersServed`, `GrantsArrive` and `HandlesExact`, each over the module's steps with the timers' (`TSpec`). `ObjectsKept` is
the invariant behind them, `KobjInv`: the lists hold the waiters that wait, each once and on its own side
(`Queued`); a waiter's state agrees with where its task is and with the object its handle was issued
for (`Waiter`); whoever was granted or failed has a token or a wake on its way (`Waking`); nobody waits for
what is there (`NothingThere`); a mutex handed to a waiter that does not know is that
waiter's (`Heir`); and the slot was deleted at most `HandleGens` times, no handle being for a later
object than the one in it (`GensExact`). The last needs `HandleGens < SlotGens`, as 2^12 is below 2^16: after 4096 deletions a slot's new handles resolve for nobody, so nobody deletes
it once more and the wider counter never wraps round to an old handle. `WaitersServed`, `GrantsArrive` and `HandlesExact` are
stated for the three types that grant one waiter at a time; `ev_scan()` works through the whole list, a fold
in the model, and what a fold computes needs induction over the list, so for event
groups these properties stay with TLC.

Of the timers the same module proves `TimersNotLost`: `TSpec => []NoLostTimer`, assuming `OneTimerThread`
("One radio, one timer thread", `kobj_sched.c:228`: `g_timer_waiter` has room for one pid). `TimerInv` says that
a thread past its look at the table has a deadline that covers every armed timer (`Covered`), or somebody
who changed the table since is in `timer_poke()` and will wake it (`PokeComing`), or was there and left the token; that
it is the one in `g_timer_waiter` from its call to its return; and that no deadline is 0, which
would read as none. `RoundedUp` and `NextCovers` are the arithmetic: the millisecond of the
earliest deadline, rounded up, is no later than that of any other.

For any number of restarts, silences, lost and repeated frames, from `LlpAssumption` (two nodes,
sequence numbers modulo an even number, a window below half of it), `LlpProofs` proves `LinkTyped` and
`NeverAcross`: `Spec => []OwnSession`. `SessionInv` (module `LlpInv`) compares session numbers, which
grow with every restart, in the order frames travel: what is on its way to a node comes from sessions in
their order (`FromInOrder`), and what its senders knew of the node comes in order too (`KnewInOrder`); who
knew of a session has read everything sent before it (`ReadUpTo`), so a node that is up is known to all
that is on its way to it, or to nobody (`UpKnown`); data is only from a peer that its addressee
has met (`HasMet`), and is only sent to the peer it was queued for, because `p9_new_peer()` ran before
(`Addressed`). What `p9_send()` still holds when the peer changes is queued afterwards, for the new one,
so the theorem says nothing of the peer a message was written for (Findings). A step is taken apart into what it takes off one line, what it adds to
the other and what it makes of the link (`NodeStep`); `SessionsKept` is the proof about sessions, once
for all steps, and there is a lemma per action that it is such a step.

Within a session, on a channel that does no flow control of its own (`RxWindow > 0`, the serial line: only there
does `llp.c` count credit, and without it nothing bounds what is under way), it also proves
`SequenceNeverWrong`: `Spec => []SequenceExact`, and `CreditNeverOverspent`: `Spec => []NoOverrun`. `CountInv`
says that every eight bits are those of the number they stand for (`Numbered`); that what is on its way
comes in order and is at most `MaxWindow` ahead of what the receiver expects, and so do the credits on their way back
(`Near`); that two nodes in their common session agree on who has sent and read how much (`Agree`); and that nothing
is counted before the peer knows of the session (`Fresh`). That a late frame of an earlier time is also
near is what the order of the line gives. From `Near` the comparison with half the range is exact (`AheadExact`).
`RoomInv` is about credit: the first number a node has no place for never goes down while the node is
not restarted, and neither its HELLOs and credits, nor what the peer made of them, nor what
the peer has sent go beyond it (`Promised`). Credit across a restart is not claimed: a late HELLO may
advertise a window that was overtaken. `CountStep` is to the numbers what `NodeStep` is to the sessions:
the numbers go up as the frame read says or by one message sent (`Goes`), or begin again at zero (`Renews`), and what
is put on the line tells the truth of that moment (`Tells`). `GoesKept`, `RenewsKept` and `PromisesKept` are the proofs
about the numbers, once for all steps; a lemma per action, and per frame read, says that it is such a step.

Only model-checked, because out of the prover's reach: liveness under fairness (`WaitServed`, `TimedWaitEnds`,
`NoStarvation`, `CallReturns`, `WaitEnds`, `DueFires`, `Recovers`, `ComesBack`, `DeadlockReported`), event groups, and `WalkExact`. Every other property of the passing runs is proved.

## Findings

- `quiet`: `task_block_until_ms()` promises to return when the deadline is reached. A
  prepared waiter with nothing else to run spins in `task_block()` on its token
  and on other work only; while every other task is blocked nothing reads its deadline.
  (`live` has tasks that always run, whose scans do, and there the promise holds.)
- `reuse`: `task_unblock()` takes a pid; sent late, after its target exited, it
  finds the slot BLOCKED because `task_create_full()` has reserved it and makes it
  READY before it has a stack.
- `full`: a caller that found the wait queue full and joins it later, in
  `ep_claim()`'s loop, blocks in that turn without having prepared; a hand-off in
  the gap leaves no token and it sleeps on, holding the endpoint, until its deadline.
- `park`: the request word of the flash park is shared by every task of core 0 that
  uses the flash, without a lock. A second requester that releases or times out takes
  the first one's request away, and an acknowledgement that core 1 has not cleared yet
  answers a new request; either way the flash is turned off under core 1.

Three more disagreements with the documents are in the models and have no run of their own; the
properties that come near them say what they except:

- `llp.md:128` ("Nothing about a session survives it", and `:132`: "The same holds above LLP, for 9P"; `p9_link.h:70`:
  "Fids and tags belong to the peer they were sent to"). A request that was serialised for one session of the peer
  waits in `p9_send()` (`llp_node.c:467`) for up to two seconds. If the peer restarts meanwhile, the flush of `p9_new_peer()`
  makes the room it waits for, and it goes to the next session with the last one's fids; the generation
  refuses the reply only. In `Llp`: `p9_write`, `Restart` of the peer, `Events`, `p9_send`, `Drain`. `OwnSession` is about what is queued.
- `updates.md:7` ("keeps the old image until the new one has proven itself"). After `switch`, and before the reboot, the
  other slot is the record's active one; `prepare_slot()` (`ota.c:122`) withdraws a pending image there but not this record, and
  once the update's header is written a reset boots it with no trial. In `Ota`: `Switch`, `Begin`, `Header`, `PowerCut`;
  `overActive` in `TriedFirst` and `ComesBack`.
- `ota_image.h:24` ("a power cut at any point leaves the old one current"). `read_records()` (`ota_esp32p4.c:141`)
  takes a failed read for a sector without a record; if it is the current record's, the next record goes over it, and a power cut
  after the erase leaves an older one current, or none. In `Ota`: any command that writes a record, with `AsRead`; `misled` in
  `TriedFirst` and `ComesBack`.

Seen while modelling and not claimed against any text, each a hazard with its note:
an owner that dies after the caller's check leaves the call unanswered (the code calls
it an accepted gap); a task that exits while its hart has nothing else to run parks for ever and keeps its slot and stack
(the code says so); a slot of a kernel object is lost after 4096 deletions; the edge
of a ylock's waiter names the previous holder until it runs again, so that a call closing a circle
may be let through and only reported; a trial whose RAM half cannot be read counts as tried, and
the other image comes after the ROM's watchdog; messages of a new session read together with its handshake are dropped; the receive
window in a late HELLO of a restarted peer may be out of date.

## Plan

1. `Palloc`, `Klog`: no page handed out twice, no record lost or torn between two writers.
2. `Idstore`: a reset between any two flash writes; the C6's and RP2350's update backends.
3. The start of core 1 and the holds of `smp.c`; a lock around the park in `Park`, to
   show what would suffice.
4. `Tcp`, if the code's state machine stays within reach.

Theorems next: those of the modules above.

## Not modelled

Drivers, displays, shell, editor, user programs and host tools (I/O and formatting,
little shared state; by lines they are most of the repository); fonts and generated
tables; TLS, cryptography and ELF loading (pure algorithms on data out of TLC's reach);
9P and the file systems (sequential servers over channels, dominated by formats on
disk and wire); time discipline and entropy (numeric filters); memory domains and trap
entry (properties of hardware state).
