# A verification project for coaxial_63100

TLA+ models of the firmware of a 63 V / 100 A BLDC inverter on an STM32H753 and
of the host's side of its wire: what its components promise, checked by TLC on
small instances and, where the prover reaches, proved by TLAPS for every
instance. Paths are relative to the repository (`src/` here is its root); every
definition that translates code names its lines in `PROJECT.json`, under `map`.

- [The system](#the-system)
- [What is modelled](#what-is-modelled)
- [The runs](#the-runs)
- [The bootloader's node: BootNode and BootGate](#the-bootloaders-node-bootnode-and-bootgate)
- [The boot master: BootMaster](#the-boot-master-bootmaster)
- [The gate drivers' stage: PwmStage](#the-gate-drivers-stage-pwmstage)
- [The acquisition: DaqEngine and RecordQueue](#the-acquisition-daqengine-and-recordqueue)
- [The wire: RtuBus](#the-wire-rtubus)
- [The rails: Rails](#the-rails-rails)
- [The proofs](#the-proofs)
- [What the code and its words disagree on](#what-the-code-and-its-words-disagree-on)
- [Not modelled](#not-modelled)

## The system

The firmware is layered: `core/` (generated start-up and `main`) calls `board/`
(one file per peripheral), `comms/` puts the board on a Modbus link, and the
portable cores `boot/ modbus/ daq/ drive/ thermal/ ctrl/ filter/ shtp/ wbc/
aero/ mppi/` know no hardware. `host/` is the Python side, `world/` and
`board/fake|native|emu` stand in for hardware, `drivers/` is the vendor's.

Who runs when. One loop (`core/src/main.c:187`): STO keepalive, power leases,
the bootloader's request; then, while the link is not in the middle of a frame,
the IMU, the angle, the DAQ and the thermal model; then the link, or the
console. Interrupts: ADC3's injected sequence at 50 kHz (priority 1) runs the
sync, the log, the DAQ's feed and the drive; TIM1's update (priority 2) runs
the PWM stage's trains, holds and landings; the UARTs take bytes. There is no
RTOS; the hard part is what an interrupt does between two stores of the loop,
and what a reset, a refused write or a lost frame leaves behind.

| Component | State it keeps | Operations | Meets | What is hard | What makes it right |
|---|---|---|---|---|---|
| bootloader core and shell, `boot/`, `board/src/board_boot.c` | the node's state, the offer, a bitmap, the first word kept back, RAM, the store and its seal, the record's sector, the handover slot | hold, assign, erase, chunk, verify, record, seal, go, who, missing, state; the gate at reset; the jump | masters over broadcasts; the application through the slot | power loss at any word, an erase half done, chunks in any order, orders from two masters, decisions acted on later | whatever runs is one whole image; the store is never lost to itself |
| host boot master, `host/coaxial/devices/boot.py` | who was found, what is missing, what was sealed | search, assign, stream, rounds of missing, seal, go, wait | N nodes, lossy | lost broadcasts, answers from the wrong program | a load reported done is done |
| PWM stage, `board/src/board_pwm.c`, `board_sync.c` | TIM1's registers, the train, the hold, who owns the compares | enable, disable, duties (plain, fine, alternate, counted), dead time, clear, update interrupt | the host's ops, the drive, the break input, thermal | preload, three actors on one struct, stale flags | bounded holds, zeros at enable, one writer |
| drive, `drive/`, `board/src/board_drive.c` | mode, fault, observers, who owns | set mode, sample | PWM, sync, ctrl, thermal | a trip anywhere, hand-over both ways | what it believes it owns it owns |
| DAQ, `daq/`, `board/src/board_daq.c` | ring, task, rung ladder, live accumulators | configure, start, stop, read, feed, poll | ADC3's interrupt or the loop; the host; power | ring read while fed, lend, power lost, refused configure | records whole and counted, none invented |
| Modbus RTU link, `modbus/`, `comms/src/link.c`, `dev_uart.c` | receive buffer, timers, answer pending, unit | byte, poll, take, answer, open, close | UART interrupts, loop, map | early acceptance, silence, overrun, close with an answer due | one answer per frame for this unit, none for a broadcast |
| register map, commands, console, `comms/` | little of their own | ops of 14 devices | every board component | what an op does in part before it is refused | a refused op changes nothing |
| rails, leases, STO, `board/src/board_power.c`, `board_sto.c` | users per rail, lease ages, keepalive edges | take, drop, poll, keepalive | DAQ, IMU, drive, host | a host that goes silent, two users | a rail is on while used and off when nobody is left |
| sampling and services, `board/src/board_adc.c` ... | offsets, calibration record, log | read, write record, push | everything | record replaced in two steps, log while pushed | a record read is one that was written |
| thermal, `thermal/`, `board/src/board_thermal.c` | node temperatures, trip, derating | slice | drive, PWM | a drop from the loop under a driving stage | past the ceiling the stage is down |
| controller, `ctrl/`, `board/src/board_ctrl.c` | slots, cascade | set, tick | drive's sample | slot replaced while it ticks | no half-written slot runs |
| whole-body control, filters, sensor hub, aero, MPPI | numeric state | step | none | numerics | outside a finite model |
| host package, `host/` | one bus, many clients | broker, devices | the firmware | clients interleaved | an answer goes to who asked |
| emulation; start-up, vendored code | | | | | not modelled |

`PROJECT.json` lists the same components with their sources and status, and the
hazards with the line each one bites at.

## What is modelled

| Module | What it is |
|---|---|
| `BootNode` | one node of the bootloader: core, port, main loop, resets, power loss |
| `BootGate` | what such a node promises; `BootNode` implements it |
| `BootMaster` | the host's load over a lossy segment, against several nodes |
| `PwmStage` | TIM1, the update interrupt, the drive's sample and the loop's ops |
| `DaqEngine` | the acquisition's ring, window and ladder, interrupt against loop |
| `RecordQueue` | what a reader of the ring is promised; `DaqEngine` implements it |
| `RtuBus` | one RS485 pair: host transport, nodes' ports, pumps and receivers |
| `Rails` | the switched rail's users and leases within main()'s loop |
| `MC...`, `*.cfg` | instances for TLC |
| `..._proof` | the theorems about a module; `DaqQueue_proof` that `DaqEngine` implements `RecordQueue` |

How they fit. `BootNode` is one node in every detail of its memory and knows
masters only as frames that may come in any order. `BootMaster` is the other
half: the host's sequence in detail, nodes that serve each operation whole, and
the losses between them. `RtuBus` is the wire under every op, with requests and
answers that say nothing; `PwmStage`, `DaqEngine` and `Rails` are what some of
those ops do, with the interrupts and loop passes they meet there. `Rails`
switches the converter's supply, which `DaqEngine` loses at any time, and holds
off the observer while `RtuBus` says the link is mid-frame (`QuietEndsFrames`
is why that ends). The rails' silent-host disable is `PwmStage`'s `Drop`.

Definitions headed "Mutant" are plausible bugs, put in place of the definition
they precede; each shows that a property can fail. No specification uses them.

## The runs

| Run | Instance | Shows |
|---|---|---|
| node_quiet | an image of this type and one of another's, quiet masters | `TypeOK`, `RunsWhole`, `SealedIsWhole`, `SealNamesWholeCopy`, `StoreGivenUpForAnother`, `ImplementsGate` |
| node_live | one image and two records, masters that never keep quiet, fairness | `UnsealedIsInvalid`, `PersistFindsErased`, `SealFinishes`, `StartsAlone` |
| stage_any | every op, trips, breaks; one leg | `TypeOK`, `OneWriter`, `DirectAgrees`, `LandedByUpdate`, `ClosesOnDrive` |
| stage_live | fairness, two legs, holds to 3 periods, duties, enable (of an armed stage too), disable, the drive's mode | `HoldBounded`, `LetsGo`, `DriveLands` |
| daq | every configuration, both clocks, lends, power losses | `TypeOK`, `IsQueue`, `LeavesOutAtTop` |
| master | two nodes, three tables, any loss, one power loss or second run; fairness | `TypeOK`, `SealedWhole`, `SearchFindsAll`, `GoneUnlessDeaf`, `OneTypeRepairs`, `RunEnds` |
| bus | a host, two nodes, one character of noise, late passes | `TypeOK`, `OncePerRequest`, `EveryRequestHeard`, `AnswersItsOwn`, `GivesUpHarmed`, `QuietEndsFrames` |
| rails | the host and the observer, a tick that wraps, fairness | `TypeOK`, `LeasesEnd`, `SilenceDrops`, `NeverUpUnderArmed`, `SamplesCome` |
| node_go, stage_break, stage_trip, stage_skew | the least instance of each | a violation each, [below](#what-the-code-and-its-words-disagree-on) |

The largest, stage_any, has 7.6 million states and takes about three minutes.

## The bootloader's node: BootNode and BootGate

`boot/src/boot_core.c` over the port and the loop of `boot/src/boot_main.c`.

State: `s` is the core's struct; `loop` is what `main()` holds in locals (what
the gate said, a stay asked, a go taken); `job` is where a handler that takes
long has got to (a copy out of the store, the steps of a seal); `mode` is which
program runs. `ram`, `copy` (the store's image), `seal`, `sector` (the record)
and `slot` (the handover words) are memory. `via` and `halved` are history.

Actions, with what of the code each is: `GateKeeps`, `GateCopies`, `GateWaits`
(`boot_ready`), `CopyWord` and the two ends of a copy (`to_run`, called by the
gate and by erase), `Hold`, `Assign`, `Erase` and its three outcomes, `Chunk`,
`Verify`, `Record`, `Seal` followed by `RecordErase`, `RecordProgram`,
`FirstWord`, `StoreErase`, `StoreWord`, `StoreSeal` (one flash operation each,
in the handler's order), `Go`, `FollowCore`, `JumpGo`, `JumpWindow`, `FlashFails`
and the resets `WarmReset`, `PowerLoss`, `AppStay`. A reset or a failure may cut
the flash operation under way: an erase leaves any word as it was, torn or
erased, a program leaves its word erased, torn or written.

Abstractions. An image is a model value and memory says, slot by slot, whose
bytes it holds: a CRC-32 over slots that all hold image i is i's, and no other
content has it (no collisions). Slot 0 is the first 32-byte word, which the
node programs last. Programming RAM does not fail (`mem_program`). The running
application does not change the image it runs from, nor the slot but for a
stay. A handler is not interrupted by another frame: the loop's receive pass
runs it to its end. `who`, `missing`, `state` and `dump` only read.
`QuietAfterGo` says whether masters keep quiet between an accepted go and the
jump, 20 ms later: node_go shows that `RunsWhole` needs it.

`BootGate` says what all of it is for: whichever image's application runs is of
this board's type, and the image the store keeps changes only through an empty
store and only in the bootloader. `RunImage` and `KeptImage` map the node onto
it; an application over anything but a whole image maps to none of its images,
so `ImplementsGate` fails with the first torn jump.

Instances: memory of two chunks (three slots) in two flash sectors, so that an
erase and a copy have a middle to be cut in; `long` fills it, `alien` has one
chunk and another board's type. Two images are the least that tell apart "the
store holds this one", "another" and "part of each"; one unit and one session
lose nothing where the property does not speak of them. One node is enough:
nodes share nothing but what masters say, and here masters say anything at any
time. node_quiet needs silence between go and jump for `RunsWhole` only; the
foreign image may be sealed there and is never run. node_live has two records,
so that a seal may find another's in the sector.

`SealFinishes` looks at the step a seal answers done with: the sector holds the
record sent, RAM the offered image, and the store its sealed copy where a store
is kept. What went before may be a seal that failed between any two of its
flash operations, a cut, a restart or a record sent anew: the handler skips what
it finds done, and the property says that what it skips is done.

Fairness. `WF(Work)`: a handler is straight code. `SF(FollowCore)`,
`SF(JumpGo)`, `WF(JumpWindow)`: every pass of the loop asks these conditions;
strong where a frame that is being handled interrupts the condition and the
next pass asks again. Nothing is assumed of masters, of the flash, or of
resets: `StartsAlone` says what holds once resets stop.

## The boot master: BootMaster

`Master.run` and `from_bootloader` (`host/coaxial/devices/boot.py`), one action
per exchange, against nodes that serve `boot_core.c`'s operations whole.

State: `node[n]` is a node's core and memory (its RAM chunk by chunk, its store
as the image sealed there), `run` the run's locals and where it is, `table` the
master's table, `host` which of the two runs. `clean` and each node's `heard`
are history.

A broadcast reaches any subset of the serving nodes; a request, or its reply,
may be lost, the node having acted or not; a node may lose its power between
two messages, or start on its own what its gate brought it; and a run that has
ended may be tried again. `who` is answered by every node that fits the prefix:
one answer is a node, two are a CRC error, either may be lost. An image is its
type's name; a chunk carries which type it is from, and nothing on the wire
says so, as in the code: a node takes a chunk by its index alone.

Bounds: uids of two bits that differ only in the last, so that the search has
to go all the way; an image of two chunks and one of one; tables that name both
nodes with one type, both with two, and only one of them; two rounds of missing
(of the code's three): one that repairs and one that is the last; one trouble.
The unit named last and the go are all an extra node would repeat.

What it shows about the code, besides its properties. `verify`'s answer carries
the CRC the node summed, and `Master.run` does not compare it: `SealedWhole`
does not need it, since a node only takes offers of its own board's type. A
second run finds no node that kept its unit (`who` is asked at 247), and its
erase knocks a sealed node of the same type back to verified: the next `go`
passes it by. `hold` is sent once, where docs/BOOT.md:78 says "repeatedly": a
node that lost it keeps session 0 and ignores the go, which is why
`GoneUnlessDeaf` speaks of nodes that heard both. The state asked for after the
go only reads and is left out; the records are empty.

Fairness: `WF(Master)`; the run is a straight-line program whose waits have
timeouts. `RunEnds` needs nothing of the nodes or of the wire.

## The gate drivers' stage: PwmStage

`board/src/board_pwm.c` over TIM1, with `board_drive.c`'s taking and letting go.

State: `tim` (direction, repetition counter, update flag and enable, MOE, break
latch, the bridge opened), `ccr` (the preloaded compares as stored) and `act`
(in force since the last update); `pwm` is the file's struct; `drv` the drive's
part; `main` the op the loop is in; `calm` the half periods since the host's
last frame; `hold` and `asked` are history. A triple of duties is a tag per
leg, so that one half stored shows.

Actions: `Event` (an overflow or underflow: update, preload, sample trigger),
`Break` (nFAULT), `Update` (`TIM1_UP_IRQHandler` and its three branches), `Sample`
(`Board_DriveOnSample`: a trip, the next triple, or letting go), the loop's
stores one by one (`AllStandsDown`, `Store`, `AllCounts`, `FineTakes`,
`AlternateTakes`, `EnableArms`, `DisableForgets`, `DisableStops`, and the steps of
`Skew`, twice through for a dead time) and the host's ops (`Duty`, `Enable`,
`Disable`, `Drop`, `Deadtime`, `Mode`, `Sync`, `Clear`) that ask and begin. A
constant, `Ops`, says which of them an instance's host uses.

Abstractions, and why. An interrupt runs whole between two stores of the loop,
except that the update handler reads BDTR and writes it back in two steps
(`Update`, `WritesBack`), between which a sample or a break may come; one that
is due is served before the next update event (a handler takes well under the 10
us of a half period); the sample begins before the underflow and outranks its
update, as the priorities and the trigger's place say. What the code stores
under PRIMASK is one step, and so are the few stores behind it. The drive's mode
is on or off: polarity's own end is one of the ways it goes off. Frames of a
host are at least `Pace` half periods apart (a frame takes longer than 80 us at
any baud rate offered); the loop's own disable, thermal or a silent host's, is
not paced. The break bypass, period changes, the model as the drive's source and
the dead time's values are left out.

Two triples are the least that alternate, and TLC may exchange them (symmetry;
only for invariants). One leg is enough where no property compares legs. A hold
of three periods has a first, a middle and a last one. `Pace` = 4 is two whole
periods, enough for the mode an earlier frame set to have been sampled.

`Skew` goes store by store: `SkewSet`; for a skew under the drive `SkewLeavesDirect`
(RCR) and `SkewForgetsDirect` (`direct`, then `to_direct`); `SkewAsksDirect` for none
under a drive that is landed, or `SkewFinds` that there is nothing to do; `SkewTests`
reads what the interrupt's enable is to be, `SkewUpdates` writes it. The update
interrupt and the sample come between any two. `DirectAgrees` and `LandedByUpdate`
are what survives that: a drive writing straight in has nothing left to land and
an update a period, and one that is landed has its interrupt. That a skew is
always landed, and that a drive writing straight in has its interrupt off, do
not survive (stage_skew, and the disagreements).

Why the passing instances leave ops out. `HoldBounded` and `DriveLands` fail with
the dead time, as the section on disagreements says. `ClosesOnDrive` fails with
`"rearm"` beside the drive, where an enable of an armed stage closes the bridge on
zeros. With `"drop"` `DriveLands` fails: dropped by the loop and enabled again between two
samples, the stage has forgotten its owner and the drive has not. With the sync's
op `LetsGo` does, for then nothing samples. Holds are bounded from above only: one
may be zeroed a period early, since it starts on whatever update flag and
half-period parity it finds.

`ArmsAtZero` fails with a break (stage_break) and with `"mode"`, where a trip
comes between an op's question (`compares_refused`) and its stores and a train is
left in a stage that is down. No passing run checks it; without breaks, the mode
and the sync it is a theorem (`ArmedAtZero`).

`DriveLands` asks for the drive's triple in force and none left to land, again
and again, as long as the drive stays on over an armed stage: a landing before it
last let go counts for nothing.

Fairness: `WF` of `Event` (the counter runs), of the update handler and of
`Sample` (an interrupt that is due is served) and `Loop` (the op goes on). None
for the host: it may fall silent at any point.

## The acquisition: DaqEngine and RecordQueue

`daq/src/daq.c` under `board/src/board_daq.c` and the ops of `cmd_daq.c`.

State: `ring` is the head, the tail and the stride in bytes, with the count of
records made; `buf` the ring's bytes, each saying which byte of which record it
is; `task` what was configured and whether it runs, is done or lost its power;
`win` the sweeps in the window; `lad` the ladder's rungs, where on them it
stands, and the chain in use; `take` where the loop's read has got to and what
it holds in locals; `afe` the converter's supply.

Actions: `OnInjected` and `Poll` (a sweep from the interrupt, or from the loop),
both through `Feed` (waits, swallows a filter's settling, or closes the window
and puts a record) and `LosePower`; `BeginRead`, then `ReadHead`, `ReadTail`,
`ReadRest` and `StoreTail`, which are `daq_take`'s loads and stores, with the
interrupt free to come between any two; `Configure` and its refusal, `Start`,
`Stop`, `Lend`, `SetFilter`, `SetRung` and `SwitchAfe`.

`RecordQueue` is what a reader is promised: records come out whole, oldest
first, each once; one that finds no place is dropped whole; the queue is
emptied only as a whole. `QueueOf` reads the records off the ring's bytes from
the tail, and `IsQueue` says the ring implements the queue under that mapping,
with the read's `batch` as its own.

`Habits` are what the host has to do for `IsQueue`. Nothing in the code makes it
do either, and without either `IsQueue` fails (the disagreements say how):

- `"powered"`, it reads while the converter is powered or once the task knows
  it is not.
- `"heeds"`, it starts nothing after a refused configure.

`LeavesOutAtTop` is what the ladder is for: a task that adapts drops a record only
on its slowest rung. It relates how far the ladder has climbed to how full the
ring is over any order of pushes, reads and ways down again (a fall at the low
mark takes a rung back). It needs room for a record per rung between the climb
mark and a full ring. The board's has it: 480 KiB hold at least 4819 records of
102 bytes, the mark is at most 512 of them (`BOARD_DAQ_CLIMB_MAX`), and there are
four rungs. Which chain of filters is in use on a rung is not said: after a new
task it may be the last one's.

Bounds: a ring of six bytes with records of two and of four, so that a record
wraps, three fit or one does, and a ring filled to the last byte would read as
empty; three records between two starts; two rungs, one behind a filter; counts
and windows of none and two; a fall after two low polls. No fairness: the
properties say what never happens.

## The wire: RtuBus

`host/coaxial/comm/transport.py` at one end of an RS485 pair; at the other, per
node, `comms/src/dev_uart.c`'s ring and interrupt, `comms/src/link.c`'s pump and
`modbus/src/modbus_rtu.c`'s receiver. One step of `Tick` is one character's
time: everyone who sends adds to the line, two at once make garbage, and every
node hears it, its own echo too.

State: `host` is the transport (request, input, silence since, which unit owes
no gap); `port[u]` a node's ring with each character's stamp, the error flag,
the receiver, and the answer being sent; `noise`, `still` and `hit` are history.

Actions: `Transmit`, `Left`, `Settled`, `Accept`, `GiveUp` of the host;
`TakeOne`, `PassEnds`, `Sent` of a node, in `link_poll`'s order; `Tick`.

Abstractions. A frame is named by what it says; the exact characters of one
frame in order have a good CRC and nothing else does. Time is in characters, and
the stamps are ages, so a stamp that runs backwards is `Forever` apart as the
unsigned difference is. Frames carry one label the wire does not, `now`: whether
they are of the exchange that is under way. `Transmit` relabels what is still
about of the exchanges before it (`Past`), so that a leftover of any age is told
from the present request and answer; no guard reads it, only the count of
requests acted on and the answer's own label. Function codes, a change of unit or rate, and the
opening and closing of ports are left out. `Prompt` says that a node purges its
echo before another character comes; without it the purge eats the start of the
host's next frame.

Bounds: frames of three characters, t1.5 of one and t3.5 of three; two taken per
pass, so that a frame needs two; a ring of four, the most that such passes let
wait; an ADU of two frames; a pass up to two characters late; one character of
noise. The timeout and `Quiet` are t3.5 and three late passes: the host's
silence must outlast the node's, or it gives up an answer that is on its way.
With two passes to a full ring these constants meet `Timely`, the hypothesis of
the theorems below.
No fairness; `QuietEndsFrames` is a bound, not an eventuality.

What it shows besides its properties. A broadcast accepted on its bytes owes no
gap to a broadcast after it, so only the settling time keeps the two apart. A
stray character between two clean exchanges stays in the host's input and
spoils the next one, since the input is thrown away only after a failure
(transport.py:263). A line error stamps the receiver with now
(modbus_rtu.c:124), so what was in the ring before it looks older than the
frame and is spoilt with it.

## The rails: Rails

`board/src/board_power.c`, `sense_sample` of `board/src/board_thermal.c` and the
passes of `main()`: `pc` goes from the power's poll to the observer, unless the
link is mid-frame, and to the link.

State: `rail` is the users, their expiries and the pin; `host` what
`drop_host_claims` keeps, and whether the link's count has moved; `sense` the
observer's struct; `armed` the stage. Expiries and the host's stamp are ticks
modulo `Span`, zero meaning "never", compared as the code compares them; the
observer's own stamps are ages, capped where they decide nothing more.

Actions: `PowerPoll`, `Observe` (the five ways through `sense_sample`),
`PassesOver`, `Quiet`, the host's `AfeOn`, `AfeOff`, `ReleaseAll`, `Arm`,
`Disarm`, and `Chatter`, which is any other byte on the line; `StageFalls` is a
trip or a break; `Tick` is a millisecond, of which a pass takes at most `Late`.

The board's rail starts up with no user (board_io.c:21) until the first acquire
or release applies the users to it; the model starts from there, down.

Bounds: a tick that wraps at 16, so that leases and silences end on both sides
of the wrap and on zero; a lease of four and a period of eight with two to
settle, in which a sample is borrowed, renewed and starved; passes of two.

Fairness: `WF` of the power's poll, of the observer's step or its being passed
over, of the link's step, and of `Tick`: the loop turns and time passes.
`SamplesCome` speaks of a quiet line and an unarmed stage only, since a busy
line passes the observer over and an armed stage refuses the rail.

The STO keepalive is a pin every pass toggles; it is left out.

## The proofs

For every value of the constants, from each module's named assumption:

| Module | Theorems | Beyond the named assumption |
|---|---|---|
| `BootNode_proof` | `TypeCorrect`, `Inductive`, `WindowIsWhole`, `SealNamesWhole`, `SealedWhole`, `UnsealedInvalid`, `PersistErased` | |
| | `RunsAreWhole` | `QuietAfterGo` |
| `BootGate_proof` | `GivenUpForAnother`, `SealLeavesNothing` | |
| | `GateImplemented`: `Spec => ImplementsGate` | `QuietAfterGo` |
| `PwmStage_proof` | `StageInvariant`, `TypeCorrect`, `OneWriterOnly`, `DirectAgreed`, `LandedByInterrupt` | `Pace >= 4` |
| | `HoldsBounded` | `Pace >= 4`, `"deadtime" \notin Ops` |
| | `ClosesOnDriveOnly`: `Spec => ClosesOnDrive` | `Pace >= 4`, `"rearm" \notin Ops` |
| | `ArmedAtZero` | `Pace >= 4`, `~ Breaks`, neither `"mode"` nor `"sync"` in `Ops` |
| `DaqEngine_proof` | `TypeCorrect` | |
| `DaqQueue_proof` | `QueueImplemented`: `Spec => IsQueue` | `{"powered", "heeds"} \subseteq Habits` |
| | `LeftOutAtTop` | those, and `Margin`: the climb mark is a record at least, and with the ladder's rungs on top no more than a full ring and one |
| `BootMaster_proof` | `MasterInvariant`, `TypeCorrect`, `SealedBeforeNext`, `NoneLeftBehind`, `FindsAll`, `RoundsRepairOne` | |
| `RtuBus_proof` | `TypeCorrect`, `ActsOnce` | |
| | `QuietLineEnds` | `Ring <= Passes * Take`, `(Passes - 1) * Late < T35` for some `Passes` |
| | `AnswersOwn` | those, `Calm <= Quiet`, `Calm <= Timeout` |
| | `RequestHeard`, `GivesUpOnlyHarmed` | those, `Prompt`, `T35 <= Gap`, `Late` no more than `Take`, `Ring`, `T35` and `Settle` (`Timely`) |
| `Rails_proof` | `RailsInvariant`, `TypeCorrect`, `LeaseEnds`, `SilenceIsDropped`, `RailStaysDown` | |

No invariant that matters here is inductive as it stands. Each module has one
lemma per action, with a step per conjunct the action can disturb; one lemma
puts the actions together, and the theorems follow.

The node. `IInv` (end of `BootNode`) adds what the invariants stand on:

- `Phases`: who may run when; only a verified node seals.
- `Addressed`: past assign the unit is one a host gave.
- `Bitmap`: the counter is the bitmap's cardinality, and verified means full.
  `verify` counts chunks, and the CRC alone does not say that a later chunk will
  be ignored; this is where cardinalities of finite sets come in.
- `RamMatches`: what verified, the kept first word and SEALED say of RAM, while
  no copy runs over it. The kept word is why RAM is no application before the
  seal.
- `Copying`: the source is sealed, and what has been copied is the image.
- `Persisting`: how far a persist has got, sector by sector and word by word:
  the seal word is erased before any word and programmed after all of them.
- `JumpsWhole`: what either jump rests on, `ready` in the window and SEALED
  after a go.

The argument: a copy is only ever made from a sealed store, whose seal is
programmed last and erased first, and both gates sum what they find once more;
so a cut can leave anything in RAM or the store but nothing that both names an
image and sums to it.

The gate. What one step does to the store is three lemmas: it loses what it
kept (and then a persist of another image is under way, `SparesStore`), it fills
an empty store, or it leaves it. The refinement is then a case per action: the
kept image moves only through the empty store, what runs only through the
bootloader, and the rest stutters. `SealLeavesNothing` adds `RecordKept`: past
the record's erase and program the sector holds the record of this seal, however
it came there, as the handler compares before it writes.

The stage. `StageInv` is the types with `Asks` (what an op in progress was
granted), `Owners` (the drive's struct and the stage's), `Sampled`, `NoTaker`,
`Ways` (the straight way into the compares and the landed one exclude each
other) and `Skewing`. `Sampled` is the heart: a mode that was set is sampled
within three half periods, so a frame four half periods later finds the compares
taken or not, never about to be. That is where `Pace >= 4` comes from.

`Ways` has to say what a skew leaves open between its stores: RCR may be 0 under
a drive still writing straight in, and the update interrupt may be off under one
that is already landed, each at named places of the op only. `Skewing` closes
them: no drive takes the compares beside a skew, and where the op has read that
the interrupt may stand down no drive needs it landed, since between the reading
and the store an interrupt can enter direct or let the drive go, and neither asks
for it. There is one lemma per store.

Three properties of the stage have an invariant of their own beside `StageInv`.
Their hypotheses are the ops and events with which they fail, as told above, and
for `ArmedAtZero` also the sync, without which no drive samples.

- `HoldInv`: the half periods a counted triple has run, those still counted, the
  update that is due and the half reached fit in what was asked (`Counting`), or
  the triple is out of the compares and running out (`RanOut`). Its supports:
  nothing of a host's comes in by the drive's way (`Landing`), and no skew
  shares the hold's interrupt (`Unskewed`, the dead time's place). stage_live
  checks the property without breaks or the loop's drop; the theorem has it with
  both.
- `CloseInv`: as long as the bridge is open, the drive's triple has not landed,
  or it is whole in the compares and in force at the next sample (`Closing`);
  the value the update handler holds of BDTR arms nothing (`Reads`), every
  second update is the drive's (`Repeats`), and a drive about to take the
  compares does so beside no op but a disable (`Takers`).
- `ArmInv`: armed is what the outputs are, except between a disable's two stores
  (`Unbroken`), and a stage that is off or was asked for nothing has zeros and
  no train or dither left (`Stopped`, `Forgotten`).

The acquisition. `ReadInv` is the types with `PoweredRead`: a read lies across no
loss of power. It is what `"powered"` buys, and what the queue stands on.

The queue. `QueueOf` reads records off bytes between two ends that wrap, so
`DaqQueue_proof` begins with the arithmetic of such a ring and with what moves
either end does to the records between them: a push appends one or changes
nothing, a take drops the oldest. No induction is needed: the mapped sequence is
a function of positions, and both ends move by whole strides. `QueueInv` is
`ReadInv` and `Ordered`: the ring holds whole records of the task's stride
(`Aligned`), and what a read has in its locals is the oldest record of the ring
as it is now, not only as it was when the read began (`Seen`, `Taken`); the
interrupt may append meanwhile, and never moves the tail.

The ladder (`Ahead`). Short of its top, a task's rung and the climb mark together
exceed the records waiting: a push adds one record at most and, at or past the
mark, takes a rung; a take only lowers the count, and a rung is given back only
below the mark. If the marks leave room (`Margin`), a full ring means the top. In
the run records of four bytes break the first half of `Margin` (their mark is
zero) and the property holds all the same.

The master. `MasterInv`: `Sounds`, per node, an offer is of the node's own
board's type and verified holds it; `Placed` and `Alone`, a unit is its row's and
one node's; `RunFits`, where the run is and what it has in hand; `Listens` and
`Gone`, who heard the hold has the session, and whoever heard the go too has
gone. That an acknowledged seal means the right image is then the node's doing,
not the master's comparison, which it does not make.

The search (`SearchInv`). Where nothing was lost, a node at the blank unit has
been found or lies under a prefix still to be asked for, and no prefix is longer
than an id, so a collision is never at a whole one; a search with nothing left
to ask has found everyone.

The rounds (`RepairInv`). A node that heard its erase takes chunks, of its offer
alone (`Offers`). Where all rows name one type, what landed in it is of that
type (`OfType`, `InRows`), and what the node in hand misses after a round it
heard is among what is still to be sent (`Repairs`); at verify that is nothing.

The rails. `RailsInv`: `Follows`, the pin is up while somebody uses it; `Leased`
and `Stamped`, stamps under the wrap agree with the ages kept as history while
the ages are below half the span. Lemmas on `%` come first; the steps are then
linear.

The wire. The types of a port, field by field, are most of the work: one lemma
per step says what it makes of each. A ring, a frame and the host's input stay
within their bounds whatever the line carries, since `ring_push` and
`mb_rtu_on_byte` ask before they store. `QuietInv` then ties each port to how
long the line has been quiet: every stamp in it is as old as the silence
(`Stamps`), an answer that has left has waited for no more than a pass
(`Passing`), an error is told by the next pass or the one after (`Reported`), a
backlog of q passes has had all but q of the passes there are (`Drained`), and
with the ring empty a frame's own stamp ends it (`Ending`). A receiver still in
a frame at t3.5 and three passes contradicts them.

The hypothesis of `QuietLineEnds` is what that bound needs of a full ring: its
error is told first, then each pass takes LINK_TAKE_MAX characters of it, and
the pass that empties it ends the frame. DEV_RING and LINK_TAKE_MAX (256, less
the entry never used, and 32) make that eight passes, of which seven have to fit
in t3.5 (1750 us above 19200 baud): passes under 250 us. Where passes are
slower, t3.5 and three of them are no bound for a full ring.

`OnceInv` says what a port may hold of the present request, wherever it is: of a
request for this node the receiver, the held character and the ring hold
characters in the order they were sent (`InOrder`), each frame is from whom it
can be from (`Texts`), and once the node has acted none of it is left to act on
(`Acted`, `Spent`). It needs no hypothesis: noise, full rings and late passes
lose characters but neither repeat nor reorder them.

`OwnInv` adds that an exchange leaves nothing to answer. When the host is idle
no port holds a request for its node (`OwnAt`), since the host waited out a
silence of `Calm` or has the answer, and by `QuietInv` such a silence empties
every port; an answer being sent is therefore of this exchange, and so is what
the host has of it (`HeardFrom`). This is where the host's two times enter.

`CleanInv` is about exchanges that no noise touched. `Clean`: the ring holds no
more than came since the last pass, so a pass takes all of it and no stamp waits
for the next. `WordAt`: a node asked is somewhere on the request's way (`Hearing`,
`HeardTo`: the receiver has the first j characters of those sent, the ring the
others, each with the age its place gives it, and what was in the receiver
before them is older than t3.5) or has acted on it. `ReadsAt`: the host has
what the node has sent. `Paced`: the host's waits are no longer than the line's
silence. So a host that has waited long enough finds the receiver at its end,
the request acted on, the answer sent and read.

What `Timely` asks of the code: QUIET_TIME (8 ms) and the timeout (0.5 s) over
t3.5 and three passes; the host's gap is the node's t3.5; a broadcast's settling
time (50 ms) over a pass; passes under t3.5 and, in characters, no longer than
LINK_TAKE_MAX; and an echo purged before another character comes, which is
`Prompt`. The model's times are whole characters. From 57600 to 921600 baud
passes of up to 170 us, rounded up, meet all of it: one character in a t3.5 of
10, two in 20 at 115200, 16 in 161 at 921600. At lower rates t3.5 is under eight
characters and a pass rounds up to one, so the full ring's seven do not fit and
the theorems with that hypothesis say nothing there.

Only model-checked: liveness (`StartsAlone`, `LetsGo`, `DriveLands`, `RunEnds`,
`SamplesCome`), which with fairness and `ENABLED` is out of the prover's reach.
Every invariant and step property of the passing runs has its theorem, and so
has `ArmsAtZero`, which only stage_break checks: there it fails with a break, and
`ArmedAtZero` says that without one it does not.

## What the code and its words disagree on

Four are runs that TLC finds violated; the quotes are in `PROJECT.json`.

| Run | What happens |
|---|---|
| node_go | an erase in the 20 ms after a go clears RAM, and the jump is taken |
| stage_break | after a break, clear and enable resume the train that was set |
| stage_trip | the update handler's read and write back of BDTR (board_pwm.c:928) sets MOE again after a trip between the two (board_drive.c:500) |
| stage_skew | a skew set under the drive clears RCR, `direct` and `to_direct` one by one (board_pwm.c:70), and the update interrupt may switch to direct (`enter_direct`) between two of them (board_pwm.c:775) |

In stage_skew what is left depends on where the interrupt came. After `direct` is
cleared and before `to_direct` is: the drive writes straight in, once a period,
beside a skew that wants both updates. Between RCR and `direct`: the drive is
landed with RCR 1. Updates then come at overflows alone, where nothing is landed,
and the drive's triples stop reaching the compares until it lets go: with the
dead time among its ops stage_live's `DriveLands` fails, even under strong
fairness of the loop.

The others were met while modelling; the passing instances leave them out by
the constants the sections above name.

- Setting the dead time during a counted hold turns the hold's interrupt off
  (board_pwm.c:788), so the hold does not end; board_pwm.c:447 says "held for
  exactly".
- An update event between the three stores of a triple (board_pwm.c:433) puts
  two new phases and an old one in force for a cycle; the comment at 431 says
  "never".
- The update interrupt's enable is tested and then stored (board_pwm.c:788): an
  `enter_direct` in between leaves a drive writing straight in with the interrupt
  on, where board_pwm.c:875 says "off while the drive writes its triples straight
  in". The handler then has nothing to do, once a period.
- The loop's own disable (board_pwm.c:136) gives up the stage's `drive_owns`;
  enabled again between two samples, the drive still believes it owns
  (board_drive.c:21), takes nothing, and its triples never land: `DriveLands`
  fails with `"drop"`.
- With the sync disarmed under a running drive (board_sync.c:316) nothing
  samples, and the mode 0 that board_pwm.c:330 tells the host to set lets
  nothing go.
- `daq_take` reads, adds to and writes the tail with nothing held back, where
  daq.h:59 promises "the interrupt hold around what a feed on the timer's interrupt
  and a take on the main loop both touch". A loss of power that comes between its
  loads empties the ring, and the take then stores its tail over the emptied one:
  what was lost is handed out again, where daq.h:190 says "every buffer empties".
  `"powered"` leaves this out; without it `IsQueue` fails.
- A new task resets the rung and not the chain the rung stands for (daq.c:514):
  until a ladder is sent, what is in use is the last task's, under a status that
  answers rung 0. The host's task.py:298 configures with `adapt` and does not send
  it; `ladder` (354) is a call of its own.
- A configure that is refused has replaced the field list and not the stride
  (board_daq.c:256): started all the same, its records overlap. `"heeds"` leaves
  this out; without it `IsQueue` fails.
- With two types on a segment, a node that missed one of its chunks takes the
  other type's chunk of that index (docs/BOOT.md:83 has one erase per type and
  no more); its verify fails and the run raises (boot.py:369), though a round
  of missing is there to repair it. `OneTypeRepairs` is what is left.
- A node that lost the go answers the host's wait from its bootloader with the
  image it waits for (boot.py:455), and the load is reported done.
- `hold` is sent once, where docs/BOOT.md:78 says "repeatedly".
- The observer may read an unsettled rail: one it borrowed, lost to its lease or
  to a release of all holds, and found put up again by another just before
  (board_thermal.c:314; it asks how long the rail has been up at 289, of a rail
  it did not borrow).
- cmd_thermal.c:124 accepts a settle longer than a lease; every sample's lease
  then ends before it is read, and `SamplesCome` fails.
- `link_rx_count` counts every character, so on a bus other nodes' traffic
  keeps a silent host's claims alive: `SilenceDrops` speaks of a silent line.

## Not modelled

- In the modelled parts: `who`'s and `state`'s wording and `dump` (they read);
  the break bypass, PWM period changes, dead times' values; the drive's
  observers and current loops; the live accumulators and the samples' values;
  Modbus function codes, port opening and closing; the STO keepalive.
- Register map, commands and console: marshalling of fields. The ops that change
  a modelled component's state are actions of its module.
- Sampling and board services: register access and scaling. A calibration save
  that is cut leaves a sector whose checksum refuses it, and the defaults load.
- Controller and cascade: float blocks. Slots change only while the cascade is
  stopped, its starts and clears are masked, and its ring of rows has one writer
  (row, then index) and one reader, so no order of steps tells anything apart.
- Thermal network, filters, whole-body control, sensor hub, aero and MPPI:
  sequential arithmetic over floats, outside a finite model.
- The rest of the host (broker, drawing, models, bench tooling) and the
  emulation: clients and stand-ins of what is modelled.
- Start-up and `drivers/`: generated and the vendor's. They are nearly all of
  the repository's lines of C, so the modelled share of lines stays small
  however much of the project's own logic is covered.
