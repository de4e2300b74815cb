------------------------------ MODULE BootNode ------------------------------
(***************************************************************************)
(* One node of the bootloader (device 11): boot/src/boot_core.c over the   *)
(* port and the main loop of boot/src/boot_main.c, through resets and      *)
(* power loss at every step that takes time.                               *)
(*                                                                         *)
(* An image is named by its size and CRC-32 and is here a model value.     *)
(* Memory that holds an image is a function from slots to whose bytes are  *)
(* there: slot 0 is the image's first 32-byte word, which the node writes  *)
(* last; slot k > 0 is what is left of chunk k - 1.  A CRC over slots that *)
(* all hold image i is i's, and no other content has i's CRC.              *)
(***************************************************************************)
EXTENDS Naturals, FiniteSets

CONSTANTS
    Images,        \* the images a host may offer
    Size,          \* Size[i]: the chunks of image i
    Shaped,        \* the images with vectors into RAM and this type's header
    MaxChunks,     \* chunks the RAM and the store have room for
    HeaderSlot,    \* the slot holding boot_header_t
    Split,         \* the first slot in the store's second sector
    Records,       \* the calibration records a host may send
    Units,         \* the unit ids a host assigns
    Sessions,      \* the sessions of the masters
    QuietAfterGo,  \* whether the masters are silent from an accepted go on
    None,          \* no image, no record
    Erased,        \* a slot that reads 0xFF
    Torn           \* a slot holding no image's bytes

ASSUME ImagesAssumption ==
    /\ MaxChunks \in Nat \ {0}
    /\ HeaderSlot \in 1..MaxChunks
    /\ Split \in 1..MaxChunks
    /\ Size \in [Images -> 1..MaxChunks]
    /\ Shaped \subseteq Images
    /\ \A i \in Shaped : HeaderSlot <= Size[i]
    /\ {None, Erased, Torn} \cap (Images \cup Records) = {}
    /\ None # Erased /\ None # Torn /\ Erased # Torn
    /\ Units \subseteq 1..246
    /\ Sessions \subseteq Nat
    /\ QuietAfterGo \in BOOLEAN

VARIABLES
    s,       \* boot_core.c's struct: the node's state
    loop,    \* main()'s locals: what the gate said, a stay, a go taken
    job,     \* where a handler that writes for long has got to
    mode,    \* "gate": boot_ready; "serve": the loop; "app": the application
    ram,     \* RUN: where the image runs
    seal,    \* the store's seal word
    copy,    \* the store's image behind it
    sector,  \* the record's sector
    slot,    \* the handover slot both images share
    via,     \* what the last jump rested on (history)
    halved   \* whether a store erase was cut short and none finished since
             \* (history)

flash == <<seal, copy, sector>>
vars == <<s, loop, job, mode, ram, flash, slot, via, halved>>

BLANK == 0
HELD == 1
ASSIGNED == 2
ERASED == 3
VERIFIED == 4
SEALED == 5

\* BOOT_UNIT: what a node answers to until a unit is assigned.
BlankUnit == 247

Slots == 0..MaxChunks
Content == Images \cup {Erased, Torn}
SlotsOf(i) == 0..Size[i]
Index == 0..(MaxChunks - 1)
Indices(i) == 0..(Size[i] - 1)

Job(step, image, persist) ==
    [step |-> step, at |-> 0, image |-> image, persist |-> persist]
Idle == Job("idle", None, FALSE)

-----------------------------------------------------------------------------
(* What the code reads off memory.                                         *)

\* Every slot of image i holds i's bytes: the CRC over them is i's.
Whole(mem, i) == \A k \in SlotsOf(i) : mem[k] = i

\* shape_ok: vectors in the first word, the header behind them.
ShapeOk(mem) == mem[0] \in Shaped /\ mem[HeaderSlot] \in Shaped

\* image_crc: the first word from where it is held back, the rest from RAM.
ImageCrcIs(i) ==
    /\ (IF s.first # None THEN s.first ELSE ram[0]) = i
    /\ \A k \in SlotsOf(i) \ {0} : ram[k] = i

\* image_held: RAM is valid, its header names i's size and the CRC is i's.
ImageHeld(i) ==
    /\ ShapeOk(ram)
    /\ Size[ram[HeaderSlot]] = Size[i]
    /\ ImageCrcIs(i)

\* store_sealed: the seal names i and the copy behind it sums to i.
StoreSealed(i) == seal = i /\ ShapeOk(copy) /\ Whole(copy, i)

-----------------------------------------------------------------------------
(* boot_init and the reset.                                                *)

BootInit ==
    [state |-> BLANK, session |-> 0, unit |-> BlankUnit, offer |-> None,
     landed |-> {}, held |-> 0, first |-> None, record |-> None,
     verified |-> FALSE, go |-> FALSE, run |-> None]

\* The slot's words after a power-up: no magic.
NoSlot == [magic |-> FALSE, stay |-> FALSE, unit |-> 0, image |-> None]

LoopInit == [ready |-> FALSE, asked |-> FALSE, going |-> FALSE]

\* A board from the factory or from a debugger: the store empty or sealed
\* with one image, RAM unpowered until now.
Init ==
    /\ s = BootInit /\ loop = LoopInit /\ job = Idle /\ mode = "gate"
    /\ ram = [k \in Slots |-> Torn]
    /\ \/ seal = Erased /\ copy = [k \in Slots |-> Erased]
       \/ \E i \in Shaped :
             /\ seal = i
             /\ copy = [k \in Slots |-> IF k \in SlotsOf(i) THEN i ELSE Erased]
    /\ sector = Erased
    /\ slot = NoSlot
    /\ via = "none" /\ halved = FALSE

-----------------------------------------------------------------------------
(* The store's copy into RAM, to_run, shared by the gate and erase.        *)

\* The port's erase of RAM under image i.
Cleared(i) == [k \in Slots |-> IF k \in SlotsOf(i) THEN Erased ELSE ram[k]]

\* RAM is erased over the image's size, then takes the copy word by word.
BeginCopy(i) ==
    /\ ram' = Cleared(i)
    /\ job' = Job("copy", i, FALSE)

\* Mutant: an erase that leaves the state as it was.
OfferedStale(i, whole) ==
    s' = [s EXCEPT !.offer = i,
                   !.landed = IF whole THEN Indices(i) ELSE {},
                   !.held = IF whole THEN Size[i] ELSE 0,
                   !.first = None, !.verified = whole, !.record = None,
                   !.state = IF whole THEN VERIFIED ELSE @]

\* offered: the image an erase offers, held whole already or awaited.
Offered(i, whole) ==
    s' = [s EXCEPT !.offer = i,
                   !.landed = IF whole THEN Indices(i) ELSE {},
                   !.held = IF whole THEN Size[i] ELSE 0,
                   !.first = None, !.verified = whole, !.record = None,
                   !.state = IF whole THEN VERIFIED ELSE ERASED]

\* The gate lets main() into its loop: ready with image i, or with nothing.
Enter(i) ==
    /\ mode' = "serve"
    /\ loop' = [ready |-> i # None, asked |-> slot.stay, going |-> FALSE]
    /\ slot' = [slot EXCEPT !.stay = FALSE]
    /\ s' = [s EXCEPT !.run = i]

\* Mutant: a warm slot believed without summing RAM.
KeptUnsummed == slot.magic /\ slot.image # None

\* boot_ready's first question: is RAM still the image a warm slot names?
Kept == slot.magic /\ slot.image # None /\ ImageHeld(slot.image)

GateKeeps ==
    /\ Kept
    /\ Enter(slot.image)
    /\ UNCHANGED <<ram, job>>

\* Its second: does the store hold one?
GateCopies(i) ==
    /\ ~Kept /\ StoreSealed(i)
    /\ BeginCopy(i)
    /\ UNCHANGED <<s, loop, mode, slot>>

GateWaits ==
    /\ ~Kept /\ \A i \in Images : ~StoreSealed(i)
    /\ Enter(None)
    /\ UNCHANGED <<ram, job>>

Gate ==
    /\ mode = "gate" /\ job.step = "idle"
    /\ GateKeeps \/ GateWaits \/ \E i \in Images : GateCopies(i)
    /\ UNCHANGED <<flash, via, halved>>

CopyWord ==
    /\ job.step = "copy" /\ job.at <= Size[job.image]
    /\ ram' = [ram EXCEPT ![job.at] = copy[job.at]]
    /\ job' = [job EXCEPT !.at = @ + 1]
    /\ UNCHANGED <<s, loop, mode, flash, slot, via, halved>>

\* The copy is in RAM: the gate sums it once more, erase takes it as held.
CopiedAtGate ==
    /\ mode = "gate"
    /\ Enter(IF ImageHeld(job.image) THEN job.image ELSE None)

CopiedForErase ==
    /\ mode = "serve"
    /\ Offered(job.image, TRUE)
    /\ UNCHANGED <<loop, mode, slot>>

Copied ==
    /\ job.step = "copy" /\ job.at = Size[job.image] + 1
    /\ CopiedAtGate \/ CopiedForErase
    /\ job' = Idle
    /\ UNCHANGED <<ram, flash, via, halved>>

-----------------------------------------------------------------------------
(* The ops that only move the node's state.  The handlers run to their end *)
(* in the loop's receive pass: nothing is heard while a job is under way.  *)

Listens == mode = "serve" /\ job.step = "idle"

Hears == Listens /\ (QuietAfterGo => ~s.go)

Hold(session) ==
    /\ Hears
    /\ s' = [s EXCEPT !.state = IF @ = BLANK THEN HELD ELSE @,
                      !.session = session]
    /\ UNCHANGED <<loop, job, mode, ram, flash, slot, via, halved>>

Assign(unit) ==
    /\ Hears
    /\ s' = [s EXCEPT !.unit = unit, !.state = ASSIGNED]
    /\ UNCHANGED <<loop, job, mode, ram, flash, slot, via, halved>>

\* erase: RAM holds the image offered and keeps it, or the store does and
\* gives it, or RAM is cleared for its chunks.
EraseKeeps(i) ==
    /\ ImageHeld(i)
    /\ Offered(i, TRUE)
    /\ UNCHANGED <<ram, job>>

EraseCopies(i) ==
    /\ ~ImageHeld(i) /\ StoreSealed(i)
    /\ BeginCopy(i)
    /\ UNCHANGED s

EraseClears(i) ==
    /\ ~ImageHeld(i) /\ ~StoreSealed(i)
    /\ ram' = Cleared(i)
    /\ Offered(i, FALSE)
    /\ UNCHANGED job

Erase(i) ==
    /\ Hears /\ s.state >= ASSIGNED
    /\ EraseKeeps(i) \/ EraseCopies(i) \/ EraseClears(i)
    /\ UNCHANGED <<loop, mode, flash, slot, via, halved>>

\* Mutant: the first word programmed where it belongs.
ChunkInPlace(n, i) ==
    /\ Hears /\ s.state \in {ERASED, VERIFIED}
    /\ n \in Indices(s.offer) \cap Indices(i) /\ n \notin s.landed
    /\ ram' = [ram EXCEPT ![n + 1] = i, ![0] = IF n = 0 THEN i ELSE @]
    /\ s' = [s EXCEPT !.first = IF n = 0 THEN i ELSE @,
                      !.landed = @ \cup {n}, !.held = @ + 1]
    /\ UNCHANGED <<loop, job, mode, flash, slot, via, halved>>

\* Chunk n of image i, whichever image the node awaits: the image's first
\* word is kept back, everything else goes to its place.
Chunk(n, i) ==
    /\ Hears /\ s.state \in {ERASED, VERIFIED}
    /\ n \in Indices(s.offer) \cap Indices(i) /\ n \notin s.landed
    /\ ram' = [ram EXCEPT ![n + 1] = i]
    /\ s' = [s EXCEPT !.first = IF n = 0 THEN i ELSE @,
                      !.landed = @ \cup {n}, !.held = @ + 1]
    /\ UNCHANGED <<loop, job, mode, flash, slot, via, halved>>

Verify ==
    /\ Hears /\ s.state >= ERASED /\ s.held = Size[s.offer]
    /\ LET ok == ImageCrcIs(s.offer)
       IN s' = [s EXCEPT !.verified = ok,
                         !.state = IF ok THEN VERIFIED ELSE @]
    /\ UNCHANGED <<loop, job, mode, ram, flash, slot, via, halved>>

Record(r) ==
    /\ Hears /\ s.state >= ASSIGNED
    /\ s' = [s EXCEPT !.record = r]
    /\ UNCHANGED <<loop, job, mode, ram, flash, slot, via, halved>>

\* Mutant: the image's type taken on the master's word.
GoAnyType(session) ==
    /\ Hears /\ session = s.session /\ s.state = SEALED
    /\ s' = [s EXCEPT !.go = TRUE]
    /\ UNCHANGED <<loop, job, mode, ram, flash, slot, via, halved>>

Go(session) ==
    /\ Hears /\ session = s.session /\ s.state = SEALED
    /\ s' = [s EXCEPT !.go = ShapeOk(ram)]
    /\ UNCHANGED <<loop, job, mode, ram, flash, slot, via, halved>>

-----------------------------------------------------------------------------
(* seal: the record, the first word, the store, and only then SEALED.      *)

SectorOf(k) == IF k < Split THEN 0 ELSE 1
SectorSlots(n) == {k \in Slots : SectorOf(k) = n}

Step(name) == Job(name, None, job.persist)

\* Mutant: the record programmed only where there is none.
SealBlankRecord(persist) ==
    /\ Hears /\ s.verified
    /\ job' = Job(IF s.record # None /\ sector = Erased
                  THEN "record_erase" ELSE "first", None, persist)
    /\ UNCHANGED <<s, loop, mode, ram, flash, slot, via, halved>>

Seal(persist) ==
    /\ Hears /\ s.verified
    /\ job' = Job(IF s.record # None /\ sector # s.record
                  THEN "record_erase" ELSE "first", None, persist)
    /\ UNCHANGED <<s, loop, mode, ram, flash, slot, via, halved>>

RecordErase ==
    /\ job.step = "record_erase"
    /\ sector' = Erased
    /\ job' = Step("record_program")
    /\ UNCHANGED <<s, loop, mode, ram, seal, copy, slot, via, halved>>

RecordProgram ==
    /\ job.step = "record_program" /\ sector = Erased
    /\ sector' = s.record
    /\ job' = Step("first")
    /\ UNCHANGED <<s, loop, mode, ram, seal, copy, slot, via, halved>>

\* The seal is done: the image is the one RAM holds verified.
Sealed(core) == [core EXCEPT !.run = s.offer, !.state = SEALED]

\* The word kept back goes to its place; persist only where the store differs.
SealInRam ==
    /\ ~job.persist \/ StoreSealed(s.offer)
    /\ s' = Sealed([s EXCEPT !.first = None])
    /\ job' = Idle

\* Mutant: persist whatever the store holds.
SealOverSame ==
    /\ job.persist
    /\ s' = [s EXCEPT !.first = None]
    /\ job' = Step("store_erase")

SealToStore ==
    /\ job.persist /\ ~StoreSealed(s.offer)
    /\ s' = [s EXCEPT !.first = None]
    /\ job' = Step("store_erase")

FirstWord ==
    /\ job.step = "first"
    /\ ram' = IF s.first = None THEN ram ELSE [ram EXCEPT ![0] = s.first]
    /\ SealInRam \/ SealToStore
    /\ UNCHANGED <<loop, mode, flash, slot, via, halved>>

\* Mutant: the second sector left as it is.
StoreEraseFirst ==
    /\ job.step = "store_erase"
    /\ copy' = [k \in Slots |-> IF SectorOf(k) = 0 THEN Erased ELSE copy[k]]
    /\ seal' = Erased
    /\ halved' = FALSE
    /\ job' = Step("store_word")
    /\ UNCHANGED <<s, loop, mode, ram, sector, slot, via>>

\* The store's sectors under the image, from the first: the seal goes first.
StoreErase ==
    /\ job.step = "store_erase"
    /\ copy' = [k \in Slots |-> IF SectorOf(k) = job.at THEN Erased
                                                        ELSE copy[k]]
    /\ seal' = IF job.at = 0 THEN Erased ELSE seal
    /\ halved' = (halved /\ job.at # 0)
    /\ job' = IF job.at = SectorOf(Size[s.offer])
              THEN Step("store_word") ELSE [job EXCEPT !.at = @ + 1]
    /\ UNCHANGED <<s, loop, mode, ram, sector, slot, via>>

\* Mutant: the last word forgotten.
StoreWordShort ==
    /\ job.step = "store_word" /\ copy[job.at] = Erased
    /\ copy' = [copy EXCEPT ![job.at] = ram[job.at]]
    /\ job' = IF job.at + 1 = Size[s.offer]
              THEN Step("store_seal") ELSE [job EXCEPT !.at = @ + 1]
    /\ UNCHANGED <<s, loop, mode, ram, seal, sector, slot, via, halved>>

\* flash_program takes a word that reads erased and refuses any other.
StoreWord ==
    /\ job.step = "store_word" /\ copy[job.at] = Erased
    /\ copy' = [copy EXCEPT ![job.at] = ram[job.at]]
    /\ job' = IF job.at = Size[s.offer]
              THEN Step("store_seal") ELSE [job EXCEPT !.at = @ + 1]
    /\ UNCHANGED <<s, loop, mode, ram, seal, sector, slot, via, halved>>

StoreSeal ==
    /\ job.step = "store_seal" /\ seal = Erased
    /\ seal' = s.offer
    /\ job' = Idle /\ s' = Sealed(s)
    /\ UNCHANGED <<loop, mode, ram, copy, sector, slot, via, halved>>

-----------------------------------------------------------------------------
(* A flash operation that is cut short, or that reports an error.          *)

FlashSteps == {"record_erase", "record_program",
               "store_erase", "store_word", "store_seal"}

\* What the operation under way leaves behind: an erase leaves any word as
\* it was, torn or erased, a program leaves its word erased, torn or written.
CutShort ==
    CASE job.step = "record_erase" ->
           /\ sector' \in {sector, Erased, Torn}
           /\ UNCHANGED <<seal, copy, halved>>
      [] job.step = "record_program" ->
           /\ sector' \in {sector, Torn, s.record}
           /\ UNCHANGED <<seal, copy, halved>>
      [] job.step = "store_erase" ->
           /\ \E gone, broken \in SUBSET SectorSlots(job.at) :
                copy' = [k \in Slots |-> IF k \in broken THEN Torn
                                         ELSE IF k \in gone THEN Erased
                                         ELSE copy[k]]
           /\ seal' \in IF job.at = 0 THEN {seal, Erased, Torn} ELSE {seal}
           /\ halved' = (halved \/ job.at = 0)
           /\ UNCHANGED sector
      [] job.step = "store_word" ->
           /\ \E left \in {copy[job.at], Torn, ram[job.at]} :
                copy' = [copy EXCEPT ![job.at] = left]
           /\ UNCHANGED <<seal, sector, halved>>
      [] job.step = "store_seal" ->
           /\ seal' \in {seal, Torn, s.offer}
           /\ UNCHANGED <<copy, sector, halved>>
      [] OTHER -> UNCHANGED <<flash, halved>>

\* The port answers false: seal is refused, what it wrote so far stays.
FlashFails ==
    /\ job.step \in FlashSteps
    /\ CutShort
    /\ job' = Idle
    /\ UNCHANGED <<s, loop, mode, ram, slot, via>>

-----------------------------------------------------------------------------
(* The jump and the resets.                                                *)

\* follow_core: a go is taken once, and settles from then on.
FollowCore ==
    /\ Listens /\ s.go /\ ~loop.going
    /\ loop' = [loop EXCEPT !.going = TRUE]
    /\ UNCHANGED <<s, job, mode, ram, flash, slot, via, halved>>

\* Mutant: the unit handed over before any was assigned.
HandOverBlank ==
    slot' = [magic |-> TRUE, stay |-> FALSE, image |-> s.run, unit |-> s.unit]

\* boot_hand_over: this run's assign, else the warm slot's, else none.
HandOver ==
    slot' = [magic |-> TRUE, stay |-> FALSE, image |-> s.run,
             unit |-> IF s.state >= ASSIGNED THEN s.unit
                      ELSE IF slot.magic THEN slot.unit ELSE 0]

Jump(reason) ==
    /\ Listens
    /\ HandOver
    /\ mode' = "app" /\ via' = reason
    /\ UNCHANGED <<s, loop, job, ram, flash, halved>>

\* GO_SETTLE_MS after the go, whatever was heard since.
JumpGo == loop.going /\ Jump("go")

\* Mutant: only a warm start runs alone.
JumpWindowWarm ==
    /\ loop.ready /\ ~loop.asked /\ s.state = BLANK /\ slot.magic
    /\ Jump("window")

\* HOLD_MS after a start that found an image, if nobody said hold.
JumpWindow ==
    /\ loop.ready /\ ~loop.asked /\ s.state = BLANK
    /\ Jump("window")

Restart ==
    /\ s' = BootInit /\ loop' = LoopInit /\ job' = Idle /\ mode' = "gate"
    /\ UNCHANGED via
    /\ CutShort

WarmReset == Restart /\ UNCHANGED <<ram, slot>>

PowerLoss == Restart /\ ram' = [k \in Slots |-> Torn] /\ slot' = NoSlot

\* The application's stay: the word in the slot, then the reset.
AppStay ==
    /\ mode = "app"
    /\ Restart
    /\ slot' = [slot EXCEPT !.stay = TRUE]
    /\ UNCHANGED ram

-----------------------------------------------------------------------------
Ops ==
    \/ \E session \in Sessions : Hold(session) \/ Go(session)
    \/ \E unit \in Units : Assign(unit)
    \/ \E i \in Images : Erase(i) \/ \E n \in Index : Chunk(n, i)
    \/ Verify
    \/ \E r \in Records : Record(r)
    \/ \E persist \in BOOLEAN : Seal(persist)

Work ==
    \/ Gate \/ CopyWord \/ Copied
    \/ RecordErase \/ RecordProgram \/ FirstWord
    \/ StoreErase \/ StoreWord \/ StoreSeal

Resets == WarmReset \/ PowerLoss \/ AppStay

Next == Ops \/ Work \/ FlashFails \/ FollowCore \/ JumpGo \/ JumpWindow \/ Resets

Spec == Init /\ [][Next]_vars

\* The loop is the node's only process and never blocks: a handler runs on,
\* and every pass takes the go and asks both jump conditions, whose clocks
\* only run up.
Fairness ==
    /\ WF_vars(Work)
    /\ SF_vars(FollowCore)
    /\ SF_vars(JumpGo)
    /\ WF_vars(JumpWindow)

FairSpec == Spec /\ Fairness

-----------------------------------------------------------------------------
(* What must hold.                                                         *)

CoreState ==
    [state : BLANK..SEALED, session : Nat, unit : Units \cup {BlankUnit},
     offer : Images \cup {None}, landed : SUBSET Index, held : Nat,
     first : Images \cup {None}, record : Records \cup {None},
     verified : BOOLEAN, go : BOOLEAN, run : Images \cup {None}]

JobState ==
    [step : {"idle", "copy", "first"} \cup FlashSteps, at : Nat,
     image : Images \cup {None}, persist : BOOLEAN]

TypeOK ==
    /\ s \in CoreState
    /\ loop \in [ready : BOOLEAN, asked : BOOLEAN, going : BOOLEAN]
    /\ job \in JobState
    /\ mode \in {"gate", "serve", "app"}
    /\ ram \in [Slots -> Content]
    /\ seal \in Content
    /\ copy \in [Slots -> Content]
    /\ sector \in Records \cup {Erased, Torn}
    /\ slot \in [magic : BOOLEAN, stay : BOOLEAN, unit : Units \cup {0},
                 image : Images \cup {None}]
    /\ via \in {"none", "go", "window"}
    /\ halved \in BOOLEAN

\* An application runs only from RAM that holds one whole image of this
\* type, and the slot names that image.
RunsWhole ==
    mode = "app" =>
        /\ slot.image \in Shaped
        /\ Whole(ram, slot.image)

\* The same of the jump after the hold window alone, whatever the masters
\* send: no reset at any step lets a torn RAM or a torn store run.
WindowRunsWhole == via = "window" => RunsWhole

\* A node that says SEALED holds in RAM, first word included, the image it
\* was last offered, and names it as the one that will run.
SealedIsWhole ==
    Listens /\ s.state = SEALED =>
        /\ s.first = None
        /\ s.run = s.offer
        /\ Whole(ram, s.offer)

\* From the first chunk to the seal RAM is no application: the vectors are
\* not there, so a reset anywhere in a stream cannot start it.
UnsealedIsInvalid ==
    Listens /\ s.first # None => ~ShapeOk(ram)

\* A seal word stands only over the whole image it names, unless an erase of
\* the store was cut short and none has finished since.
SealNamesWholeCopy ==
    seal \in Images /\ ~halved => Whole(copy, seal)

\* persist finds every word it programs erased, whatever the store held
\* and wherever an earlier persist was cut short.
PersistFindsErased ==
    /\ job.step = "store_word" =>
          /\ seal = Erased
          /\ \A k \in job.at..Size[s.offer] : copy[k] = Erased
    /\ job.step = "store_seal" => seal = Erased /\ Whole(copy, s.offer)

\* A seal that is answered done has left nothing undone, whatever step an
\* earlier one failed or was cut at: the record in its sector, the image whole
\* in RAM and, where asked, one of this type sealed in the store.
SealFinishes ==
    [][(FirstWord /\ job'.step = "idle") \/ StoreSeal =>
          /\ s.record # None => sector' = s.record
          /\ Whole(ram', s.offer)
          /\ job.persist /\ s.offer \in Shaped => StoreSealed(s.offer)']_vars

\* A store that holds a whole image is given up only for another one: the
\* image a power-up with no master would run is never lost to itself.
StoreGivenUpForAnother ==
    [][\A i \in Images :
          StoreSealed(i) /\ ~StoreSealed(i)' =>
              job.step = "store_erase" /\ s.offer # i]_vars

\* Once nothing resets it and nobody says hold, a node whose store is sealed
\* starts its application alone - unless it was asked to stay.
StartsAlone ==
    <>[][~Resets]_vars =>
        ((mode = "gate" /\ \E i \in Images : StoreSealed(i))
            ~> (mode = "app" \/ loop.asked \/ s.state # BLANK))

-----------------------------------------------------------------------------
(* What the node promises, BootGate: an application that is anything but   *)
(* whole would be none of its images.                                      *)

RunImage ==
    IF mode # "app" THEN None
    ELSE IF slot.image \in Images /\ Whole(ram, slot.image) THEN slot.image
    ELSE Torn

KeptImage == IF \E i \in Images : StoreSealed(i) THEN seal ELSE None

Promise == INSTANCE BootGate WITH runs <- RunImage, kept <- KeptImage

\* boot_ready, persist and jump together keep the gate's promise: nothing but
\* whole images of this type is run, and the store passes from one image to
\* another only empty and only while no application runs.
ImplementsGate == Promise!Spec

-----------------------------------------------------------------------------
(* The invariant the proofs carry through every step.                      *)

SealSteps == {"first"} \cup FlashSteps
StoreSteps == {"store_erase", "store_word", "store_seal"}

\* Who runs when: the gate starts from boot_init and only ever copies, an
\* application has no handler under way, a seal is a verified node's.
Phases ==
    /\ mode = "gate" => s = BootInit /\ loop = LoopInit
                        /\ job.step \in {"idle", "copy"}
    /\ mode = "app" => job.step = "idle"
    /\ job.step \in SealSteps => s.verified
    /\ job.step \in {"record_erase", "record_program"} => s.record # None

\* What the bitmap and the counter say of the offer.
Bitmap ==
    /\ s.state >= ERASED \/ s.verified =>
          /\ s.offer \in Images
          /\ s.landed \subseteq Indices(s.offer)
          /\ s.held = Cardinality(s.landed)
    /\ s.verified => s.landed = Indices(s.offer)
    /\ s.state = VERIFIED => s.verified

\* A node past assign has a unit a host assigned: what the jump hands over.
Addressed ==
    /\ s.state >= ASSIGNED => s.unit \in Units
    /\ s.verified => s.state >= ASSIGNED
    /\ job.step = "copy" => mode = "gate" \/ s.state >= ASSIGNED

\* What RAM holds while no copy runs over it.
RamMatches ==
    job.step # "copy" =>
        /\ s.verified => ImageCrcIs(s.offer)
        /\ s.first # None => ram[0] = Erased
        /\ s.state = ERASED /\ ~s.verified => ram[0] = Erased
        /\ s.state = SEALED => s.verified /\ s.first = None /\ s.run = s.offer

\* A copy's source is sealed, and what it has copied is the image.
Copying ==
    job.step = "copy" =>
        /\ job.image \in Images
        /\ job.at \in 0..(Size[job.image] + 1)
        /\ StoreSealed(job.image)
        /\ \A k \in SlotsOf(job.image) : k < job.at => ram[k] = job.image
        /\ s.state # BLANK \/ mode = "gate"

\* How far a persist has got in the store.
Persisting ==
    /\ job.step \in StoreSteps => s.first = None
    /\ job.step = "store_erase" =>
          /\ job.at \in 0..SectorOf(Size[s.offer])
          /\ job.at = 1 => /\ seal = Erased
                           /\ \A k \in SectorSlots(0) : copy[k] = Erased
    /\ job.step = "store_word" =>
          /\ job.at \in SlotsOf(s.offer)
          /\ seal = Erased
          /\ \A k \in SlotsOf(s.offer) :
                copy[k] = IF k < job.at THEN s.offer ELSE Erased
    /\ job.step = "store_seal" => seal = Erased /\ Whole(copy, s.offer)

\* What either jump rests on.
JumpsWhole ==
    /\ mode = "serve" /\ loop.ready /\ s.state = BLANK =>
          s.run \in Shaped /\ Whole(ram, s.run)
    /\ QuietAfterGo /\ mode = "serve" =>
          /\ loop.going => s.go
          /\ s.go => /\ s.state = SEALED /\ job.step = "idle"
                     /\ s.run \in Shaped
    /\ QuietAfterGo => RunsWhole

IInv ==
    /\ TypeOK /\ Phases /\ Addressed /\ Bitmap /\ RamMatches /\ Copying /\ Persisting
    /\ SealNamesWholeCopy /\ JumpsWhole /\ WindowRunsWhole

=============================================================================
