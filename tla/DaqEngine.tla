----------------------------- MODULE DaqEngine -----------------------------
(***************************************************************************)
(* The acquisition: daq/src/daq.c under board/src/board_daq.c and the ops  *)
(* of comms/src/cmd_daq.c.  Sweeps are summed over a window, a closed      *)
(* window is a record in a ring of bytes, and the host takes records.      *)
(*                                                                         *)
(* A sweep is fed by ADC3's interrupt (the TIM1 clock) or by the main loop *)
(* (the software clock); a take runs in the loop and holds no interrupt    *)
(* back, so its loads and stores are steps of their own.  What a sweep     *)
(* measures is left out: a record is its number since the start, and a     *)
(* byte of the ring says which byte of which record it is.                 *)
(***************************************************************************)
EXTENDS Integers, Sequences, FiniteSets

CONSTANTS
    Bytes,         \* the ring
    Fields,        \* how many fields a configure may select
    Overhead,      \* a record's bytes beside its fields: time and count
    Accumulates,   \* sweeps a record may be asked to sum; 0: closed by clock
    Counts,        \* records a task may be asked for; 0: until stopped
    Clocks,        \* "tim1": the interrupt feeds; "software": the loop
    Designs,       \* [boxcar, filters] a rung of the ladder may have
    Ladder,        \* rungs a ladder may have
    MaxAdditions,  \* where the window's count saturates
    ClimbAt, FallAt, Eighths, ClimbMax, FallAfter,   \* the ladder's marks
    Refused,       \* how many fields a configure that is refused selects
    Wants,         \* records a read may ask for
    MaxRecords,    \* bound: records put between two starts
    Habits         \* what can be counted on of the host, see below

\* "powered": it reads while AFE is on, or once the task knows it is off.
\* "heeds": it starts no task after a configure that was refused.
AllHabits == {"powered", "heeds"}

StrideOf(fields) == Overhead + fields

ASSUME DaqAssumption ==
    /\ Bytes \in Nat \ {0} /\ Overhead \in Nat \ {0}
    /\ Fields \subseteq Nat \ {0}
    /\ \A f \in Fields : StrideOf(f) < Bytes
    /\ Accumulates \subseteq 0..MaxAdditions /\ MaxAdditions \in Nat \ {0}
    /\ Counts \subseteq 0..MaxRecords /\ MaxRecords \in Nat
    /\ Clocks \subseteq {"tim1", "software"}
    /\ Designs \subseteq [boxcar : Nat \ {0}, filters : BOOLEAN]
    /\ Ladder \in Nat \ {0} /\ Wants \subseteq Nat \ {0} /\ Refused \subseteq Nat
    /\ {ClimbAt, FallAt, ClimbMax} \subseteq Nat
    /\ {Eighths, FallAfter} \subseteq Nat \ {0}
    /\ Habits \subseteq AllHabits

VARIABLES
    ring,   \* head, tail and stride in bytes; records put and left out
    buf,    \* the bytes: [rec, at], the at-th of record rec
    task,   \* what was configured, and whether it runs, is done, lost power
    win,    \* acc_n: sweeps in the window
    lad,    \* rungs held, where on them, the chain in use, polls at the low
    take,   \* the loop's read: where it is and what it holds
    afe     \* AFE_ON, which powers the converter's reference

vars == <<ring, buf, task, win, lad, take, afe>>

Offsets == 0..(Bytes - 1)
Byte(rec, at) == [rec |-> rec, at |-> at]
\* A byte of no record of this task: an older task's, a lender's, or the
\* stack behind a record shorter than its stride.
Stale == Byte(0, 0)

Least(a, b) == IF a < b THEN a ELSE b

Plain == [boxcar |-> 1, filters |-> FALSE]

-----------------------------------------------------------------------------
(* The ring.                                                               *)

\* Bytes written and not read, from a head and a tail that were loaded.
Used(head, tail) == (head + Bytes - tail) % Bytes

Available(head, tail) ==
    IF ring.stride = 0 THEN 0 ELSE Used(head, tail) \div ring.stride

Waiting == Available(ring.head, ring.tail)

Capacity == IF ring.stride = 0 THEN 0 ELSE Bytes \div ring.stride

\* Mutant: a record that fills the last byte.
RoomForOneMore == Bytes - Used(ring.head, ring.tail) >= ring.stride

\* room > stride: a ring filled to the last byte would read as empty.
RoomForRecord == Bytes - Used(ring.head, ring.tail) > ring.stride

\* Byte k of what push_record lays out: the fields and the count, and what
\* follows them on the stack where the stride is longer.
Laid(rec, k) == IF k < StrideOf(task.fields) THEN Byte(rec, k) ELSE Stale

\* put: stride bytes from the head on, wrapping at the end of the buffer.
Put(rec) ==
    buf' = [o \in Offsets |->
              LET k == (o + Bytes - ring.head) % Bytes
              IN IF k < ring.stride THEN Laid(rec, k) ELSE buf[o]]

\* A task's ring, empty.
Emptied(r) == [r EXCEPT !.head = 0, !.tail = 0]

-----------------------------------------------------------------------------
(* The ladder: rungs[n + 1] is rung n.                                     *)

Held == Len(lad.rungs)

\* Mutant: the mark one record higher, past what the ring takes.
ClimbPast == Least((Capacity * ClimbAt) \div Eighths, ClimbMax) + 1

Climb == Least((Capacity * ClimbAt) \div Eighths, ClimbMax)
Fall == Least((Capacity * FallAt) \div Eighths, ClimbMax \div Eighths)

Adapts == Held >= 2 /\ task.adapt

\* Where ladder_step goes with `waiting` records in the ring.
RungFor(waiting) ==
    CASE ~Adapts -> lad.rung
      [] Adapts /\ waiting >= Climb ->
           IF lad.rung + 1 < Held THEN lad.rung + 1 ELSE lad.rung
      [] Adapts /\ waiting < Climb /\ waiting <= Fall
                /\ lad.low + 1 >= FallAfter /\ lad.rung \in 1..Held ->
           lad.rung - 1
      [] OTHER -> lad.rung

\* And its count of polls at the low mark.
LowFor(waiting) ==
    CASE ~Adapts -> lad.low
      [] Adapts /\ waiting >= Climb ->
           IF RungFor(waiting) = lad.rung THEN lad.low ELSE 0
      [] Adapts /\ waiting < Climb /\ waiting <= Fall
                /\ lad.low + 1 < FallAfter -> lad.low + 1
      [] OTHER -> 0

\* take_rung: its whole design, and the accumulate that goes with it.
AccumulateOf(rung) ==
    IF rung = lad.rung THEN task.accumulate ELSE lad.rungs[rung + 1].boxcar

OnRung(rung, low) ==
    lad' = [lad EXCEPT
              !.rung = rung, !.low = low,
              !.chain = IF rung = lad.rung THEN @ ELSE lad.rungs[rung + 1],
              !.filtering = IF rung = lad.rung THEN @
                            ELSE lad.rungs[rung + 1].filters]

-----------------------------------------------------------------------------
(* A sweep, fed by the interrupt or by the loop.                           *)

\* put_record: the record into the ring, or left out whole.
PutRecord ==
    IF RoomForRecord
    THEN /\ ring.produced < MaxRecords
         /\ Put(ring.produced + 1)
         /\ ring' = [ring EXCEPT !.head = (@ + ring.stride) % Bytes,
                                 !.produced = @ + 1]
    ELSE UNCHANGED <<ring, buf>>

\* push_record: the window closes; a finite task ends, the ladder steps.
PushRecord ==
    /\ PutRecord
    /\ win' = 0
    /\ LET waiting == Available(ring'.head, ring.tail)
           rung == RungFor(waiting)
           last == task.records # 0 /\ ring'.produced >= task.records
       IN /\ OnRung(rung, LowFor(waiting))
          /\ task' = [task EXCEPT !.accumulate = AccumulateOf(rung),
                                  !.running = ~last, !.done = @ \/ last]

\* Mutant: the count stops one sweep late.
AddedPast == IF win <= MaxAdditions THEN win + 1 ELSE win

\* The count saturates.
Added == IF win < MaxAdditions THEN win + 1 ELSE win

\* The window goes on, or the chain's decimation swallows it.
FeedWaits ==
    /\ task.accumulate = 0 \/ Added < task.accumulate
    /\ win' = Added
    /\ UNCHANGED <<ring, buf, task, lad>>

FeedSwallows ==
    /\ task.accumulate # 0 /\ Added >= task.accumulate /\ lad.filtering
    /\ win' = 0
    /\ UNCHANGED <<ring, buf, task, lad>>

\* Closed by the count, or by a clock that may have run out at any sweep.
FeedCloses ==
    /\ task.accumulate = 0 \/ Added >= task.accumulate
    /\ PushRecord

Feed == FeedWaits \/ FeedSwallows \/ FeedCloses

\* daq_lose_power, and the glue's note of it.
LosePower ==
    /\ ring' = Emptied(ring)
    /\ win' = 0
    /\ task' = [task EXCEPT !.running = FALSE, !.lost = TRUE]
    /\ UNCHANGED <<buf, lad>>

Sweep == IF afe THEN Feed ELSE LosePower

\* ADC3's interrupt, between any two steps of the loop.
OnInjected ==
    /\ task.running /\ task.clock = "tim1"
    /\ Sweep
    /\ UNCHANGED <<take, afe>>

Idle == take.step = "idle"

\* The main loop's turn, and the turns it takes while a reply is sent.
Poll ==
    /\ Idle /\ task.running /\ task.clock = "software"
    /\ Sweep
    /\ UNCHANGED <<take, afe>>

-----------------------------------------------------------------------------
(* daq_take, one load or store of the ring at a time.                      *)

\* What the handler has in its locals when there is none.
NoRead == [step |-> "idle", want |-> 0, head |-> 0, next |-> 0,
           got |-> <<>>, batch |-> <<>>]

\* The copy begins at the tail and may run to the end of the buffer.
ToEnd(from) == Least(ring.stride, Bytes - from)

BeginRead(want) ==
    /\ Idle /\ ring.stride # 0
    /\ "powered" \in Habits =>
          afe \/ ~task.running \/ task.clock = "software"
    /\ take' = [NoRead EXCEPT !.step = "head", !.want = want]
    /\ UNCHANGED <<ring, buf, task, win, lad, afe>>

ReadHead ==
    /\ take.step = "head"
    /\ take' = IF Len(take.batch) < take.want
               THEN [take EXCEPT !.head = ring.head, !.step = "tail"]
               ELSE NoRead
    /\ UNCHANGED <<ring, buf, task, win, lad, afe>>

ReadTail ==
    /\ take.step = "tail"
    /\ take' = IF Available(take.head, ring.tail) = 0
               THEN NoRead
               ELSE [take EXCEPT
                       !.head = 0,
                       !.got = [k \in 1..ToEnd(ring.tail) |->
                                  buf[ring.tail + k - 1]],
                       !.step = "rest"]
    /\ UNCHANGED <<ring, buf, task, win, lad, afe>>

\* What wrapped, and the load of the tail that is to be moved.
ReadRest ==
    /\ take.step = "rest"
    /\ take' = [take EXCEPT
                  !.got = @ \o [k \in 1..(ring.stride - Len(@)) |->
                                  buf[k - 1]],
                  !.next = (ring.tail + ring.stride) % Bytes,
                  !.step = "store"]
    /\ UNCHANGED <<ring, buf, task, win, lad, afe>>

StoreTail ==
    /\ take.step = "store"
    /\ ring' = [ring EXCEPT !.tail = take.next]
    /\ take' = [take EXCEPT !.batch = Append(@, take.got), !.got = <<>>,
                            !.next = 0, !.step = "head"]
    /\ UNCHANGED <<buf, task, win, lad, afe>>

TakeStep == ReadHead \/ ReadTail \/ ReadRest \/ StoreTail

-----------------------------------------------------------------------------
(* The loop's other ops.                                                   *)

NoRing == [head |-> 0, tail |-> 0, stride |-> 0, produced |-> 0]

\* What daq_begin and daq_start leave of the ring: nothing of the last task.
Fresh(stride) == [NoRing EXCEPT !.stride = stride]

AllStale == [o \in Offsets |-> Stale]

\* A configure that passes, and daq_begin: the ladder at the bottom, the
\* chain as it is.
Configure(fields, accumulate, records, adapt, clock) ==
    /\ Idle /\ ~task.running
    /\ ~(accumulate = 0 /\ lad.filtering)
    /\ ring' = Fresh(StrideOf(fields))
    /\ buf' = AllStale
    /\ task' = [fields |-> fields, accumulate |-> accumulate,
                records |-> records, adapt |-> adapt, clock |-> clock,
                running |-> FALSE, done |-> FALSE, lost |-> FALSE]
    /\ win' = 0
    /\ lad' = [lad EXCEPT !.rung = 0, !.low = 0]
    /\ UNCHANGED <<take, afe>>

\* One refused for what it selects has replaced the field list already.
ConfigureRefused(fields) ==
    /\ Idle /\ ~task.running
    /\ task' = [task EXCEPT !.fields = fields]
    /\ UNCHANGED <<ring, buf, win, lad, take, afe>>

Start ==
    /\ Idle /\ ring.stride # 0 /\ ~task.running /\ afe
    /\ "heeds" \in Habits => ring.stride = StrideOf(task.fields)
    /\ ring' = Fresh(ring.stride)
    /\ buf' = AllStale
    /\ task' = [task EXCEPT !.running = TRUE, !.done = FALSE, !.lost = FALSE]
    /\ win' = 0
    /\ UNCHANGED <<lad, take, afe>>

Stop ==
    /\ Idle /\ task.running
    /\ task' = [task EXCEPT !.running = FALSE]
    /\ UNCHANGED <<ring, buf, win, lad, take, afe>>

\* Board_DaqLend: another's state over the ring, while no task runs.
Lend ==
    /\ Idle /\ ~task.running
    /\ ring' = Emptied(ring)
    /\ buf' = AllStale
    /\ UNCHANGED <<task, win, lad, take, afe>>

SetFilter(filters) ==
    /\ Idle /\ ~task.running
    /\ lad' = [lad EXCEPT !.chain = [boxcar |-> 1, filters |-> filters],
                          !.filtering = filters]
    /\ UNCHANGED <<ring, buf, task, win, take, afe>>

\* Rung 0 forgets what was above it and is taken at once.
SetBottom(design) ==
    /\ Idle /\ ~task.running
    /\ lad' = [lad EXCEPT !.rungs = <<design>>, !.rung = 0, !.chain = design,
                          !.filtering = design.filters]
    /\ task' = [task EXCEPT !.accumulate = design.boxcar]
    /\ UNCHANGED <<ring, buf, win, take, afe>>

SetRung(n, design) ==
    /\ Idle /\ ~task.running
    /\ n \in 1..Held /\ n < Ladder
    /\ lad' = [lad EXCEPT !.rungs = SubSeq(@, 1, n) \o <<design>>]
    /\ UNCHANGED <<ring, buf, task, win, take, afe>>

\* AFE_ON as the rails leave it (Rails), always from the loop.
SwitchAfe ==
    /\ Idle
    /\ afe' = ~afe
    /\ UNCHANGED <<ring, buf, task, win, lad, take>>

-----------------------------------------------------------------------------
Init ==
    /\ ring = NoRing
    /\ buf = AllStale
    /\ task = [fields |-> 0, accumulate |-> 0, records |-> 0, adapt |-> FALSE,
               clock |-> "software", running |-> FALSE, done |-> FALSE,
               lost |-> FALSE]
    /\ win = 0
    /\ lad = [rungs |-> <<>>, rung |-> 0, chain |-> Plain, low |-> 0,
              filtering |-> FALSE]
    /\ take = NoRead
    /\ afe = FALSE

HostOps ==
    \/ \E f \in Fields, a \in Accumulates, c \in Counts, adapt \in BOOLEAN,
          k \in Clocks : Configure(f, a, c, adapt, k)
    \/ \E f \in Refused : ConfigureRefused(f)
    \/ Start \/ Stop \/ Lend
    \/ \E filters \in BOOLEAN : SetFilter(filters)
    \/ \E d \in Designs : SetBottom(d) \/ \E n \in 1..Ladder : SetRung(n, d)
    \/ \E want \in Wants : BeginRead(want)

Next == OnInjected \/ Poll \/ TakeStep \/ HostOps \/ SwitchAfe

Spec == Init /\ [][Next]_vars

-----------------------------------------------------------------------------
(* What must hold.                                                         *)

RingState ==
    [head : Offsets, tail : Offsets,
     stride : {0} \cup {StrideOf(f) : f \in Fields}, produced : 0..MaxRecords]

ByteState == [rec : 0..MaxRecords, at : Offsets]

TaskState ==
    [fields : Fields \cup Refused \cup {0}, accumulate : Nat,
     records : Counts \cup {0}, adapt : BOOLEAN, clock : {"tim1", "software"},
     running : BOOLEAN, done : BOOLEAN, lost : BOOLEAN]

LadState ==
    [rungs : Seq(Designs), rung : 0..Ladder,
     chain : [boxcar : Nat \ {0}, filters : BOOLEAN], low : 0..FallAfter,
     filtering : BOOLEAN]

TakeState ==
    [step : {"idle", "head", "tail", "rest", "store"}, want : Nat,
     head : Offsets, next : Offsets, got : Seq(ByteState),
     batch : Seq(Seq(ByteState))]

TypeOK ==
    /\ ring \in RingState
    /\ buf \in [Offsets -> ByteState]
    /\ task \in TaskState
    /\ win \in 0..MaxAdditions
    /\ lad \in LadState /\ Held <= Ladder
    /\ take \in TakeState
    /\ afe \in BOOLEAN

\* A record as it must come out: every byte of it, of one record, in order.
WholeRecord(rec, stride) == [k \in 1..stride |-> Byte(rec, k - 1)]

WholeRecords ==
    {WholeRecord(r, StrideOf(f)) : r \in 1..MaxRecords, f \in Fields}

RecordAt(o) == [k \in 1..ring.stride |-> buf[(o + k - 1) % Bytes]]

QueueOf ==
    [i \in 1..Waiting |-> RecordAt((ring.tail + (i - 1) * ring.stride) % Bytes)]

Queue == INSTANCE RecordQueue
            WITH Record <- WholeRecords, queue <- QueueOf, batch <- take.batch

\* The ring is a queue of whole records, whatever the interrupt does between
\* two loads of a read.
IsQueue == Queue!Spec

\* A task that adapts leaves a record out only from the top of its ladder: the
\* slower rungs are all taken before the ring is full, however the host's reads
\* and the ladder's way down have gone before.
LeavesOutAtTop ==
    task.running /\ Adapts /\ ~RoomForRecord => lad.rung + 1 >= Held

=============================================================================
