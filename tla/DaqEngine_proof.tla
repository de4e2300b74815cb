-------------------------- MODULE DaqEngine_proof --------------------------
(***************************************************************************)
(* The acquisition for a ring of any size, any fields, windows, counts and *)
(* ladder: its types, and that a read goes on under the supply that was   *)
(* there when it began, which the queue's proof rests on.                  *)
(***************************************************************************)
EXTENDS DaqEngine, SequenceTheorems, TLAPS

-----------------------------------------------------------------------------
(* The ring, the window and the ladder in themselves.                      *)

LEMMA Numbers ==
    /\ Bytes \in Nat \ {0} /\ Overhead \in Nat \ {0}
    /\ MaxAdditions \in Nat \ {0} /\ MaxRecords \in Nat
    /\ Ladder \in Nat \ {0} /\ FallAfter \in Nat \ {0}
    /\ 0 \in Offsets /\ 0 \in 0..MaxRecords /\ 0 \in 0..MaxAdditions
    /\ 0 \in 0..Ladder /\ 0 \in 0..FallAfter
BY DaqAssumption DEF Offsets

LEMMA Moduli ==
    ASSUME NEW x \in Nat
    PROVE  x % Bytes \in Offsets
BY Numbers DEF Offsets

LEMMA StrideFits ==
    ASSUME ring \in RingState
    PROVE  ring.stride \in Nat /\ ring.stride < Bytes
<1>1. \A f \in Fields : f \in Nat /\ StrideOf(f) \in Nat /\ StrideOf(f) < Bytes
  BY DaqAssumption DEF StrideOf
<1> QED
  BY <1>1, Numbers DEF RingState

LEMMA StaleIs == Stale \in ByteState
BY Numbers DEF Stale, Byte, ByteState

LEMMA AllStaleIs == AllStale \in [Offsets -> ByteState]
BY StaleIs DEF AllStale

LEMMA NoReadIs == NoRead \in TakeState /\ NoRead.step = "idle"
<1>1. <<>> \in Seq(ByteState) /\ <<>> \in Seq(Seq(ByteState))
  OBVIOUS
<1> QED
  BY <1>1, Numbers DEF NoRead, TakeState

LEMMA PutIs ==
    ASSUME ring \in RingState, buf \in [Offsets -> ByteState],
           ring.produced < MaxRecords, Put(ring.produced + 1)
    PROVE  buf' \in [Offsets -> ByteState]
<1> DEFINE rec == ring.produced + 1
           K(o) == (o + Bytes - ring.head) % Bytes
<1>1. rec \in 0..MaxRecords
  BY Numbers DEF RingState
<1>2. \A o \in Offsets : K(o) \in Offsets
  <2>1. SUFFICES ASSUME NEW o \in Offsets PROVE K(o) \in Offsets
    OBVIOUS
  <2>2. o + Bytes - ring.head \in Nat
    BY <2>1, Numbers DEF Offsets, RingState
  <2> QED
    BY <2>2, Moduli
<1>3. \A o \in Offsets : Laid(rec, K(o)) \in ByteState
  BY <1>1, <1>2, StaleIs DEF Laid, Byte, ByteState
<1>4. buf' = [o \in Offsets |-> IF K(o) < ring.stride THEN Laid(rec, K(o)) ELSE buf[o]]
  BY DEF Put
<1> HIDE DEF rec, K
<1> QED
  BY <1>3, <1>4

\* Where the ladder goes: nowhere, or to a rung it holds, and then only while
\* the task adapts.
LEMMA RungIs ==
    ASSUME lad \in LadState, Held <= Ladder, NEW waiting
    PROVE  /\ RungFor(waiting) \in 0..Ladder /\ LowFor(waiting) \in 0..FallAfter
           /\ RungFor(waiting) # lad.rung => RungFor(waiting) + 1 \in 1..Held
<1>1. /\ lad.rung \in 0..Ladder /\ lad.low \in 0..FallAfter /\ Held \in Nat
      /\ lad.rungs \in Seq(Designs)
  BY DEF LadState, Held
<1>2. lad.rung + 1 < Held => lad.rung + 1 \in 0..Ladder /\ lad.rung + 2 \in 1..Held
  BY <1>1, Numbers, SMTT(30)
<1>3. lad.rung \in 1..Held => lad.rung - 1 \in 0..Ladder /\ lad.rung - 1 + 1 \in 1..Held
  BY <1>1, Numbers
<1>4. /\ RungFor(waiting) \in {lad.rung, lad.rung + 1, lad.rung - 1}
      /\ RungFor(waiting) = lad.rung + 1 => lad.rung + 1 < Held
      /\ RungFor(waiting) = lad.rung - 1 => lad.rung \in 1..Held
  BY <1>1 DEF RungFor
<1>5. LowFor(waiting) \in 0..FallAfter
  <2>1. lad.low + 1 < FallAfter => lad.low + 1 \in 0..FallAfter
    BY <1>1, Numbers
  <2> QED
    BY <1>1, <2>1, Numbers DEF LowFor
<1> QED
  BY <1>1, <1>2, <1>3, <1>4, <1>5

LEMMA AddedIs ==
    ASSUME win \in 0..MaxAdditions
    PROVE  Added \in 0..MaxAdditions
BY Numbers DEF Added

LEMMA DesignIs ==
    ASSUME NEW s \in Seq(Designs), NEW i \in 1..Len(s)
    PROVE  s[i] \in [boxcar : Nat \ {0}, filters : BOOLEAN]
BY DaqAssumption

-----------------------------------------------------------------------------
(* The invariants.                                                         *)

\* A read goes on under the supply that was there when it began.
PoweredRead == ~Idle /\ task.running /\ task.clock = "tim1" => afe

ReadInv == TypeOK /\ PoweredRead

-----------------------------------------------------------------------------
(* A sweep.                                                                *)

\* What a closed window does to the task and to the ladder.
LEMMA PushIs ==
    ASSUME TypeOK, PushRecord
    PROVE  /\ ring' \in RingState /\ buf' \in [Offsets -> ByteState]
           /\ win' = 0 /\ task' \in TaskState /\ lad' \in LadState
           /\ lad'.rungs = lad.rungs
           /\ task'.lost = task.lost /\ task'.clock = task.clock
           /\ task'.adapt = task.adapt
<1>1. /\ ring \in RingState /\ buf \in [Offsets -> ByteState] /\ task \in TaskState
      /\ lad \in LadState /\ Held <= Ladder /\ win' = 0 /\ PutRecord
  BY DEF TypeOK, PushRecord
<1>2. ring' \in RingState /\ buf' \in [Offsets -> ByteState]
  <2>1. CASE RoomForRecord
    <3> DEFINE h == (ring.head + ring.stride) % Bytes
               p == ring.produced + 1
    <3>1. /\ ring.produced < MaxRecords /\ Put(ring.produced + 1)
          /\ ring' = [ring EXCEPT !.head = h, !.produced = p]
      BY <1>1, <2>1 DEF PutRecord, RingState
    <3>2. h \in Offsets
      <4>1. ring.head + ring.stride \in Nat
        BY <1>1, StrideFits, Numbers DEF RingState, Offsets
      <4> QED
        BY <4>1, Moduli
    <3>3. p \in 0..MaxRecords
      BY <1>1, <3>1, Numbers DEF RingState
    <3> HIDE DEF h, p
    <3>4. ring' \in RingState
      BY <1>1, <3>1, <3>2, <3>3 DEF RingState
    <3> QED
      BY <1>1, <3>1, <3>4, PutIs
  <2>2. CASE ~RoomForRecord
    BY <1>1, <2>2 DEF PutRecord
  <2> QED
    BY <2>1, <2>2
<1> DEFINE waiting == Available(ring'.head, ring.tail)
           rung == RungFor(waiting)
           low == LowFor(waiting)
           last == task.records # 0 /\ ring'.produced >= task.records
           moved == rung # lad.rung
           design == lad.rungs[rung + 1]
           acc == IF moved THEN design.boxcar ELSE task.accumulate
           chain == IF moved THEN design ELSE lad.chain
           filtering == IF moved THEN design.filters ELSE lad.filtering
           running == ~last
           done == task.done \/ last
<1>3. /\ rung \in 0..Ladder /\ low \in 0..FallAfter
      /\ moved => rung + 1 \in 1..Held
  BY <1>1, RungIs
<1>4. /\ task' = [task EXCEPT !.accumulate = acc, !.running = running, !.done = done]
      /\ lad' = [lad EXCEPT !.rung = rung, !.low = low, !.chain = chain,
                            !.filtering = filtering]
  <2>1. /\ OnRung(rung, low)
        /\ task' = [task EXCEPT !.accumulate = AccumulateOf(rung),
                                !.running = ~last, !.done = @ \/ last]
    BY DEF PushRecord
  <2> HIDE DEF rung, low, last
  <2>2. task' = [task EXCEPT !.accumulate = acc, !.running = running, !.done = done]
    BY <1>1, <2>1 DEF AccumulateOf, TaskState
  <2>3. lad' = [lad EXCEPT !.rung = rung, !.low = low, !.chain = chain,
                           !.filtering = filtering]
    BY <1>1, <2>1 DEF OnRung, LadState
  <2> QED
    BY <2>2, <2>3
<1> HIDE DEF rung, low, last
<1>5. moved => design \in [boxcar : Nat \ {0}, filters : BOOLEAN]
  BY <1>1, <1>3, DesignIs DEF LadState, Held
<1>6. /\ acc \in Nat /\ chain \in [boxcar : Nat \ {0}, filters : BOOLEAN]
      /\ filtering \in BOOLEAN /\ running \in BOOLEAN /\ done \in BOOLEAN
  BY <1>1, <1>5 DEF TaskState, LadState
<1> HIDE DEF moved, design, acc, chain, filtering, running, done
<1>7. /\ task' \in TaskState /\ task'.lost = task.lost /\ task'.clock = task.clock
      /\ task'.adapt = task.adapt /\ task'.accumulate = acc
  BY <1>1, <1>4, <1>6 DEF TaskState
<1>8. /\ lad' \in LadState /\ lad'.rungs = lad.rungs
      /\ lad'.rung = rung /\ lad'.chain = chain /\ lad'.filtering = filtering
  BY <1>1, <1>3, <1>4, <1>6 DEF LadState
<1> QED
  BY <1>1, <1>2, <1>7, <1>8

\* A sweep: what it leaves of the task, the ladder and the ring.
LEMMA FeedIs ==
    ASSUME TypeOK, Feed
    PROVE  /\ ring' \in RingState /\ buf' \in [Offsets -> ByteState]
           /\ win' \in 0..MaxAdditions /\ task' \in TaskState /\ lad' \in LadState
           /\ Held' = Held
           /\ task'.lost = task.lost /\ task'.clock = task.clock
           /\ task'.adapt = task.adapt
<1>1. CASE FeedWaits
  BY <1>1, AddedIs DEF TypeOK, FeedWaits, Held
<1>2. CASE FeedSwallows
  BY <1>2, Numbers DEF TypeOK, FeedSwallows, Held
<1>3. CASE FeedCloses
  <2>1. PushRecord
    BY <1>3 DEF FeedCloses
  <2>2. Held' = Held
    BY <2>1, PushIs DEF Held
  <2> QED
    BY <2>1, <2>2, PushIs, Numbers
<1> QED
  BY <1>1, <1>2, <1>3 DEF Feed

LEMMA LosePowerIs ==
    ASSUME TypeOK, LosePower
    PROVE  /\ ring' \in RingState /\ ring'.head = 0 /\ ring'.tail = 0
           /\ buf' = buf /\ win' = 0 /\ task' \in TaskState /\ lad' = lad
           /\ ~task'.running /\ task'.lost /\ task'.clock = task.clock
           /\ task'.adapt = task.adapt /\ task'.accumulate = task.accumulate
<1>1. ring' \in RingState /\ ring'.head = 0 /\ ring'.tail = 0
  BY Numbers DEF TypeOK, LosePower, Emptied, RingState
<1>2. /\ task' \in TaskState /\ ~task'.running /\ task'.lost /\ task'.clock = task.clock
      /\ task'.adapt = task.adapt /\ task'.accumulate = task.accumulate
  BY DEF TypeOK, LosePower, TaskState
<1> QED
  BY <1>1, <1>2 DEF LosePower

\* A sweep of the interrupt's or of the loop's.
LEMMA SweepKeeps ==
    ASSUME OnInjected \/ Poll
    PROVE  /\ TypeOK => TypeOK'
           /\ ReadInv => ReadInv'
<1>1. /\ task.running /\ Sweep /\ take' = take /\ afe' = afe
      /\ Idle \/ task.clock = "tim1"
  BY DEF OnInjected, Poll
<1>2. Idle' = Idle
  BY <1>1 DEF Idle
<1>3. CASE Feed
  <2>1. TypeOK => TypeOK'
    BY <1>1, <1>3, FeedIs DEF TypeOK
  <2>2. ReadInv => ReadInv'
    BY <1>1, <1>2, <1>3, <2>1, FeedIs DEF ReadInv, PoweredRead
  <2> QED
    BY <2>1, <2>2
<1>4. CASE ~afe /\ LosePower
  <2>1. TypeOK => TypeOK'
    BY <1>1, <1>4, LosePowerIs, Numbers DEF TypeOK, Held
  <2>2. ReadInv => ReadInv'
    <3>1. PoweredRead => Idle
      BY <1>1, <1>4 DEF PoweredRead
    <3>2. PoweredRead => take'.step = "idle"
      BY <1>1, <3>1 DEF Idle
    <3> QED
      BY <1>1, <1>2, <1>4, <2>1, <3>2, LosePowerIs DEF ReadInv, PoweredRead
  <2> QED
    BY <2>1, <2>2
<1> QED
  BY <1>1, <1>3, <1>4 DEF Sweep

-----------------------------------------------------------------------------
(* The read.                                                               *)

\* A read touches nothing but the tail and its own locals, and goes on under
\* the supply it had.
LEMMA TakeKeeps ==
    ASSUME TypeOK, take' \in TakeState, ring' \in RingState,
           UNCHANGED <<buf, task, win, lad, afe>>
    PROVE  TypeOK' /\ (ReadInv /\ ~Idle => ReadInv')
BY DEF TypeOK, Held, ReadInv, PoweredRead

LEMMA BeginReadKeeps ==
    ASSUME TypeOK, NEW want \in Wants, BeginRead(want)
    PROVE  /\ TypeOK'
           /\ ReadInv /\ "powered" \in Habits => ReadInv'
<1>1. /\ Idle /\ take' = [NoRead EXCEPT !.step = "head", !.want = want]
      /\ "powered" \in Habits => afe \/ ~task.running \/ task.clock = "software"
      /\ UNCHANGED <<ring, buf, task, win, lad, afe>>
  BY DEF BeginRead
<1>2. take' \in TakeState /\ take'.step = "head"
  <2>1. want \in Nat
    BY DaqAssumption
  <2> QED
    BY <1>1, <2>1, NoReadIs DEF TakeState
<1>3. TypeOK'
  BY <1>1, <1>2, TakeKeeps DEF TypeOK
<1>4. ReadInv /\ "powered" \in Habits => ReadInv'
  BY <1>1, <1>2, <1>3 DEF ReadInv, PoweredRead
<1> QED
  BY <1>3, <1>4

LEMMA ReadHeadKeeps ==
    ASSUME TypeOK, ReadHead
    PROVE  TypeOK' /\ (ReadInv => ReadInv')
<1>1. /\ take.step = "head" /\ take \in TakeState /\ ring \in RingState
      /\ ring' = ring /\ UNCHANGED <<buf, task, win, lad, afe>>
      /\ \/ take' = [take EXCEPT !.head = ring.head, !.step = "tail"]
         \/ take' = NoRead
  BY DEF ReadHead, TypeOK
<1>2. take' \in TakeState
  <2>1. CASE take' = [take EXCEPT !.head = ring.head, !.step = "tail"]
    BY <1>1, <2>1 DEF TakeState, RingState
  <2>2. CASE take' = NoRead
    BY <2>2, NoReadIs
  <2> QED
    BY <1>1, <2>1, <2>2
<1> QED
  BY <1>1, <1>2, TakeKeeps DEF Idle

LEMMA ReadTailKeeps ==
    ASSUME TypeOK, ReadTail
    PROVE  TypeOK' /\ (ReadInv => ReadInv')
<1> DEFINE copied == [k \in 1..ToEnd(ring.tail) |-> buf[ring.tail + k - 1]]
<1>1. /\ take.step = "tail" /\ take \in TakeState /\ ring \in RingState
      /\ buf \in [Offsets -> ByteState]
      /\ ring' = ring /\ UNCHANGED <<buf, task, win, lad, afe>>
      /\ take' = IF Available(take.head, ring.tail) = 0 THEN NoRead
                 ELSE [take EXCEPT !.head = 0, !.got = copied, !.step = "rest"]
  BY DEF ReadTail, TypeOK
<1>2. copied \in Seq(ByteState)
  <2>1. ToEnd(ring.tail) \in Nat /\ ToEnd(ring.tail) <= Bytes - ring.tail
    BY <1>1, StrideFits, Numbers DEF ToEnd, Least, RingState, Offsets
  <2>2. \A k \in 1..ToEnd(ring.tail) : buf[ring.tail + k - 1] \in ByteState
    <3>1. SUFFICES ASSUME NEW k \in 1..ToEnd(ring.tail)
                   PROVE  ring.tail + k - 1 \in Offsets
      BY <1>1
    <3> QED
      BY <1>1, <2>1, <3>1, Numbers, SMTT(30) DEF RingState, Offsets
  <2> QED
    BY <2>1, <2>2
<1> HIDE DEF copied
<1>3. take' \in TakeState
  <2>1. CASE Available(take.head, ring.tail) = 0
    BY <1>1, <2>1, NoReadIs
  <2>2. CASE Available(take.head, ring.tail) # 0
    BY <1>1, <1>2, <2>2, Numbers DEF TakeState
  <2> QED
    BY <2>1, <2>2
<1> QED
  BY <1>1, <1>3, TakeKeeps DEF Idle

LEMMA ReadRestKeeps ==
    ASSUME TypeOK, ReadRest
    PROVE  TypeOK' /\ (ReadInv => ReadInv')
<1> DEFINE more == [k \in 1..(ring.stride - Len(take.got)) |-> buf[k - 1]]
           got == take.got \o more
           next == (ring.tail + ring.stride) % Bytes
<1>1. /\ take.step = "rest" /\ take \in TakeState /\ ring \in RingState
      /\ buf \in [Offsets -> ByteState]
      /\ ring' = ring /\ UNCHANGED <<buf, task, win, lad, afe>>
      /\ take' = [take EXCEPT !.got = got, !.next = next, !.step = "store"]
  BY DEF ReadRest, TypeOK, TakeState
<1>2. got \in Seq(ByteState)
  <2>1. take.got \in Seq(ByteState) /\ Len(take.got) \in Nat
    BY <1>1 DEF TakeState
  <2>2. \A k \in 1..(ring.stride - Len(take.got)) : buf[k - 1] \in ByteState
    <3>1. SUFFICES ASSUME NEW k \in 1..(ring.stride - Len(take.got))
                   PROVE  k - 1 \in Offsets
      BY <1>1
    <3> QED
      BY <1>1, <2>1, <3>1, StrideFits, Numbers, SMTT(30) DEF Offsets
  <2>3. more \in Seq(ByteState)
    <3> DEFINE n == ring.stride - Len(take.got)
    <3>1. n \in Int
      BY <1>1, <2>1, StrideFits
    <3>2. CASE n \in Nat
      BY <2>2, <3>2
    <3>3. CASE n < 0
      <4>1. 1..n = {} /\ 1..0 = {}
        BY <3>1, <3>3
      <4>2. more = [k \in 1..0 |-> buf[k - 1]]
        BY <4>1
      <4>3. [k \in 1..0 |-> buf[k - 1]] \in Seq(ByteState)
        BY <4>1
      <4> QED
        BY <4>2, <4>3
    <3> QED
      BY <3>1, <3>2, <3>3
  <2> HIDE DEF more
  <2> QED
    BY <2>1, <2>3, ConcatProperties
<1>3. next \in Offsets
  <2>1. ring.tail + ring.stride \in Nat
    BY <1>1, StrideFits, Numbers DEF RingState, Offsets
  <2> QED
    BY <2>1, Moduli
<1> HIDE DEF got, next
<1>4. take' \in TakeState
  BY <1>1, <1>2, <1>3 DEF TakeState
<1> QED
  BY <1>1, <1>4, TakeKeeps DEF Idle

LEMMA StoreTailKeeps ==
    ASSUME TypeOK, StoreTail
    PROVE  TypeOK' /\ (ReadInv => ReadInv')
<1> DEFINE batch == Append(take.batch, take.got)
<1>1. /\ take.step = "store" /\ take \in TakeState /\ ring \in RingState
      /\ ring' = [ring EXCEPT !.tail = take.next]
      /\ take' = [take EXCEPT !.batch = batch, !.got = <<>>, !.next = 0, !.step = "head"]
      /\ UNCHANGED <<buf, task, win, lad, afe>>
  BY DEF StoreTail, TypeOK, TakeState
<1>2. batch \in Seq(Seq(ByteState)) /\ <<>> \in Seq(ByteState)
  <2>1. take.batch \in Seq(Seq(ByteState)) /\ take.got \in Seq(ByteState)
    BY <1>1 DEF TakeState
  <2> QED
    BY <2>1, AppendProperties
<1> HIDE DEF batch
<1>3. take' \in TakeState
  BY <1>1, <1>2, Numbers DEF TakeState
<1>4. ring' \in RingState
  BY <1>1 DEF RingState, TakeState
<1> QED
  BY <1>1, <1>3, <1>4, TakeKeeps DEF Idle

-----------------------------------------------------------------------------
(* The host's other ops, and the supply.                                   *)

LEMMA FreshIs ==
    ASSUME NEW n \in {0} \cup {StrideOf(f) : f \in Fields}
    PROVE  Fresh(n) \in RingState
BY Numbers DEF Fresh, NoRing, RingState

LEMMA ConfigureKeeps ==
    ASSUME TypeOK, NEW f \in Fields, NEW a \in Accumulates, NEW c \in Counts,
           NEW adapt \in BOOLEAN, NEW k \in Clocks, Configure(f, a, c, adapt, k)
    PROVE  TypeOK' /\ (ReadInv => ReadInv')
<1>1. /\ Idle /\ ring' = Fresh(StrideOf(f)) /\ buf' = AllStale
      /\ task' = [fields |-> f, accumulate |-> a, records |-> c, adapt |-> adapt,
                  clock |-> k, running |-> FALSE, done |-> FALSE, lost |-> FALSE]
      /\ win' = 0 /\ lad' = [lad EXCEPT !.rung = 0, !.low = 0]
      /\ take' = take /\ afe' = afe
  BY DEF Configure
<1>2. task' \in TaskState /\ ~task'.lost /\ ~task'.running
  <2>1. a \in Nat /\ k \in {"tim1", "software"}
    BY Numbers, DaqAssumption
  <2> QED
    BY <1>1, <2>1 DEF TaskState
<1>3. lad' \in LadState /\ Held' = Held
  BY <1>1, Numbers DEF TypeOK, LadState, Held
<1>4. TypeOK'
  BY <1>1, <1>2, <1>3, FreshIs, AllStaleIs, Numbers DEF TypeOK
<1> QED
  BY <1>1, <1>2, <1>3, <1>4 DEF ReadInv, PoweredRead

LEMMA ConfigureRefusedKeeps ==
    ASSUME TypeOK, NEW f \in Refused, ConfigureRefused(f)
    PROVE  TypeOK' /\ (ReadInv => ReadInv')
<1>1. /\ task' = [task EXCEPT !.fields = f] /\ task \in TaskState
      /\ ring' = ring /\ buf' = buf /\ win' = win /\ lad' = lad /\ take' = take /\ afe' = afe
  BY DEF ConfigureRefused, TypeOK
<1>2. /\ task' \in TaskState /\ task'.lost = task.lost /\ task'.running = task.running
      /\ task'.adapt = task.adapt /\ task'.clock = task.clock
      /\ task'.accumulate = task.accumulate
  BY <1>1 DEF TaskState
<1>3. TypeOK' /\ Held' = Held /\ Idle' = Idle
  BY <1>1, <1>2 DEF TypeOK, Held, Idle
<1> QED
  BY <1>1, <1>2, <1>3 DEF ReadInv, PoweredRead

LEMMA StartKeeps ==
    ASSUME TypeOK, Start
    PROVE  /\ TypeOK' /\ (ReadInv => ReadInv')
<1>1. /\ Idle /\ ring \in RingState /\ ring' = Fresh(ring.stride) /\ buf' = AllStale
      /\ task' = [task EXCEPT !.running = TRUE, !.done = FALSE, !.lost = FALSE]
      /\ task \in TaskState
      /\ win' = 0 /\ lad' = lad /\ take' = take /\ afe' = afe
  BY DEF Start, TypeOK
<1>2. /\ task' \in TaskState /\ ~task'.lost /\ task'.adapt = task.adapt
      /\ task'.accumulate = task.accumulate
  BY <1>1 DEF TaskState
<1>3. TypeOK' /\ Held' = Held /\ Idle'
  <2>1. Fresh(ring.stride) \in RingState
    BY <1>1, FreshIs DEF RingState
  <2> QED
    BY <1>1, <1>2, <2>1, AllStaleIs, Numbers DEF TypeOK, Held, Idle
<1> QED
  BY <1>1, <1>2, <1>3 DEF ReadInv, PoweredRead

LEMMA StopKeeps ==
    ASSUME TypeOK, Stop
    PROVE  TypeOK' /\ (ReadInv => ReadInv')
<1>1. /\ task' = [task EXCEPT !.running = FALSE] /\ task \in TaskState
      /\ ring' = ring /\ buf' = buf /\ win' = win /\ lad' = lad /\ take' = take /\ afe' = afe
  BY DEF Stop, TypeOK
<1>2. /\ task' \in TaskState /\ task'.lost = task.lost /\ ~task'.running
      /\ task'.accumulate = task.accumulate
  BY <1>1 DEF TaskState
<1>3. TypeOK' /\ Held' = Held
  BY <1>1, <1>2 DEF TypeOK, Held
<1> QED
  BY <1>1, <1>2, <1>3 DEF ReadInv, PoweredRead

LEMMA LendKeeps ==
    ASSUME TypeOK, Lend
    PROVE  TypeOK' /\ (ReadInv => ReadInv')
<1>1. /\ ring' = Emptied(ring) /\ ring \in RingState /\ buf' = AllStale /\ Idle
      /\ task' = task /\ win' = win /\ lad' = lad /\ take' = take /\ afe' = afe
  BY DEF Lend, TypeOK
<1>2. ring' \in RingState /\ ring'.head = 0 /\ ring'.tail = 0
  BY <1>1, Numbers DEF Emptied, RingState
<1>3. TypeOK' /\ Held' = Held /\ Idle'
  BY <1>1, <1>2, AllStaleIs DEF TypeOK, Held, Idle
<1> QED
  BY <1>1, <1>2, <1>3 DEF ReadInv, PoweredRead

LEMMA SetFilterKeeps ==
    ASSUME TypeOK, NEW filters \in BOOLEAN, SetFilter(filters)
    PROVE  TypeOK' /\ (ReadInv => ReadInv')
<1> DEFINE chain == [boxcar |-> 1, filters |-> filters]
<1>1. /\ ~task.running /\ lad \in LadState
      /\ lad' = [lad EXCEPT !.chain = chain, !.filtering = filters]
      /\ ring' = ring /\ buf' = buf /\ task' = task /\ win' = win /\ take' = take /\ afe' = afe
  BY DEF SetFilter, TypeOK
<1>2. chain \in [boxcar : Nat \ {0}, filters : BOOLEAN]
  OBVIOUS
<1> HIDE DEF chain
<1>3. lad' \in LadState /\ lad'.rungs = lad.rungs
  BY <1>2, <1>1 DEF LadState
<1>4. TypeOK' /\ Held' = Held /\ Idle' = Idle
  BY <1>1, <1>3 DEF TypeOK, Held, Idle
<1> QED
  BY <1>1, <1>3, <1>4 DEF ReadInv, PoweredRead

LEMMA SetBottomKeeps ==
    ASSUME TypeOK, NEW d \in Designs, SetBottom(d)
    PROVE  TypeOK' /\ (ReadInv => ReadInv')
<1> DEFINE b == d.boxcar
           g == d.filters
           one == <<d>>
<1>1. /\ ~task.running /\ lad \in LadState /\ task \in TaskState
      /\ lad' = [lad EXCEPT !.rungs = one, !.rung = 0, !.chain = d,
                            !.filtering = g]
      /\ task' = [task EXCEPT !.accumulate = b]
      /\ ring' = ring /\ buf' = buf /\ win' = win /\ take' = take /\ afe' = afe
  BY DEF SetBottom, TypeOK
<1>2. d \in [boxcar : Nat \ {0}, filters : BOOLEAN] /\ b \in Nat /\ g \in BOOLEAN
  BY DaqAssumption
<1>3. one \in Seq(Designs) /\ Len(one) = 1 /\ one[1] = d
  OBVIOUS
<1> HIDE DEF b, g, one
<1>4. /\ lad' \in LadState /\ lad'.rungs = one /\ lad'.rung = 0 /\ lad'.chain = d
      /\ lad'.filtering = g
  BY <1>1, <1>2, <1>3, Numbers DEF LadState
<1>5. /\ task' \in TaskState /\ task'.accumulate = b /\ task'.running = task.running
      /\ task'.lost = task.lost
  BY <1>1, <1>2 DEF TaskState
<1>6. Held' = 1 /\ Idle' = Idle
  BY <1>1, <1>3, <1>4 DEF Held, Idle
<1>7. TypeOK'
  BY <1>1, <1>4, <1>5, <1>6, Numbers DEF TypeOK
<1> QED
  BY <1>1, <1>5, <1>6, <1>7 DEF ReadInv, PoweredRead

LEMMA SetRungKeeps ==
    ASSUME TypeOK, NEW n \in 1..Ladder, NEW d \in Designs, SetRung(n, d)
    PROVE  TypeOK' /\ (ReadInv => ReadInv')
<1> DEFINE rungs == SubSeq(lad.rungs, 1, n) \o <<d>>
<1>1. /\ ~task.running /\ lad \in LadState /\ n \in 1..Held /\ n < Ladder
      /\ lad' = [lad EXCEPT !.rungs = rungs]
      /\ ring' = ring /\ buf' = buf /\ task' = task /\ win' = win /\ take' = take /\ afe' = afe
  BY DEF SetRung, TypeOK, LadState
<1>2. rungs \in Seq(Designs) /\ Len(rungs) = n + 1
  <2> DEFINE low == SubSeq(lad.rungs, 1, n)
  <2>1. lad.rungs \in Seq(Designs) /\ n \in 1..Len(lad.rungs) /\ n \in Nat
    BY <1>1 DEF LadState, Held
  <2>2. low \in Seq(Designs) /\ Len(low) = n
    BY <2>1, SubSeqProperties
  <2>3. <<d>> \in Seq(Designs) /\ Len(<<d>>) = 1
    OBVIOUS
  <2> HIDE DEF low
  <2>4. low \o <<d>> \in Seq(Designs) /\ Len(low \o <<d>>) = n + 1
    BY <2>1, <2>2, <2>3, ConcatProperties
  <2> QED
    BY <2>4 DEF low
<1> HIDE DEF rungs
<1>3. lad' \in LadState /\ lad'.rungs = rungs
  BY <1>1, <1>2 DEF LadState
<1>4. Held' = n + 1 /\ Idle' = Idle
  BY <1>1, <1>2, <1>3 DEF Held, Idle
<1>5. TypeOK'
  <2>1. Held' <= Ladder
    BY <1>1, <1>4, Numbers
  <2> QED
    BY <1>1, <1>3, <2>1 DEF TypeOK
<1> QED
  BY <1>1, <1>4, <1>5 DEF ReadInv, PoweredRead

LEMMA SwitchAfeKeeps ==
    ASSUME TypeOK, SwitchAfe
    PROVE  TypeOK' /\ (ReadInv => ReadInv')
<1>1. /\ Idle /\ afe' = ~afe
      /\ ring' = ring /\ buf' = buf /\ task' = task /\ win' = win /\ lad' = lad /\ take' = take
  BY DEF SwitchAfe
<1>2. TypeOK' /\ Held' = Held /\ Idle'
  BY <1>1 DEF TypeOK, Held, Idle
<1> QED
  BY <1>1, <1>2 DEF ReadInv, PoweredRead

-----------------------------------------------------------------------------
(* The invariants, step by step, and what they give.                       *)

LEMMA HostOpsKeep ==
    ASSUME TypeOK, HostOps
    PROVE  /\ TypeOK'
           /\ ReadInv /\ "powered" \in Habits => ReadInv'
<1>1. CASE \E f \in Fields, a \in Accumulates, c \in Counts, adapt \in BOOLEAN,
              k \in Clocks : Configure(f, a, c, adapt, k)
  BY <1>1, ConfigureKeeps
<1>2. CASE \E f \in Refused : ConfigureRefused(f)
  BY <1>2, ConfigureRefusedKeeps
<1>3. CASE Start \/ Stop \/ Lend
  BY <1>3, StartKeeps, StopKeeps, LendKeeps
<1>4. CASE \E filters \in BOOLEAN : SetFilter(filters)
  BY <1>4, SetFilterKeeps
<1>5. CASE \E d \in Designs : SetBottom(d) \/ \E n \in 1..Ladder : SetRung(n, d)
  BY <1>5, SetBottomKeeps, SetRungKeeps
<1>6. CASE \E want \in Wants : BeginRead(want)
  BY <1>6, BeginReadKeeps
<1> QED
  BY <1>1, <1>2, <1>3, <1>4, <1>5, <1>6 DEF HostOps

LEMMA StepKeeps ==
    ASSUME TypeOK, [Next]_vars
    PROVE  /\ TypeOK'
           /\ ReadInv /\ "powered" \in Habits => ReadInv'
<1>1. CASE OnInjected \/ Poll
  BY <1>1, SweepKeeps
<1>2. CASE TakeStep
  BY <1>2, ReadHeadKeeps, ReadTailKeeps, ReadRestKeeps, StoreTailKeeps DEF TakeStep
<1>3. CASE HostOps
  BY <1>3, HostOpsKeep
<1>4. CASE SwitchAfe
  BY <1>4, SwitchAfeKeeps
<1>5. CASE UNCHANGED vars
  <2>1. /\ ring' = ring /\ buf' = buf /\ task' = task /\ win' = win /\ lad' = lad
        /\ take' = take /\ afe' = afe
    BY <1>5 DEF vars
  <2>2. Held' = Held /\ Idle' = Idle
    BY <2>1 DEF Held, Idle
  <2> QED
    BY <2>1, <2>2 DEF TypeOK, ReadInv, PoweredRead
<1> QED
  BY <1>1, <1>2, <1>3, <1>4, <1>5 DEF Next

LEMMA InitKeeps ==
    ASSUME Init
    PROVE  TypeOK /\ ReadInv
<1>1. ring \in RingState
  BY Numbers DEF Init, NoRing, RingState
<1>2. task \in TaskState /\ ~task.running /\ ~task.lost
  BY DEF Init, TaskState
<1>3. lad \in LadState /\ Held = 0
  <2>1. <<>> \in Seq(Designs) /\ Plain \in [boxcar : Nat \ {0}, filters : BOOLEAN]
    BY DEF Plain
  <2> QED
    BY <2>1, Numbers DEF Init, LadState, Held
<1>4. TypeOK
  <2>1. buf \in [Offsets -> ByteState] /\ take \in TakeState /\ afe \in BOOLEAN
    BY AllStaleIs, NoReadIs DEF Init
  <2>2. win \in 0..MaxAdditions /\ Held <= Ladder
    BY <1>3, Numbers DEF Init
  <2> QED
    BY <1>1, <1>2, <1>3, <2>1, <2>2 DEF TypeOK
<1> QED
  BY <1>2, <1>3, <1>4 DEF ReadInv, PoweredRead

\* The ring's ends stay in the buffer, the window's count under its saturation
\* and the rung on the ladder, under any host.
THEOREM TypeCorrect == Spec => []TypeOK
BY InitKeeps, StepKeeps, PTL DEF Spec

=============================================================================
